--------------------------- MODULE NetBoot_proofs ---------------------------
(***************************************************************************)
(* Properties of the device that netboots: with any host                   *)
(* (NetBootDevice), and with the server (NetBootSystem), for every file,   *)
(* block size, buffer size, retry budget and every bound on losses,        *)
(* duplications, restarts and resets.                                      *)
(***************************************************************************)
EXTENDS NetBootDevice, NetBootSystem, TLAPS

-----------------------------------------------------------------------------
(* What the queues of datagrams and the file's bytes are put together by.  *)

(* Nothing sent yet.                                                       *)
LEMMA NothingYet ==
  ASSUME NEW S
  PROVE  << >> \in Seq(S) /\ Len(<< >>) = 0
OBVIOUS

(* Two sequences one behind the other.                                     *)
LEMMA Joined ==
  ASSUME NEW S, NEW s \in Seq(S), NEW t \in Seq(S)
  PROVE  /\ s \o t \in Seq(S) /\ Len(s \o t) = Len(s) + Len(t)
         /\ \A i \in 1 .. Len(s) + Len(t) :
              (s \o t)[i] = IF i <= Len(s) THEN s[i] ELSE t[i - Len(s)]
OBVIOUS

(* A sequence with one element more at its end.                            *)
LEMMA Appended ==
  ASSUME NEW S, NEW s \in Seq(S), NEW e \in S
  PROVE  /\ Append(s, e) \in Seq(S) /\ Len(Append(s, e)) = Len(s) + 1
         /\ \A i \in 1 .. Len(s) : Append(s, e)[i] = s[i]
         /\ Append(s, e)[Len(s) + 1] = e
OBVIOUS

-----------------------------------------------------------------------------
(* Type correctness of the device and the link, as lemmas about their      *)
(* steps that the proofs about any host and about the server share.        *)

(* A queue from which the receiver or the network took a datagram holds    *)
(* no datagram it did not hold before.                                     *)
LEMMA WithoutType ==
  ASSUME NEW S, NEW q \in Seq(S), NEW i \in DOMAIN q
  PROVE  Without(q, i) \in Seq(S) /\ q[i] \in S
<1>1. i \in 1 .. Len(q) /\ q[i] \in S
  OBVIOUS
<1>2. SubSeq(q, 1, i - 1) \in Seq(S) /\ SubSeq(q, i + 1, Len(q)) \in Seq(S)
  BY <1>1
<1>3. SubSeq(q, 1, i - 1) \o SubSeq(q, i + 1, Len(q)) \in Seq(S)
  BY <1>2, Joined, Zenon
<1> QED
  BY <1>1, <1>3, Zenon DEF Without

(* A queue to which a datagram was sent holds at most that datagram more.  *)
LEMMA PushType ==
  ASSUME NEW S, NEW q \in Seq(S), NEW m \in S
  PROVE  Push(q, m) \in Seq(S)
BY DEF Push

(* A queue in which the network duplicated a datagram holds none it did    *)
(* not hold before.                                                        *)
LEMMA DuplicateType ==
  ASSUME NEW S, NEW q \in Seq(S), NEW i \in DOMAIN q
  PROVE  Twice(q, i) \in Seq(S)
<1>1. i \in 1 .. Len(q) /\ q[i] \in S
  OBVIOUS
<1>2. SubSeq(q, 1, i - 1) \in Seq(S) /\ SubSeq(q, i, Len(q)) \in Seq(S)
      /\ <<q[i]>> \in Seq(S)
  BY <1>1
<1>3. SubSeq(q, 1, i - 1) \o <<q[i]>> \in Seq(S)
  BY <1>2, Joined, Zenon
<1>4. (SubSeq(q, 1, i - 1) \o <<q[i]>>) \o SubSeq(q, i, Len(q)) \in Seq(S)
  BY <1>2, <1>3, Joined, Zenon
<1> QED
  BY <1>4, Zenon DEF Twice

(* What the receiver may be given next is in the queue.                    *)
LEMMA DeliverableInQueue ==
  ASSUME NEW q PROVE Deliverable(q) \subseteq DOMAIN q
BY Zenon DEF Deliverable

(* The network keeps the type of both queues: it invents no datagram.      *)
LEMMA LinkStepType ==
  ASSUME NEW A, NEW B,
         toDevice \in Seq(A), toHost \in Seq(B),
         LinkTypeOK, LinkNext
  PROVE  /\ toDevice' \in Seq(A) /\ toHost' \in Seq(B)
         /\ beacon' \in BOOLEAN /\ losses' \in 0 .. MaxLoss /\ dups' \in 0 .. MaxDup
<1>1. CASE Lose
  <2>1. losses' \in 0 .. MaxLoss /\ dups' \in 0 .. MaxDup
    BY <1>1, LinkAssumption DEF Lose, LinkTypeOK
  <2>2. CASE LoseRequest
    BY <2>1, <2>2, WithoutType, Zenon DEF LoseRequest, LinkTypeOK
  <2>3. CASE LoseAck
    BY <2>1, <2>3, WithoutType, Zenon DEF LoseAck, LinkTypeOK
  <2>4. CASE LoseBeacon
    BY <2>1, <2>4, Zenon DEF LoseBeacon
  <2> QED
    BY <1>1, <2>2, <2>3, <2>4, Zenon DEF Lose
<1>2. CASE Duplicate
  <2>1. /\ losses' \in 0 .. MaxLoss /\ dups' \in 0 .. MaxDup
        /\ beacon' \in BOOLEAN
    BY <1>2, LinkAssumption DEF Duplicate, LinkTypeOK
  <2>2. CASE DuplicateRequest
    BY <2>1, <2>2, DuplicateType, Zenon DEF DuplicateRequest
  <2>3. CASE DuplicateAck
    BY <2>1, <2>3, DuplicateType, Zenon DEF DuplicateAck
  <2> QED
    BY <1>2, <2>2, <2>3, Zenon DEF Duplicate
<1> QED
  BY <1>1, <1>2, Zenon DEF LinkNext

-----------------------------------------------------------------------------
(* memcpy into a buffer leaves every cell a byte or unwritten.             *)
LEMMA CopyType ==
  ASSUME NEW d \in [Addr -> Byte \cup {NoByte}], NEW at \in Nat,
         NEW block \in Seq(Byte)
  PROVE  /\ Copy(d, at, block) \in [Addr -> Byte \cup {NoByte}]
         /\ \A i \in Addr :
              /\ i < at => Copy(d, at, block)[i] = d[i]
              /\ i >= at + Len(block) => Copy(d, at, block)[i] = d[i]
              /\ at <= i /\ i < at + Len(block) =>
                   /\ i - at + 1 \in 1 .. Len(block)
                   /\ Copy(d, at, block)[i] = block[i - at + 1]
                   /\ Copy(d, at, block)[i] \in Byte
<1> Addr \subseteq Nat
  BY DEF Addr
<1>1. \A i \in Addr : i \in at .. at + Len(block) - 1 =>
        i - at + 1 \in 1 .. Len(block) /\ block[i - at + 1] \in Byte
  OBVIOUS
<1>2. \A i \in Addr : i \in at .. at + Len(block) - 1
                      <=> at <= i /\ i < at + Len(block)
  OBVIOUS
<1> QED
  BY <1>1, <1>2 DEF Copy

(* The buffer a name selects.                                              *)
LEMMA GetBufferType ==
  ASSUME NEW name PROVE netboot_get_buffer(name) \in Buffers \cup {NULL}
BY Zenon DEF netboot_get_buffer, Buffers

(* udp6_recv keeps the types of everything it may change.                  *)
LEMMA Udp6RecvType ==
  ASSUME NEW B, Ack \subseteq B, toHost \in Seq(B), DeviceTypeOK,
         NEW m \in Request, udp6_recv(m)
  PROVE  /\ last_cookie' \in Nat /\ last_arg' \in Nat /\ last_ack_arg' \in Nat
         /\ last_cmd' \in Cmd /\ last_ack_cmd' \in AckCmd
         /\ nb_boot_now' \in BOOLEAN /\ nb_active' \in BOOLEAN
         /\ item' \in Buffers \cup {NULL}
         /\ offset' \in [Buffers -> Nat]
         /\ data' \in [Buffers -> [Addr -> Byte \cup {NoByte}]]
         /\ bootPort' \in Nat
         /\ toHost' \in Seq(B)
<1> /\ m.cmd \in Cmd /\ m.cookie \in Nat /\ m.arg \in Nat
    /\ m.data \in Seq(Byte) /\ m.sport \in Nat
  BY Zenon DEF Request
<1> /\ NB_ACK \in AckCmd /\ NB_ERROR_BAD_CMD \in AckCmd
    /\ NB_ERROR_TOO_LARGE \in AckCmd /\ NB_ERROR_BAD_FILE \in AckCmd
  BY Zenon DEF AckCmd
<1>t. ASSUME NEW c \in AckCmd, NEW a \in Nat, Transmit(m, c, a)
      PROVE  nb_active' \in BOOLEAN /\ toHost' \in Seq(B)
  <2> DEFINE ack == [cmd |-> c, cookie |-> m.cookie, arg |-> a, dport |-> m.sport]
  <2>1. ack \in B
    BY <1>t, Zenon DEF Ack
  <2>2. Push(toHost, ack) \in Seq(B)
    BY <2>1, PushType, Zenon
  <2> QED
    BY <1>t, <2>2, Zenon DEF Transmit
<1>a. ASSUME NEW c \in AckCmd, NEW a \in Nat, Acknowledge(m, c, a)
      PROVE  /\ last_cookie' \in Nat /\ last_arg' \in Nat /\ last_ack_arg' \in Nat
             /\ last_cmd' \in Cmd /\ last_ack_cmd' \in AckCmd
             /\ nb_active' \in BOOLEAN /\ toHost' \in Seq(B)
  BY <1>t, <1>a, Zenon DEF Acknowledge
<1>1. CASE ResendAck(m)
  BY <1>1, <1>t, Zenon DEF ResendAck, fileVars, DeviceTypeOK
<1>2. CASE RecvCommand(m)
  BY <1>2, <1>a, Zenon DEF RecvCommand, fileVars, DeviceTypeOK
<1>3. CASE RecvSendFile(m)
  <2>1. offset' \in [Buffers -> Nat] /\ item' \in Buffers \cup {NULL}
    BY <1>3, GetBufferType, Zenon DEF RecvSendFile, DeviceTypeOK
  <2>2. Acknowledge(m, NB_ACK, 0) \/ Acknowledge(m, NB_ERROR_BAD_FILE, 0)
    BY <1>3, Zenon DEF RecvSendFile
  <2> QED
    BY <1>3, <2>1, <2>2, <1>a, Zenon DEF RecvSendFile, DeviceTypeOK
<1>4. CASE RecvData(m)
  <2>1. item \in Buffers
    BY <1>4, Zenon DEF RecvData, InSequence, DeviceTypeOK
  <2>2. CASE RefuseData(m)
    BY <1>4, <2>2, <1>a, Zenon DEF RecvData, RefuseData, DeviceTypeOK
  <2>3. CASE StoreData(m)
    <3>1. Copy(data[item], offset[item], m.data) \in [Addr -> Byte \cup {NoByte}]
      BY <2>1, CopyType DEF DeviceTypeOK
    <3>2. data' \in [Buffers -> [Addr -> Byte \cup {NoByte}]]
      BY <2>1, <2>3, <3>1, Zenon DEF StoreData, DeviceTypeOK
    <3>3. offset' \in [Buffers -> Nat]
      BY <2>1, <2>3, SMTT(60) DEF StoreData, DeviceTypeOK
    <3> QED
      BY <1>4, <2>3, <3>2, <3>3, <1>a, Zenon DEF RecvData, StoreData, DeviceTypeOK
  <2> QED
    BY <1>4, <2>2, <2>3, Zenon DEF RecvData
<1>5. CASE RecvBoot(m)
  BY <1>5, <1>a, Zenon DEF RecvBoot, fileVars, DeviceTypeOK
<1>6. CASE RecvBadCmd(m)
  BY <1>6, <1>a, Zenon DEF RecvBadCmd, fileVars, DeviceTypeOK
<1>7. CASE RecvIgnored(m)
  BY <1>7, Zenon DEF RecvIgnored, fileVars, DeviceTypeOK
<1> QED
  BY <1>1, <1>2, <1>3, <1>4, <1>5, <1>6, <1>7, Zenon DEF udp6_recv

(* Every step of the device keeps its type, and sends only acknowledgements*)
(* and beacons.                                                            *)
LEMMA DeviceStepType ==
  ASSUME NEW A, A \subseteq Request, toDevice \in Seq(A),
         NEW B, Ack \subseteq B, toHost \in Seq(B),
         LinkTypeOK, DeviceTypeOK, DeviceNext
  PROVE  /\ DeviceTypeOK'
         /\ toDevice' \in Seq(A) /\ toHost' \in Seq(B)
         /\ beacon' \in BOOLEAN /\ losses' = losses /\ dups' = dups
<1> USE DEF lastVars, fileVars, tickVars, historyVars, linkVars
<1>1. CASE PollGoOnline
  BY <1>1, DeviceAssumption DEF PollGoOnline, DeviceTypeOK
<1>2. CASE PollTimerExpired
  <2>1. beacon' \in BOOLEAN
    BY <1>2, Zenon DEF PollTimerExpired
  <2>2. nb_fastcount' \in 0 .. FastTicks /\ net_timer' \in {"fast", "slow"}
    BY <1>2, DeviceAssumption DEF PollTimerExpired, DeviceTypeOK
  <2> QED
    BY <1>2, <2>1, <2>2, Zenon DEF PollTimerExpired, DeviceTypeOK, LinkTypeOK
<1>3. CASE TimerFires
  BY <1>3 DEF TimerFires, DeviceTypeOK, LinkTypeOK
<1>4. CASE Receive
  <2>1. PICK i \in Deliverable(toDevice) :
          udp6_recv(toDevice[i]) /\ toDevice' = Without(toDevice, i)
    BY <1>4, Zenon DEF Receive
  <2>2. /\ toDevice' \in Seq(A)
        /\ toDevice[i] \in Request
    BY <2>1, WithoutType, DeliverableInQueue, Zenon
  <2>3. /\ last_cookie' \in Nat /\ last_arg' \in Nat /\ last_ack_arg' \in Nat
        /\ last_cmd' \in Cmd /\ last_ack_cmd' \in AckCmd
        /\ nb_boot_now' \in BOOLEAN /\ nb_active' \in BOOLEAN
        /\ item' \in Buffers \cup {NULL}
        /\ offset' \in [Buffers -> Nat]
        /\ data' \in [Buffers -> [Addr -> Byte \cup {NoByte}]]
        /\ bootPort' \in Nat
        /\ toHost' \in Seq(B)
    BY <2>1, <2>2, Udp6RecvType, Zenon
  <2>4. /\ pc' \in {"poll", "main"}
        /\ UNCHANGED <<tickVars, launched, resets, beacon, losses, dups>>
    BY <1>4, Zenon DEF Receive
  <2> QED
    BY <2>2, <2>3, <2>4, Zenon DEF DeviceTypeOK, LinkTypeOK
<1>5. CASE MainBootRefused
  BY <1>5, Zenon DEF MainBootRefused, DeviceTypeOK, LinkTypeOK
<1>6. CASE MainStartImage
  BY <1>6, Zenon DEF MainStartImage, DeviceTypeOK, LinkTypeOK
<1>7. CASE MainBootKernel
  <2>1. SubSeq(toHost, 1, Len(toHost) - 1) \in Seq(B)
    OBVIOUS
  <2> QED
    BY <1>7, <2>1, Zenon DEF MainBootKernel, DeviceTypeOK, LinkTypeOK
<1>8. CASE AppReturns
  BY <1>8, Zenon DEF AppReturns, DeviceTypeOK, LinkTypeOK
<1>9. CASE BootKernelReturns
  BY <1>9 DEF BootKernelReturns, DeviceTypeOK, LinkTypeOK
<1>10. CASE DeviceReset
  <2>1. toDevice' \in Seq(A)
    <3>1. <<>> \in Seq(A)
      BY NothingYet, Zenon
    <3> QED
      BY <1>10, <3>1, Zenon DEF DeviceReset
  <2>2. /\ pc' = "poll" /\ last_cookie' \in Nat /\ last_arg' \in Nat
        /\ last_ack_arg' \in Nat
        /\ last_cmd' \in Cmd /\ last_ack_cmd' \in AckCmd
        /\ nb_boot_now' \in BOOLEAN /\ nb_active' \in BOOLEAN
        /\ item' \in Buffers \cup {NULL}
    BY <1>10, Zenon DEF DeviceReset, Cmd, AckCmd
  <2>3. /\ offset' \in [Buffers -> Nat]
        /\ data' \in [Buffers -> [Addr -> Byte \cup {NoByte}]]
    BY <1>10, Zenon DEF DeviceReset
  <2>4. nb_fastcount' \in 0 .. FastTicks /\ resets' \in 0 .. MaxResets
    BY <1>10, DeviceAssumption DEF DeviceReset, DeviceTypeOK
  <2>5. /\ nb_online' \in BOOLEAN /\ net_timer' = "off"
        /\ UNCHANGED <<bootPort, launched, toHost, beacon, losses, dups>>
    BY <1>10, Zenon DEF DeviceReset
  <2> QED
    BY <2>1, <2>2, <2>3, <2>4, <2>5, Zenon DEF DeviceTypeOK, LinkTypeOK
<1> QED
  BY <1>1, <1>2, <1>3, <1>4, <1>5, <1>6, <1>7, <1>8, <1>9, <1>10, Zenon
     DEF DeviceNext, MainBoot

(* The initial state of device and link is well typed.                     *)
LEMMA DeviceInitType ==
  ASSUME LinkInit, DeviceInit PROVE LinkTypeOK /\ DeviceTypeOK
<1>1. LinkTypeOK
  <2>1. toDevice \in Seq(Request) /\ toHost \in Seq(Ack)
    BY NothingYet, Zenon DEF LinkInit
  <2>2. losses \in 0 .. MaxLoss /\ dups \in 0 .. MaxDup
    BY LinkAssumption DEF LinkInit
  <2>3. beacon \in BOOLEAN
    BY Zenon DEF LinkInit
  <2> QED
    BY <2>1, <2>2, <2>3, Zenon DEF LinkTypeOK
<1>2. offset \in [Buffers -> Nat] /\ data \in [Buffers -> [Addr -> Byte \cup {NoByte}]]
  BY Zenon DEF DeviceInit
<1>3. last_cmd \in Cmd /\ last_ack_cmd \in AckCmd
  BY Zenon DEF DeviceInit, Cmd, AckCmd
<1>4. /\ nb_boot_now \in BOOLEAN /\ nb_active \in BOOLEAN
      /\ nb_online \in BOOLEAN
  BY Zenon DEF DeviceInit
<1>5. /\ pc = "poll" /\ last_cookie \in Nat /\ last_arg \in Nat
      /\ last_ack_arg \in Nat
      /\ item \in Buffers \cup {NULL}
      /\ nb_fastcount \in 0 .. FastTicks /\ net_timer = "off"
      /\ bootPort \in Nat /\ launched \in SUBSET Nat /\ resets \in 0 .. MaxResets
  BY DeviceAssumption DEF DeviceInit
<1>6. DeviceTypeOK
  BY <1>2, <1>3, <1>4, <1>5, Zenon DEF DeviceTypeOK
<1> QED
  BY <1>1, <1>6, Zenon

-----------------------------------------------------------------------------
(* The device against every environment, for every size of the buffers,    *)
(* every set of requests and every bound of the model.                     *)

(* The inductive invariant.  LastAckTrue rests on nothing else; NoHoles    *)
(* needs NoOverrun, because a block stored past the modelled memory would  *)
(* be counted without being held.                                          *)
DeviceInv == AnyHostTypeOK /\ NoOverrun /\ NoHoles /\ LastAckTrue

(* The statics of netboot.c and osboot.c start out with nothing received.  *)
LEMMA DeviceInvInit == AnyHostInit => DeviceInv
<1> SUFFICES ASSUME AnyHostInit PROVE DeviceInv
  BY Zenon
<1>1. AnyHostTypeOK
  BY DeviceInitType, Zenon DEF AnyHostInit, AnyHostTypeOK
<1>2. NoOverrun /\ NoHoles
  BY BufAssumption DEF AnyHostInit, DeviceInit, NoOverrun, NoHoles, Addr
<1>3. LastAckTrue
  BY Zenon DEF AnyHostInit, DeviceInit, LastAckTrue, NB_ACK, NB_DATA, NB_SEND_FILE
<1> QED
  BY <1>1, <1>2, <1>3, Zenon DEF DeviceInv

(* udp6_recv and the buffers: every request either leaves them alone, or   *)
(* starts a file again, or appends a block that fits.                      *)
LEMMA RecvKeepsBuffers ==
  ASSUME AnyHostTypeOK, NoOverrun, NoHoles, NEW m \in Request, udp6_recv(m)
  PROVE  /\ NoOverrun' /\ NoHoles'
         /\ \A b \in Buffers :
              \/ offset'[b] = 0
              \/ /\ offset'[b] >= offset[b]
                 /\ \A i \in Addr : i < offset[b] => data'[b][i] = data[b][i]
<1> /\ offset \in [Buffers -> Nat]
    /\ data \in [Buffers -> [Addr -> Byte \cup {NoByte}]]
    /\ item \in Buffers \cup {NULL}
    /\ m.data \in Seq(Byte) /\ Addr \subseteq Nat
  BY DEF AnyHostTypeOK, DeviceTypeOK, Request, Addr
<1>b. \A b \in Buffers : BufSize[b] \in Nat
  BY BufAssumption
<1>1. CASE UNCHANGED <<offset, data>>
  BY <1>1 DEF NoOverrun, NoHoles
<1>2. CASE RecvSendFile(m)
  <2>1. /\ data' = data
        /\ \A b \in Buffers : offset'[b] \in {0, offset[b]}
    BY <1>2, Zenon DEF RecvSendFile
  <2>2. NoOverrun'
    <3>1. \A b \in Buffers : offset'[b] <= BufSize[b]
      <4> TAKE b \in Buffers
      <4>1. BufSize[b] \in Nat /\ offset[b] <= BufSize[b]
        BY <1>b, Zenon DEF NoOverrun
      <4>2. CASE offset'[b] = 0
        BY <4>1, <4>2
      <4>3. CASE offset'[b] = offset[b]
        BY <4>1, <4>3, Zenon
      <4> QED
        BY <2>1, <4>2, <4>3, Zenon
    <3> QED
      BY <2>1, <3>1, Zenon DEF NoOverrun
  <2>3. NoHoles'
    BY <2>1 DEF NoHoles
  <2> QED
    BY <2>1, <2>2, <2>3
<1>3. CASE RecvData(m) /\ ~TooLarge(m)
  <2>1. /\ item \in Buffers /\ StoreData(m)
        /\ offset[item] + Len(m.data) <= BufSize[item]
    BY <1>3, BufAssumption DEF RecvData, InSequence, TooLarge
  <2>2. /\ offset'[item] = offset[item] + Len(m.data)
        /\ data'[item] = Copy(data[item], offset[item], m.data)
        /\ \A b \in Buffers \ {item} : offset'[b] = offset[b] /\ data'[b] = data[b]
    BY <2>1, Zenon DEF StoreData
  <2>3. ASSUME NEW i \in Addr
        PROVE  /\ i < offset[item] => data'[item][i] = data[item][i]
               /\ i >= offset'[item] => data'[item][i] = data[item][i]
               /\ offset[item] <= i /\ i < offset'[item] => data'[item][i] \in Byte
    BY <2>1, <2>2, CopyType
  <2>4. NoOverrun'
    <3> SUFFICES ASSUME NEW b \in Buffers
                 PROVE  /\ offset'[b] <= BufSize[b]
                        /\ \A i \in Addr : i >= BufSize[b] => data'[b][i] = NoByte
      BY Zenon DEF NoOverrun
    <3>1. CASE b # item
      BY <2>2, <3>1 DEF NoOverrun
    <3>2. CASE b = item
      BY <1>b, <2>1, <2>2, <2>3, <3>2 DEF NoOverrun
    <3> QED
      BY <3>1, <3>2, Zenon
  <2>5. NoHoles'
    BY <2>1, <2>2, <2>3, ByteAssumption, SMTT(60) DEF NoHoles
  <2>6. offset'[item] >= offset[item]
    BY <2>1, <2>2
  <2> QED
    BY <2>2, <2>3, <2>4, <2>5, <2>6
<1> QED
  BY <1>1, <1>2, <1>3, Zenon
     DEF udp6_recv, ResendAck, RecvCommand, RecvData, RefuseData, RecvBoot,
         RecvBadCmd, RecvIgnored, fileVars

(* udp6_recv and the remembered acknowledgement.                           *)
LEMMA RecvKeepsLastAck ==
  ASSUME AnyHostTypeOK, LastAckTrue, NEW m \in Request, udp6_recv(m)
  PROVE  LastAckTrue'
<1> USE DEF NB_ACK, NB_COMMAND, NB_SEND_FILE, NB_DATA, NB_BOOT,
            NB_ERROR_BAD_CMD, NB_ERROR_TOO_LARGE, NB_ERROR_BAD_FILE
<1> /\ offset \in [Buffers -> Nat] /\ item \in Buffers \cup {NULL}
    /\ m.cmd \in Cmd /\ m.arg \in Nat /\ m.data \in Seq(Byte)
  BY Zenon DEF AnyHostTypeOK, DeviceTypeOK, Request
<1>1. CASE ResendAck(m) \/ RecvIgnored(m)
  BY <1>1, Zenon DEF ResendAck, RecvIgnored, fileVars, LastAckTrue
<1>2. CASE RecvCommand(m) \/ RecvBoot(m) \/ RecvBadCmd(m)
  BY <1>2, Zenon DEF RecvCommand, RecvBoot, RecvBadCmd, Acknowledge, LastAckTrue
<1>3. CASE RecvSendFile(m)
  <2>1. item' \in Buffers \cup {NULL}
    BY <1>3, GetBufferType, Zenon DEF RecvSendFile
  <2> QED
    BY <1>3, <2>1, Zenon DEF RecvSendFile, Acknowledge, LastAckTrue
<1>4. CASE RecvData(m)
  BY <1>4 DEF RecvData, InSequence, StoreData, RefuseData, Acknowledge, LastAckTrue
<1> QED
  BY <1>1, <1>2, <1>3, <1>4, Zenon DEF udp6_recv

(* Every step: the request received, the reset, or no change of what the   *)
(* invariant is about.                                                     *)
LEMMA DeviceInvStep ==
  DeviceInv /\ [AnyHostNext]_anyHostVars =>
    /\ DeviceInv'
    /\ \A b \in Buffers :
         \/ offset'[b] = 0
         \/ /\ offset'[b] >= offset[b]
            /\ \A i \in Addr : i < offset[b] => data'[b][i] = data[b][i]
<1> SUFFICES ASSUME DeviceInv, [AnyHostNext]_anyHostVars
             PROVE  /\ DeviceInv'
                    /\ \A b \in Buffers :
                         \/ offset'[b] = 0
                         \/ /\ offset'[b] >= offset[b]
                            /\ \A i \in Addr :
                                 i < offset[b] => data'[b][i] = data[b][i]
  BY Zenon
<1> AnyHostTypeOK /\ NoOverrun /\ NoHoles /\ LastAckTrue
  BY Zenon DEF DeviceInv
<1>t. AnyHostTypeOK'
  <2>1. CASE DeviceNext
    <3>1. /\ DeviceTypeOK' /\ toDevice' \in Seq(Request) /\ toHost' \in Seq(Ack)
          /\ beacon' \in BOOLEAN /\ losses' = losses /\ dups' = dups
      BY <2>1, DeviceStepType, Zenon DEF AnyHostTypeOK, LinkTypeOK
    <3> QED
      BY <3>1, Zenon DEF AnyHostTypeOK, LinkTypeOK
  <2>2. CASE HostSends
    <3>1. toDevice' \in Seq(Request)
      BY <2>2, PushType, RequestsAssumption, Zenon DEF HostSends, AnyHostTypeOK, LinkTypeOK
    <3>2. toHost' \in Seq(Ack)
      BY <2>2, NothingYet, Zenon DEF HostSends
    <3>3. beacon' \in BOOLEAN
      BY <2>2, Zenon DEF HostSends
    <3>4. LinkTypeOK'
      BY <2>2, <3>1, <3>2, <3>3, Zenon DEF HostSends, AnyHostTypeOK, LinkTypeOK
    <3>5. DeviceTypeOK'
      BY <2>2 DEF HostSends, AnyHostTypeOK, DeviceTypeOK, deviceVars, lastVars,
                  fileVars, tickVars, historyVars
    <3> QED
      BY <3>4, <3>5, Zenon DEF AnyHostTypeOK
  <2>3. CASE UNCHANGED anyHostVars
    BY <2>3 DEF anyHostVars, AnyHostTypeOK, LinkTypeOK, DeviceTypeOK, deviceVars, lastVars,
                fileVars, tickVars, historyVars, linkVars
  <2> QED
    BY <2>1, <2>2, <2>3, Zenon DEF AnyHostNext
<1>u. ASSUME UNCHANGED <<lastVars, fileVars>>
      PROVE  /\ NoOverrun' /\ NoHoles' /\ LastAckTrue'
             /\ offset' = offset /\ data' = data
  BY <1>u, Zenon DEF lastVars, fileVars, NoOverrun, NoHoles, LastAckTrue
<1> offset \in [Buffers -> Nat]
  BY Zenon DEF AnyHostTypeOK, DeviceTypeOK
<1>1. CASE Receive
  <2>1. PICK i \in Deliverable(toDevice) : udp6_recv(toDevice[i])
    BY <1>1, Zenon DEF Receive
  <2>2. toDevice[i] \in Request
    BY WithoutType, DeliverableInQueue, Zenon DEF AnyHostTypeOK, LinkTypeOK
  <2> QED
    BY <1>t, <2>1, <2>2, RecvKeepsBuffers, RecvKeepsLastAck, Zenon DEF DeviceInv
<1>2. CASE DeviceReset
  <2>1. NoOverrun' /\ NoHoles'
    BY <1>2, BufAssumption DEF DeviceReset, NoOverrun, NoHoles, Addr
  <2>2. LastAckTrue'
    BY <1>2, Zenon DEF DeviceReset, LastAckTrue, NB_ACK, NB_DATA, NB_SEND_FILE
  <2>3. \A b \in Buffers : offset'[b] = 0
    BY <1>2, Zenon DEF DeviceReset
  <2> QED
    BY <1>t, <2>1, <2>2, <2>3, Zenon DEF DeviceInv
<1>3. CASE UNCHANGED <<lastVars, fileVars>>
  BY <1>t, <1>u, <1>3, SMTT(60) DEF DeviceInv
<1>4. \/ Receive \/ DeviceReset \/ UNCHANGED <<lastVars, fileVars>>
  BY Zenon DEF AnyHostNext, DeviceNext, MainBoot, PollGoOnline, PollTimerExpired,
         TimerFires, MainBootRefused, MainStartImage, MainBootKernel,
         AppReturns, BootKernelReturns, HostSends, anyHostVars, deviceVars
<1> QED
  BY <1>1, <1>2, <1>3, <1>4, Zenon

(* Type correctness of the device in an arbitrary environment.             *)
THEOREM DeviceTypeCorrect == AnyHostSpec => []AnyHostTypeOK
<1>1. DeviceInv => AnyHostTypeOK
  BY Zenon DEF DeviceInv
<1> QED
  BY <1>1, DeviceInvInit, DeviceInvStep, PTL DEF AnyHostSpec

(* Whatever is sent to it, the device never writes behind a buffer.        *)
THEOREM DeviceNoOverrun == AnyHostSpec => []NoOverrun
<1>1. DeviceInv => NoOverrun
  BY Zenon DEF DeviceInv
<1> QED
  BY <1>1, DeviceInvInit, DeviceInvStep, PTL DEF AnyHostSpec

(* Whatever is sent to it, the device never counts a byte it did not get.  *)
THEOREM DeviceNoHoles == AnyHostSpec => []NoHoles
<1>1. DeviceInv => NoHoles
  BY Zenon DEF DeviceInv
<1> QED
  BY <1>1, DeviceInvInit, DeviceInvStep, PTL DEF AnyHostSpec

(* The acknowledgement kept for a repeated request is always true of the   *)
(* download.                                                               *)
THEOREM DeviceLastAckTrue == AnyHostSpec => []LastAckTrue
<1>1. DeviceInv => LastAckTrue
  BY Zenon DEF DeviceInv
<1> QED
  BY <1>1, DeviceInvInit, DeviceInvStep, PTL DEF AnyHostSpec

(* Received bytes stay until their file is started again.                  *)
THEOREM DeviceReceivedStays == AnyHostSpec => ReceivedStays
<1> DEFINE Stays == \A b \in Buffers :
                      \/ offset'[b] = 0
                      \/ /\ offset'[b] >= offset[b]
                         /\ \A i \in Addr :
                              i < offset[b] => data'[b][i] = data[b][i]
<1>1. DeviceInv /\ [AnyHostNext]_anyHostVars => [Stays]_anyHostVars
  BY DeviceInvStep, Zenon
<1>2. DeviceInv /\ [AnyHostNext]_anyHostVars => DeviceInv'
  BY DeviceInvStep, Zenon
<1> QED
  BY <1>1, <1>2, DeviceInvInit, PTL DEF AnyHostSpec, ReceivedStays

-----------------------------------------------------------------------------
(* The requests of a transfer.                                             *)

(* A block read from the file is not empty and copies the file's bytes.    *)
LEMMA BlockOfFile ==
  ASSUME NEW f \in Seq(Byte), NEW pos \in Nat, pos < Len(f)
  PROVE  /\ Block(f, pos) \in Seq(Byte)
         /\ Len(Block(f, pos)) > 0
         /\ pos + Len(Block(f, pos)) <= Len(f)
         /\ \A j \in 1 .. Len(Block(f, pos)) :
              /\ pos + j \in 1 .. Len(f)
              /\ Block(f, pos)[j] = f[pos + j]
<1> DEFINE e == IF pos + BlockSize < Len(f) THEN pos + BlockSize ELSE Len(f)
<1>1. e \in pos + 1 .. Len(f)
  BY HostAssumption
<1> HIDE DEF e
<1> DEFINE s == SubSeq(f, pos + 1, e)
<1>2. /\ s \in Seq(Byte) /\ Len(s) = e - pos
      /\ \A j \in 1 .. Len(s) : s[j] = f[pos + j]
  BY <1>1, SMTT(60)
<1>3. Block(f, pos) = s
  BY Zenon DEF Block, e
<1> HIDE DEF s
<1> QED
  BY <1>1, <1>2, <1>3, SMTT(60)

(* The requests io is given are well typed.                                *)
LEMMA RequestTypes ==
  ASSUME NEW p \in Nat
  PROVE  /\ SendFileMsg(p) \in Request /\ BootMsg(p) \in Request
         /\ \A f \in Seq(Byte), pos \in Nat :
              pos < Len(f) => DataMsg(f, pos, p) \in Request
         /\ \A f \in Seq(Byte), m \in Request :
              /\ After(m) \in Nat
              /\ m.sport = p => NextMsg(f, m) \in Request
<1>1. <<>> \in Seq(Byte)
  BY NothingYet, Zenon
<1>2. SendFileMsg(p) \in Request /\ BootMsg(p) \in Request
  BY <1>1, Zenon DEF SendFileMsg, BootMsg, Request, Cmd, Names,
              NB_SEND_FILE, NB_BOOT
<1>3. ASSUME NEW f \in Seq(Byte), NEW pos \in Nat, pos < Len(f)
      PROVE  DataMsg(f, pos, p) \in Request
  <2>1. Block(f, pos) \in Seq(Byte)
    BY <1>3, BlockOfFile, Zenon
  <2> QED
    BY <2>1, Zenon DEF DataMsg, Request, Cmd, Names, NB_DATA
<1>4. ASSUME NEW m \in Request PROVE After(m) \in Nat
  BY DEF After, Request
<1>5. ASSUME NEW f \in Seq(Byte), NEW m \in Request, m.sport = p
      PROVE  NextMsg(f, m) \in Request
  BY <1>2, <1>3, <1>4, <1>5, Zenon DEF NextMsg
<1> QED
  BY <1>2, <1>3, <1>4, <1>5, Zenon

-----------------------------------------------------------------------------
(* Type correctness.                                                       *)

(* io only runs inside a transfer.                                         *)
TypeInv == TypeOK /\ (Active => Port > 0 /\ retries > 0)

(* The initial state of server, network and device has its type.           *)
LEMMA TypeInvInit == Init => TypeInv
<1> SUFFICES ASSUME Init PROVE TypeInv
  OBVIOUS
<1>1. LinkTypeOK /\ DeviceTypeOK
  BY DeviceInitType, Zenon DEF Init
<1>2. msg \in Request
  BY RequestTypes, Zenon DEF Init, HostInit
<1>3. xferFile \in Seq(Files)
  BY NothingYet, Zenon DEF Init, HostInit
<1>4. HostTypeOK
  BY <1>2, <1>3, HostAssumption DEF Init, HostInit, HostTypeOK
<1> QED
  BY <1>1, <1>4, Zenon DEF TypeInv, TypeOK, Active, Init, HostInit

(* The server's steps keep its type.                                       *)
LEMMA HostStepType ==
  ASSUME TypeInv, HostRun \/ IoTimeout
  PROVE  /\ HostTypeOK' /\ LinkTypeOK'
         /\ Active' => Port' > 0 /\ retries' > 0
<1> USE DEF Active, Port
<1>f. xferFile \in Seq(Files) /\ Files \subseteq Seq(Byte)
  BY HostAssumption, Zenon DEF TypeInv, TypeOK, HostTypeOK
<1>i. ASSUME NEW m \in Request, StartIo(m)
      PROVE  /\ msg' \in Request /\ cookie' \in Nat /\ retries' \in 0 .. Retries
             /\ hpc' = "write" /\ retries' > 0
  <2>1. cookie \in Nat
    BY Zenon DEF TypeInv, TypeOK, HostTypeOK
  <2>2. [m EXCEPT !.cookie = cookie] \in Request
    BY <2>1, Zenon DEF Request
  <2> QED
    BY <1>i, <2>1, <2>2, HostAssumption DEF StartIo
<1>1. CASE TakeBeacon
  <2>1. PICK f \in Files : xferFile' = Append(xferFile, f)
    BY <1>1, Zenon DEF TakeBeacon
  <2>2. xferFile' \in Seq(Files) /\ Len(xferFile') > 0
    BY <1>f, <2>1
  <2>3. SendFileMsg(Len(xferFile) + 1) \in Request
    BY <1>f, RequestTypes
  <2>4. /\ msg' \in Request /\ cookie' \in Nat /\ retries' \in 0 .. Retries
        /\ hpc' = "write" /\ retries' > 0
    BY <1>1, <1>i, <2>3, Zenon DEF TakeBeacon
  <2>5. beacon' \in BOOLEAN
    BY <1>1, Zenon DEF TakeBeacon
  <2> QED
    BY <1>1, <2>2, <2>4, <2>5, Zenon
       DEF TakeBeacon, TypeInv, TypeOK, HostTypeOK, LinkTypeOK
<1>2. CASE XferNotStarted
  <2>1. beacon' \in BOOLEAN
    BY <1>2, Zenon DEF XferNotStarted
  <2> QED
    BY <1>2, <2>1, Zenon
       DEF XferNotStarted, EndXfer, TypeInv, TypeOK, HostTypeOK, LinkTypeOK
<1>3. CASE IoWrite
  <2>1. toDevice' \in Seq(Request)
    BY <1>3, PushType, Zenon DEF IoWrite, TypeInv, TypeOK, HostTypeOK, LinkTypeOK
  <2> QED
    BY <1>3, <2>1, Zenon DEF IoWrite, TypeInv, TypeOK, HostTypeOK, LinkTypeOK
<1>4. CASE IoRead
  <2>1. PICK i \in Deliverable(toHost) :
          /\ toHost[i].dport = Port
          /\ toHost' = Without(toHost, i)
          /\ IoReadOther(toHost[i]) \/ IoReadAck(toHost[i])
               \/ IoReadBootAck(toHost[i]) \/ FreadFails(toHost[i])
    BY <1>4, Zenon DEF IoRead
  <2>2. toHost' \in Seq(Ack)
    BY <2>1, WithoutType, DeliverableInQueue, Zenon DEF TypeInv, TypeOK, LinkTypeOK
  <2>3. LinkTypeOK'
    BY <1>4, <2>2, Zenon DEF IoRead, TypeInv, TypeOK, LinkTypeOK
  <2>4. CASE IoReadOther(toHost[i])
    BY <2>3, <2>4, Zenon DEF IoReadOther, hostVars, TypeInv, TypeOK, HostTypeOK
  <2>5. CASE IoReadAck(toHost[i])
    <3>1. Port > 0
      BY <1>4, Zenon DEF IoRead, TypeInv
    <3>2. xferFile[Port] \in Seq(Byte)
      BY <1>f, <3>1
    <3>3. NextMsg(xferFile[Port], msg) \in Request
      BY <3>2, RequestTypes, Zenon DEF TypeInv, TypeOK, HostTypeOK, Request
    <3>4. /\ msg' \in Request /\ cookie' \in Nat /\ retries' \in 0 .. Retries
          /\ hpc' = "write" /\ retries' > 0
      BY <2>5, <3>3, <1>i, Zenon DEF IoReadAck
    <3> QED
      BY <2>3, <2>5, <3>1, <3>4, Zenon DEF IoReadAck, TypeInv, TypeOK, HostTypeOK
  <2>6. CASE IoReadBootAck(toHost[i]) \/ FreadFails(toHost[i])
    BY <2>3, <2>6, Zenon
       DEF IoReadBootAck, FreadFails, EndXfer, TypeInv, TypeOK, HostTypeOK
  <2> QED
    BY <2>1, <2>4, <2>5, <2>6, Zenon
<1>5. CASE AckToClosedSocket
  <2>1. toHost' \in Seq(Ack)
    BY <1>5, WithoutType, DeliverableInQueue
       DEF AckToClosedSocket, TypeInv, TypeOK, LinkTypeOK
  <2> QED
    BY <1>5, <2>1, Zenon
       DEF AckToClosedSocket, hostVars, TypeInv, TypeOK, HostTypeOK, LinkTypeOK
<1>6. CASE IoTimeout
  BY <1>6, HostAssumption
     DEF IoTimeout, EndXfer, linkVars, TypeInv, TypeOK, HostTypeOK, LinkTypeOK
<1>7. CASE IoError
  BY <1>7, Zenon DEF IoError, EndXfer, linkVars, TypeInv, TypeOK, HostTypeOK, LinkTypeOK
<1>8. CASE XferDone
  <2>1. beacon' \in BOOLEAN
    BY <1>8, Zenon DEF XferDone, TypeInv, TypeOK, LinkTypeOK
  <2> QED
    BY <1>8, <2>1, Zenon DEF XferDone, TypeInv, TypeOK, HostTypeOK, LinkTypeOK
<1>9. CASE HostRestart
  <2>1. beacon' \in BOOLEAN
    BY <1>9, Zenon DEF HostRestart
  <2> QED
    BY <1>9, <2>1, HostAssumption
       DEF HostRestart, TypeInv, TypeOK, HostTypeOK, LinkTypeOK
<1>10. CASE ListenFails
  BY <1>10, Zenon DEF ListenFails, linkVars, TypeInv, TypeOK, HostTypeOK, LinkTypeOK
<1> QED
  BY <1>1, <1>2, <1>3, <1>4, <1>5, <1>6, <1>7, <1>8, <1>9, <1>10, Zenon DEF HostRun

(* Every step of netboot.c, nbserver.c and the network keeps the types;    *)
(* io's retries stay positive while it runs.                               *)
LEMMA TypeInvStep == TypeInv /\ [Next]_vars => TypeInv'
<1> SUFFICES ASSUME TypeInv, [Next]_vars PROVE TypeInv'
  BY Zenon
<1> USE DEF TypeInv, TypeOK
<1>1. CASE DeviceStep
  <2>1. /\ DeviceTypeOK' /\ toDevice' \in Seq(Request) /\ toHost' \in Seq(Ack)
        /\ beacon' \in BOOLEAN /\ losses' = losses /\ dups' = dups
    BY <1>1, DeviceStepType, Zenon DEF DeviceStep, LinkTypeOK
  <2>2. LinkTypeOK'
    BY <2>1, Zenon DEF LinkTypeOK
  <2> QED
    BY <1>1, <2>1, <2>2, Zenon DEF DeviceStep, hostVars, HostTypeOK, Active, Port
<1>2. CASE HostStep \/ Timeout
  <2>1. UNCHANGED deviceVars /\ (HostRun \/ IoTimeout)
    BY <1>2, Zenon DEF HostStep, Timeout
  <2>2. DeviceTypeOK'
    BY <2>1 DEF deviceVars, lastVars, fileVars, tickVars, historyVars,
                DeviceTypeOK
  <2> QED
    BY <2>1, <2>2, HostStepType, Zenon
<1>3. CASE LinkStep
  <2>1. LinkTypeOK'
    BY <1>3, LinkStepType, Zenon DEF LinkStep, LinkTypeOK
  <2> QED
    BY <1>3, <2>1 DEF LinkStep, deviceVars, lastVars, fileVars, tickVars,
       historyVars, DeviceTypeOK, hostVars, HostTypeOK, Active, Port
<1>4. CASE UNCHANGED vars
  BY <1>4 DEF vars, deviceVars, lastVars, fileVars, tickVars, historyVars,
     DeviceTypeOK, hostVars, HostTypeOK, linkVars, LinkTypeOK, Active, Port
<1> QED
  BY <1>1, <1>2, <1>3, <1>4, Zenon DEF Next

(* Type correctness of server, network and device.                         *)
THEOREM SystemTypeCorrect == Spec => []TypeOK
<1>1. TypeInv => TypeOK
  BY Zenon DEF TypeInv
<1> QED
  BY <1>1, TypeInvInit, TypeInvStep, PTL DEF Spec

-----------------------------------------------------------------------------
(* BytesInPlace, on any network.                                           *)

(* A block carries the bytes that stand at its argument in some file.      *)
Placed(r) ==
  r.cmd = NB_DATA =>
    \E f \in Files : \A j \in 1 .. Len(r.data) :
      r.arg + j \in DOMAIN f /\ r.data[j] = f[r.arg + j]

PlacedRequest == {r \in Request : Placed(r)}

(* The inductive invariant: what is stored, under way or about to be sent. *)
PlacedInv ==
  /\ TypeInv
  /\ toDevice \in Seq(PlacedRequest)
  /\ msg \in PlacedRequest
  /\ BytesInPlace

(* Nothing has been received or sent at the start.                         *)
LEMMA PlacedInvInit == Init => PlacedInv
<1> SUFFICES ASSUME Init PROVE PlacedInv
  OBVIOUS
<1>1. TypeInv
  BY TypeInvInit, Zenon
<1>2. toDevice \in Seq(PlacedRequest)
  BY NothingYet, Zenon DEF Init, LinkInit
<1>3. msg \in PlacedRequest
  BY <1>1, Zenon DEF TypeInv, TypeOK, HostTypeOK, Init, HostInit, BootMsg, Placed,
              PlacedRequest, NB_BOOT, NB_DATA
<1>4. BytesInPlace
  BY DEF Init, DeviceInit, BytesInPlace, Image, Buffers
<1> QED
  BY <1>1, <1>2, <1>3, <1>4, Zenon DEF PlacedInv

(* The request io starts next is a placed one.                             *)
LEMMA NextIsPlaced ==
  ASSUME NEW f \in Files, NEW m \in Request, NEW c \in Nat
  PROVE  [NextMsg(f, m) EXCEPT !.cookie = c] \in PlacedRequest
<1> DEFINE n == [NextMsg(f, m) EXCEPT !.cookie = c]
<1>1. f \in Seq(Byte) /\ m.sport \in Nat
  BY HostAssumption, Zenon DEF Request
<1>2. NextMsg(f, m) \in Request /\ After(m) \in Nat
  BY <1>1, RequestTypes, Zenon
<1>3. n \in Request
  BY <1>2, Zenon DEF Request
<1>4. CASE After(m) < Len(f)
  <2>1. n.arg = After(m) /\ n.data = Block(f, After(m))
    BY <1>4, Zenon DEF NextMsg, DataMsg
  <2>2. \A j \in 1 .. Len(n.data) :
          n.arg + j \in DOMAIN f /\ n.data[j] = f[n.arg + j]
    BY <1>1, <1>2, <1>4, <2>1, BlockOfFile, SMTT(60)
  <2> QED
    BY <1>3, <2>2, Zenon DEF PlacedRequest, Placed
<1>5. CASE ~(After(m) < Len(f))
  BY <1>3, <1>5, Zenon DEF NextMsg, BootMsg, PlacedRequest, Placed, NB_BOOT, NB_DATA
<1> QED
  BY <1>4, <1>5, Zenon

(* Storing a placed block extends the image by bytes in their place.       *)
LEMMA RecvKeepsPlaces ==
  ASSUME TypeInv, BytesInPlace, NEW m \in PlacedRequest, udp6_recv(m)
  PROVE  BytesInPlace'
<1> DEFINE k == "nbkernel"
<1> k \in Buffers
  BY Zenon DEF Buffers
<1> /\ offset \in [Buffers -> Nat]
    /\ data \in [Buffers -> [Addr -> Byte \cup {NoByte}]]
    /\ item \in Buffers \cup {NULL}
    /\ m \in Request /\ m.cmd \in Cmd /\ m.arg \in Nat /\ m.data \in Seq(Byte)
  BY Zenon DEF TypeInv, TypeOK, DeviceTypeOK, PlacedRequest, Request
<1>1. CASE offset'[k] = offset[k] /\ data'[k] = data[k]
  BY <1>1, Zenon DEF BytesInPlace, Image
<1>2. CASE RecvSendFile(m)
  <2>1. data' = data /\ offset'[k] \in {0, offset[k]}
    BY <1>2, Zenon DEF RecvSendFile
  <2>2. CASE offset'[k] = 0
    <3>1. 1 .. offset'[k] = {}
      BY <2>2
    <3>2. DOMAIN Image' = {}
      BY <3>1, Zenon DEF Image
    <3> QED
      BY <3>2, Zenon DEF BytesInPlace
  <2> QED
    BY <1>1, <2>1, <2>2, Zenon
<1>3. CASE RecvData(m) /\ ~TooLarge(m) /\ item = k
  <2>1. /\ StoreData(m) /\ m.cmd = NB_DATA /\ m.arg = offset[k]
        /\ offset[k] + Len(m.data) <= Mem
    BY <1>3, BufAssumption DEF RecvData, InSequence, TooLarge
  <2>2. /\ offset'[k] = offset[k] + Len(m.data)
        /\ data'[k] = Copy(data[k], offset[k], m.data)
    BY <1>3, <2>1, Zenon DEF StoreData
  <2>c. \A a \in Addr :
          /\ a < offset[k] => data'[k][a] = data[k][a]
          /\ offset[k] <= a /\ a < offset[k] + Len(m.data) =>
               data'[k][a] = m.data[a - offset[k] + 1]
    <3>1. data[k] \in [Addr -> Byte \cup {NoByte}] /\ offset[k] \in Nat
      BY Zenon
    <3> DEFINE c == data[k]
               o == offset[k]
               d == m.data
    <3>2. c \in [Addr -> Byte \cup {NoByte}] /\ o \in Nat /\ d \in Seq(Byte)
      BY <3>1, Zenon
    <3>3. data'[k] = Copy(c, o, d)
      BY <2>2, Zenon
    <3> HIDE DEF c, o, d
    <3>4. \A a \in Addr :
            /\ a < o => Copy(c, o, d)[a] = c[a]
            /\ o <= a /\ a < o + Len(d) => Copy(c, o, d)[a] = d[a - o + 1]
      BY <3>2, CopyType, SMTT(60)
    <3> QED
      BY <3>3, <3>4, Zenon DEF c, o, d
  <2>3. PICK f \in Files : \A j \in 1 .. Len(m.data) :
          m.arg + j \in DOMAIN f /\ m.data[j] = f[m.arg + j]
    BY <2>1, Zenon DEF PlacedRequest, Placed
  <2> SUFFICES ASSUME NEW i \in 1 .. offset'[k]
               PROVE  \E g \in Files : i \in DOMAIN g /\ data'[k][i - 1] = g[i]
    BY Zenon DEF BytesInPlace, Image
  <2>4. i - 1 \in Addr /\ i \in Nat
    BY <2>1, <2>2, BufAssumption DEF Addr
  <2>5. CASE i <= offset[k]
    <3>0. i - 1 < offset[k]
      BY <2>4, <2>5
    <3>1. data'[k][i - 1] = data[k][i - 1]
      BY <2>c, <2>4, <3>0, Zenon
    <3>2. i \in 1 .. offset[k]
      BY <2>5
    <3> QED
      BY <3>1, <3>2, Zenon DEF BytesInPlace, Image
  <2>6. CASE i > offset[k]
    <3>1. data'[k][i - 1] = m.data[(i - 1) - offset[k] + 1]
      <4>1. offset[k] <= i - 1 /\ i - 1 < offset[k] + Len(m.data)
        BY <2>2, <2>4, <2>6
      <4> QED
        BY <2>c, <2>4, <4>1, Zenon
    <3>2. (i - 1) - offset[k] + 1 = i - m.arg /\ i - m.arg \in 1 .. Len(m.data)
      BY <2>1, <2>2, <2>6
    <3>3. i \in DOMAIN f /\ m.data[i - m.arg] = f[i]
      <4>1. m.arg + (i - m.arg) = i
        BY <2>4
      <4> QED
        BY <2>3, <3>2, <4>1, Zenon
    <3> QED
      BY <3>1, <3>2, <3>3, Zenon
  <2>7. i <= offset[k] \/ i > offset[k]
    <3>1. \A x, y \in Nat : x <= y \/ x > y
      OBVIOUS
    <3>2. offset[k] \in Nat
      BY Zenon
    <3> QED
      BY <2>4, <3>1, <3>2, Zenon
  <2> QED
    BY <2>5, <2>6, <2>7, Zenon
<1>4. CASE RecvData(m) /\ ~(~TooLarge(m) /\ item = k)
  <2>1. offset'[k] = offset[k] /\ data'[k] = data[k]
    BY <1>4, Zenon DEF RecvData, InSequence, StoreData, RefuseData
  <2> QED
    BY <1>1, <2>1, Zenon
<1> QED
  BY <1>1, <1>2, <1>3, <1>4, Zenon
     DEF udp6_recv, ResendAck, RecvCommand, RecvBoot, RecvBadCmd, RecvIgnored,
         fileVars

(* Every step keeps the bytes of the image, and those under way, in place. *)
LEMMA PlacedInvStep == PlacedInv /\ [Next]_vars => PlacedInv'
<1> SUFFICES ASSUME PlacedInv, [Next]_vars PROVE PlacedInv'
  OBVIOUS
<1>t. TypeInv /\ TypeInv'
  BY TypeInvStep, Zenon DEF PlacedInv
<1>k. ASSUME fileVars' = fileVars PROVE BytesInPlace'
  BY <1>k DEF PlacedInv, BytesInPlace, Image, fileVars
<1>1. CASE DeviceStep
  <2>1. toDevice' \in Seq(PlacedRequest)
    BY <1>1, <1>t, DeviceStepType, Zenon
       DEF DeviceStep, PlacedInv, PlacedRequest, TypeInv, TypeOK, LinkTypeOK
  <2>2. msg' \in PlacedRequest
    BY <1>1, Zenon DEF DeviceStep, hostVars, PlacedInv
  <2>3. CASE Receive
    <3>1. PICK i \in Deliverable(toDevice) : udp6_recv(toDevice[i])
      BY <2>3, Zenon DEF Receive
    <3>2. toDevice[i] \in PlacedRequest
      BY WithoutType, DeliverableInQueue, Zenon DEF PlacedInv
    <3>3. BytesInPlace'
      BY <1>t, <3>1, <3>2, RecvKeepsPlaces, Zenon DEF PlacedInv
    <3> QED
      BY <1>t, <2>1, <2>2, <3>3, Zenon DEF PlacedInv
  <2>4. CASE DeviceReset
    <3>1. BytesInPlace'
      BY <2>4 DEF DeviceReset, BytesInPlace, Image, Buffers
    <3> QED
      BY <1>t, <2>1, <2>2, <3>1, Zenon DEF PlacedInv
  <2>5. CASE fileVars' = fileVars
    BY <1>t, <1>k, <2>1, <2>2, <2>5, Zenon DEF PlacedInv
  <2>6. Receive \/ DeviceReset \/ fileVars' = fileVars
    BY <1>1, Zenon DEF DeviceStep, DeviceNext, MainBoot, PollGoOnline,
       PollTimerExpired, TimerFires, MainBootRefused, MainStartImage,
       MainBootKernel, AppReturns, BootKernelReturns
  <2> QED
    BY <2>3, <2>4, <2>5, <2>6, Zenon
<1>2. CASE HostStep \/ Timeout
  <2>1. BytesInPlace'
    BY <1>2, <1>k, Zenon DEF HostStep, Timeout, deviceVars
  <2>2. toDevice' \in Seq(PlacedRequest)
    <3>1. CASE IoWrite
      BY <3>1, PushType, Zenon DEF IoWrite, PlacedInv
    <3>2. CASE ~IoWrite
      <4>1. toDevice' = toDevice
        BY <1>2, <3>2, Zenon DEF HostStep, Timeout, HostRun, TakeBeacon,
           XferNotStarted, ListenFails, IoRead, AckToClosedSocket, IoTimeout, IoError,
           XferDone, HostRestart, linkVars
      <4> QED
        BY <4>1, Zenon DEF PlacedInv
    <3> QED
      BY <3>1, <3>2, Zenon
  <2>3. msg' \in PlacedRequest
    <3>1. CASE TakeBeacon
      <4>1. msg'.cmd = NB_SEND_FILE
        BY <3>1, Zenon DEF TakeBeacon, StartIo, SendFileMsg
      <4> QED
        BY <1>t, <4>1, Zenon DEF TypeInv, TypeOK, HostTypeOK, PlacedRequest, Placed,
                          NB_SEND_FILE, NB_DATA
    <3>2. CASE IoRead
      <4>1. PICK i \in Deliverable(toHost) :
              IoReadOther(toHost[i]) \/ IoReadAck(toHost[i])
                \/ IoReadBootAck(toHost[i]) \/ FreadFails(toHost[i])
        BY <3>2, Zenon DEF IoRead
      <4>2. CASE IoReadAck(toHost[i])
        <5>1. Port > 0
          BY <1>t, <3>2, Zenon DEF IoRead, TypeInv, Active
        <5>2. xferFile[Port] \in Files /\ msg \in Request /\ cookie \in Nat
          BY <1>t, <5>1 DEF TypeInv, TypeOK, HostTypeOK, Port
        <5>3. msg' = [NextMsg(xferFile[Port], msg) EXCEPT !.cookie = cookie]
          BY <4>2, Zenon DEF IoReadAck, StartIo
        <5> QED
          BY <5>2, <5>3, NextIsPlaced, Zenon
      <4>3. CASE IoReadOther(toHost[i]) \/ IoReadBootAck(toHost[i])
                   \/ FreadFails(toHost[i])
        BY <4>3, Zenon DEF IoReadOther, IoReadBootAck, FreadFails, hostVars, PlacedInv
      <4> QED
        BY <4>1, <4>2, <4>3, Zenon
    <3>3. CASE ~TakeBeacon /\ ~IoRead
      BY <1>2, <3>3, Zenon DEF HostStep, Timeout, HostRun, XferNotStarted, ListenFails,
         IoWrite, AckToClosedSocket, IoTimeout, IoError, XferDone, HostRestart,
         hostVars, PlacedInv
    <3> QED
      BY <3>1, <3>2, <3>3, Zenon
  <2> QED
    BY <1>t, <2>1, <2>2, <2>3, Zenon DEF PlacedInv
<1>3. CASE LinkStep
  <2>1. toDevice' \in Seq(PlacedRequest)
    BY <1>3, <1>t, LinkStepType, Zenon
       DEF LinkStep, PlacedInv, TypeInv, TypeOK, LinkTypeOK
  <2>2. msg' = msg /\ fileVars' = fileVars
    BY <1>3, Zenon DEF LinkStep, deviceVars, hostVars
  <2> QED
    BY <1>t, <1>k, <2>1, <2>2, Zenon DEF PlacedInv
<1>4. CASE UNCHANGED vars
  <2>1. toDevice' = toDevice /\ msg' = msg /\ fileVars' = fileVars
    BY <1>4, Zenon DEF vars, deviceVars, hostVars, linkVars
  <2> QED
    BY <1>t, <1>k, <2>1, Zenon DEF PlacedInv
<1> QED
  BY <1>1, <1>2, <1>3, <1>4, Zenon DEF Next

(* On a network that loses, repeats and reorders datagrams, with a server  *)
(* that restarts and a device that is reset, every byte received for the   *)
(* kernel stands where it stands in a file that was sent.                  *)
THEOREM SystemBytesInPlace == Spec => []BytesInPlace
<1>1. PlacedInv => BytesInPlace
  BY Zenon DEF PlacedInv
<1> QED
  BY <1>1, PlacedInvInit, PlacedInvStep, PTL DEF Spec

-----------------------------------------------------------------------------
(* How long a transfer takes, on any network: what is left to do while io  *)
(* runs, as a number that no step raises and every step of the server      *)
(* lowers.                                                                 *)

(* The requests behind m in the transfer of f are not more than this: a    *)
(* block advances the position, and BOOT is the last.                      *)
RequestsLeft(f, m) == IF m.cmd = NB_BOOT THEN 0 ELSE Len(f) - After(m) + 1

(* Steps of io itself: a write and a read for every try of every request.  *)
IoLeft ==
  IF Active
  THEN RequestsLeft(xferFile[Port], msg) * (2 * Retries)
         + (IF hpc = "write" THEN 2 * retries ELSE 2 * retries - 1)
  ELSE 0

(* A write puts a request into a queue, which becomes an acknowledgement   *)
(* there, which costs a read; so does a datagram that is duplicated.       *)
UnderWay == 2 * Len(toDevice) + Len(toHost) + 3 * (MaxDup - dups)

WorkLeft == 3 * IoLeft + UnderWay

(* What there is to do when a transfer of f starts, at most.               *)
MaxWork(f) == 3 * ((Len(f) + 2) * (2 * Retries)) + 3 * Capacity + 3 * MaxDup

(* io sends requests of the transfer in progress and nothing behind the    *)
(* end of its file; a queue never holds more than it has room for.         *)
InTransfer(f, m) ==
  /\ m.cmd \in {NB_SEND_FILE, NB_DATA, NB_BOOT}
  /\ m.cmd = NB_DATA => After(m) <= Len(f)

QueuesFit == Len(toDevice) <= Capacity /\ Len(toHost) <= Capacity

WorkInv ==
  /\ TypeInv
  /\ QueuesFit
  /\ Active => InTransfer(xferFile[Port], msg)

(* A queue is shorter by the datagram taken out of it.                     *)
LEMMA WithoutLength ==
  ASSUME NEW S, NEW q \in Seq(S), NEW i \in DOMAIN q
  PROVE  Len(Without(q, i)) = Len(q) - 1
<1>1. i \in 1 .. Len(q)
  OBVIOUS
<1>2. /\ SubSeq(q, 1, i - 1) \in Seq(S) /\ SubSeq(q, i + 1, Len(q)) \in Seq(S)
      /\ Len(SubSeq(q, 1, i - 1)) = i - 1
      /\ Len(SubSeq(q, i + 1, Len(q))) = Len(q) - i
  BY <1>1
<1>3. Len(Without(q, i))
        = Len(SubSeq(q, 1, i - 1)) + Len(SubSeq(q, i + 1, Len(q)))
  BY <1>2, Joined, Zenon DEF Without
<1>4. Len(Without(q, i)) = (i - 1) + (Len(q) - i)
  BY <1>2, <1>3, Zenon
<1> QED
  BY <1>1, <1>4

(* A queue is longer by the datagram the network repeated.                 *)
LEMMA TwiceLength ==
  ASSUME NEW S, NEW q \in Seq(S), NEW i \in DOMAIN q
  PROVE  Len(Twice(q, i)) = Len(q) + 1
<1>1. i \in 1 .. Len(q) /\ q[i] \in S
  OBVIOUS
<1>2. /\ SubSeq(q, 1, i - 1) \in Seq(S) /\ SubSeq(q, i, Len(q)) \in Seq(S)
      /\ <<q[i]>> \in Seq(S) /\ Len(<<q[i]>>) = 1
      /\ Len(SubSeq(q, 1, i - 1)) = i - 1
      /\ Len(SubSeq(q, i, Len(q))) = Len(q) - i + 1
  BY <1>1
<1>3. /\ SubSeq(q, 1, i - 1) \o <<q[i]>> \in Seq(S)
      /\ Len(SubSeq(q, 1, i - 1) \o <<q[i]>>)
           = Len(SubSeq(q, 1, i - 1)) + Len(<<q[i]>>)
  BY <1>2, Joined, Zenon
<1>4. Len(Twice(q, i)) = Len(SubSeq(q, 1, i - 1) \o <<q[i]>>)
                          + Len(SubSeq(q, i, Len(q)))
  BY <1>2, <1>3, Joined, Zenon DEF Twice
<1> QED
  BY <1>1, <1>2, <1>3, <1>4

(* A datagram sent makes its queue longer by one, unless the queue is full.*)
LEMMA PushLength ==
  ASSUME NEW S, NEW q \in Seq(S), NEW m \in S, Len(q) <= Capacity
  PROVE  Len(Push(q, m)) \in {Len(q), Len(q) + 1} /\ Len(Push(q, m)) <= Capacity
BY LinkAssumption DEF Push

(* One more request costs all its tries.                                   *)
LEMMA OneRequestLess ==
  ASSUME NEW a \in Nat, NEW b \in Nat, NEW c \in Nat, a < b
  PROVE  a * c \in Nat /\ b * c \in Nat /\ a * c + c <= b * c
<1> DEFINE d == b - a - 1
<1>1. d \in Nat /\ b = a + 1 + d
  OBVIOUS
<1>2. a * c \in Nat /\ d * c \in Nat /\ b * c \in Nat
  OBVIOUS
<1>3. b * c = a * c + c + d * c
  BY <1>1
<1> HIDE DEF d
<1> DEFINE x == a * c  y == b * c  z == d * c
<1>4. x \in Nat /\ y \in Nat /\ z \in Nat /\ y = x + c + z
  BY <1>2, <1>3, Zenon
<1> HIDE DEF x, y, z
<1>5. x + c <= y
  BY <1>4
<1> QED
  BY <1>2, <1>5, Zenon DEF x, y

(* The device takes a request out of a queue for every acknowledgement it  *)
(* puts into the other one, and never puts a request into a queue.         *)
LEMMA DeviceWork ==
  ASSUME LinkTypeOK, QueuesFit, DeviceNext
  PROVE  /\ QueuesFit'
         /\ 2 * Len(toDevice') + Len(toHost') <= 2 * Len(toDevice) + Len(toHost)
<1> USE DEF QueuesFit
<1>q. /\ toDevice \in Seq(Request) /\ toHost \in Seq(Ack)
      /\ Len(toDevice) \in Nat /\ Len(toHost) \in Nat
  BY DEF LinkTypeOK
<1>1. CASE Receive
  <2>1. PICK i \in Deliverable(toDevice) :
          udp6_recv(toDevice[i]) /\ toDevice' = Without(toDevice, i)
    BY <1>1, Zenon DEF Receive
  <2>2. i \in DOMAIN toDevice
    BY <2>1, DeliverableInQueue, Zenon
  <2>3. Len(toDevice') = Len(toDevice) - 1
    BY <1>q, <2>1, <2>2, WithoutLength, Zenon
  <2>4. Len(toHost') \in {Len(toHost), Len(toHost) + 1}
        /\ Len(toHost') <= Capacity
    <3>1. ASSUME NEW c, NEW a, Transmit(toDevice[i], c, a)
          PROVE  \E r : toHost' = Push(toHost, r)
      BY <3>1, Zenon DEF Transmit
    <3>2. toHost' = toHost \/ \E r : toHost' = Push(toHost, r)
      BY <2>1, <3>1, Zenon
         DEF udp6_recv, ResendAck, RecvCommand, RecvSendFile, RecvData,
             StoreData, RefuseData, RecvBoot, RecvBadCmd, RecvIgnored,
             Acknowledge
    <3>3. ASSUME NEW r, toHost' = Push(toHost, r)
          PROVE  Len(toHost') \in {Len(toHost), Len(toHost) + 1}
                 /\ Len(toHost') <= Capacity
      <4>1. toHost \in Seq(Ack \cup {r}) /\ r \in Ack \cup {r}
        BY <1>q
      <4> QED
        BY <3>3, <4>1, PushLength, Zenon
    <3> QED
      BY <3>2, <3>3, Zenon
  <2> QED
    BY <1>q, <2>3, <2>4, LinkAssumption
<1>2. CASE MainBootKernel
  <2>1. toDevice' = toDevice
        /\ toHost' \in {toHost, SubSeq(toHost, 1, Len(toHost) - 1)}
    BY <1>2, Zenon DEF MainBootKernel
  <2>2. Len(SubSeq(toHost, 1, Len(toHost) - 1)) <= Len(toHost)
    BY <1>q
  <2>3. Len(toHost') \in Int /\ Len(toHost') <= Len(toHost)
    BY <1>q, <2>1, <2>2
  <2> QED
    BY <1>q, <2>1, <2>3, LinkAssumption
<1>3. CASE DeviceReset
  <2>1. toHost' = toHost /\ toDevice' \in {<<>>, toDevice}
    BY <1>3, Zenon DEF DeviceReset
  <2>2. Len(toDevice') \in Nat /\ Len(toDevice') <= Len(toDevice)
    BY <1>q, <2>1
  <2> QED
    BY <1>q, <2>1, <2>2, LinkAssumption
<1>4. CASE PollGoOnline \/ PollTimerExpired \/ TimerFires \/ MainBootRefused
           \/ MainStartImage \/ AppReturns \/ BootKernelReturns
  <2>1. UNCHANGED <<toDevice, toHost>>
    BY <1>4, Zenon DEF PollGoOnline, PollTimerExpired, TimerFires, MainBootRefused,
                MainStartImage, AppReturns, BootKernelReturns, linkVars
  <2> QED
    BY <1>q, <2>1, SMTT(60)
<1> QED
  BY <1>1, <1>2, <1>3, <1>4, Zenon DEF DeviceNext, MainBoot

(* A datagram the network repeats is paid for by one duplication less; one *)
(* it loses costs nothing.                                                 *)
LEMMA LinkWork ==
  ASSUME LinkTypeOK, QueuesFit, LinkNext
  PROVE  QueuesFit' /\ UnderWay' <= UnderWay
<1> USE DEF QueuesFit, UnderWay
<1>q. /\ toDevice \in Seq(Request) /\ toHost \in Seq(Ack)
      /\ Len(toDevice) \in Nat /\ Len(toHost) \in Nat
      /\ dups \in Nat /\ MaxDup \in Nat /\ Capacity \in Nat
  BY LinkAssumption DEF LinkTypeOK
<1>1. CASE Lose
  <2>1. dups' = dups
    BY <1>1, Zenon DEF Lose
  <2>2. CASE LoseRequest
    <3>1. toHost' = toHost /\ Len(toDevice') = Len(toDevice) - 1
      BY <1>q, <2>2, WithoutLength, Zenon DEF LoseRequest
    <3> QED
      BY <1>q, <2>1, <3>1
  <2>3. CASE LoseAck
    <3>1. toDevice' = toDevice /\ Len(toHost') = Len(toHost) - 1
      BY <1>q, <2>3, WithoutLength, Zenon DEF LoseAck
    <3> QED
      BY <1>q, <2>1, <3>1
  <2>4. CASE LoseBeacon
    BY <1>q, <2>1, <2>4 DEF LoseBeacon
  <2> QED
    BY <1>1, <2>2, <2>3, <2>4, Zenon DEF Lose
<1>2. CASE Duplicate
  <2>1. dups' = dups + 1
    BY <1>2, Zenon DEF Duplicate
  <2>2. CASE DuplicateRequest
    <3>1. /\ toHost' = toHost /\ Len(toDevice') = Len(toDevice) + 1
          /\ Len(toDevice) < Capacity
      BY <1>q, <2>2, TwiceLength, Zenon DEF DuplicateRequest
    <3> QED
      BY <1>q, <2>1, <3>1
  <2>3. CASE DuplicateAck
    <3>1. /\ toDevice' = toDevice /\ Len(toHost') = Len(toHost) + 1
          /\ Len(toHost) < Capacity
      BY <1>q, <2>3, TwiceLength, Zenon DEF DuplicateAck
    <3> QED
      BY <1>q, <2>1, <3>1
  <2> QED
    BY <1>2, <2>2, <2>3, Zenon DEF Duplicate
<1> QED
  BY <1>1, <1>2, Zenon DEF LinkNext

(* The request that follows an acknowledged one belongs to the transfer    *)
(* and brings its end nearer: fread returned a block that is not empty, or *)
(* the end of the file.                                                    *)
LEMMA NextIsNearer ==
  ASSUME NEW f \in Seq(Byte), NEW m \in Request, NEW c,
         InTransfer(f, m), m.cmd # NB_BOOT,
         NEW n, n = [NextMsg(f, m) EXCEPT !.cookie = c]
  PROVE  /\ InTransfer(f, n)
         /\ RequestsLeft(f, n) \in Nat /\ RequestsLeft(f, m) \in Nat
         /\ RequestsLeft(f, n) < RequestsLeft(f, m)
<1> USE DEF NB_SEND_FILE, NB_DATA, NB_BOOT
<1>1. After(m) \in Nat /\ After(m) <= Len(f) /\ Len(f) \in Nat
  BY DEF After, InTransfer, Request
<1>2. CASE After(m) < Len(f)
  <2>1. /\ Block(f, After(m)) \in Seq(Byte) /\ Len(Block(f, After(m))) \in Nat
        /\ Len(Block(f, After(m))) > 0
        /\ After(m) + Len(Block(f, After(m))) <= Len(f)
    BY <1>1, <1>2, BlockOfFile
  <2>2. /\ n.cmd = NB_DATA /\ n.arg = After(m)
        /\ n.data = Block(f, After(m))
    BY <1>2, Zenon DEF NextMsg, DataMsg
  <2>3. After(n) = After(m) + Len(Block(f, After(m)))
    BY <2>2, Zenon DEF After
  <2> QED
    BY <1>1, <2>1, <2>2, <2>3 DEF InTransfer, RequestsLeft
<1>3. CASE ~(After(m) < Len(f))
  <2>1. n.cmd = NB_BOOT
    BY <1>3, Zenon DEF NextMsg, BootMsg
  <2> QED
    BY <1>1, <2>1 DEF InTransfer, RequestsLeft
<1> QED
  BY <1>2, <1>3, Zenon

(* What is left is a number, bounded by the file, the retries, the room in *)
(* the queues and the duplications the network may still make.             *)
LEMMA WorkIsBounded ==
  ASSUME WorkInv
  PROVE  /\ IoLeft \in Nat /\ UnderWay \in Nat
         /\ UnderWay <= 3 * Capacity + 3 * MaxDup
         /\ Active =>
              /\ RequestsLeft(xferFile[Port], msg) \in Nat
              /\ IoLeft > 0
              /\ IoLeft <= (Len(xferFile[Port]) + 2) * (2 * Retries)
<1>1. UnderWay \in Nat /\ UnderWay <= 3 * Capacity + 3 * MaxDup
  BY LinkAssumption DEF WorkInv, QueuesFit, UnderWay, TypeInv, TypeOK, LinkTypeOK
<1>2. CASE ~Active
  BY <1>1, <1>2, Zenon DEF IoLeft
<1>3. CASE Active
  <2> DEFINE f == xferFile[Port]
             n == RequestsLeft(f, msg)
             c == 2 * Retries
             t == IF hpc = "write" THEN 2 * retries ELSE 2 * retries - 1
  <2>1. f \in Seq(Byte) /\ Len(f) \in Nat
    BY <1>3, HostAssumption DEF WorkInv, TypeInv, TypeOK, HostTypeOK, Port
  <2>2. n \in Nat /\ n < Len(f) + 2
    <3>1. After(msg) \in Nat
      BY DEF WorkInv, TypeInv, TypeOK, HostTypeOK, After, Request
    <3> QED
      BY <1>3, <2>1, <3>1 DEF WorkInv, InTransfer, RequestsLeft, After
  <2>3. t \in Nat /\ t > 0 /\ t <= c /\ c \in Nat
    BY <1>3, HostAssumption DEF WorkInv, TypeInv, TypeOK, HostTypeOK
  <2>4. IoLeft = n * c + t
    BY <1>3, Zenon DEF IoLeft
  <2>l. Len(f) + 2 \in Nat
    BY <2>1
  <2> DEFINE l == Len(f) + 2
  <2> HIDE DEF n, c, t, f, l
  <2>5. n * c \in Nat /\ l * c \in Nat /\ n * c + c <= l * c
    BY <2>2, <2>3, <2>l, OneRequestLess, Zenon DEF l
  <2> DEFINE x == n * c  y == l * c
  <2>6. x \in Nat /\ y \in Nat /\ x + c <= y /\ IoLeft = x + t
    BY <2>4, <2>5, Zenon
  <2> HIDE DEF x, y
  <2>7. IoLeft \in Nat /\ IoLeft > 0 /\ IoLeft <= y
    BY <2>3, <2>6
  <2> QED
    BY <1>1, <2>2, <2>7, Zenon DEF n, f, y, l, c
<1> QED
  BY <1>2, <1>3, Zenon

(* ... and remains a number, while the invariant holds.                    *)
LEMMA WorkStaysNumber == WorkInv' => (IoLeft \in Nat /\ UnderWay \in Nat)'
<1>1. WorkInv => IoLeft \in Nat /\ UnderWay \in Nat
  BY WorkIsBounded, Zenon
<1> QED
  BY <1>1, PTL

(* One step of io less outweighs the request it puts under way.            *)
LEMMA LessWork ==
  ASSUME NEW a \in Int, NEW b \in Int, NEW u \in Int, NEW v \in Int
  PROVE  /\ b < a /\ v <= u + 2 => 3 * b + v < 3 * a + u
         /\ b <= a /\ v <= u => 3 * b + v <= 3 * a + u
OBVIOUS

(* Every step of the server in a transfer brings its end nearer: io writes *)
(* once for each try, and each datagram it reads is one less.              *)
LEMMA HostWork ==
  ASSUME WorkInv, HostRun \/ IoTimeout
  PROVE  /\ QueuesFit'
         /\ Active' => InTransfer(xferFile[Port]', msg')
         /\ Active => WorkLeft' < WorkLeft
<1> DEFINE GoesOn == QueuesFit' /\ (Active' => InTransfer(xferFile[Port]', msg'))
<1>q. /\ toDevice \in Seq(Request) /\ toHost \in Seq(Ack) /\ msg \in Request
      /\ Len(toDevice) \in Nat /\ Len(toHost) \in Nat
      /\ dups \in Nat /\ MaxDup \in Nat /\ Capacity \in Nat
      /\ Len(toDevice) <= Capacity /\ Len(toHost) <= Capacity
  BY LinkAssumption
     DEF WorkInv, TypeInv, TypeOK, LinkTypeOK, HostTypeOK, QueuesFit
<1>n. /\ IoLeft \in Nat /\ UnderWay \in Nat /\ (Active => IoLeft > 0)
      /\ Active => RequestsLeft(xferFile[Port], msg) \in Nat
  BY WorkIsBounded, Zenon
<1>a. Retries \in Nat /\ retries \in Nat /\ (Active => retries > 0)
  BY HostAssumption DEF WorkInv, TypeInv, TypeOK, HostTypeOK
<1>w. WorkLeft = 3 * IoLeft + UnderWay /\ WorkLeft' = 3 * IoLeft' + UnderWay'
  BY Zenon DEF WorkLeft
<1>e. ASSUME ~Active', UnderWay' \in Nat, UnderWay' <= UnderWay
      PROVE  Active => WorkLeft' < WorkLeft
  <2>1. IoLeft' = 0
    BY <1>e, Zenon DEF IoLeft
  <2>2. /\ IoLeft \in Int /\ IoLeft' \in Int
        /\ UnderWay \in Int /\ UnderWay' \in Int
        /\ UnderWay' <= UnderWay + 2
        /\ IoLeft > 0 => IoLeft' < IoLeft
    BY <1>e, <1>n, <2>1
  <2>3. IoLeft > 0 => WorkLeft' < WorkLeft
    BY <1>w, <2>2, LessWork, Zenon
  <2> QED
    BY <1>n, <2>3, Zenon
<1>l. ASSUME UNCHANGED <<toDevice, toHost, dups>>
      PROVE  QueuesFit' /\ UnderWay' = UnderWay
  BY <1>l, <1>q, Zenon DEF QueuesFit, UnderWay
<1>r. ASSUME NEW i \in Deliverable(toHost), toHost' = Without(toHost, i),
             UNCHANGED <<toDevice, dups>>
      PROVE  QueuesFit' /\ UnderWay' = UnderWay - 1 /\ UnderWay' \in Nat
  <2>1. i \in DOMAIN toHost
    BY DeliverableInQueue, Zenon
  <2>2. Len(toHost') = Len(toHost) - 1 /\ Len(toHost) > 0
    BY <1>q, <1>r, <2>1, WithoutLength
  <2>3. dups <= MaxDup
    BY DEF WorkInv, TypeInv, TypeOK, LinkTypeOK
  <2> QED
    BY <1>r, <1>q, <2>2, <2>3 DEF QueuesFit, UnderWay
<1>1. CASE TakeBeacon
  <2>1. QueuesFit' /\ ~Active
    BY <1>1, <1>l, Zenon DEF TakeBeacon, Active
  <2>2. msg'.cmd = NB_SEND_FILE
    BY <1>1, Zenon DEF TakeBeacon, StartIo, SendFileMsg
  <2> QED
    BY <2>1, <2>2, Zenon DEF InTransfer, NB_SEND_FILE, NB_DATA
<1>2. CASE XferNotStarted \/ ListenFails \/ XferDone
  BY <1>2, <1>l, Zenon DEF XferNotStarted, ListenFails, XferDone, EndXfer, Active, linkVars
<1>3. CASE IoWrite
  <2>1. /\ hpc = "write" /\ hpc' = "read"
        /\ UNCHANGED <<retries, msg, xferFile, toHost, dups>>
        /\ toDevice' = Push(toDevice, msg)
    BY <1>3, Zenon DEF IoWrite
  <2>2. Len(toDevice') \in Nat /\ Len(toDevice') <= Len(toDevice) + 1
        /\ Len(toDevice') <= Capacity
    BY <1>q, <2>1, PushLength
  <2>3. QueuesFit' /\ UnderWay' <= UnderWay + 2 /\ UnderWay' \in Int
    BY <1>q, <2>1, <2>2 DEF QueuesFit, UnderWay
  <2>4. Active /\ Active' /\ InTransfer(xferFile[Port]', msg')
    BY <2>1, Zenon DEF Active, WorkInv, Port
  <2> DEFINE x == RequestsLeft(xferFile[Port], msg) * (2 * Retries)
  <2>5. x \in Int /\ IoLeft = x + 2 * retries /\ IoLeft' = x + (2 * retries - 1)
    <3>1. x \in Int
      BY <1>n, <1>a, <2>4
    <3> QED
      BY <3>1, <2>1, <2>4, Zenon DEF IoLeft, Port
  <2> HIDE DEF x
  <2>6. IoLeft' = IoLeft - 1 /\ IoLeft' \in Int
    BY <2>5, <1>a
  <2>7. IoLeft \in Int /\ UnderWay \in Int /\ IoLeft' < IoLeft
    BY <2>6, <1>n
  <2>8. WorkLeft' < WorkLeft
    BY <2>3, <2>6, <2>7, <1>w, LessWork, Zenon
  <2> QED
    BY <2>3, <2>4, <2>8, Zenon
<1>4. CASE IoRead
  <2>1. PICK i \in Deliverable(toHost) :
          /\ toHost[i].dport = Port
          /\ toHost' = Without(toHost, i)
          /\ IoReadOther(toHost[i]) \/ IoReadAck(toHost[i])
               \/ IoReadBootAck(toHost[i]) \/ FreadFails(toHost[i])
    BY <1>4, Zenon DEF IoRead
  <2>2. QueuesFit' /\ UnderWay' = UnderWay - 1 /\ UnderWay' \in Nat
    BY <1>4, <2>1, <1>r, Zenon DEF IoRead
  <2>a. hpc = "read" /\ Active /\ InTransfer(xferFile[Port], msg)
    BY <1>4, Zenon DEF IoRead, Active, WorkInv
  <2>3. CASE IoReadOther(toHost[i])
    <3>1. UNCHANGED hostVars
      BY <2>3, Zenon DEF IoReadOther
    <3>2. Active' /\ InTransfer(xferFile[Port]', msg') /\ IoLeft' = IoLeft
      BY <2>a, <3>1, Zenon DEF hostVars, Active, IoLeft, Port
    <3> QED
      BY <2>2, <3>2, <1>n DEF WorkLeft
  <2>4. CASE IoReadAck(toHost[i])
    <3> DEFINE f == xferFile[Port]
               n == RequestsLeft(f, msg)
               k == RequestsLeft(f, msg')
               c == 2 * Retries
    <3>1. /\ msg' = [NextMsg(f, msg) EXCEPT !.cookie = cookie]
          /\ retries' = Retries /\ hpc' = "write" /\ xferFile' = xferFile
          /\ msg.cmd # NB_BOOT
      BY <2>4, Zenon DEF IoReadAck, StartIo
    <3>2. f \in Seq(Byte)
      BY <2>a, HostAssumption DEF WorkInv, TypeInv, TypeOK, HostTypeOK, Port
    <3>3. InTransfer(f, msg') /\ k \in Nat /\ n \in Nat /\ k < n
      BY <1>q, <2>a, <3>1, <3>2, NextIsNearer, Zenon
    <3>4. Active' /\ InTransfer(xferFile[Port]', msg')
      BY <3>1, <3>3, Zenon DEF Active, Port
    <3>5. IoLeft = n * c + (2 * retries - 1) /\ IoLeft' = k * c + 2 * Retries
      BY <2>a, <3>1, <3>4, Zenon DEF IoLeft, Port
    <3>6. c \in Nat /\ c = 2 * Retries
      BY <1>a
    <3> HIDE DEF n, k, c
    <3>7. k * c \in Nat /\ n * c \in Nat /\ k * c + c <= n * c
      BY <3>3, <3>6, OneRequestLess, Zenon
    <3> DEFINE x == k * c  y == n * c
    <3>8. /\ x \in Nat /\ y \in Nat /\ x + c <= y
          /\ IoLeft = y + (2 * retries - 1) /\ IoLeft' = x + c
      BY <3>5, <3>6, <3>7, Zenon
    <3> HIDE DEF x, y
    <3>9. IoLeft' \in Nat /\ IoLeft' < IoLeft
      BY <1>a, <2>a, <3>6, <3>8
    <3>10. /\ IoLeft \in Int /\ IoLeft' \in Int /\ IoLeft' < IoLeft
           /\ UnderWay \in Int /\ UnderWay' \in Int
           /\ UnderWay' <= UnderWay + 2
      BY <2>2, <3>9, <1>n
    <3>11. WorkLeft' < WorkLeft
      BY <3>10, <1>w, LessWork, Zenon
    <3> QED
      BY <2>2, <3>4, <3>11, Zenon
  <2>5. CASE IoReadBootAck(toHost[i]) \/ FreadFails(toHost[i])
    <3>1. ~Active'
      BY <2>5, Zenon DEF IoReadBootAck, FreadFails, EndXfer, Active
    <3> QED
      BY <1>e, <1>n, <2>2, <3>1
  <2> QED
    BY <2>1, <2>3, <2>4, <2>5, Zenon
<1>5. CASE AckToClosedSocket
  <2>1. PICK i \in Deliverable(toHost) : toHost' = Without(toHost, i)
    BY <1>5, Zenon DEF AckToClosedSocket
  <2>2. QueuesFit' /\ UnderWay' = UnderWay - 1 /\ UnderWay' \in Nat
    BY <1>5, <2>1, <1>r, Zenon DEF AckToClosedSocket
  <2>3. UNCHANGED hostVars
    BY <1>5, Zenon DEF AckToClosedSocket
  <2>4. /\ Active' => InTransfer(xferFile[Port]', msg')
        /\ IoLeft' = IoLeft
    BY <2>3, Zenon DEF hostVars, Active, IoLeft, Port, WorkInv
  <2> QED
    BY <2>2, <2>4, <1>n DEF WorkLeft
<1>6. CASE IoTimeout
  <2>1. hpc = "read" /\ Active /\ retries' = retries - 1
        /\ UNCHANGED <<msg, xferFile, toDevice, toHost, dups>>
    BY <1>6, Zenon DEF IoTimeout, Active, linkVars
  <2>2. QueuesFit' /\ UnderWay' = UnderWay
    BY <2>1, <1>l, Zenon
  <2>3. CASE hpc' = "write"
    <3>1. Active' /\ InTransfer(xferFile[Port]', msg')
      BY <2>1, <2>3, Zenon DEF Active, WorkInv, Port
    <3> DEFINE x == RequestsLeft(xferFile[Port], msg) * (2 * Retries)
    <3>2. /\ x \in Int /\ IoLeft = x + (2 * retries - 1)
          /\ IoLeft' = x + 2 * (retries - 1)
      <4>1. x \in Int
        BY <1>n, <1>a, <2>1
      <4> QED
        BY <4>1, <2>1, <2>3, <3>1, Zenon DEF IoLeft, Port
    <3> HIDE DEF x
    <3>3. IoLeft' = IoLeft - 1
      BY <3>2, <1>a
    <3> QED
      BY <2>2, <3>1, <3>3, <1>n DEF WorkLeft
  <2>4. CASE hpc' = "end"
    BY <2>2, <2>4, <1>e, <1>n DEF Active
  <2> QED
    BY <1>6, <2>3, <2>4, Zenon DEF IoTimeout, EndXfer
<1>7. CASE IoError \/ HostRestart
  <2>1. ~Active' /\ UNCHANGED <<toDevice, toHost, dups>>
    BY <1>7, Zenon DEF IoError, HostRestart, EndXfer, Active, linkVars
  <2> QED
    BY <2>1, <1>l, <1>e, <1>n
<1> QED
  BY <1>1, <1>2, <1>3, <1>4, <1>5, <1>6, <1>7, Zenon DEF HostRun

(* Every step keeps the queues within their room and io within the file of *)
(* its transfer.  In a transfer no step adds work, whoever takes it, and   *)
(* every step of the server takes some away.                               *)
LEMMA WorkStep ==
  ASSUME WorkInv, [Next]_vars
  PROVE  /\ WorkInv'
         /\ Active => WorkLeft' <= WorkLeft
         /\ Active /\ (HostStep \/ Timeout) => WorkLeft' < WorkLeft
<1>t. TypeInv'
  BY TypeInvStep, Zenon DEF WorkInv
<1>w. WorkLeft = 3 * IoLeft + UnderWay /\ WorkLeft' = 3 * IoLeft' + UnderWay'
  BY Zenon DEF WorkLeft
<1>n. IoLeft \in Nat /\ UnderWay \in Nat /\ WorkLeft \in Nat
  BY WorkIsBounded DEF WorkLeft
<1>1. CASE HostStep \/ Timeout
  <2>1. /\ QueuesFit' /\ (Active' => InTransfer(xferFile[Port]', msg'))
        /\ Active => WorkLeft' < WorkLeft
    BY <1>1, HostWork, Zenon DEF HostStep, Timeout
  <2>2. WorkInv'
    BY <1>t, <2>1, Zenon DEF WorkInv
  <2>3. WorkLeft' \in Nat
    BY <1>w, <2>2, WorkStaysNumber
  <2> QED
    BY <1>n, <2>1, <2>2, <2>3
<1>2. ASSUME UNCHANGED hostVars, QueuesFit', UnderWay' \in Int, UnderWay' <= UnderWay,
             ~(HostStep \/ Timeout)
      PROVE  /\ WorkInv' /\ WorkLeft' <= WorkLeft
  <2>1. IoLeft' = IoLeft /\ (Active' => InTransfer(xferFile[Port]', msg'))
    BY <1>2, Zenon DEF hostVars, IoLeft, Active, Port, WorkInv
  <2>2. WorkInv'
    BY <1>2, <1>t, <2>1, Zenon DEF WorkInv
  <2>3. /\ IoLeft \in Int /\ IoLeft' \in Int /\ IoLeft' <= IoLeft
        /\ UnderWay \in Int
    BY <1>n, <2>1
  <2>4. WorkLeft' <= WorkLeft
    BY <1>2, <1>w, <2>3, LessWork, Zenon
  <2> QED
    BY <2>2, <2>4, Zenon
<1>q. /\ Len(toDevice) \in Nat /\ Len(toHost) \in Nat
      /\ Len(toDevice') \in Nat /\ Len(toHost') \in Nat
      /\ dups \in Nat /\ dups' \in Nat /\ MaxDup \in Nat
      /\ LinkTypeOK /\ QueuesFit
  BY <1>t, LinkAssumption DEF WorkInv, TypeInv, TypeOK, LinkTypeOK
<1>3. CASE DeviceStep /\ ~(HostStep \/ Timeout)
  <2>1. QueuesFit'
        /\ 2 * Len(toDevice') + Len(toHost') <= 2 * Len(toDevice) + Len(toHost)
    BY <1>3, <1>q, DeviceWork, Zenon DEF DeviceStep
  <2>2. dups' = dups
    BY <1>3, DeviceStepType, Zenon DEF DeviceStep, WorkInv, TypeInv, TypeOK, LinkTypeOK
  <2>3. UnderWay' \in Int /\ UnderWay' <= UnderWay
    BY <1>q, <2>1, <2>2 DEF UnderWay
  <2> QED
    BY <1>2, <1>3, <2>1, <2>3, Zenon DEF DeviceStep
<1>4. CASE LinkStep /\ ~(HostStep \/ Timeout)
  <2>1. QueuesFit' /\ UnderWay' <= UnderWay
    BY <1>4, <1>q, LinkWork, Zenon DEF LinkStep
  <2>2. UnderWay' \in Int
    BY <1>q DEF UnderWay
  <2> QED
    BY <1>2, <1>4, <2>1, <2>2, Zenon DEF LinkStep
<1>5. CASE UNCHANGED vars /\ ~(HostStep \/ Timeout)
  <2>1. UNCHANGED <<hostVars, toDevice, toHost, dups>>
    BY <1>5, Zenon DEF vars, linkVars
  <2>2. QueuesFit' /\ UnderWay' = UnderWay
    BY <1>q, <2>1, Zenon DEF QueuesFit, UnderWay
  <2> QED
    BY <1>2, <1>5, <1>n, <2>1, <2>2
<1> QED
  BY <1>1, <1>3, <1>4, <1>5, Zenon DEF Next

(* Before the first beacon nothing is under way.                           *)
LEMMA WorkInit == Init => WorkInv
<1> SUFFICES ASSUME Init PROVE WorkInv
  OBVIOUS
<1>1. QueuesFit
  BY NothingYet, LinkAssumption DEF Init, LinkInit, QueuesFit
<1>2. ~Active
  BY Zenon DEF Init, HostInit, Active
<1> QED
  BY <1>1, <1>2, TypeInvInit, Zenon DEF WorkInv

(* The safety half of TransferEnds, for every network: from the moment     *)
(* main takes a beacon, xfer returns within a number of steps of the       *)
(* server that the length of the file, io's retries, the room in the       *)
(* queues and the duplications of the network bound.  No step of the       *)
(* device or the network puts the end off, so that acknowledgements io did *)
(* not expect, which send it back to its read, cannot keep it there.       *)
THEOREM TransferStepsBounded ==
  Spec => /\ [](Active => WorkLeft \in 1 .. MaxWork(xferFile[Port]))
          /\ [][Active => /\ WorkLeft' <= WorkLeft
                          /\ HostStep \/ Timeout => WorkLeft' < WorkLeft]_vars
<1>1. ASSUME WorkInv PROVE Active => WorkLeft \in 1 .. MaxWork(xferFile[Port])
  <2> SUFFICES ASSUME Active PROVE WorkLeft \in 1 .. MaxWork(xferFile[Port])
    BY Zenon
  <2> DEFINE y == (Len(xferFile[Port]) + 2) * (2 * Retries)
  <2>1. /\ IoLeft \in Nat /\ UnderWay \in Nat
        /\ UnderWay <= 3 * Capacity + 3 * MaxDup
        /\ IoLeft > 0 /\ IoLeft <= y
    BY <1>1, WorkIsBounded, Zenon
  <2>2. y \in Int /\ MaxWork(xferFile[Port]) = 3 * y + 3 * Capacity + 3 * MaxDup
    BY <1>1, HostAssumption, LinkAssumption
       DEF MaxWork, WorkInv, TypeInv, TypeOK, HostTypeOK, Port
  <2> HIDE DEF y
  <2> QED
    BY <2>1, <2>2, LinkAssumption DEF WorkLeft
<1>2. WorkInv /\ [Next]_vars
        => WorkInv' /\ [Active => /\ WorkLeft' <= WorkLeft
                                  /\ HostStep \/ Timeout => WorkLeft' < WorkLeft]_vars
  BY WorkStep, Zenon
<1> QED
  BY <1>1, <1>2, WorkInit, PTL DEF Spec
=============================================================================
