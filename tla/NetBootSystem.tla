--------------------------- MODULE NetBootSystem ---------------------------
(***************************************************************************)
(* A server (NbServer) and a device (NetBoot) on one network segment       *)
(* (Link): the file on the host becomes the image the device boots.        *)
(***************************************************************************)
EXTENDS NetBoot, NbServer

CONSTANT
  Patient     \* TRUE: a read only times out when no answer can come

ASSUME PatientAssumption == Patient \in BOOLEAN

vars == <<deviceVars, hostVars, linkVars>>

Init == LinkInit /\ DeviceInit /\ HostInit

(* No request is under way that a device in its loop would answer, and no  *)
(* answer is.                                                              *)
NoAnswerUnderWay ==
  /\ \A i \in DOMAIN toHost : toHost[i].dport # Port
  /\ toDevice = <<>> \/ pc \in {"app", "kernel", "failed"}

Timeout ==
  /\ Patient => NoAnswerUnderWay
  /\ IoTimeout
  /\ UNCHANGED deviceVars

DeviceStep == DeviceNext /\ UNCHANGED hostVars

HostStep == HostRun /\ UNCHANGED deviceVars

LinkStep == LinkNext /\ UNCHANGED <<deviceVars, hostVars>>

Next == DeviceStep \/ HostStep \/ Timeout \/ LinkStep

Spec == Init /\ [][Next]_vars

(* The statics of netboot.c, the locals of nbserver.c and the queues keep  *)
(* their types, the retries of io within their budget.                     *)
TypeOK == LinkTypeOK /\ DeviceTypeOK /\ HostTypeOK

-----------------------------------------------------------------------------
(* The bytes received for the kernel, as a file.                           *)
Image == [i \in 1 .. offset["nbkernel"] |-> data["nbkernel"][i - 1]]

(* Every byte counted by nbkernel.offset stands where it stands in a file  *)
(* the server sent: whatever the network loses, repeats or reorders, and   *)
(* however often the server restarts with the same cookies, NB_DATA's test *)
(* of arg against offset never puts a byte at a wrong address.             *)
BytesInPlace ==
  \A i \in DOMAIN Image :
    \E f \in Files : i \in DOMAIN f /\ Image[i] = f[i]

(* The image launched is the whole file of the transfer whose BOOT request *)
(* was obeyed, on a network that keeps the order of datagrams: stale       *)
(* retransmissions, lost acknowledgements, restarts of the server, resets  *)
(* of the device and a queued second BOOT never make the device run a      *)
(* truncated or a mixed image.                                             *)
BootsWholeFile ==
  pc \in {"app", "kernel"} =>
    bootPort \in DOMAIN xferFile /\ Image = xferFile[bootPort]

(* Delivery, seen in the server's transfers and the device's buffer.       *)
Running == IF pc \in {"app", "kernel"} THEN {Image} ELSE {}

Delivered == INSTANCE Delivery WITH offered <- xferFile, running <- Running

(* On a network that keeps the order of datagrams, server and device       *)
(* implement Delivery: what MainStartImage or MainBootKernel launches is a *)
(* whole file the server offered, and no late datagram changes it while it *)
(* runs.                                                                   *)
DeliverySpec == Delivered!Spec

(* The two ends agree on the position: while io sends a block, the device  *)
(* expects that block or has just stored it; while it sends BOOT, the      *)
(* device holds the whole file.                                            *)
InStep ==
  hpc \in {"write", "read"} /\ msg.cmd \in {NB_DATA, NB_BOOT} /\ resets = 0 =>
    /\ item = "nbkernel"
    /\ msg.cmd = NB_DATA => offset[item] \in {msg.arg, After(msg)}
    /\ msg.cmd = NB_BOOT => Image = xferFile[Port]

(* Why BootsWholeFile holds: an invariant on the datagrams under way.      *)
(* Every request is one the server can send in its transfer.               *)
Genuine(m) ==
  /\ m.sport \in DOMAIN xferFile
  /\ \/ m.cmd = NB_SEND_FILE /\ m.arg = 0 /\ m.name = "kernel.bin"
     \/ /\ m.cmd = NB_DATA /\ m.arg < Len(xferFile[m.sport])
        /\ m.data = Block(xferFile[m.sport], m.arg)
     \/ m.cmd = NB_BOOT /\ m.arg = 0

(* n may come behind m in the queue: the same request again, the one that  *)
(* follows it in its transfer, or the start of a later transfer.           *)
Follows(m, n) ==
  \/ n = m
  \/ /\ m.cmd # NB_BOOT
     /\ n = [NextMsg(xferFile[m.sport], m) EXCEPT !.cookie = m.cookie + 1]
  \/ n.cmd = NB_SEND_FILE /\ n.sport > m.sport

(* The device lost its download to a reset.                                *)
Dead == item = NULL /\ resets > 0

(* The device holds the first n bytes of the file of transfer p.           *)
Holds(p, n) ==
  /\ item = "nbkernel"
  /\ n <= Len(xferFile[p])
  /\ offset["nbkernel"] = n
  /\ \A i \in 1 .. n : data["nbkernel"][i - 1] = xferFile[p][i]

(* The device is where request m leaves it.                                *)
Done(m) == Dead \/ Holds(m.sport, After(m))

(* The device is where request m needs it, or where m leaves it.           *)
Ready(m) ==
  \/ m.cmd = NB_SEND_FILE
  \/ m.cmd = NB_DATA /\ (Done(m) \/ Holds(m.sport, m.arg))
  \/ m.cmd = NB_BOOT /\ (Dead \/ Holds(m.sport, Len(xferFile[m.sport])))

(* The device remembers m as the block it stored last.                     *)
Remembered(m) ==
  /\ m.cmd = NB_DATA /\ last_cmd = NB_DATA /\ last_ack_cmd = NB_ACK
  /\ m.cookie = last_cookie

RequestOK(m) == Genuine(m) /\ Ready(m) /\ (Remembered(m) => Done(m))

(* The requests in the queue are in order and lead up to the current one.  *)
QueueOK ==
  /\ \A i \in DOMAIN toDevice :
       /\ RequestOK(toDevice[i])
       /\ Follows(toDevice[i], msg)
       /\ \A j \in DOMAIN toDevice : i < j => Follows(toDevice[i], toDevice[j])
  /\ toDevice # <<>> => msg.sport = Port

Active == hpc \in {"write", "read"}

(* The request io is sending is the latest one.                            *)
HostOK ==
  Active => RequestOK(msg) /\ msg.sport = Port /\ cookie = msg.cookie + 1

(* The device has handled the current request, and nothing older is left.  *)
Answered ==
  /\ Done(msg)
  /\ last_cmd = NB_DATA => last_cookie = msg.cookie
  /\ \A k \in DOMAIN toDevice : toDevice[k] = msg

(* An acknowledgement io would accept is only there when it is deserved.   *)
AckOK(a) ==
  /\ a.dport <= Port
  /\ Active /\ a.dport = Port =>
       /\ a.cookie <= msg.cookie
       /\ Expected(a) /\ msg.cmd # NB_BOOT => Answered

(* What the device is about to launch, or runs.                            *)
LaunchOK ==
  /\ item = NULL => offset["nbkernel"] = 0
  /\ nb_boot_now => pc = "main"
  /\ pc \in {"main", "app", "kernel"} =>
       /\ bootPort \in DOMAIN xferFile
       /\ offset["nbkernel"] = 0 \/ Image = xferFile[bootPort]
  /\ pc \in {"app", "kernel"} => offset["nbkernel"] # 0

(* With datagrams kept in order, the server's and the device's view of the *)
(* transfer never differ by more than the request under way: the inductive *)
(* invariant behind BootsWholeFile and InStep.                             *)
FifoInv ==
  /\ QueueOK
  /\ HostOK
  /\ \A i \in DOMAIN toHost : AckOK(toHost[i])
  /\ LaunchOK

(* Where the device stops serving: it runs what it received.               *)
Left == pc \in {"app", "kernel", "failed"}

(* A BOOT request launches one image: its retransmission after a lost      *)
(* acknowledgement is answered by sending the acknowledgement again, as    *)
(* udp6_recv's test for a repeated request intends.                        *)
BootOnce ==
  [][pc = "main" /\ pc' \in {"app", "kernel"} => bootPort \notin launched]_vars

(* io does not give up on a block because one datagram was lost: the       *)
(* request is retransmitted, or udp6_recv sends the acknowledgement that   *)
(* the host must have missed again.                                        *)
LossRepaired ==
  ~(hpc = "end" /\ status = "timedout" /\ msg.cmd = NB_DATA)

-----------------------------------------------------------------------------
(* Scheduling.  io runs until its request is acknowledged or given up: its *)
(* read blocks for 250 ms at most.                                         *)
HostIo ==
  \/ (IoWrite \/ IoRead \/ XferDone) /\ UNCHANGED deviceVars
  \/ Timeout

HostFairness == WF_vars(HostIo)

(* The device loops without blocking, so it gets to every datagram waiting *)
(* for it and to every expiry of its timer.                                *)
DeviceFairness ==
  /\ WF_vars(PollGoOnline /\ UNCHANGED hostVars)
  /\ WF_vars(PollTimerExpired /\ UNCHANGED hostVars)
  /\ WF_vars(TimerFires /\ UNCHANGED hostVars)
  /\ WF_vars(Receive /\ UNCHANGED hostVars)
  /\ WF_vars(MainBoot /\ UNCHANGED hostVars)

HostSpec == Spec /\ HostFairness

LiveSpec ==
  /\ Spec /\ HostFairness /\ DeviceFairness
  /\ WF_vars(TakeBeacon /\ UNCHANGED deviceVars)
  /\ WF_vars(AckToClosedSocket /\ UNCHANGED deviceVars)

(* xfer returns whatever the network and the device do: the retry budget   *)
(* of io bounds the wait even though every unexpected acknowledgement      *)
(* sends it back to its read.                                              *)
TransferEnds == hpc \in {"write", "read"} ~> hpc \in {"listen", "end", "exit"}

(* A kernel is booted in the end: after finitely many losses, restarts and *)
(* resets either a retransmission or a new transfer, started by a new      *)
(* advertisement, gets it to the device.                                   *)
NetBoots == <>(launched # {})

(* A device left alone advertises again: nb_active suppresses the beacon   *)
(* for one timer period, not for good.                                     *)
BeaconAgain == hpc = "listen" ~> (beacon \/ Left)
=============================================================================
