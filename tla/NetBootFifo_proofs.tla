------------------------- MODULE NetBootFifo_proofs -------------------------
(***************************************************************************)
(* On a network that keeps datagrams in order, the device only launches    *)
(* whole files: FifoInv is inductive and implies BootsWholeFile, InStep.   *)
(* First what it rests on: queues that lose and repeat elements, the       *)
(* request that follows a request, and what a request does to the device.  *)
(***************************************************************************)
EXTENDS NetBoot_proofs

-----------------------------------------------------------------------------
(* Queues.                                                                 *)

(* r holds elements of q, possibly repeated, in the order they have in q.  *)
Thins(r, q) ==
  /\ \A j \in DOMAIN r : \E k \in DOMAIN q : r[j] = q[k]
  /\ \A i, j \in DOMAIN r : i < j =>
       \E k, l \in DOMAIN q : (k < l \/ q[k] = q[l]) /\ r[i] = q[k] /\ r[j] = q[l]

(* The place in q of each element of Without(q, i).                       *)
LEMMA WithoutPlaces ==
  ASSUME NEW S, NEW q \in Seq(S), NEW i \in DOMAIN q
  PROVE  /\ DOMAIN Without(q, i) = 1 .. Len(q) - 1
         /\ \A j \in 1 .. Len(q) - 1 :
              /\ j < i => Without(q, i)[j] = q[j]
              /\ j >= i => Without(q, i)[j] = q[j + 1]
<1> DEFINE a == SubSeq(q, 1, i - 1)
           b == SubSeq(q, i + 1, Len(q))
<1>1. i \in 1 .. Len(q) /\ Len(q) \in Nat
  OBVIOUS
<1>2. /\ a \in Seq(S) /\ Len(a) = i - 1
      /\ \A j \in 1 .. i - 1 : a[j] = q[j]
  BY <1>1
<1>3. /\ b \in Seq(S) /\ Len(b) = Len(q) - i
      /\ \A j \in 1 .. Len(q) - i : b[j] = q[i + j]
  BY <1>1
<1> DEFINE r == a \o b
<1>4. Without(q, i) = r
  BY Zenon DEF Without
<1> HIDE DEF a, b
<1>5. /\ r \in Seq(S) /\ Len(r) = Len(a) + Len(b)
      /\ \A j \in 1 .. Len(a) + Len(b) :
           r[j] = IF j <= Len(a) THEN a[j] ELSE b[j - Len(a)]
  BY <1>2, <1>3, Joined, Zenon
<1> HIDE DEF r
<1>6. /\ DOMAIN r = 1 .. Len(q) - 1
      /\ \A j \in 1 .. Len(q) - 1 :
           r[j] = IF j <= i - 1 THEN a[j] ELSE b[j - (i - 1)]
  <2>1. Len(r) = Len(q) - 1 /\ DOMAIN r = 1 .. Len(r)
    BY <1>1, <1>2, <1>3, <1>5, SMTT(60)
  <2>2. Len(a) = i - 1 /\ Len(a) + Len(b) = Len(q) - 1
    BY <1>1, <1>2, <1>3
  <2> QED
    BY <1>5, <2>1, <2>2, Zenon
<1>7. ASSUME NEW j \in 1 .. Len(q) - 1
      PROVE  /\ j < i => r[j] = q[j]
             /\ j >= i => r[j] = q[j + 1]
  <2>1. CASE j < i
    BY <1>1, <1>2, <1>6, <2>1
  <2>2. CASE j >= i
    <3>1. r[j] = b[j - (i - 1)] /\ j - (i - 1) \in 1 .. Len(q) - i
      BY <1>1, <1>6, <2>2
    <3>2. i + (j - (i - 1)) = j + 1
      BY <1>1
    <3>3. b[j - (i - 1)] = q[i + (j - (i - 1))]
      BY <1>3, <3>1, Zenon
    <3>4. r[j] = q[j + 1]
      BY <3>1, <3>2, <3>3, Zenon
    <3>5. ~(j < i)
      BY <1>1, <2>2
    <3> QED
      BY <3>4, <3>5, Zenon
  <2> QED
    BY <1>1, <2>1, <2>2, Zenon
<1> QED
  BY <1>4, <1>6, <1>7, Zenon

(* Taking a datagram out keeps the order of the others.                    *)
LEMMA WithoutThins ==
  ASSUME NEW S, NEW q \in Seq(S), NEW i \in DOMAIN q
  PROVE  Thins(Without(q, i), q)
<1> DEFINE r == Without(q, i)
           at(j) == IF j < i THEN j ELSE j + 1
<1>1. DOMAIN r = 1 .. Len(q) - 1 /\ DOMAIN q = 1 .. Len(q) /\ Len(q) \in Nat
  BY WithoutPlaces
<1>2. \A j \in DOMAIN r : at(j) \in DOMAIN q /\ r[j] = q[at(j)]
  BY <1>1, WithoutPlaces
<1>3. \A j, k \in DOMAIN r : j < k => at(j) < at(k)
  BY <1>1
<1> HIDE DEF r, at
<1>4. \A j \in DOMAIN r : \E k \in DOMAIN q : r[j] = q[k]
  BY <1>2, Zenon
<1>5. \A j, k \in DOMAIN r : j < k =>
        \E m, n \in DOMAIN q : (m < n \/ q[m] = q[n]) /\ r[j] = q[m] /\ r[k] = q[n]
  BY <1>2, <1>3, Zenon
<1> QED
  BY <1>4, <1>5, Zenon DEF Thins, r

(* Taking the first datagram out leaves the ones behind it.                *)
LEMMA BehindFirst ==
  ASSUME NEW S, NEW q \in Seq(S), 1 \in DOMAIN q
  PROVE  \A j \in DOMAIN Without(q, 1) :
           j + 1 \in DOMAIN q /\ 1 < j + 1 /\ Without(q, 1)[j] = q[j + 1]
<1>1. DOMAIN q = 1 .. Len(q) /\ Len(q) \in Nat
  OBVIOUS
<1>2. /\ DOMAIN Without(q, 1) = 1 .. Len(q) - 1
      /\ \A j \in 1 .. Len(q) - 1 : j >= 1 => Without(q, 1)[j] = q[j + 1]
  BY WithoutPlaces, Zenon
<1> QED
  BY <1>1, <1>2

(* Repeating a datagram keeps the order.                                   *)
LEMMA DuplicateThins ==
  ASSUME NEW S, NEW q \in Seq(S), NEW i \in DOMAIN q
  PROVE  Thins(Twice(q, i), q)
<1> DEFINE a == SubSeq(q, 1, i - 1)
           b == SubSeq(q, i, Len(q))
           e == <<q[i]>>
           c == a \o e
           r == c \o b
           at(j) == IF j <= i THEN j ELSE j - 1
<1>1. i \in 1 .. Len(q) /\ Len(q) \in Nat /\ DOMAIN q = 1 .. Len(q) /\ q[i] \in S
  OBVIOUS
<1>2. /\ a \in Seq(S) /\ Len(a) = i - 1
      /\ \A j \in 1 .. i - 1 : a[j] = q[j]
  BY <1>1
<1>3. /\ b \in Seq(S) /\ Len(b) = Len(q) - i + 1
      /\ \A j \in 1 .. Len(q) - i + 1 : b[j] = q[i + j - 1]
  BY <1>1, SMTT(60)
<1>4. e \in Seq(S) /\ Len(e) = 1 /\ e[1] = q[i]
  BY <1>1
<1>5. Twice(q, i) = r
  BY Zenon DEF Twice
<1> HIDE DEF a, b, e
<1>6. /\ c \in Seq(S) /\ Len(c) = Len(a) + Len(e)
      /\ \A j \in 1 .. Len(a) + Len(e) :
           c[j] = IF j <= Len(a) THEN a[j] ELSE e[j - Len(a)]
  BY <1>2, <1>4, Joined, Zenon
<1>7. Len(c) = i /\ \A j \in 1 .. i : c[j] = q[j]
  BY <1>1, <1>2, <1>4, <1>6
<1> HIDE DEF c
<1>8. /\ r \in Seq(S) /\ Len(r) = Len(c) + Len(b)
      /\ \A j \in 1 .. Len(c) + Len(b) :
           r[j] = IF j <= Len(c) THEN c[j] ELSE b[j - Len(c)]
  BY <1>3, <1>6, Joined, SMTT(60)
<1> HIDE DEF r
<1>9. /\ DOMAIN r = 1 .. Len(q) + 1
      /\ \A j \in 1 .. Len(q) + 1 : r[j] = IF j <= i THEN c[j] ELSE b[j - i]
  BY <1>1, <1>3, <1>7, <1>8
<1>10. ASSUME NEW j \in 1 .. Len(q) + 1
       PROVE  at(j) \in DOMAIN q /\ r[j] = q[at(j)]
  <2>1. CASE j <= i
    BY <1>1, <1>7, <1>9, <2>1
  <2>2. CASE j > i
    <3>1. r[j] = b[j - i] /\ j - i \in 1 .. Len(q) - i + 1
      BY <1>1, <1>9, <2>2
    <3>2. b[j - i] = q[i + (j - i) - 1] /\ i + (j - i) - 1 = j - 1
      BY <1>1, <1>3, <3>1, SMTT(60)
    <3>3. at(j) = j - 1 /\ j - 1 \in DOMAIN q
      BY <1>1, <2>2
    <3> QED
      BY <3>1, <3>2, <3>3, Zenon
  <2> QED
    BY <1>1, <2>1, <2>2
<1>11. \A j, k \in 1 .. Len(q) + 1 : j < k => at(j) < at(k) \/ at(j) = at(k)
  BY <1>1
<1> HIDE DEF at
<1>12. \A j \in DOMAIN r : \E k \in DOMAIN q : r[j] = q[k]
  BY <1>9, <1>10, Zenon
<1>13. \A j, k \in DOMAIN r : j < k =>
         \E m, n \in DOMAIN q : (m < n \/ q[m] = q[n]) /\ r[j] = q[m] /\ r[k] = q[n]
  BY <1>9, <1>10, <1>11, Zenon
<1>14. Thins(r, q)
  BY <1>12, <1>13, Zenon DEF Thins
<1> QED
  BY <1>5, <1>14, Zenon

-----------------------------------------------------------------------------
(* The order of requests.                                                  *)

(* A request of a transfer does not reach past the end of its file, and a  *)
(* block moves the position on.                                            *)
LEMMA GenuineFacts ==
  ASSUME TypeInv, NEW m \in Request, Genuine(m)
  PROVE  /\ m.sport \in 1 .. Port /\ xferFile[m.sport] \in Seq(Byte)
         /\ m.cmd \in {NB_SEND_FILE, NB_DATA, NB_BOOT}
         /\ m.cmd # NB_BOOT => After(m) \in 0 .. Len(xferFile[m.sport])
         /\ m.cmd = NB_SEND_FILE => After(m) = 0
         /\ m.cmd = NB_DATA => After(m) = m.arg + Len(m.data) /\ Len(m.data) > 0
<1>1. xferFile \in Seq(Files) /\ Files \subseteq Seq(Byte)
  BY HostAssumption, Zenon DEF TypeInv, TypeOK, HostTypeOK
<1>2. m.sport \in 1 .. Port /\ xferFile[m.sport] \in Seq(Byte)
  BY <1>1 DEF Genuine, Port
<1>3. m.arg \in Nat /\ m.data \in Seq(Byte)
  BY Zenon DEF Request
<1>4. CASE m.cmd = NB_SEND_FILE
  BY <1>2, <1>4 DEF After, NB_SEND_FILE, NB_DATA, NB_BOOT
<1>5. CASE m.cmd = NB_DATA
  <2>1. m.arg < Len(xferFile[m.sport]) /\ m.data = Block(xferFile[m.sport], m.arg)
    BY <1>5, Zenon DEF Genuine, NB_SEND_FILE, NB_DATA, NB_BOOT
  <2>2. Len(m.data) > 0 /\ m.arg + Len(m.data) <= Len(xferFile[m.sport])
    BY <1>2, <1>3, <2>1, BlockOfFile, Zenon
  <2>3. After(m) = m.arg + Len(m.data)
    BY <1>5, Zenon DEF After, NB_SEND_FILE, NB_DATA
  <2> QED
    BY <1>2, <1>3, <1>5, <2>2, <2>3 DEF NB_SEND_FILE, NB_DATA, NB_BOOT
<1>6. CASE m.cmd = NB_BOOT
  BY <1>2, <1>6, Zenon DEF NB_SEND_FILE, NB_DATA, NB_BOOT
<1> QED
  BY <1>4, <1>5, <1>6, Zenon DEF Genuine

(* The request after m in its transfer.                                    *)
LEMMA NextFacts ==
  ASSUME TypeInv, NEW m \in Request, Genuine(m), m.cmd # NB_BOOT,
         NEW n, n = [NextMsg(xferFile[m.sport], m) EXCEPT !.cookie = m.cookie + 1]
  PROVE  /\ n \in Request /\ Genuine(n)
         /\ n.sport = m.sport /\ n.cookie = m.cookie + 1
         /\ \/ n.cmd = NB_DATA /\ n.arg = After(m)
            \/ n.cmd = NB_BOOT /\ After(m) = Len(xferFile[m.sport])
<1> DEFINE f == xferFile[m.sport]
<1>1. /\ m.sport \in 1 .. Port /\ f \in Seq(Byte)
      /\ After(m) \in 0 .. Len(f) /\ m.cookie \in Nat /\ m.sport \in Nat
  BY GenuineFacts, Zenon DEF Request
<1>2. NextMsg(f, m) \in Request
  BY <1>1, RequestTypes, Zenon
<1>3. n \in Request
  <2>1. \A r \in Request, c \in Nat : [r EXCEPT !.cookie = c] \in Request
    BY Zenon DEF Request
  <2>2. m.cookie + 1 \in Nat
    BY <1>1
  <2> QED
    BY <1>2, <2>1, <2>2, Zenon
<1>4. CASE After(m) < Len(f)
  <2>1. /\ n.sport = m.sport /\ n.cookie = m.cookie + 1
        /\ n.cmd = NB_DATA /\ n.arg = After(m) /\ n.data = Block(f, After(m))
    BY <1>4, Zenon DEF NextMsg, DataMsg
  <2>2. Genuine(n)
    BY <1>4, <2>1, Zenon DEF Genuine
  <2> QED
    BY <1>3, <2>1, <2>2, Zenon
<1>5. CASE ~(After(m) < Len(f))
  <2>1. /\ n.sport = m.sport /\ n.cookie = m.cookie + 1
        /\ n.cmd = NB_BOOT /\ n.arg = 0
    BY <1>5, Zenon DEF NextMsg, BootMsg
  <2>2. Genuine(n)
    BY <2>1, Zenon DEF Genuine
  <2>3. After(m) = Len(f)
    BY <1>1, <1>5
  <2> QED
    BY <1>3, <2>1, <2>2, <2>3, Zenon
<1> QED
  BY <1>4, <1>5, Zenon

(* What may come behind m.                                                 *)
LEMMA FollowsFacts ==
  ASSUME TypeInv, NEW m \in Request, Genuine(m), NEW n, Follows(m, n)
  PROVE  \/ n = m
         \/ /\ m.cmd # NB_BOOT
            /\ n.sport = m.sport /\ n.cookie = m.cookie + 1
            /\ \/ n.cmd = NB_DATA /\ n.arg = After(m)
               \/ n.cmd = NB_BOOT /\ After(m) = Len(xferFile[m.sport])
         \/ n.cmd = NB_SEND_FILE /\ n.sport > m.sport
BY NextFacts, Zenon DEF Follows

(* Nothing but copies of a request lies between two copies of it.          *)
LEMMA BetweenCopies ==
  ASSUME TypeInv, NEW m \in Request, Genuine(m),
         NEW n \in Request, Genuine(n), Follows(m, n), Follows(n, m)
  PROVE  n = m
<1>1. /\ m.sport \in Nat /\ n.sport \in Nat
      /\ m.cookie \in Nat /\ n.cookie \in Nat
  BY Zenon DEF Request
<1>2. n = m \/ (n.sport = m.sport /\ n.cookie = m.cookie + 1) \/ n.sport > m.sport
  BY FollowsFacts, Zenon
<1>3. m = n \/ (m.sport = n.sport /\ m.cookie = n.cookie + 1) \/ m.sport > n.sport
  BY FollowsFacts, Zenon
<1> QED
  BY <1>1, <1>2, <1>3

-----------------------------------------------------------------------------
(* What the device does with a request it is ready for.                    *)

(* Where the device stands depends on the download and the files only.     *)
LEMMA SameDownload ==
  ASSUME UNCHANGED <<item, offset, data, resets, xferFile>>, NEW m
  PROVE  /\ Genuine(m)' <=> Genuine(m)
         /\ Ready(m)' <=> Ready(m)
         /\ Done(m)' <=> Done(m)
BY Zenon DEF Genuine, Ready, Done, Dead, Holds

(* SEND_FILE leaves the device at the start of a download.                 *)
LEMMA SendFileStarts ==
  ASSUME TypeInv, NEW m \in Request, Genuine(m), m.cmd = NB_SEND_FILE,
         RecvSendFile(m), UNCHANGED xferFile
  PROVE  /\ item' = "nbkernel" /\ offset'["nbkernel"] = 0
         /\ \A p \in 1 .. Port : Holds(p, 0)'
<1>1. m.name = "kernel.bin"
  BY Zenon DEF Genuine, NB_SEND_FILE, NB_DATA, NB_BOOT
<1>2. item' = "nbkernel"
  BY <1>1, Zenon DEF RecvSendFile, netboot_get_buffer
<1>3. offset'["nbkernel"] = 0
  BY <1>2, Zenon DEF RecvSendFile, Buffers
<1>4. \A p \in 1 .. Port : Len(xferFile[p]) \in Nat
  BY HostAssumption DEF TypeInv, TypeOK, HostTypeOK, Port
<1> QED
  BY <1>2, <1>3, <1>4 DEF Holds

(* A block in sequence leaves the device behind it.                        *)
LEMMA DataStored ==
  ASSUME TypeInv, NEW m \in Request, Genuine(m), Ready(m), m.cmd = NB_DATA,
         InSequence(m), ~TooLarge(m), StoreData(m), UNCHANGED <<item, xferFile>>
  PROVE  Holds(m.sport, After(m))'
<1> DEFINE k == "nbkernel"
           f == xferFile[m.sport]
<1>1. /\ m.sport \in 1 .. Port /\ f \in Seq(Byte)
      /\ After(m) \in 0 .. Len(f) /\ Len(f) \in Nat
      /\ After(m) = m.arg + Len(m.data) /\ Len(m.data) > 0
  BY GenuineFacts DEF NB_DATA, NB_BOOT
<1>2. /\ m.arg \in Nat /\ m.data \in Seq(Byte) /\ k \in Buffers
      /\ offset \in [Buffers -> Nat]
      /\ data \in [Buffers -> [Addr -> Byte \cup {NoByte}]]
  BY Zenon DEF TypeInv, TypeOK, DeviceTypeOK, Request, Buffers
<1>3. \A j \in 1 .. Len(m.data) : m.data[j] = f[m.arg + j]
  <2>1. m.arg < Len(f) /\ m.data = Block(f, m.arg)
    BY Zenon DEF Genuine, NB_SEND_FILE, NB_DATA, NB_BOOT
  <2> QED
    BY <1>1, <1>2, <2>1, BlockOfFile, SMTT(60)
<1>4. item = k /\ Holds(m.sport, m.arg)
  <2>1. Dead \/ Holds(m.sport, After(m)) \/ Holds(m.sport, m.arg)
    BY Zenon DEF Ready, Done, NB_SEND_FILE, NB_DATA, NB_BOOT
  <2>2. ~Dead
    BY Zenon DEF InSequence, Dead
  <2>3. ~Holds(m.sport, After(m))
    BY <1>1, <1>2 DEF InSequence, Holds
  <2> QED
    BY <2>1, <2>2, <2>3, Zenon DEF Holds
<1>5. /\ offset[k] = m.arg
      /\ \A i \in 1 .. m.arg : data[k][i - 1] = f[i]
  BY <1>4, Zenon DEF Holds
<1>6. /\ offset'[k] = After(m)
      /\ data'[k] = Copy(data[k], m.arg, m.data)
      /\ After(m) <= Mem /\ Mem \in Nat
  BY <1>1, <1>2, <1>4, <1>5, BufAssumption DEF StoreData, TooLarge
<1>7. \A a \in Addr :
        /\ a < m.arg => data'[k][a] = data[k][a]
        /\ m.arg <= a /\ a < After(m) => data'[k][a] = m.data[a - m.arg + 1]
  <2>1. data[k] \in [Addr -> Byte \cup {NoByte}]
    BY <1>2, Zenon
  <2> QED
    BY <1>1, <1>2, <1>6, <2>1, CopyType, SMTT(60)
<1>8. ASSUME NEW i \in 1 .. After(m) PROVE data'[k][i - 1] = f[i]
  <2>1. i \in Nat /\ i - 1 \in Addr
    BY <1>1, <1>6 DEF Addr
  <2>2. CASE i <= m.arg
    <3>1. i - 1 < m.arg /\ i \in 1 .. m.arg
      BY <1>2, <2>1, <2>2
    <3> QED
      BY <1>5, <1>7, <2>1, <3>1, Zenon
  <2>3. CASE i > m.arg
    <3>1. m.arg <= i - 1 /\ i - 1 < After(m) /\ (i - 1) - m.arg + 1 = i - m.arg
      BY <1>1, <1>2, <2>1, <2>3
    <3>2. i - m.arg \in 1 .. Len(m.data) /\ m.arg + (i - m.arg) = i
      BY <1>1, <1>2, <2>1, <2>3, SMTT(60)
    <3>3. m.data[i - m.arg] = f[m.arg + (i - m.arg)]
      BY <1>3, <3>2, Zenon
    <3> QED
      BY <1>7, <2>1, <3>1, <3>2, <3>3, Zenon
  <2> QED
    BY <1>2, <2>1, <2>2, <2>3
<1>9. item' = k /\ After(m) <= Len(f)
  BY <1>1, <1>4
<1>10. offset'[k] = After(m)
  BY <1>6, Zenon
<1> QED
  BY <1>8, <1>9, <1>10, Zenon DEF Holds, After

(* The effect of udp6_recv on a device that is ready for the request.      *)
Unmoved == UNCHANGED <<item, offset, data>>

Answers(m, c) ==
  \E arg \in Nat : toHost' = Push(toHost, [cmd |-> c, cookie |-> m.cookie,
                                           arg |-> arg, dport |-> m.sport])

(* Repeated or ignored: nothing moves; a positive answer is a repetition   *)
(* of the one given when the block was stored.                             *)
Repeats(m) ==
  /\ Unmoved /\ UNCHANGED <<last_cookie, last_cmd, last_ack_cmd>>
  /\ \/ toHost' = toHost
     \/ Answers(m, last_ack_cmd) /\ m.cmd = NB_DATA
        /\ last_cmd = NB_DATA /\ last_cookie = m.cookie

Starts(m) ==
  /\ m.cmd = NB_SEND_FILE
  /\ item' = "nbkernel" /\ offset'["nbkernel"] = 0
  /\ \A p \in 1 .. Port : Holds(p, 0)'
  /\ last_cookie' = m.cookie /\ last_cmd' = NB_SEND_FILE
  /\ Answers(m, NB_ACK)

Stores(m) ==
  /\ m.cmd = NB_DATA
  /\ item' = item /\ item # NULL
  /\ Holds(m.sport, After(m))'
  /\ last_cookie' = m.cookie /\ last_cmd' = NB_DATA
  /\ Answers(m, NB_ACK)

Refuses(m) ==
  /\ m.cmd = NB_DATA
  /\ Unmoved
  /\ last_cookie' = m.cookie /\ last_cmd' = NB_DATA /\ last_ack_cmd' # NB_ACK
  /\ Answers(m, NB_ERROR_TOO_LARGE)

Boots(m) ==
  /\ m.cmd = NB_BOOT
  /\ Unmoved
  /\ last_cookie' = m.cookie /\ last_cmd' = NB_BOOT
  /\ Answers(m, NB_ACK)

(* A genuine request has one of these effects, and only BOOT sets the flag *)
(* that ends the polling.                                                  *)
LEMMA RecvEffects ==
  ASSUME TypeInv, NEW m \in Request, Genuine(m), Ready(m), udp6_recv(m),
         UNCHANGED xferFile
  PROVE  /\ Repeats(m) \/ Starts(m) \/ Stores(m) \/ Refuses(m) \/ Boots(m)
         /\ \/ UNCHANGED <<nb_boot_now, bootPort>>
            \/ m.cmd = NB_BOOT /\ bootPort' = m.sport /\ Unmoved
<1> USE DEF NB_ACK, NB_COMMAND, NB_SEND_FILE, NB_DATA, NB_BOOT
<1>1. /\ m.cmd \in {NB_SEND_FILE, NB_DATA, NB_BOOT} /\ m.arg \in Nat
      /\ m.cmd # NB_DATA => m.arg = 0
      /\ last_ack_arg \in Nat
  BY Zenon DEF Genuine, Request, TypeInv, TypeOK, DeviceTypeOK
<1>2. CASE ResendAck(m)
  BY <1>1, <1>2, Zenon DEF ResendAck, IsDuplicate, SameCommand, Transmit, fileVars,
                    Repeats, Unmoved, Answers
<1>3. CASE RecvSendFile(m)
  <2>1. m.cmd = NB_SEND_FILE /\ UNCHANGED <<nb_boot_now, bootPort>>
    BY <1>3, Zenon DEF RecvSendFile
  <2>2. /\ item' = "nbkernel" /\ offset'["nbkernel"] = 0
        /\ \A p \in 1 .. Port : Holds(p, 0)'
    BY <1>3, <2>1, SendFileStarts, Zenon
  <2>3. Acknowledge(m, NB_ACK, 0)
    BY <1>3, <2>2, Zenon DEF RecvSendFile, NULL
  <2>4. Starts(m)
    BY <2>1, <2>2, <2>3 DEF Starts, Acknowledge, Transmit, Answers
  <2> QED
    BY <2>1, <2>4, Zenon
<1>4. CASE RecvData(m)
  <2>1. /\ m.cmd = NB_DATA /\ InSequence(m) /\ item # NULL /\ item' = item
        /\ UNCHANGED <<nb_boot_now, bootPort>>
    BY <1>4, Zenon DEF RecvData, InSequence
  <2>2. CASE TooLarge(m)
    <3>1. RefuseData(m)
      BY <1>4, <2>2, Zenon DEF RecvData
    <3>2. Refuses(m)
      BY <1>1, <2>1, <3>1, Zenon DEF RefuseData, Acknowledge, Transmit, Refuses,
                              Unmoved, Answers, NB_ERROR_TOO_LARGE
    <3> QED
      BY <2>1, <3>2, Zenon
  <2>3. CASE ~TooLarge(m)
    <3>1. StoreData(m)
      BY <1>4, <2>3, Zenon DEF RecvData
    <3>2. Holds(m.sport, After(m))'
      BY <2>1, <2>3, <3>1, DataStored, Zenon
    <3>3. Acknowledge(m, NB_ACK, m.arg)
      BY <3>1, Zenon DEF StoreData
    <3>4. Stores(m)
      BY <1>1, <2>1, <3>2, <3>3, Zenon DEF Acknowledge, Transmit, Stores, Answers
    <3> QED
      BY <2>1, <3>4, Zenon
  <2> QED
    BY <2>2, <2>3, Zenon
<1>5. CASE RecvBoot(m)
  BY <1>5, Zenon DEF RecvBoot, Acknowledge, Transmit, Boots, Answers, Unmoved, fileVars
<1>6. CASE RecvIgnored(m)
  BY <1>6, Zenon DEF RecvIgnored, Repeats, Unmoved, fileVars
<1>7. ~RecvCommand(m) /\ ~RecvBadCmd(m)
  BY <1>1, Zenon DEF RecvCommand, RecvBadCmd
<1> QED
  BY <1>2, <1>3, <1>4, <1>5, <1>6, <1>7, Zenon DEF udp6_recv

(* The effects of a request, as one name.                                  *)
Effect(m) == Repeats(m) \/ Starts(m) \/ Stores(m) \/ Refuses(m) \/ Boots(m)

(* After m, the device is ready for m again and for what may follow it.    *)
LEMMA ReadyForNext ==
  ASSUME TypeInv, NEW m \in Request, RequestOK(m), Effect(m),
         UNCHANGED <<xferFile, resets>>,
         NEW n \in Request, RequestOK(n), Follows(m, n)
  PROVE  RequestOK(n)'
<1> USE DEF NB_ACK, NB_SEND_FILE, NB_DATA, NB_BOOT
<1>1. /\ Genuine(m) /\ Ready(m) /\ (Remembered(m) => Done(m))
      /\ Genuine(n) /\ Ready(n) /\ (Remembered(n) => Done(n))
  BY Zenon DEF RequestOK
<1>2. Genuine(n)'
  BY <1>1, Zenon DEF Genuine
<1>3. \/ n = m
      \/ /\ m.cmd # NB_BOOT
         /\ n.sport = m.sport /\ n.cookie = m.cookie + 1
         /\ \/ n.cmd = NB_DATA /\ n.arg = After(m)
            \/ n.cmd = NB_BOOT /\ After(m) = Len(xferFile[m.sport])
      \/ n.cmd = NB_SEND_FILE /\ n.sport > m.sport
  BY <1>1, FollowsFacts, Zenon
<1>4. /\ m.sport \in 1 .. Port /\ m.cookie \in Nat
      /\ m.cmd = NB_SEND_FILE => After(m) = 0
  BY <1>1, GenuineFacts, Zenon DEF Request
<1>5. CASE Unmoved
  <2>1. Ready(n)' /\ (Done(n)' <=> Done(n))
    BY <1>1, <1>5, SameDownload, Zenon DEF Unmoved
  <2>2. CASE Repeats(m)
    BY <1>1, <1>2, <2>1, <2>2, Zenon DEF Repeats, RequestOK, Remembered
  <2>3. CASE Refuses(m)
    BY <1>2, <2>1, <2>3, Zenon DEF Refuses, RequestOK, Remembered
  <2>4. CASE Boots(m)
    BY <1>2, <2>1, <2>4, Zenon DEF Boots, RequestOK, Remembered
  <2>5. CASE Starts(m)
    BY <1>2, <2>1, <2>5, Zenon DEF Starts, RequestOK, Remembered
  <2>6. CASE Stores(m)
    <3>1. Done(m)'
      BY <2>6, Zenon DEF Stores, Done, After
    <3>2. Remembered(n)' => n = m
      BY <1>3, <1>4, <2>6 DEF Stores, Remembered
    <3> QED
      BY <1>2, <2>1, <3>1, <3>2, Zenon DEF RequestOK
  <2> QED
    BY <2>2, <2>3, <2>4, <2>5, <2>6 DEF Effect
<1>6. CASE Starts(m)
  <2>1. Holds(m.sport, 0)' /\ ~Remembered(n)'
    BY <1>4, <1>6, Zenon DEF Starts, Remembered
  <2>2. Ready(n)'
    <3>1. CASE n.cmd = NB_SEND_FILE
      BY <3>1, Zenon DEF Ready
    <3>2. CASE n.cmd = NB_DATA
      <4>1. n.sport = m.sport /\ n.arg = 0
        BY <1>3, <1>4, <1>6, <3>2, Zenon DEF Starts
      <4> QED
        BY <2>1, <3>2, <4>1, Zenon DEF Ready
    <3>3. CASE n.cmd = NB_BOOT
      <4>1. n.sport = m.sport /\ Len(xferFile[n.sport]) = 0
        BY <1>3, <1>4, <1>6, <3>3, Zenon DEF Starts
      <4> QED
        BY <2>1, <3>3, <4>1, Zenon DEF Ready
    <3> QED
      BY <1>1, <3>1, <3>2, <3>3, GenuineFacts, Zenon
  <2> QED
    BY <1>2, <2>1, <2>2, Zenon DEF RequestOK
<1>7. CASE Stores(m)
  <2>1. Holds(m.sport, After(m))' /\ Done(m)'
    BY <1>7 DEF Stores, Done, After
  <2>2. Remembered(n)' => n = m
    BY <1>3, <1>4, <1>7 DEF Stores, Remembered
  <2>3. Ready(n)'
    <3>1. CASE n.cmd = NB_SEND_FILE
      BY <3>1 DEF Ready
    <3>2. CASE n = m
      BY <1>7, <2>1, <3>2, Zenon DEF Ready, Stores
    <3>3. CASE n.sport = m.sport /\ n.cmd = NB_DATA /\ n.arg = After(m)
      <4>1. Holds(n.sport, n.arg)'
        BY <2>1, <3>3, Zenon DEF Holds, After
      <4> QED
        BY <3>3, <4>1, Zenon DEF Ready
    <3>4. CASE /\ n.sport = m.sport /\ n.cmd = NB_BOOT
               /\ After(m) = Len(xferFile[m.sport])
      <4>1. Holds(n.sport, Len(xferFile[n.sport]))'
        BY <2>1, <3>4, Zenon DEF Holds, After
      <4> QED
        BY <3>4, <4>1, Zenon DEF Ready
    <3> QED
      BY <1>3, <3>1, <3>2, <3>3, <3>4, Zenon
  <2> QED
    BY <1>2, <2>1, <2>2, <2>3, Zenon DEF RequestOK
<1> QED
  BY <1>5, <1>6, <1>7, Zenon DEF Effect, Repeats, Refuses, Boots

(* A request that was handled before stays handled.                        *)
LEMMA DoneAgain ==
  ASSUME TypeInv, NEW m \in Request, RequestOK(m), Effect(m), Done(m),
         UNCHANGED <<xferFile, resets>>
  PROVE  Done(m)'
<1>1. Genuine(m)
  BY Zenon DEF RequestOK
<1>2. m.sport \in 1 .. Port /\ (m.cmd = NB_SEND_FILE => After(m) = 0)
  BY <1>1, GenuineFacts, Zenon
<1>3. CASE Unmoved
  BY <1>3, SameDownload, Zenon DEF Unmoved
<1>4. CASE Starts(m)
  <2>1. Holds(m.sport, After(m))'
    BY <1>2, <1>4, Zenon DEF Starts, Holds, After
  <2> QED
    BY <2>1, Zenon DEF Done, After
<1>5. CASE Stores(m)
  BY <1>5, Zenon DEF Stores, Done, After
<1> QED
  BY <1>3, <1>4, <1>5, Zenon DEF Effect, Repeats, Refuses, Boots

(* A positive answer to a request other than BOOT means it was handled.    *)
LEMMA AnswerDeserved ==
  ASSUME TypeInv, NEW m \in Request, RequestOK(m), Effect(m), m.cmd # NB_BOOT,
         UNCHANGED <<xferFile, resets>>
  PROVE  \/ toHost' = toHost
         \/ \E c \in {NB_ERROR_TOO_LARGE} \cup (AckCmd \ {NB_ACK}) : Answers(m, c)
         \/ Answers(m, NB_ACK) /\ Done(m)' /\ last_cookie' = m.cookie
<1>1. Genuine(m)
  BY Zenon DEF RequestOK
<1>2. m.sport \in 1 .. Port /\ (m.cmd = NB_SEND_FILE => After(m) = 0)
  BY <1>1, GenuineFacts, Zenon
<1>3. CASE Repeats(m)
  <2>1. CASE toHost' = toHost
    BY <2>1, Zenon
  <2>2. CASE toHost' # toHost
    <3>1. /\ Answers(m, last_ack_cmd) /\ m.cmd = NB_DATA
          /\ last_cmd = NB_DATA /\ last_cookie = m.cookie
      BY <1>3, <2>2, Zenon DEF Repeats
    <3>2. CASE last_ack_cmd = NB_ACK
      <4>1. Remembered(m)
        BY <3>1, <3>2, Zenon DEF Remembered
      <4>2. Done(m)
        BY <4>1, Zenon DEF RequestOK
      <4>3. Done(m)'
        BY <4>2, DoneAgain, Zenon
      <4> QED
        BY <1>3, <3>1, <3>2, <4>3, Zenon DEF Repeats
    <3>3. CASE last_ack_cmd # NB_ACK
      BY <3>1, <3>3, Zenon DEF TypeInv, TypeOK, DeviceTypeOK
    <3> QED
      BY <3>2, <3>3, Zenon
  <2> QED
    BY <2>1, <2>2, Zenon
<1>4. CASE Starts(m)
  <2>1. Done(m)'
    BY <1>2, <1>4, Zenon DEF Starts, Holds, Done, After
  <2> QED
    BY <1>4, <2>1, Zenon DEF Starts
<1>5. CASE Stores(m)
  BY <1>5, Zenon DEF Stores, Done, After
<1>6. CASE Refuses(m)
  BY <1>6, Zenon DEF Refuses
<1> QED
  BY <1>3, <1>4, <1>5, <1>6, Zenon DEF Effect, Boots

-----------------------------------------------------------------------------
(* FifoInv, action by action.                                              *)

(* A queue a datagram was put into holds that datagram and the old ones.   *)
LEMMA PushElements ==
  ASSUME NEW S, NEW q \in Seq(S), NEW e \in S
  PROVE  \A j \in DOMAIN Push(q, e) :
           Push(q, e)[j] = e \/ \E k \in DOMAIN q : Push(q, e)[j] = q[k]
<1>1. /\ Append(q, e) \in Seq(S) /\ Len(Append(q, e)) = Len(q) + 1
      /\ \A j \in 1 .. Len(q) : Append(q, e)[j] = q[j]
      /\ Append(q, e)[Len(q) + 1] = e
      /\ Len(q) \in Nat /\ DOMAIN q = 1 .. Len(q)
      /\ DOMAIN Append(q, e) = 1 .. Len(q) + 1
  BY Appended
<1>2. \A j \in 1 .. Len(q) + 1 : j \in 1 .. Len(q) \/ j = Len(q) + 1
  BY <1>1
<1> QED
  BY <1>1, <1>2, Zenon DEF Push

(* A device that holds all of a file has that file as its image.           *)
LEMMA HoldsImage ==
  ASSUME TypeInv, NEW p \in 1 .. Port, Holds(p, Len(xferFile[p]))
  PROVE  Image = xferFile[p]
<1> DEFINE f == xferFile[p]
<1>1. f \in Seq(Byte)
  BY HostAssumption DEF TypeInv, TypeOK, HostTypeOK, Port
<1>2. offset["nbkernel"] = Len(f) /\ Len(f) \in Nat /\ DOMAIN f = 1 .. Len(f)
  BY <1>1 DEF Holds
<1>3. \A i \in 1 .. Len(f) : data["nbkernel"][i - 1] = f[i]
  BY Zenon DEF Holds
<1>4. Image = [i \in 1 .. Len(f) |-> f[i]]
  BY <1>2, <1>3, Zenon DEF Image
<1>5. f = [i \in 1 .. Len(f) |-> f[i]]
  BY <1>1, <1>2, SMTT(60)
<1> QED
  BY <1>4, <1>5, Zenon

(* The requests left in the queue when the first one has been handled.     *)
LEMMA ReceiveQueue ==
  ASSUME TypeInv, FifoInv, 1 \in DOMAIN toDevice, Effect(toDevice[1]),
         toDevice' = Without(toDevice, 1), UNCHANGED <<hostVars, resets>>
  PROVE  QueueOK' /\ HostOK'
<1> DEFINE m == toDevice[1]
<1>1. toDevice \in Seq(Request) /\ m \in Request /\ msg \in Request
  BY DEF TypeInv, TypeOK, LinkTypeOK, HostTypeOK
<1>2. RequestOK(m) /\ Follows(m, msg) /\ msg.sport = Port
  BY DEF FifoInv, QueueOK
<1>3. ASSUME NEW n \in Request, RequestOK(n), Follows(m, n)
      PROVE  RequestOK(n)'
  BY <1>1, <1>2, <1>3, ReadyForNext, Zenon DEF hostVars
<1>4. HostOK'
  <2>1. Active' => Active /\ RequestOK(msg)
    BY Zenon DEF FifoInv, HostOK, Active, hostVars
  <2>2. Active => RequestOK(msg)'
    BY <1>1, <1>2, <1>3, Zenon DEF FifoInv, HostOK, hostVars
  <2> QED
    BY <2>1, <2>2, Zenon DEF FifoInv, HostOK, Port, hostVars
<1>5. \A j \in DOMAIN toDevice' :
        /\ j + 1 \in DOMAIN toDevice /\ 1 < j + 1
        /\ toDevice'[j] = toDevice[j + 1]
  BY <1>1, BehindFirst, Zenon
<1>6. ASSUME NEW j \in DOMAIN toDevice'
      PROVE  RequestOK(toDevice[j])' /\ Follows(toDevice[j], msg)'
  <2>1. PICK n \in Request : n = toDevice[j + 1]
    BY <1>1, <1>5
  <2>2. RequestOK(n) /\ Follows(m, n) /\ Follows(n, msg)
    BY <1>5, <2>1, Zenon DEF FifoInv, QueueOK
  <2>3. RequestOK(n)'
    BY <1>3, <2>2, Zenon
  <2>4. toDevice'[j] = n
    BY <1>5, <2>1, Zenon
  <2>5. Follows(toDevice[j], msg)'
    BY <2>2, <2>4, Zenon DEF Follows, NextMsg, DataMsg, BootMsg, Block, After, hostVars
  <2> QED
    BY <2>3, <2>4, <2>5, Zenon
<1>7. ASSUME NEW i \in DOMAIN toDevice', NEW j \in DOMAIN toDevice', i < j
      PROVE  Follows(toDevice[i], toDevice[j])'
  <2>1. i + 1 < j + 1
    <3>1. DOMAIN toDevice' = 1 .. Len(toDevice) - 1 /\ Len(toDevice) \in Nat
      BY <1>1, WithoutPlaces
    <3> QED
      BY <1>7, <3>1
  <2>2. Follows(toDevice[i + 1], toDevice[j + 1])
    BY <1>5, <2>1, Zenon DEF FifoInv, QueueOK
  <2>3. toDevice'[i] = toDevice[i + 1] /\ toDevice'[j] = toDevice[j + 1]
    BY <1>5, Zenon
  <2> QED
    BY <2>2, <2>3, ZenonT(60) DEF Follows, NextMsg, DataMsg, BootMsg, Block, After, hostVars
<1>8. (msg.sport = Port)'
  BY <1>2, Zenon DEF Port, hostVars
<1> QED
  BY <1>4, <1>6, <1>7, <1>8, Zenon DEF QueueOK

(* The acknowledgements under way when the first request has been handled. *)
LEMMA ReceiveAcks ==
  ASSUME TypeInv, FifoInv, 1 \in DOMAIN toDevice, Effect(toDevice[1]),
         toDevice' = Without(toDevice, 1), UNCHANGED <<hostVars, resets>>
  PROVE  \A i \in DOMAIN toHost' : AckOK(toHost[i])'
<1> USE DEF NB_ACK, NB_SEND_FILE, NB_DATA, NB_BOOT
<1>0. PICK m \in Request : m = toDevice[1]
  BY DEF TypeInv, TypeOK, LinkTypeOK
<1>1. /\ toDevice \in Seq(Request) /\ msg \in Request /\ Effect(m)
      /\ toHost \in Seq(Ack) /\ last_ack_cmd \in AckCmd
  BY <1>0, Zenon DEF TypeInv, TypeOK, LinkTypeOK, HostTypeOK, DeviceTypeOK
<1>2. RequestOK(m) /\ Genuine(m) /\ Follows(m, msg) /\ msg.sport = Port
  BY <1>0 DEF FifoInv, QueueOK, RequestOK
<1>3. /\ m.sport \in 1 .. Port /\ Port \in Nat
      /\ m.cookie \in Nat /\ msg.cookie \in Nat /\ m.sport \in Nat
  <2>1. m.sport \in 1 .. Port
    BY <1>2, GenuineFacts, ZenonT(60)
  <2>2. Port \in Nat
    BY DEF TypeInv, TypeOK, HostTypeOK, Port
  <2>3. m.cookie \in Nat /\ msg.cookie \in Nat /\ m.sport \in Nat
    BY <1>1, Zenon DEF Request
  <2> QED
    BY <2>1, <2>2, <2>3, Zenon
<1>4. m.sport = Port => msg = m \/ msg.cookie = m.cookie + 1
  BY <1>1, <1>2, <1>3, FollowsFacts
<1>5. \A j \in DOMAIN toDevice' :
        /\ j + 1 \in DOMAIN toDevice /\ 1 < j + 1
        /\ toDevice'[j] = toDevice[j + 1]
  BY <1>1, BehindFirst, Zenon
<1>6. UNCHANGED <<msg, Port, Active, xferFile>>
  BY Zenon DEF hostVars, Port, Active
<1>7. ASSUME NEW a \in Ack, AckOK(a)
      PROVE  AckOK(a)'
  <2>1. ASSUME Active, a.dport = Port, Expected(a), msg.cmd # NB_BOOT
        PROVE  Answered'
    <3>1. Answered
      BY <1>7, <2>1, Zenon DEF AckOK
    <3>2. m = msg /\ Done(m)
      BY <1>0, <3>1, Zenon DEF Answered
    <3>3. Done(m)'
      BY <1>1, <1>2, <1>6, <3>2, DoneAgain, Zenon
    <3>4. Done(msg)'
      BY <1>6, <3>2, <3>3, Zenon
    <3>5. (last_cmd = NB_DATA => last_cookie = msg.cookie)'
      BY <1>1, <1>6, <3>1, <3>2, ZenonT(30)
      DEF Answered, Effect, Repeats, Starts, Stores, Refuses, Boots
    <3>6. \A k \in DOMAIN toDevice' : toDevice'[k] = msg
      BY <1>5, <3>1, Zenon DEF Answered
    <3> QED
      BY <1>6, <3>4, <3>5, <3>6, Zenon DEF Answered
  <2> QED
    BY <1>6, <1>7, <2>1, Zenon DEF AckOK, Expected
<1>8. ASSUME NEW a \in Ack, a.cookie = m.cookie, a.dport = m.sport,
             \/ a.cmd # NB_ACK
             \/ m.cmd = NB_BOOT
             \/ Done(m)' /\ last_cookie' = m.cookie
      PROVE  AckOK(a)'
  <2>1. a.dport <= Port
    BY <1>3, <1>8
  <2>2. a.dport = Port => a.cookie <= msg.cookie
    BY <1>3, <1>4, <1>8
  <2>3. ASSUME a.dport = Port, Expected(a), msg.cmd # NB_BOOT
        PROVE  Answered'
    <3>1. m = msg
      BY <1>3, <1>4, <1>8, <2>3 DEF Expected
    <3>2. Done(m)' /\ last_cookie' = m.cookie
      BY <1>8, <2>3, <3>1, Zenon DEF Expected
    <3>3. ASSUME NEW j \in DOMAIN toDevice'
          PROVE  toDevice'[j] = msg
      <4>1. PICK n \in Request : n = toDevice[j + 1]
        BY <1>1, <1>5
      <4>2. LET q == toDevice
            IN  RequestOK(q[j + 1]) /\ Follows(q[1], q[j + 1]) /\ Follows(q[j + 1], msg)
        BY <1>5, Zenon DEF FifoInv, QueueOK
      <4>3. Genuine(n) /\ Follows(m, n) /\ Follows(n, m)
        BY <1>0, <3>1, <4>1, <4>2, Zenon DEF RequestOK
      <4>4. n = m
        BY <1>1, <1>2, <4>3, BetweenCopies, Zenon
      <4>5. toDevice'[j] = toDevice[j + 1]
        BY <1>5, Zenon
      <4> QED
        BY <3>1, <4>1, <4>4, <4>5, Zenon
    <3>4. Done(msg)'
      BY <1>6, <3>1, <3>2, Zenon
    <3> QED
      BY <1>6, <3>1, <3>2, <3>3, <3>4, Zenon DEF Answered
  <2> QED
    BY <1>6, <2>1, <2>2, <2>3, Zenon DEF AckOK, Expected
<1>9. \/ toHost' = toHost
      \/ \E a \in Ack : /\ toHost' = Push(toHost, a)
                        /\ AckOK(a)'
  <2>1. \A c \in AckCmd : Answers(m, c) =>
          \E a \in Ack : /\ toHost' = Push(toHost, a)
                         /\ a.cmd = c /\ a.cookie = m.cookie /\ a.dport = m.sport
    <3> SUFFICES ASSUME NEW c \in AckCmd, Answers(m, c)
                 PROVE  \E a \in Ack : /\ toHost' = Push(toHost, a)
                          /\ a.cmd = c /\ a.cookie = m.cookie /\ a.dport = m.sport
      BY Zenon
    <3>1. PICK g \in Nat : toHost' = Push(toHost, [cmd |-> c, cookie |-> m.cookie,
                                                   arg |-> g, dport |-> m.sport])
      BY Zenon DEF Answers
    <3> DEFINE a == [cmd |-> c, cookie |-> m.cookie, arg |-> g, dport |-> m.sport]
    <3>2. a \in Ack
      BY <1>3, Zenon DEF Ack
    <3> QED
      BY <3>1, <3>2, Zenon
  <2>2. CASE m.cmd = NB_BOOT
    <3>1. toHost' = toHost \/ Answers(m, NB_ACK)
      BY <1>1, <2>2, Zenon DEF Effect, Repeats, Starts, Stores, Refuses, Boots
    <3> QED
      BY <1>8, <2>1, <2>2, <3>1, Zenon DEF AckCmd
  <2>3. CASE m.cmd # NB_BOOT
    <3>1. \/ toHost' = toHost
          \/ \E c \in {NB_ERROR_TOO_LARGE} \cup (AckCmd \ {NB_ACK}) : Answers(m, c)
          \/ Answers(m, NB_ACK) /\ Done(m)' /\ last_cookie' = m.cookie
      BY <1>1, <1>2, <1>6, <2>3, AnswerDeserved, Zenon
    <3>2. CASE \E c \in {NB_ERROR_TOO_LARGE} \cup (AckCmd \ {NB_ACK}) : Answers(m, c)
      <4>1. PICK c \in AckCmd : c # NB_ACK /\ Answers(m, c)
        BY <3>2, Zenon DEF AckCmd, NB_ERROR_TOO_LARGE
      <4> QED
        BY <1>8, <2>1, <4>1, Zenon
    <3>3. CASE Answers(m, NB_ACK) /\ Done(m)' /\ last_cookie' = m.cookie
      BY <1>8, <2>1, <3>3, Zenon DEF AckCmd
    <3> QED
      BY <3>1, <3>2, <3>3, Zenon
  <2> QED
    BY <2>2, <2>3, Zenon
<1>10. ASSUME NEW i \in DOMAIN toHost' PROVE AckOK(toHost[i])'
  <2>1. \A k \in DOMAIN toHost : toHost[k] \in Ack /\ AckOK(toHost[k])
    BY <1>1 DEF FifoInv
  <2>2. \/ \E k \in DOMAIN toHost : toHost'[i] = toHost[k]
        \/ \E a \in Ack : toHost'[i] = a /\ AckOK(a)'
    <3>1. CASE toHost' = toHost
      BY <3>1, Zenon
    <3>2. CASE \E a \in Ack : toHost' = Push(toHost, a) /\ AckOK(a)'
      <4>1. PICK a \in Ack : toHost' = Push(toHost, a) /\ AckOK(a)'
        BY <3>2, Zenon
      <4> QED
        BY <1>1, <4>1, PushElements
    <3> QED
      BY <1>9, <3>1, <3>2, Zenon
  <2>3. \E a \in Ack : toHost'[i] = a /\ AckOK(a)'
    BY <1>7, <2>1, <2>2, Zenon
  <2> QED
    BY <2>3, Zenon
<1> QED
  BY <1>10, Zenon

(* Receive takes the oldest request; only BOOT makes the device leave the  *)
(* loop, and then it holds the file of the transfer BOOT belongs to.       *)
LEMMA ReceiveKeeps ==
  ASSUME TypeInv, FifoInv, Ordered, Receive, UNCHANGED hostVars
  PROVE  FifoInv'
<1> USE DEF NB_SEND_FILE, NB_DATA, NB_BOOT
<1>1. /\ 1 \in DOMAIN toDevice /\ udp6_recv(toDevice[1])
      /\ toDevice' = Without(toDevice, 1)
      /\ pc = "poll" /\ pc' = IF nb_boot_now' THEN "main" ELSE "poll"
      /\ resets' = resets
  BY Zenon DEF Receive, Deliverable
<1>2. PICK m \in Request : m = toDevice[1]
  BY <1>1 DEF TypeInv, TypeOK, LinkTypeOK
<1>3. Genuine(m) /\ Ready(m) /\ udp6_recv(m)
  BY <1>1, <1>2, Zenon DEF FifoInv, QueueOK, RequestOK
<1>4. /\ Repeats(m) \/ Starts(m) \/ Stores(m) \/ Refuses(m) \/ Boots(m)
      /\ \/ UNCHANGED <<nb_boot_now, bootPort>>
         \/ m.cmd = NB_BOOT /\ bootPort' = m.sport /\ Unmoved
  BY <1>3, RecvEffects, Zenon DEF hostVars
<1>5. Effect(toDevice[1])
  BY <1>2, <1>4, Zenon DEF Effect
<1>6. QueueOK' /\ HostOK'
  BY <1>1, <1>5, ReceiveQueue, Zenon
<1>7. \A i \in DOMAIN toHost' : AckOK(toHost[i])'
  BY <1>1, <1>5, ReceiveAcks, Zenon
<1>8. item' = NULL => offset'["nbkernel"] = 0
  BY <1>4, Zenon DEF FifoInv, LaunchOK, Repeats, Starts, Stores, Refuses, Boots,
              Unmoved, NULL
<1>9. ASSUME nb_boot_now'
      PROVE  /\ bootPort' \in DOMAIN xferFile'
             /\ offset'["nbkernel"] = 0 \/ Image' = xferFile'[bootPort']
  <2>1. m.cmd = NB_BOOT /\ bootPort' = m.sport /\ Unmoved
    <3>1. pc # "main"
      BY <1>1, Zenon
    <3>2. nb_boot_now' # nb_boot_now
      BY <1>9, <3>1, Zenon DEF FifoInv, LaunchOK
    <3> QED
      BY <1>4, <3>2, Zenon
  <2>2. m.sport \in DOMAIN xferFile /\ m.sport \in 1 .. Port
    BY <1>3, GenuineFacts, Zenon DEF Genuine
  <2>3. Dead \/ Holds(m.sport, Len(xferFile[m.sport]))
    BY <1>3, <2>1, Zenon DEF Ready
  <2>4. offset["nbkernel"] = 0 \/ Image = xferFile[m.sport]
    BY <2>2, <2>3, HoldsImage, Zenon DEF Dead, FifoInv, LaunchOK
  <2> QED
    BY <2>1, <2>2, <2>4, Zenon DEF Unmoved, Image, hostVars
<1>10. LaunchOK'
  BY <1>1, <1>8, <1>9, Zenon DEF LaunchOK
<1> QED
  BY <1>6, <1>7, <1>10, Zenon DEF FifoInv

-----------------------------------------------------------------------------
(* What may come behind a request depends on the files only.               *)
LEMMA FollowsKept ==
  ASSUME NEW m, NEW n, Follows(m, n), UNCHANGED xferFile
  PROVE  Follows(m, n)'
BY Zenon DEF Follows

(* A queue with datagrams missing or repeated is still in order.           *)
LEMMA QueueThinned ==
  ASSUME TypeInv, TypeInv', QueueOK, Thins(toDevice', toDevice),
         UNCHANGED <<msg, xferFile>>,
         \A n \in Request : RequestOK(n) => RequestOK(n)'
  PROVE  QueueOK'
<1>1. toDevice \in Seq(Request) /\ toDevice' \in Seq(Request)
  BY Zenon DEF TypeInv, TypeOK, LinkTypeOK
<1>2. ASSUME NEW i \in DOMAIN toDevice'
      PROVE  RequestOK(toDevice[i])' /\ Follows(toDevice[i], msg)'
  <2>1. PICK k \in DOMAIN toDevice : toDevice'[i] = toDevice[k]
    BY Zenon DEF Thins
  <2>2. RequestOK(toDevice[k]) /\ Follows(toDevice[k], msg)
    BY Zenon DEF QueueOK
  <2>3. PICK n \in Request : n = toDevice[k]
    BY <1>1
  <2>4. RequestOK(n)' /\ toDevice'[i] = n
    BY <2>1, <2>2, <2>3, Zenon
  <2>5. PICK g : g = msg
    BY Zenon
  <2>6. Follows(n, g)' /\ msg' = g
    BY <2>2, <2>3, <2>5, FollowsKept, Zenon
  <2> QED
    BY <2>4, <2>6, Zenon
<1>3. ASSUME NEW i \in DOMAIN toDevice', NEW j \in DOMAIN toDevice', i < j
      PROVE  Follows(toDevice[i], toDevice[j])'
  <2>1. PICK k \in DOMAIN toDevice, l \in DOMAIN toDevice :
          /\ k < l \/ toDevice[k] = toDevice[l]
          /\ toDevice'[i] = toDevice[k] /\ toDevice'[j] = toDevice[l]
    BY <1>3 DEF Thins
  <2>2. Follows(toDevice[k], toDevice[l])
    BY <2>1, Zenon DEF QueueOK, Follows
  <2>3. PICK m, n : m = toDevice[k] /\ n = toDevice[l]
    BY Zenon
  <2>4. Follows(m, n)' /\ toDevice'[i] = m /\ toDevice'[j] = n
    BY <2>1, <2>2, <2>3, FollowsKept, Zenon
  <2> QED
    BY <2>4, Zenon
<1>4. (toDevice # <<>> => msg.sport = Port)'
  <2>1. toDevice' # <<>> => toDevice # <<>>
    <3>1. toDevice' # <<>> => 1 \in DOMAIN toDevice'
      BY <1>1
    <3>2. toDevice = <<>> => DOMAIN toDevice = {}
      OBVIOUS
    <3> QED
      BY <3>1, <3>2, Zenon DEF Thins
  <2> QED
    BY <2>1, Zenon DEF QueueOK, Port
<1> QED
  BY <1>2, <1>3, <1>4, Zenon DEF QueueOK

(* Acknowledgements stay right while io waits for the same one or none.    *)
LEMMA AcksKept ==
  ASSUME TypeInv, TypeInv', \A i \in DOMAIN toHost : AckOK(toHost[i]),
         \A j \in DOMAIN toHost' : \E k \in DOMAIN toHost : toHost'[j] = toHost[k],
         Port' = Port, Active' => Active /\ msg' = msg,
         Active' /\ Answered => Answered'
  PROVE  \A i \in DOMAIN toHost' : AckOK(toHost[i])'
<1> SUFFICES ASSUME NEW i \in DOMAIN toHost' PROVE AckOK(toHost[i])'
  BY Zenon
<1>1. PICK k \in DOMAIN toHost : toHost'[i] = toHost[k]
  BY Zenon
<1>2. AckOK(toHost[k])
  BY Zenon
<1> QED
  BY <1>1, <1>2, Zenon DEF AckOK, Expected

(* A queue thins itself.                                                   *)
LEMMA ThinsItself ==
  ASSUME NEW q
  PROVE  Thins(q, q)
BY Zenon DEF Thins

(* What RequestOK and Answered say of the device.                          *)
Still == UNCHANGED <<item, offset, data, resets, xferFile,
                     last_cookie, last_cmd, last_ack_cmd>>

(* Requests stay right while the device does nothing.                      *)
LEMMA StillOK ==
  ASSUME Still, NEW n
  PROVE  (RequestOK(n)' <=> RequestOK(n)) /\ (Done(n)' <=> Done(n))
<1>1. /\ Genuine(n)' <=> Genuine(n)
      /\ Ready(n)' <=> Ready(n)
      /\ Done(n)' <=> Done(n)
  BY SameDownload, Zenon DEF Still
<1>2. Remembered(n)' <=> Remembered(n)
  BY Zenon DEF Still, Remembered
<1> QED
  BY <1>1, <1>2, Zenon DEF RequestOK

(* Steps that move no download and send nothing: they may lose or repeat   *)
(* datagrams and end the exchange, but start none.                         *)
LEMMA StillKeeps ==
  ASSUME TypeInv, TypeInv', FifoInv, Still, msg' = msg,
         Active' => Active /\ cookie' = cookie,
         Thins(toDevice', toDevice),
         \A j \in DOMAIN toHost' : \E k \in DOMAIN toHost : toHost'[j] = toHost[k]
  PROVE  QueueOK' /\ HostOK' /\ \A i \in DOMAIN toHost' : AckOK(toHost[i])'
<1>1. \A n : (RequestOK(n)' <=> RequestOK(n)) /\ (Done(n)' <=> Done(n))
  BY StillOK, Zenon
<1>2. PICK g : g = msg
  BY Zenon
<1>3. QueueOK'
  BY <1>1, QueueThinned, Zenon DEF FifoInv, Still
<1>4. Port' = Port
  BY Zenon DEF Still, Port
<1>5. HostOK'
  <2>1. RequestOK(g) => RequestOK(msg)'
    BY <1>1, <1>2, Zenon
  <2> QED
    BY <1>2, <1>4, <2>1, Zenon DEF HostOK, FifoInv
<1>6. Answered => Answered'
  <2>1. Done(g) => Done(msg)'
    BY <1>1, <1>2, Zenon
  <2> QED
    BY <1>2, <2>1, Zenon DEF Answered, Still, Thins
<1>7. \A i \in DOMAIN toHost' : AckOK(toHost[i])'
  BY <1>4, <1>6, AcksKept, Zenon DEF FifoInv
<1> QED
  BY <1>3, <1>5, <1>7, Zenon

(* A reset of the device: nothing it has is left to be wrong.              *)
LEMMA ResetKeeps ==
  ASSUME TypeInv, TypeInv', FifoInv, DeviceReset, UNCHANGED hostVars
  PROVE  FifoInv'
<1> USE DEF NB_ACK, NB_SEND_FILE, NB_DATA, NB_BOOT
<1>1. /\ Dead' /\ last_cmd' = NB_ACK
      /\ UNCHANGED <<msg, xferFile, cookie, hpc, toHost>>
      /\ toDevice' = <<>> \/ toDevice' = toDevice
  BY DEF DeviceReset, Dead, hostVars, TypeInv, TypeOK, DeviceTypeOK
<1>2. ASSUME NEW n \in Request, RequestOK(n) PROVE RequestOK(n)' /\ Done(n)'
  <2>1. Genuine(n)'
    BY <1>1, <1>2, Zenon DEF RequestOK, Genuine
  <2>2. Done(n)'
    BY <1>1, Zenon DEF Done
  <2>3. Ready(n)'
    BY <1>1, <2>1, <2>2, Zenon DEF Ready, Genuine
  <2> QED
    BY <2>1, <2>2, <2>3, Zenon DEF RequestOK
<1>3. Thins(toDevice', toDevice)
  <2>1. DOMAIN <<>> = {}
    OBVIOUS
  <2> QED
    BY <1>1, <2>1, Zenon DEF Thins
<1>4. QueueOK'
  BY <1>1, <1>2, <1>3, QueueThinned, Zenon DEF FifoInv
<1>5. UNCHANGED <<Port, Active>>
  BY <1>1, Zenon DEF Port, Active
<1>6. PICK g \in Request : g = msg
  BY Zenon DEF TypeInv, TypeOK, HostTypeOK
<1>7. HostOK'
  <2>1. RequestOK(g) => RequestOK(msg)'
    BY <1>1, <1>2, <1>6, Zenon
  <2> QED
    BY <1>1, <1>5, <1>6, <2>1, Zenon DEF HostOK, FifoInv
<1>8. Answered => Answered'
  <2>1. Done(msg)'
    BY <1>1, Zenon DEF Done
  <2> QED
    BY <1>1, <1>3, <2>1, Zenon DEF Answered, Thins
<1>9. \A i \in DOMAIN toHost' : AckOK(toHost[i])'
  BY <1>1, <1>5, <1>8, AcksKept, Zenon DEF FifoInv
<1>10. LaunchOK'
  <2>1. offset'["nbkernel"] = 0 /\ pc' = "poll"
    BY Zenon DEF DeviceReset, Buffers
  <2>2. ~nb_boot_now'
    BY Zenon DEF DeviceReset
  <2> QED
    BY <2>1, <2>2, Zenon DEF LaunchOK
<1> QED
  BY <1>4, <1>7, <1>9, <1>10, ZenonT(60) DEF FifoInv

(* The device's other steps.  The loop is left for the image BOOT asked    *)
(* for, which LaunchOK knows; a download that is empty is not launched.    *)
LEMMA DeviceKeeps ==
  ASSUME TypeInv, TypeInv', FifoInv, Ordered, DeviceNext, UNCHANGED hostVars
  PROVE  FifoInv'
<1>1. CASE Receive
  BY <1>1, ReceiveKeeps, Zenon
<1>2. CASE DeviceReset
  BY <1>2, ResetKeeps, Zenon
<1>3. CASE PollGoOnline \/ PollTimerExpired \/ TimerFires \/ MainBoot
           \/ AppReturns \/ BootKernelReturns
  <2>1. /\ UNCHANGED <<fileVars, lastVars, resets, bootPort, toDevice>>
        /\ toHost' = toHost \/ toHost' = SubSeq(toHost, 1, Len(toHost) - 1)
    BY <1>3, Zenon DEF PollGoOnline, PollTimerExpired, TimerFires, MainBoot,
                MainBootRefused, MainStartImage, MainBootKernel, AppReturns,
                BootKernelReturns, historyVars, linkVars
  <2>2. Still /\ UNCHANGED <<msg, cookie, Active>>
    BY <2>1, Zenon DEF Still, fileVars, lastVars, hostVars, Active
  <2>3. \A j \in DOMAIN toHost' : \E k \in DOMAIN toHost : toHost'[j] = toHost[k]
    <3>1. toHost \in Seq(Ack)
      BY Zenon DEF TypeInv, TypeOK, LinkTypeOK
    <3>2. LET s == SubSeq(toHost, 1, Len(toHost) - 1)
          IN  \A j \in DOMAIN s : j \in DOMAIN toHost /\ s[j] = toHost[j]
      BY <3>1
    <3> QED
      BY <2>1, <3>2, Zenon
  <2>4. Thins(toDevice', toDevice)
    BY <2>1, ThinsItself, Zenon
  <2>5. QueueOK' /\ HostOK' /\ \A i \in DOMAIN toHost' : AckOK(toHost[i])'
    BY <2>2, <2>3, <2>4, StillKeeps, Zenon
  <2>6. LaunchOK'
    <3>1. UNCHANGED <<item, offset, data, bootPort, xferFile, Image>>
      BY <2>1, Zenon DEF fileVars, hostVars, Image
    <3>2. nb_boot_now' => pc' = "main"
      <4>1. CASE MainBoot
        BY <4>1, Zenon DEF MainBoot, MainBootRefused, MainStartImage, MainBootKernel
      <4>2. CASE PollGoOnline \/ PollTimerExpired \/ TimerFires
        BY <4>2, Zenon DEF PollGoOnline, PollTimerExpired, TimerFires,
                           FifoInv, LaunchOK
      <4>3. CASE AppReturns \/ BootKernelReturns
        <5>1. pc # "main"
          BY <4>3, Zenon DEF AppReturns, BootKernelReturns
        <5>2. nb_boot_now' = nb_boot_now
          BY <4>3, ZenonT(60) DEF AppReturns, BootKernelReturns
        <5> QED
          BY <5>1, <5>2, Zenon DEF FifoInv, LaunchOK
      <4> QED
        BY <1>3, <4>1, <4>2, <4>3, Zenon
    <3>3. pc' \in {"main", "app", "kernel"} => pc \in {"main", "app", "kernel"}
      BY <1>3, Zenon DEF PollGoOnline, PollTimerExpired, TimerFires, MainBoot,
                  MainBootRefused, MainStartImage, MainBootKernel, AppReturns,
                  BootKernelReturns
    <3>4. /\ pc' \in {"app", "kernel"} =>
               pc \in {"app", "kernel"} \/ offset["nbkernel"] >= MinKernel
      BY <1>3, Zenon DEF PollGoOnline, PollTimerExpired, TimerFires, MainBoot,
                  MainBootRefused, MainStartImage, MainBootKernel, AppReturns,
                  BootKernelReturns
    <3>5. pc' \in {"app", "kernel"} => offset["nbkernel"] # 0
      BY <3>4, DeviceAssumption DEF FifoInv, LaunchOK
    <3>6. /\ item' = NULL => offset'["nbkernel"] = 0
          /\ pc' \in {"main", "app", "kernel"} =>
               /\ bootPort' \in DOMAIN xferFile'
               /\ offset'["nbkernel"] = 0 \/ Image' = xferFile'[bootPort']
      BY <3>1, <3>3, Zenon DEF FifoInv, LaunchOK
    <3> QED
      BY <3>1, <3>2, <3>5, <3>6, Zenon DEF LaunchOK
  <2> QED
    BY <2>5, <2>6, Zenon DEF FifoInv
<1> QED
  BY <1>1, <1>2, <1>3 DEF DeviceNext

(* A new transfer: its port is new, so nothing under way is meant for it,  *)
(* and its SEND_FILE may follow anything.                                  *)
LEMMA TakeBeaconKeeps ==
  ASSUME TypeInv, TypeInv', FifoInv, TakeBeacon, UNCHANGED deviceVars
  PROVE  FifoInv'
<1> USE DEF NB_SEND_FILE, NB_DATA, NB_BOOT
<1>1. PICK f \in Files : xferFile' = Append(xferFile, f)
  BY Zenon DEF TakeBeacon
<1>2. /\ UNCHANGED <<toDevice, toHost>> /\ cookie' = cookie + 1
      /\ msg' = [SendFileMsg(Len(xferFile) + 1) EXCEPT !.cookie = cookie]
  BY Zenon DEF TakeBeacon, StartIo
<1>3. /\ xferFile \in Seq(Files) /\ cookie \in Nat /\ Port \in Nat
      /\ toDevice \in Seq(Request) /\ toHost \in Seq(Ack)
  BY DEF TypeInv, TypeOK, HostTypeOK, LinkTypeOK, Port
<1>4. /\ DOMAIN xferFile = 1 .. Port /\ DOMAIN xferFile' = 1 .. Port + 1
      /\ Port' = Port + 1
      /\ \A p \in 1 .. Port : xferFile'[p] = xferFile[p]
  BY <1>1, <1>3 DEF Port
<1>5. /\ msg'.cmd = NB_SEND_FILE /\ msg'.arg = 0 /\ msg'.name = "kernel.bin"
      /\ msg'.sport = Port' /\ msg'.cookie = cookie
  BY <1>2, <1>4, Zenon DEF SendFileMsg, Port
<1>6. UNCHANGED <<item, offset, data, resets, pc, bootPort, nb_boot_now,
                  last_cookie, last_cmd, last_ack_cmd>>
  BY Zenon DEF deviceVars, fileVars, historyVars, lastVars
<1>7. ASSUME NEW n \in Request, RequestOK(n)
      PROVE  RequestOK(n)' /\ n.sport \in 1 .. Port
  <2>1. n.sport \in 1 .. Port /\ n.sport \in DOMAIN xferFile'
    <3>1. n.sport \in DOMAIN xferFile
      BY <1>7, Zenon DEF RequestOK, Genuine
    <3>2. 1 .. Port \subseteq 1 .. Port + 1
      BY <1>3
    <3> QED
      BY <1>4, <3>1, <3>2, Zenon
  <2>2. xferFile'[n.sport] = xferFile[n.sport]
    BY <1>4, <2>1, Zenon
  <2>3. Genuine(n)'
    BY <1>7, <2>1, <2>2, Zenon DEF RequestOK, Genuine
  <2>4. (Done(n)' <=> Done(n)) /\ (Ready(n)' <=> Ready(n))
    BY <1>6, <2>2, Zenon DEF Done, Ready, Dead, Holds, After
  <2>5. Remembered(n)' <=> Remembered(n)
    BY <1>6, Zenon DEF Remembered
  <2> QED
    BY <1>7, <2>1, <2>3, <2>4, <2>5, Zenon DEF RequestOK
<1>8. RequestOK(msg)'
  <2>1. (msg.sport \in DOMAIN xferFile)'
    BY <1>3, <1>4, <1>5
  <2>2. Genuine(msg)'
    BY <1>5, <2>1, Zenon DEF Genuine
  <2>3. Ready(msg)'
    BY <1>5, Zenon DEF Ready
  <2>4. ~Remembered(msg)'
    BY <1>5, Zenon DEF Remembered
  <2> QED
    BY <2>2, <2>3, <2>4, Zenon DEF RequestOK
<1>9. HostOK'
  BY <1>2, <1>5, <1>8, Zenon DEF HostOK
<1>10. ASSUME NEW i \in DOMAIN toDevice
       PROVE  RequestOK(toDevice[i])' /\ Follows(toDevice[i], msg)'
  <2>1. PICK n \in Request : n = toDevice[i]
    BY <1>3
  <2>2. RequestOK(n)' /\ n.sport \in 1 .. Port
    BY <1>7, <2>1, Zenon DEF FifoInv, QueueOK
  <2>3. toDevice'[i] = n /\ msg'.sport > n.sport
    BY <1>2, <1>3, <1>4, <1>5, <2>1, <2>2
  <2> QED
    BY <1>5, <2>2, <2>3, Zenon DEF Follows
<1>11. ASSUME NEW i \in DOMAIN toDevice, NEW j \in DOMAIN toDevice, i < j
       PROVE  Follows(toDevice[i], toDevice[j])'
  <2>1. Follows(toDevice[i], toDevice[j])
    BY <1>11, Zenon DEF FifoInv, QueueOK
  <2>2. toDevice[i].sport \in 1 .. Port
    BY <1>3, <1>7 DEF FifoInv, QueueOK
  <2>3. xferFile'[toDevice[i].sport] = xferFile[toDevice[i].sport]
    BY <1>4, <2>2, Zenon
  <2> QED
    BY <1>2, <2>1, <2>3, Zenon DEF Follows
<1>12. QueueOK'
  BY <1>2, <1>5, <1>10, <1>11, Zenon DEF QueueOK
<1>13. ASSUME NEW i \in DOMAIN toHost PROVE AckOK(toHost[i])'
  <2>1. toHost[i].dport <= Port /\ toHost[i].dport \in Nat
    <3>1. toHost[i] \in Ack /\ AckOK(toHost[i])
      BY <1>3 DEF FifoInv
    <3> QED
      BY <3>1, Zenon DEF AckOK, Ack
  <2>2. toHost'[i].dport <= Port' /\ toHost'[i].dport # Port'
    BY <1>2, <1>3, <1>4, <2>1
  <2> QED
    BY <2>2, Zenon DEF AckOK
<1>14. LaunchOK'
  <2>1. Image' = Image
    BY <1>6, Zenon DEF Image
  <2>2. bootPort \in DOMAIN xferFile =>
          bootPort \in DOMAIN xferFile' /\ xferFile'[bootPort] = xferFile[bootPort]
    BY <1>3, <1>4
  <2> QED
    BY <1>6, <2>1, <2>2, Zenon DEF FifoInv, LaunchOK
<1> QED
  BY <1>2, <1>9, <1>12, <1>13, <1>14, Zenon DEF FifoInv

(* The device and the files are as before: what is launched is, too.       *)
LEMMA LaunchKept ==
  ASSUME LaunchOK, UNCHANGED deviceVars, UNCHANGED xferFile
  PROVE  LaunchOK'
<1>1. UNCHANGED <<item, offset, data, pc, bootPort, nb_boot_now, Image>>
  BY Zenon DEF deviceVars, fileVars, historyVars, Image
<1> QED
  BY <1>1, Zenon DEF LaunchOK

(* io writes: a copy of the current request goes behind the others.        *)
LEMMA IoWriteKeeps ==
  ASSUME TypeInv, TypeInv', FifoInv, IoWrite, UNCHANGED deviceVars
  PROVE  FifoInv'
<1>1. /\ toDevice' = Push(toDevice, msg)
      /\ UNCHANGED <<toHost, msg, cookie, xferFile>> /\ Active /\ Active'
  BY Zenon DEF IoWrite, Active
<1>2. /\ toDevice \in Seq(Request) /\ Len(toDevice) \in Nat
      /\ DOMAIN toDevice = 1 .. Len(toDevice)
      /\ DOMAIN toDevice' = 1 .. Len(toDevice') /\ Len(toDevice') \in Nat
  BY DEF TypeInv, TypeOK, LinkTypeOK
<1>3. PICK g \in Request : g = msg
  BY Zenon DEF TypeInv, TypeOK, HostTypeOK
<1>4. Still
  BY <1>1, Zenon DEF Still, deviceVars, fileVars, historyVars, lastVars
<1>5. \A n : (RequestOK(n)' <=> RequestOK(n)) /\ (Done(n)' <=> Done(n))
  BY <1>4, StillOK, Zenon
<1>6. RequestOK(g) /\ g.sport = Port /\ Port' = Port
  BY <1>1, <1>3, Zenon DEF FifoInv, HostOK, Port
<1>7. HostOK'
  <2>1. RequestOK(msg)'
    BY <1>1, <1>3, <1>5, <1>6, Zenon
  <2> QED
    BY <1>1, <1>6, <2>1, Zenon DEF FifoInv, HostOK
<1>8. \A j \in DOMAIN toDevice' :
        \/ toDevice'[j] = g /\ j = Len(toDevice')
        \/ j \in DOMAIN toDevice /\ toDevice'[j] = toDevice[j]
  <2>1. CASE Len(toDevice) < Capacity
    <3>1. toDevice' = Append(toDevice, g)
      BY <1>1, <1>3, <2>1, Zenon DEF Push
    <3> QED
      BY <1>2, <3>1, Appended
  <2>2. CASE ~(Len(toDevice) < Capacity)
    BY <1>1, <2>2, Zenon DEF Push
  <2> QED
    BY <2>1, <2>2, Zenon
<1>9. ASSUME NEW j \in DOMAIN toDevice'
      PROVE  RequestOK(toDevice[j])' /\ Follows(toDevice[j], msg)'
  <2>1. PICK n : n = toDevice'[j]
    BY Zenon
  <2>2. RequestOK(n) /\ Follows(n, g)
    BY <1>3, <1>6, <1>8, <2>1, Zenon DEF FifoInv, QueueOK, Follows
  <2>3. RequestOK(n)' /\ Follows(n, g)' /\ msg' = g
    BY <1>1, <1>3, <1>5, <2>2, FollowsKept, Zenon
  <2> QED
    BY <2>1, <2>3, Zenon
<1>10. ASSUME NEW i \in DOMAIN toDevice', NEW j \in DOMAIN toDevice', i < j
       PROVE  Follows(toDevice[i], toDevice[j])'
  <2>1. PICK m, n : m = toDevice'[i] /\ n = toDevice'[j]
    BY Zenon
  <2>2. i # Len(toDevice')
    BY <1>2, <1>10
  <2>3. i \in DOMAIN toDevice /\ m = toDevice[i]
    BY <1>8, <2>1, <2>2, Zenon
  <2>4. Follows(m, n)
    BY <1>3, <1>8, <1>10, <2>1, <2>3, Zenon DEF FifoInv, QueueOK
  <2>5. Follows(m, n)'
    BY <1>1, <2>4, FollowsKept, Zenon
  <2> QED
    BY <2>1, <2>5, Zenon
<1>11. QueueOK'
  BY <1>1, <1>3, <1>6, <1>9, <1>10, ZenonT(60) DEF QueueOK
<1>12. Answered => Answered'
  <2>1. Done(g) => Done(msg)'
    BY <1>1, <1>3, <1>5, Zenon
  <2> QED
    BY <1>1, <1>3, <1>4, <1>8, <2>1, Zenon DEF Answered, Still
<1>13. \A i \in DOMAIN toHost' : AckOK(toHost[i])'
  BY <1>1, <1>6, <1>12, AcksKept, Zenon DEF FifoInv
<1> QED
  BY <1>1, <1>7, <1>11, <1>13, LaunchKept, Zenon DEF FifoInv

(* io goes on to the next request: the device has handled the current one  *)
(* and only copies of that are left in the queue.                          *)
LEMMA IoReadAckKeeps ==
  ASSUME TypeInv, TypeInv', FifoInv, hpc = "read", UNCHANGED deviceVars,
         NEW i \in DOMAIN toHost, toHost[i].dport = Port, IoReadAck(toHost[i]),
         toHost' = Without(toHost, i), UNCHANGED toDevice
  PROVE  FifoInv'
<1> USE DEF NB_SEND_FILE, NB_DATA, NB_BOOT
<1>0. msg' = [NextMsg(xferFile[Port], msg) EXCEPT !.cookie = cookie]
  BY Zenon DEF IoReadAck, StartIo
<1>1. /\ Expected(toHost[i]) /\ msg.cmd # NB_BOOT
      /\ cookie' = cookie + 1 /\ xferFile' = xferFile /\ Active
  BY ZenonT(60) DEF IoReadAck, StartIo, Active
<1>2. PICK g \in Request : g = msg
  BY Zenon DEF TypeInv, TypeOK, HostTypeOK
<1>3. /\ RequestOK(g) /\ Genuine(g) /\ g.sport = Port /\ cookie = g.cookie + 1
      /\ g.cookie \in Nat /\ Port' = Port
  BY <1>1, <1>2, Zenon DEF FifoInv, HostOK, RequestOK, Request, Port
<1>4. /\ Done(g) /\ (last_cmd = NB_DATA => last_cookie = g.cookie)
      /\ \A k \in DOMAIN toDevice : toDevice[k] = g
  <2>1. AckOK(toHost[i])
    BY ZenonT(60) DEF FifoInv
  <2>2. Answered
    BY <1>1, <2>1, Zenon DEF AckOK
  <2> QED
    BY <1>2, <2>2, Zenon DEF Answered
<1>5. PICK n : n = [NextMsg(xferFile[g.sport], g) EXCEPT !.cookie = g.cookie + 1]
  BY Zenon
<1>6. msg' = n
  BY <1>0, <1>2, <1>3, <1>5, Zenon
<1>7. /\ n \in Request /\ Genuine(n)
      /\ n.sport = g.sport /\ n.cookie = g.cookie + 1
      /\ \/ n.cmd = NB_DATA /\ n.arg = After(g)
         \/ n.cmd = NB_BOOT /\ After(g) = Len(xferFile[g.sport])
  BY <1>1, <1>2, <1>3, <1>5, NextFacts, Zenon
<1>8. Still
  BY <1>1, Zenon DEF Still, deviceVars, fileVars, historyVars, lastVars
<1>9. RequestOK(n)
  <2>1. Ready(n)
    BY <1>4, <1>7, Zenon DEF Ready, Done
  <2>2. ~Remembered(n)
    <3>1. g.cookie + 1 # g.cookie
      BY <1>3
    <3> QED
      BY <1>4, <1>7, <3>1, ZenonT(60) DEF Remembered
  <2> QED
    BY <1>7, <2>1, <2>2, Zenon DEF RequestOK
<1>10. RequestOK(n)' /\ RequestOK(g)'
  BY <1>3, <1>8, <1>9, StillOK, ZenonT(30)
<1>11. HostOK'
  BY <1>1, <1>3, <1>6, <1>7, <1>10, Zenon DEF HostOK
<1>12. Follows(g, n)'
  <2>1. Follows(g, n)
    BY <1>1, <1>2, <1>5, Zenon DEF Follows
  <2> QED
    BY <1>1, <2>1, FollowsKept, Zenon
<1>13. QueueOK'
  <2>1. \A k \in DOMAIN toDevice' : toDevice'[k] = g
    BY <1>4, Zenon
  <2>2. ASSUME NEW k \in DOMAIN toDevice'
        PROVE  RequestOK(toDevice[k])' /\ Follows(toDevice[k], msg)'
    <3>1. toDevice'[k] = g
      BY <2>1, Zenon
    <3> QED
      BY <1>6, <1>10, <1>12, <3>1, Zenon
  <2>3. \A k, l \in DOMAIN toDevice' : Follows(toDevice[k], toDevice[l])'
    BY <2>1, Zenon DEF Follows
  <2>4. (msg.sport = Port)'
    BY <1>3, <1>6, <1>7, Zenon
  <2> QED
    BY <2>2, <2>3, <2>4, Zenon DEF QueueOK
<1>14. ASSUME NEW j \in DOMAIN toHost' PROVE AckOK(toHost[j])'
  <2>1. toHost \in Seq(Ack)
    BY ZenonT(30) DEF TypeInv, TypeOK, LinkTypeOK
  <2>a. Thins(toHost', toHost)
    BY <2>1, WithoutThins, ZenonT(60)
  <2>2. PICK k \in DOMAIN toHost : toHost'[j] = toHost[k]
    BY <2>a, ZenonT(60) DEF Thins
  <2>3. PICK a \in Ack : a = toHost[k]
    BY <2>1
  <2>4. AckOK(a) /\ a.cookie \in Nat
    BY <2>3, Zenon DEF FifoInv, Ack
  <2>5. a.dport <= Port /\ (a.dport = Port => a.cookie <= g.cookie)
    BY <1>1, <1>2, <2>4, ZenonT(60) DEF AckOK
  <2>6. a.dport = Port => a.cookie <= n.cookie /\ a.cookie # n.cookie
    BY <1>3, <1>7, <2>4, <2>5
  <2>7. toHost'[j] = a
    BY <2>2, <2>3, Zenon
  <2> QED
    BY <1>3, <1>6, <2>5, <2>6, <2>7, Zenon DEF AckOK, Expected
<1>15. LaunchOK'
  BY <1>1, LaunchKept, Zenon DEF FifoInv
<1> QED
  BY <1>11, <1>13, <1>14, <1>15, Zenon DEF FifoInv

(* Steps of the host and of the network that send nothing new.             *)
LEMMA QuietKeeps ==
  ASSUME TypeInv, TypeInv', FifoInv, UNCHANGED deviceVars,
         UNCHANGED <<msg, xferFile>>, Active' => Active /\ cookie' = cookie,
         Thins(toDevice', toDevice),
         \A j \in DOMAIN toHost' : \E k \in DOMAIN toHost : toHost'[j] = toHost[k]
  PROVE  FifoInv'
<1>1. Still
  BY Zenon DEF Still, deviceVars, fileVars, historyVars, lastVars
<1>2. QueueOK' /\ HostOK' /\ \A i \in DOMAIN toHost' : AckOK(toHost[i])'
  BY <1>1, StillKeeps, Zenon
<1>3. LaunchOK'
  BY LaunchKept, Zenon DEF FifoInv
<1> QED
  BY <1>2, <1>3, Zenon DEF FifoInv

(* The host's steps.                                                       *)
LEMMA HostKeeps ==
  ASSUME TypeInv, TypeInv', FifoInv, HostRun \/ IoTimeout, UNCHANGED deviceVars
  PROVE  FifoInv'
<1>1. CASE TakeBeacon
  BY <1>1, TakeBeaconKeeps, Zenon
<1>2. CASE IoWrite
  BY <1>2, IoWriteKeeps, Zenon
<1>3. toHost \in Seq(Ack) /\ \A i \in Deliverable(toHost) : i \in DOMAIN toHost
  BY Zenon DEF TypeInv, TypeOK, LinkTypeOK, Deliverable
<1>4. \A i \in DOMAIN toHost : toHost' = Without(toHost, i) =>
        \A j \in DOMAIN toHost' : \E k \in DOMAIN toHost : toHost'[j] = toHost[k]
  BY <1>3, WithoutThins DEF Thins
<1>5. toDevice' = toDevice => Thins(toDevice', toDevice)
  BY ThinsItself, Zenon
<1>6. CASE IoRead
  <2>1. PICK i \in DOMAIN toHost :
          /\ toHost[i].dport = Port /\ toHost' = Without(toHost, i)
          /\ IoReadOther(toHost[i]) \/ IoReadAck(toHost[i])
               \/ IoReadBootAck(toHost[i]) \/ FreadFails(toHost[i])
    BY <1>3, <1>6, Zenon DEF IoRead
  <2>2. CASE IoReadAck(toHost[i])
    BY <1>6, <2>1, <2>2, IoReadAckKeeps, Zenon DEF IoRead
  <2>3. CASE IoReadOther(toHost[i]) \/ IoReadBootAck(toHost[i]) \/ FreadFails(toHost[i])
    <3>1. /\ UNCHANGED <<msg, xferFile, toDevice>>
          /\ Active' => Active /\ cookie' = cookie
      BY <1>6, <2>3, Zenon DEF IoRead, IoReadOther, IoReadBootAck, FreadFails, EndXfer,
                             Active, hostVars
    <3> QED
      BY <1>4, <1>5, <2>1, <3>1, QuietKeeps, ZenonT(60)
  <2> QED
    BY <2>1, <2>2, <2>3, Zenon
<1>7. CASE AckToClosedSocket
  <2>1. PICK i \in DOMAIN toHost : toHost' = Without(toHost, i)
    BY <1>3, <1>7, Zenon DEF AckToClosedSocket
  <2>2. /\ UNCHANGED <<msg, xferFile, toDevice>>
        /\ Active' => Active /\ cookie' = cookie
    BY <1>7, Zenon DEF AckToClosedSocket, hostVars, Active
  <2> QED
    BY <1>4, <1>5, <2>1, <2>2, QuietKeeps, Zenon
<1>8. CASE XferNotStarted \/ ListenFails \/ IoTimeout \/ IoError \/ XferDone
             \/ HostRestart
  <2>1. /\ UNCHANGED <<msg, xferFile, toDevice, toHost>>
        /\ Active' => Active /\ cookie' = cookie
    <3>1. CASE XferDone
      <4>1. UNCHANGED <<msg, xferFile, toDevice, toHost>>
        BY <3>1, Zenon DEF XferDone
      <4>2. hpc' = "exit" \/ hpc' = "listen"
        BY <3>1, Zenon DEF XferDone
      <4> QED
        BY <4>1, <4>2, Zenon DEF Active
    <3>2. CASE HostRestart
      BY <3>2, Zenon DEF HostRestart, Active
    <3>3. CASE XferNotStarted \/ ListenFails \/ IoTimeout \/ IoError
      BY <3>3, Zenon DEF XferNotStarted, ListenFails, IoTimeout, IoError, EndXfer, Active, linkVars
    <3> QED
      BY <1>8, <3>1, <3>2, <3>3, Zenon
  <2> QED
    BY <1>5, <2>1, QuietKeeps, Zenon
<1> QED
  BY <1>1, <1>2, <1>6, <1>7, <1>8, Zenon DEF HostRun

(* The network loses and repeats datagrams but does not reorder them.      *)
LEMMA LinkKeeps ==
  ASSUME TypeInv, TypeInv', FifoInv, LinkNext, UNCHANGED <<deviceVars, hostVars>>
  PROVE  FifoInv'
<1>1. toHost \in Seq(Ack) /\ toDevice \in Seq(Request)
  BY Zenon DEF TypeInv, TypeOK, LinkTypeOK
<1>2. /\ UNCHANGED <<msg, xferFile, cookie, Active>>
      /\ UNCHANGED deviceVars
  BY Zenon DEF hostVars, Active
<1>3. Thins(toDevice', toDevice)
  <2>1. \/ toDevice' = toDevice
        \/ \E i \in DOMAIN toDevice : toDevice' = Without(toDevice, i)
        \/ \E i \in DOMAIN toDevice : toDevice' = Twice(toDevice, i)
    BY Zenon DEF LinkNext, Lose, LoseRequest, LoseAck, LoseBeacon,
           Duplicate, DuplicateRequest, DuplicateAck
  <2> QED
    BY <1>1, <2>1, ThinsItself, WithoutThins, DuplicateThins, Zenon
<1>4. Thins(toHost', toHost)
  <2>1. \/ toHost' = toHost
        \/ \E i \in DOMAIN toHost : toHost' = Without(toHost, i)
        \/ \E i \in DOMAIN toHost : toHost' = Twice(toHost, i)
    BY Zenon DEF LinkNext, Lose, LoseRequest, LoseAck, LoseBeacon,
           Duplicate, DuplicateRequest, DuplicateAck
  <2> QED
    BY <1>1, <2>1, ThinsItself, WithoutThins, DuplicateThins, Zenon
<1>5. \A j \in DOMAIN toHost' : \E k \in DOMAIN toHost : toHost'[j] = toHost[k]
  BY <1>4, Zenon DEF Thins
<1> QED
  BY <1>2, <1>3, <1>5, QuietKeeps, Zenon

-----------------------------------------------------------------------------
(* Nothing is under way at the start.                                      *)
LEMMA FifoInvInit ==
  ASSUME Init
  PROVE  FifoInv
<1>1. /\ toDevice = <<>> /\ toHost = <<>> /\ hpc = "listen" /\ pc = "poll"
      /\ offset["nbkernel"] = 0
  BY Zenon DEF Init, LinkInit, DeviceInit, HostInit, Buffers
<1>2. ~nb_boot_now
  BY Zenon DEF Init, DeviceInit
<1>3. DOMAIN <<>> = {}
  OBVIOUS
<1> QED
  BY <1>1, <1>2, <1>3, Zenon DEF FifoInv, QueueOK, HostOK, Active, LaunchOK

(* No step of the device, the host or an order-keeping network breaks the  *)
(* agreement between the queue, the server and the device.                 *)
LEMMA FifoInvStep ==
  ASSUME Ordered, TypeInv, TypeInv', FifoInv, [Next]_vars
  PROVE  FifoInv'
<1>1. CASE DeviceStep
  BY <1>1, DeviceKeeps, Zenon DEF DeviceStep
<1>2. CASE HostStep
  BY <1>2, HostKeeps, Zenon DEF HostStep
<1>3. CASE Timeout
  BY <1>3, HostKeeps, Zenon DEF Timeout
<1>4. CASE LinkStep
  BY <1>4, LinkKeeps, Zenon DEF LinkStep
<1>5. CASE UNCHANGED vars
  <2>1. UNCHANGED deviceVars /\ UNCHANGED hostVars /\ UNCHANGED linkVars
    BY <1>5, Zenon DEF vars
  <2>2. /\ UNCHANGED <<msg, xferFile, toDevice, toHost>>
        /\ Active' => Active /\ cookie' = cookie
    BY <2>1, Zenon DEF hostVars, linkVars, Active
  <2> QED
    BY <2>1, <2>2, ThinsItself, QuietKeeps, Zenon
<1> QED
  BY <1>1, <1>2, <1>3, <1>4, <1>5, Zenon DEF Next

(* The agreement holds throughout: requests under way are in order and the *)
(* device is where the oldest of them needs it or leaves it.               *)
THEOREM SystemFifo == Ordered => (Spec => []FifoInv)
<1>1. Init => TypeInv /\ FifoInv
  BY TypeInvInit, FifoInvInit, Zenon
<1>2. ASSUME Ordered
      PROVE  TypeInv /\ FifoInv /\ [Next]_vars => (TypeInv /\ FifoInv)'
  BY <1>2, TypeInvStep, FifoInvStep, Zenon
<1>3. ASSUME Ordered PROVE Spec => []FifoInv
  BY <1>1, <1>2, <1>3, PTL DEF Spec
<1> QED
  BY <1>3, Zenon

(* Whatever efi_main launches is the whole file of the transfer whose BOOT *)
(* it obeys, on a network that keeps datagrams in order, for any number of *)
(* losses, duplicates, restarts, resets and any sizes.                     *)
THEOREM SystemBootsWholeFile == Ordered => (Spec => []BootsWholeFile)
<1>1. FifoInv => BootsWholeFile
  BY Zenon DEF FifoInv, LaunchOK, BootsWholeFile
<1>2. ASSUME Ordered PROVE Spec => []BootsWholeFile
  BY <1>1, <1>2, SystemFifo, PTL
<1> QED
  BY <1>2

(* io and udp6_recv never differ by more than the block under way.         *)
THEOREM SystemInStep == Ordered => (Spec => []InStep)
<1>1. TypeInv /\ FifoInv => InStep
  <2> SUFFICES ASSUME TypeInv, FifoInv, hpc \in {"write", "read"}, resets = 0,
                      msg.cmd \in {NB_DATA, NB_BOOT}
               PROVE  /\ item = "nbkernel"
                      /\ msg.cmd = NB_DATA => offset[item] \in {msg.arg, After(msg)}
                      /\ msg.cmd = NB_BOOT => Image = xferFile[Port]
    BY Zenon DEF InStep
  <2>1. msg \in Request /\ Ready(msg) /\ Genuine(msg) /\ msg.sport = Port
    BY Zenon DEF FifoInv, HostOK, Active, RequestOK, TypeInv, TypeOK, HostTypeOK
  <2>2. Port \in 1 .. Port /\ ~Dead
    <3>1. Port \in 1 .. Port
      BY <2>1, GenuineFacts, Zenon
    <3>2. ~Dead
      BY SMTT(60) DEF Dead
    <3> QED
      BY <3>1, <3>2, Zenon
  <2>3. CASE msg.cmd = NB_DATA
    BY <2>1, <2>2, <2>3, Zenon DEF Ready, Done, Holds, NB_SEND_FILE, NB_DATA, NB_BOOT
  <2>4. CASE msg.cmd = NB_BOOT
    <3>1. Holds(Port, Len(xferFile[Port]))
      BY <2>1, <2>2, <2>4, Zenon DEF Ready, NB_SEND_FILE, NB_DATA, NB_BOOT
    <3>2. Image = xferFile[Port]
      BY <2>2, <3>1, HoldsImage, Zenon
    <3> QED
      BY <2>4, <3>1, <3>2, Zenon DEF Holds, NB_DATA, NB_BOOT
  <2> QED
    BY <2>3, <2>4, Zenon
<1>2. Spec => []TypeInv
  BY TypeInvInit, TypeInvStep, PTL DEF Spec
<1>3. ASSUME Ordered PROVE Spec => []InStep
  BY <1>1, <1>2, <1>3, SystemFifo, PTL
<1> QED
  BY <1>3

(* A step of the device launches an image, leaves one, or shows neither in *)
(* pc nor, while an image runs, in its bytes.                              *)
LEMMA DeviceDelivers ==
  ASSUME DeviceNext, xferFile' = xferFile, BootsWholeFile'
  PROVE  Delivered!Launch \/ Delivered!Leave \/ UNCHANGED Running
<1>1. CASE pc \notin {"app", "kernel"} /\ pc' \notin {"app", "kernel"}
  BY <1>1, Zenon DEF Running
<1>2. CASE pc \notin {"app", "kernel"} /\ pc' \in {"app", "kernel"}
  <2>1. bootPort' \in DOMAIN xferFile /\ Running = {} /\ Running' = {xferFile[bootPort']}
    BY <1>2, Zenon DEF BootsWholeFile, Running
  <2> QED
    BY <2>1, Zenon DEF Delivered!Launch
<1>3. CASE pc \in {"app", "kernel"}
  <2>1. CASE AppReturns \/ BootKernelReturns \/ DeviceReset
    <3>1. Running # {} /\ Running' = {}
      BY <1>3, <2>1, Zenon DEF Running, AppReturns, BootKernelReturns, DeviceReset
    <3> QED
      BY <3>1, Zenon DEF Delivered!Leave
  <2>2. CASE TimerFires
    <3>1. UNCHANGED <<pc, offset, data>>
      BY <2>2, Zenon DEF TimerFires, fileVars
    <3> QED
      BY <3>1, Zenon DEF Running, Image
  <2>3. ~PollGoOnline /\ ~PollTimerExpired /\ ~Receive /\ ~MainBoot
    BY <1>3, Zenon DEF PollGoOnline, PollTimerExpired, Receive, MainBoot, MainBootRefused,
         MainStartImage, MainBootKernel
  <2> QED
    BY <2>1, <2>2, <2>3, Zenon DEF DeviceNext
<1> QED
  BY <1>1, <1>2, <1>3, Zenon

(* A step of the server offers a file, or leaves the transfers alone.      *)
LEMMA HostOffers ==
  ASSUME HostRun \/ IoTimeout
  PROVE  xferFile' = xferFile \/ \E f \in Files : xferFile' = Append(xferFile, f)
<1>1. CASE TakeBeacon
  BY <1>1, Zenon DEF TakeBeacon
<1>2. CASE IoRead
  BY <1>2, Zenon DEF IoRead, IoReadOther, IoReadAck, IoReadBootAck, FreadFails, hostVars
<1>3. CASE XferNotStarted \/ ListenFails \/ IoWrite \/ AckToClosedSocket \/ IoError \/ XferDone
             \/ HostRestart \/ IoTimeout
  BY <1>3, Zenon DEF XferNotStarted, ListenFails, IoWrite, AckToClosedSocket, IoError,
       XferDone, HostRestart, IoTimeout, hostVars
<1> QED
  BY <1>1, <1>2, <1>3, Zenon DEF HostRun

(* Server and device implement Delivery on a network that keeps datagrams  *)
(* in order: each of their steps offers a file, launches a whole one that  *)
(* was offered, leaves it, or changes neither the transfers nor what runs. *)
THEOREM SystemImplementsDelivery == Ordered => (Spec => DeliverySpec)
<1>1. Init => Delivered!Init
  BY Zenon DEF Init, DeviceInit, HostInit, Delivered!Init, Running
<1>2. BootsWholeFile' /\ [Next]_vars =>
        [Delivered!Offer \/ Delivered!Launch \/ Delivered!Leave]_<<xferFile, Running>>
  <2> SUFFICES ASSUME BootsWholeFile', [Next]_vars
               PROVE  Delivered!Offer \/ Delivered!Launch \/ Delivered!Leave
                        \/ UNCHANGED <<xferFile, Running>>
    BY Zenon
  <2>1. CASE DeviceStep
    <3>1. xferFile' = xferFile
      BY <2>1, Zenon DEF DeviceStep, hostVars
    <3> QED
      BY <2>1, <3>1, DeviceDelivers, Zenon DEF DeviceStep
  <2>2. CASE UNCHANGED deviceVars
    <3>1. UNCHANGED Running
      BY <2>2, Zenon DEF deviceVars, fileVars, Running, Image
    <3>2. xferFile' = xferFile \/ \E f \in Files : xferFile' = Append(xferFile, f)
      BY HostOffers, Zenon DEF Next, HostStep, Timeout, LinkStep, DeviceStep, vars, hostVars
    <3> QED
      BY <3>1, <3>2, Zenon DEF Delivered!Offer
  <2> QED
    BY <2>1, <2>2, Zenon DEF Next, HostStep, Timeout, LinkStep, vars
<1>3. ASSUME Ordered PROVE Spec => DeliverySpec
  BY <1>1, <1>2, <1>3, SystemBootsWholeFile, PTL DEF Spec, DeliverySpec, Delivered!Spec
<1> QED
  BY <1>3, Zenon
=============================================================================
