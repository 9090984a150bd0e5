------------------------------- MODULE NetIfc -------------------------------
(***************************************************************************)
(* The network interface of the device: netifc.c (opening the firmware's   *)
(* Simple Network Protocol, the pool of transmit buffers, polling) and the *)
(* part of inet6.c that runs inside a poll (dispatch of a frame, resolving *)
(* and sending the answer).  The firmware driver runs beside it.           *)
(*                                                                         *)
(* pc says where the boot loader is:                                       *)
(*   "open"    at the start of netifc_open                                 *)
(*   "snp"     the protocol is open and started                            *)
(*   "pool"    the buffers are allocated                                   *)
(*   "up"      netifc_open returned 0, between two calls into the stack    *)
(*   "receive" in netifc_poll, which was told that a frame is waiting      *)
(*   "failed"  netifc_open returned -1                                     *)
(*   "closed"  after netifc_close                                          *)
(***************************************************************************)
EXTENDS Integers, Sequences, FiniteSets

CONSTANTS
  NumBuffers,   \* transmit buffers: NUM_BUFFER_PAGES * 2
  MaxMCast,     \* multicast filters the driver has (MaxMCastFilterCount)
  MacAddr,      \* link addresses of the other hosts
  IpAddr,       \* their IPv6 addresses
  Frames,       \* frames they may send
  TxRing,       \* frames the driver accepts before one is completed
  RxQueue,      \* frames the driver keeps until Receive takes them
  MaxFrames,    \* frames that may arrive
  LevelIrq,     \* TRUE: GetStatus reports a frame as long as one is waiting
  Faults        \* TRUE: firmware calls may fail

(* The multicast groups the device is in, by name, and their MACs.         *)
snm_ip6_addr     == "ff02::1:ffdd:eeff"
ip6_ll_all_nodes == "ff02::1"
Multicast        == {snm_ip6_addr, ip6_ll_all_nodes}
snm_mac_addr     == "33:33:ff:dd:ee:ff"
all_mac_addr     == "33:33:00:00:00:01"
ll_mac_addr      == "aa:bb:cc:dd:ee:ff"

multicast_from_ip6(ip) == IF ip = snm_ip6_addr THEN snm_mac_addr ELSE all_mac_addr

(* A received frame.  sane: it passes eth_recv's tests of length, type,    *)
(* version and, unless sent to all nodes, destination; valid: it passes    *)
(* the tests of its protocol's handler.                                    *)
Frame == [to : {ll_mac_addr, snm_mac_addr, all_mac_addr},
          mac : MacAddr, src : IpAddr, sane : BOOLEAN, valid : BOOLEAN,
          proto : {"solicit", "echo", "udp", "other"}]

Buf == 1 .. NumBuffers

(* A frame handed to the driver; re is the MAC of the one it answers.      *)
Sent == [buf : Buf, mac : MacAddr \cup {snm_mac_addr, all_mac_addr},
         dst : IpAddr \cup Multicast, re : MacAddr \cup {all_mac_addr}]

ASSUME NetIfcAssumption ==
  /\ NumBuffers \in Nat \ {0} /\ MaxMCast \in Nat
  /\ TxRing \in Nat \ {0} /\ RxQueue \in Nat \ {0} /\ MaxFrames \in Nat
  /\ Frames \subseteq Frame
  /\ IpAddr \cap Multicast = {}
  /\ MacAddr \cap {ll_mac_addr, snm_mac_addr, all_mac_addr} = {}
  /\ LevelIrq \in BOOLEAN /\ Faults \in BOOLEAN

VARIABLES
  pc,
  snp,            \* Mode->State of the protocol
  mcast_filters,  \* filters requested, in the order they were added
  filters,        \* multicast MACs the driver lets through
  eth_buffers,    \* the list of free buffers, from its head
  tx,             \* frames the driver has not sent yet
  txdone,         \* buffers it has sent and not reported yet
  rx,             \* frames it has received
  irq,            \* the receive interrupt has not been read yet
  rx_mac_addr, rx_ip6_addr,
  arrived         \* frames that have arrived so far

openVars   == <<snp, mcast_filters, filters>>
senderVars == <<rx_mac_addr, rx_ip6_addr>>
rxVars     == <<rx, irq, arrived>>
vars       == <<pc, openVars, eth_buffers, tx, txdone, rxVars, senderVars>>

NoAddr == "::"

(* The statics of netifc.c and inet6.c and the driver's queues keep their  *)
(* types.                                                                  *)
TypeOK ==
  /\ pc \in {"open", "snp", "pool", "up", "receive", "failed", "closed"}
  /\ snp \in {"Stopped", "Started", "Initialized"}
  /\ mcast_filters \in Seq({snm_mac_addr, all_mac_addr})
  /\ filters \subseteq {snm_mac_addr, all_mac_addr}
  /\ eth_buffers \in Seq(Buf)
  /\ tx \in Seq(Sent)
  /\ txdone \in Seq(Buf)
  /\ rx \in Seq(Frame)
  /\ irq \in BOOLEAN
  /\ rx_mac_addr \in MacAddr \cup {NoAddr} /\ rx_ip6_addr \in IpAddr \cup {NoAddr}
  /\ arrived \in 0 .. MaxFrames

(* The firmware may have started, or even initialized, the interface.      *)
Init ==
  /\ pc = "open"
  /\ snp \in {"Stopped", "Started", "Initialized"}
  /\ mcast_filters = <<>>
  /\ filters = {}
  /\ eth_buffers = <<>>
  /\ tx = <<>> /\ txdone = <<>>
  /\ rx = <<>> /\ irq = FALSE /\ arrived = 0
  /\ rx_mac_addr = NoAddr /\ rx_ip6_addr = NoAddr

-----------------------------------------------------------------------------
(* The pool of transmit buffers.                                           *)

(* eth_put_buffer: p goes to the head of the list.                         *)
Put(list, p) == <<p>> \o list

(* Mutant: the loop runs once too often.                                   *)
AllBuffers_oneMore == [i \in 1 .. NumBuffers + 1 |-> NumBuffers + 2 - i]

(* Every buffer, as netifc_open's loop puts them.                          *)
AllBuffers == [i \in Buf |-> NumBuffers + 1 - i]

-----------------------------------------------------------------------------
(* netifc_open.                                                            *)

OpenFails ==
  /\ pc' = "failed"
  /\ UNCHANGED <<mcast_filters, filters, eth_buffers, tx, txdone, rxVars, senderVars>>

(* LocateHandle, OpenProtocol, Start and Initialize.  An interface that is *)
(* started already is not initialized; one that is initialized already     *)
(* does not get back to the started state.                                 *)
OpenProtocol ==
  /\ pc = "open"
  /\ \/ Faults /\ snp' \in {snp, "Started"} /\ OpenFails
     \/ snp = "Initialized" /\ UNCHANGED snp /\ OpenFails
     \/ /\ snp \in {"Stopped", "Started"}
        /\ snp' = IF snp = "Stopped" THEN "Initialized" ELSE snp
        /\ pc' = "snp"
        /\ UNCHANGED <<mcast_filters, filters, eth_buffers, tx, txdone, rxVars,
                       senderVars>>

OpenBuffers ==
  /\ pc = "snp"
  /\ \/ Faults /\ UNCHANGED snp /\ OpenFails
     \/ /\ eth_buffers' = AllBuffers
        /\ pc' = "pool"
        /\ UNCHANGED <<openVars, tx, txdone, rxVars, senderVars>>

MAX_FILTER == 8

(* eth_add_mcast_filter, whose result ip6_init ignores.                    *)
AddFilter(list, mac) ==
  IF Len(list) >= MAX_FILTER \/ Len(list) >= MaxMCast THEN list ELSE Append(list, mac)

(* Mutant: the group of all nodes is joined first.                         *)
ip6_init_swapped == AddFilter(AddFilter(<<>>, all_mac_addr), snm_mac_addr)

(* The filters ip6_init asks for.                                          *)
ip6_init == AddFilter(AddFilter(<<>>, snm_mac_addr), all_mac_addr)

(* Mutant: what ReceiveFilters returns is not looked at.                   *)
OpenFilters_unchecked ==
  /\ pc = "pool"
  /\ mcast_filters' = ip6_init
  /\ pc' = "up"
  /\ filters' = {snm_mac_addr, all_mac_addr}
  /\ UNCHANGED <<snp, eth_buffers, tx, txdone, rxVars, senderVars>>

(* ip6_init, ReceiveFilters and the check of what the driver installed: if *)
(* a filter is missing, it is asked to let everything through.  The driver *)
(* refuses both calls unless it is initialized, and the first if no        *)
(* multicast address comes with RECEIVE_MULTICAST.                         *)
OpenFilters ==
  /\ pc = "pool"
  /\ mcast_filters' = ip6_init
  /\ LET asked == {mcast_filters'[i] : i \in DOMAIN mcast_filters'} IN
     \/ /\ Faults \/ snp # "Initialized" \/ asked = {}
        /\ pc' = "failed" /\ UNCHANGED filters
     \/ /\ snp = "Initialized" /\ asked # {} /\ pc' = "up"
        /\ filters' \in {asked, {snm_mac_addr, all_mac_addr}}
  /\ UNCHANGED <<snp, eth_buffers, tx, txdone, rxVars, senderVars>>

-----------------------------------------------------------------------------
(* Sending.  The callers of udp6_send and icmp6_send ignore their result.  *)

(* resolve_ip6 with the sender the cache holds: the MACs it may return.    *)
resolve_ip6(ip, mac, cached) ==
  IF ip \in Multicast THEN {multicast_from_ip6(ip)}
  ELSE IF ip = cached THEN {mac} ELSE {}

(* Mutant: a buffer taken is not put back.                                 *)
SendFails_leaks(macs) ==
  /\ eth_buffers = <<>> \/ macs = {} \/ Len(tx) >= TxRing \/ Faults
  /\ eth_buffers' = IF eth_buffers = <<>> THEN <<>> ELSE Tail(eth_buffers)
  /\ UNCHANGED tx

(* No buffer, no MAC for ip, or Transmit fails: nothing is sent, a buffer  *)
(* taken is put back.                                                      *)
SendFails(macs) ==
  /\ eth_buffers = <<>> \/ macs = {} \/ Len(tx) >= TxRing \/ Faults
  /\ eth_buffers' = IF eth_buffers = <<>> THEN <<>>
                    ELSE Put(Tail(eth_buffers), Head(eth_buffers))
  /\ UNCHANGED tx

Transmit(ip, macs, re) ==
  /\ eth_buffers # <<>> /\ Len(tx) < TxRing
  /\ eth_buffers' = Tail(eth_buffers)
  /\ \E m \in macs : tx' = Append(tx, [buf |-> Head(eth_buffers), mac |-> m,
                                       dst |-> ip, re |-> re])

(* udp6_send and icmp6_send to ip; re as in Sent.                          *)
Send(ip, re) ==
  LET macs == resolve_ip6(ip, rx_mac_addr', rx_ip6_addr')
  IN  SendFails(macs) \/ Transmit(ip, macs, re)

Silent == UNCHANGED <<eth_buffers, tx>>

-----------------------------------------------------------------------------
(* eth_recv.  A frame for all nodes is not for this device.                *)
ForMe(f) == f.sane /\ f.to # all_mac_addr

(* icmp6_recv answers solicitations and pings, udp6_recv may answer.       *)
Answer(f) ==
  \/ f.valid /\ f.proto \in {"solicit", "echo", "udp"} /\ Send(f.src, f.mac)
  \/ ~f.valid /\ Silent
  \/ f.proto \in {"udp", "other"} /\ Silent

(* Mutant: a sender known by its IPv6 address is not stored again.         *)
eth_recv_knownSender(f) ==
  \/ ~ForMe(f) /\ Silent /\ UNCHANGED senderVars
  \/ /\ ForMe(f)
     /\ rx_mac_addr' = IF f.src = rx_ip6_addr THEN rx_mac_addr ELSE f.mac
     /\ rx_ip6_addr' = f.src
     /\ Answer(f)

eth_recv(f) ==
  \/ ~ForMe(f) /\ Silent /\ UNCHANGED senderVars
  \/ /\ ForMe(f)
     /\ rx_mac_addr' = f.mac /\ rx_ip6_addr' = f.src
     /\ Answer(f)

-----------------------------------------------------------------------------
(* Mutant: the buffer reported is put back and reported again.             *)
PollStatus_twice ==
  /\ pc = "up"
  /\ eth_buffers' = IF txdone = <<>> THEN eth_buffers
                    ELSE Put(eth_buffers, Head(txdone))
  /\ irq' = FALSE
  /\ pc' = IF irq \/ (LevelIrq /\ rx # <<>>) THEN "receive" ELSE "up"
  /\ UNCHANGED <<openVars, tx, txdone, rx, arrived, senderVars>>

(* Mutant: the buffer reported is forgotten.                               *)
PollStatus_noReclaim ==
  /\ pc = "up"
  /\ txdone' = IF txdone = <<>> THEN <<>> ELSE Tail(txdone)
  /\ irq' = FALSE
  /\ pc' = IF irq \/ (LevelIrq /\ rx # <<>>) THEN "receive" ELSE "up"
  /\ UNCHANGED <<openVars, eth_buffers, tx, rx, arrived, senderVars>>

(* Mutant: a frame is only read when no buffer was reported.               *)
PollStatus_either ==
  /\ pc = "up"
  /\ \/ /\ txdone = <<>>
        /\ UNCHANGED <<eth_buffers, txdone>>
        /\ pc' = IF irq \/ (LevelIrq /\ rx # <<>>) THEN "receive" ELSE "up"
     \/ /\ txdone # <<>>
        /\ eth_buffers' = Put(eth_buffers, Head(txdone))
        /\ txdone' = Tail(txdone)
        /\ pc' = "up"
  /\ irq' = FALSE
  /\ UNCHANGED <<openVars, tx, rx, arrived, senderVars>>

(* netifc_poll.  GetStatus hands back at most one buffer and clears the    *)
(* interrupt; when it fails, the poll does nothing.                        *)
PollStatus ==
  /\ pc = "up"
  /\ \/ txdone = <<>> /\ UNCHANGED <<eth_buffers, txdone>>
     \/ /\ txdone # <<>>
        /\ eth_buffers' = Put(eth_buffers, Head(txdone))
        /\ txdone' = Tail(txdone)
  /\ irq' = FALSE
  /\ pc' = IF irq \/ (LevelIrq /\ rx # <<>>) THEN "receive" ELSE "up"
  /\ UNCHANGED <<openVars, tx, rx, arrived, senderVars>>

(* One frame is taken, or Receive fails.                                   *)
PollReceive ==
  /\ pc = "receive"
  /\ pc' = "up"
  /\ \/ rx = <<>> /\ Silent /\ UNCHANGED <<rx, senderVars>>
     \/ Faults /\ rx # <<>> /\ rx' = Tail(rx) /\ Silent /\ UNCHANGED senderVars
     \/ rx # <<>> /\ rx' = Tail(rx) /\ eth_recv(Head(rx))
  /\ UNCHANGED <<openVars, txdone, irq, arrived>>

(* netboot_poll advertises to all nodes.                                   *)
Advertise ==
  /\ pc = "up"
  /\ UNCHANGED senderVars
  /\ Send(ip6_ll_all_nodes, all_mac_addr)
  /\ UNCHANGED <<pc, openVars, txdone, rxVars>>

netifc_close ==
  /\ pc = "up"
  /\ pc' = "closed"
  /\ snp' = "Stopped"
  /\ UNCHANGED <<mcast_filters, filters, eth_buffers, tx, txdone, rxVars, senderVars>>

-----------------------------------------------------------------------------
(* The firmware's driver.                                                  *)
TxComplete ==
  /\ snp = "Initialized" /\ tx # <<>>
  /\ txdone' = Append(txdone, Head(tx).buf)
  /\ tx' = Tail(tx)
  /\ UNCHANGED <<pc, openVars, eth_buffers, rxVars, senderVars>>

RxArrives ==
  /\ snp = "Initialized" /\ arrived < MaxFrames /\ Len(rx) < RxQueue
  /\ \E f \in Frames : /\ f.to \in filters \cup {ll_mac_addr}
                       /\ rx' = Append(rx, f)
  /\ irq' = TRUE
  /\ arrived' = arrived + 1
  /\ UNCHANGED <<pc, openVars, eth_buffers, tx, txdone, senderVars>>

netifc_open == OpenProtocol \/ OpenBuffers \/ OpenFilters

netifc_poll == PollStatus \/ PollReceive

Next ==
  \/ netifc_open
  \/ netifc_poll
  \/ Advertise
  \/ netifc_close
  \/ TxComplete
  \/ RxArrives

Spec == Init /\ [][Next]_vars

-----------------------------------------------------------------------------
Bufs(frames) == [i \in DOMAIN frames |-> frames[i].buf]

Distinct(s) == \A i, j \in DOMAIN s : s[i] = s[j] => i = j

Elems(s) == {s[i] : i \in DOMAIN s}

(* Once allocated, every transmit buffer is in exactly one place: on the   *)
(* free list, with the driver, or sent and waiting for GetStatus to report *)
(* it.  No path of udp6_send, icmp6_send, eth_send and netifc_poll loses a *)
(* buffer or puts one on the list twice.                                   *)
PoolConserved ==
  pc \notin {"open", "snp", "failed"} =>
    /\ Distinct(eth_buffers) /\ Distinct(Bufs(tx)) /\ Distinct(txdone)
    /\ Elems(eth_buffers) \cap Elems(Bufs(tx)) = {}
    /\ Elems(eth_buffers) \cap Elems(txdone) = {}
    /\ Elems(Bufs(tx)) \cap Elems(txdone) = {}
    /\ Buf = Elems(eth_buffers) \cup Elems(Bufs(tx)) \cup Elems(txdone)

(* An answer is sent to the link address the question came from, also when *)
(* hosts share or exchange IPv6 addresses: rx_mac_addr and rx_ip6_addr     *)
(* belong to the frame being answered.  Advertisements go to all nodes.    *)
AnswersGoBack == \A i \in DOMAIN tx : tx[i].mac = tx[i].re

(* When netifc_open has returned 0, neighbor solicitations for the device  *)
(* get through the driver's filters, so that icmp6_recv can answer them,   *)
(* although ip6_init ignores that eth_add_mcast_filter may find no room.   *)
SolicitationsHeard == pc \in {"up", "receive"} => snm_mac_addr \in filters

(* netifc_open returns 0 only with an interface that can send and receive, *)
(* in whatever state the firmware left it: one that was started already is *)
(* never initialized, and is only noticed when the filters are installed.  *)
UpIsInitialized == pc \in {"up", "receive"} => snp = "Initialized"

(* The pool as its users see it, and what the list and the driver hold.    *)
Pool == INSTANCE TxPool WITH free <- Elems(eth_buffers),
                             busy <- Elems(Bufs(tx)) \cup Elems(txdone)

PoolSpec == Pool!Spec

(* efi_main's loop polls for ever, the driver sends what it accepted.      *)
FairSpec ==
  /\ Spec
  /\ WF_vars(netifc_open) /\ WF_vars(netifc_poll) /\ WF_vars(TxComplete)

(* Running out of buffers is temporary, although every poll reclaims one   *)
(* buffer at most and may send two frames.                                 *)
PoolRefills == (eth_buffers = <<>> /\ pc = "up") ~> (eth_buffers # <<>> \/ pc = "closed")

(* Every frame the driver keeps is read in the end, although a poll reads  *)
(* one at most and only when GetStatus has reported an interrupt.  This is *)
(* so for LevelIrq, a driver that reports one as long as a frame waits: a  *)
(* driver that reports several frames once leaves all but one of them      *)
(* unread until another arrives.                                           *)
AllRead == rx # <<>> ~> (rx = <<>> \/ pc \in {"failed", "closed"})
=============================================================================
