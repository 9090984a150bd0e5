-------------------------------- MODULE Link --------------------------------
(***************************************************************************)
(* The Ethernet segment between the host and the device, with the receive  *)
(* queues at both ends.  It is not part of the repository: it is what      *)
(* netifc.c (Receive, Transmit) and nbserver.c (read, write, recvfrom) use.*)
(*                                                                         *)
(* Queues are finite: a datagram that finds its queue full is dropped.     *)
(* Beyond that the link loses at most MaxLoss and duplicates at most       *)
(* MaxDup datagrams, and delivers in order or, with Ordered = FALSE, in    *)
(* any order.                                                              *)
(***************************************************************************)
EXTENDS NbMsg

CONSTANTS
  Capacity,   \* datagrams a receive queue holds
  MaxLoss,    \* losses the link may inflict
  MaxDup,     \* duplications the link may inflict
  Ordered     \* TRUE: datagrams arrive in the order they were sent

ASSUME LinkAssumption ==
  /\ Capacity \in Nat \ {0}
  /\ MaxLoss \in Nat
  /\ MaxDup \in Nat
  /\ Ordered \in BOOLEAN

VARIABLES
  toDevice,   \* requests on their way to the device
  toHost,     \* acknowledgements on their way to the host
  beacon,     \* an advertisement waits at the host's NB_ADVERT_PORT socket
  losses,     \* datagrams lost so far
  dups        \* datagrams duplicated so far

linkVars == <<toDevice, toHost, beacon, losses, dups>>

LinkTypeOK ==
  /\ toDevice \in Seq(Request)
  /\ toHost \in Seq(Ack)
  /\ beacon \in BOOLEAN
  /\ losses \in 0 .. MaxLoss
  /\ dups \in 0 .. MaxDup

LinkInit ==
  /\ toDevice = <<>>
  /\ toHost = <<>>
  /\ beacon = FALSE
  /\ losses = 0
  /\ dups = 0

(* A datagram enters a queue, or is dropped when the queue is full.        *)
Push(q, m) == IF Len(q) < Capacity THEN Append(q, m) ELSE q

(* A queue without its i-th datagram, and with that one repeated.          *)
Without(q, i) == SubSeq(q, 1, i - 1) \o SubSeq(q, i + 1, Len(q))
Twice(q, i)   == SubSeq(q, 1, i - 1) \o <<q[i]>> \o SubSeq(q, i, Len(q))

(* The positions of a queue the receiver may be given next.                *)
Deliverable(q) == IF Ordered THEN {1} \cap DOMAIN q ELSE DOMAIN q

LoseRequest ==
  /\ \E i \in DOMAIN toDevice : toDevice' = Without(toDevice, i)
  /\ UNCHANGED <<toHost, beacon>>

LoseAck ==
  /\ \E i \in DOMAIN toHost : toHost' = Without(toHost, i)
  /\ UNCHANGED <<toDevice, beacon>>

LoseBeacon ==
  /\ beacon
  /\ beacon' = FALSE
  /\ UNCHANGED <<toDevice, toHost>>

Lose ==
  /\ losses < MaxLoss
  /\ losses' = losses + 1
  /\ LoseRequest \/ LoseAck \/ LoseBeacon
  /\ UNCHANGED dups

DuplicateRequest ==
  /\ Len(toDevice) < Capacity
  /\ \E i \in DOMAIN toDevice : toDevice' = Twice(toDevice, i)
  /\ UNCHANGED toHost

DuplicateAck ==
  /\ Len(toHost) < Capacity
  /\ \E i \in DOMAIN toHost : toHost' = Twice(toHost, i)
  /\ UNCHANGED toDevice

Duplicate ==
  /\ dups < MaxDup
  /\ dups' = dups + 1
  /\ DuplicateRequest \/ DuplicateAck
  /\ UNCHANGED <<beacon, losses>>

LinkNext == Lose \/ Duplicate
=============================================================================
