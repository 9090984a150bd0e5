------------------------------- MODULE TxPool -------------------------------
(***************************************************************************)
(* What inet6.h expects of the network stack: "a single transmit buffer"   *)
(* is taken by a send and released when the frame is sent or on an error.  *)
(***************************************************************************)
EXTENDS Integers

CONSTANT NumBuffers

VARIABLES free, busy

Buf == 1 .. NumBuffers

Init == free = {} /\ busy = {}

Fill == free = {} /\ busy = {} /\ free' = Buf /\ busy' = {}

Take == \E b \in free : free' = free \ {b} /\ busy' = busy \cup {b}

Release == \E b \in busy : free' = free \cup {b} /\ busy' = busy \ {b}

Spec == Init /\ [][Fill \/ Take \/ Release]_<<free, busy>>
=============================================================================
