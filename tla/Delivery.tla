------------------------------ MODULE Delivery ------------------------------
(***************************************************************************)
(* What network booting promises, without network, blocks and retries: a   *)
(* machine runs nothing, or one whole file that was offered to it, which   *)
(* does not change while it runs.                                          *)
(***************************************************************************)
EXTENDS Sequences

CONSTANT Files

VARIABLES
  offered,  \* the files the server has begun to send
  running   \* {}, or the one image that runs

Init == offered = <<>> /\ running = {}

Offer == (\E f \in Files : offered' = Append(offered, f)) /\ running' = running

Launch ==
  /\ running = {}
  /\ \E i \in DOMAIN offered : running' = {offered[i]}
  /\ offered' = offered

(* The image returns, fails, or the machine is reset.                      *)
Leave == running # {} /\ running' = {} /\ offered' = offered

Spec == Init /\ [][Offer \/ Launch \/ Leave]_<<offered, running>>
=============================================================================
