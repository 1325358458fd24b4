------------------------------ MODULE MCOutbox ------------------------------
(***************************************************************************)
(* Two replicas, two transports and two events, which one batch may hold.  *)
(***************************************************************************)
EXTENDS Outbox
=============================================================================
