--------------------------------- MODULE Clock ---------------------------------
(***************************************************************************)
(* env.ledger().timestamp(), which passes without a contract being called. *)
(***************************************************************************)
EXTENDS Naturals

CONSTANT MaxTime   \* bound: ledger time

ASSUME ClockAssumption == MaxTime \in Nat

VARIABLE now

Tick == now < MaxTime /\ now' = now + 1
=============================================================================
