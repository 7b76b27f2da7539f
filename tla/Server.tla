-------------------------------- MODULE Server --------------------------------
(***************************************************************************)
(* Parts of the backend that share no state: the idempotency store, the    *)
(* seat locks, a group booking, the refunds of a booking and the loyalty   *)
(* queue.  A behaviour is of one of them, chosen at first; the others stay *)
(* as they are.                                                            *)
(***************************************************************************)
EXTENDS Idempotency, SeatLocks, GroupBooking, OffchainRefund, LoyaltyQueue

ASSUME ServerAssumption ==
    SeatAssumption /\ GroupAssumption /\ RefundsAssumption /\ QueueAssumption

VARIABLE part

allVars == <<part, vars, seatVars, groupVars, refundRowVars, queueVars>>

TypesOK == TypeOK /\ SeatTypeOK /\ GroupTypeOK /\ RefundsTypeOK /\ QueueTypeOK

\* A part that was not chosen has one initial state.
ServerInit ==
    /\ part \in {"idempotency", "seats", "group", "refund", "queue"}
    /\ Init /\ SeatInit /\ GroupInit /\ QueueInit
    /\ RefundsInit /\ (onchain \/ bycard => part = "refund")

ServerNext ==
    /\ UNCHANGED part
    /\ \/ /\ part = "idempotency" /\ Next
          /\ UNCHANGED <<seatVars, groupVars, refundRowVars, queueVars>>
       \/ /\ part = "seats" /\ SeatNext
          /\ UNCHANGED <<vars, groupVars, refundRowVars, queueVars>>
       \/ /\ part = "group" /\ GroupNext
          /\ UNCHANGED <<vars, seatVars, refundRowVars, queueVars>>
       \/ /\ part = "refund" /\ RefundsNext
          /\ UNCHANGED <<vars, seatVars, groupVars, queueVars>>
       \/ /\ part = "queue" /\ QueueNext
          /\ UNCHANGED <<vars, seatVars, groupVars, refundRowVars>>

\* Where the refunds were not chosen, nothing of them is ever enabled.
ServerSpec == ServerInit /\ [][ServerNext]_allVars /\ CallsGoOn
=============================================================================
