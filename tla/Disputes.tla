------------------------------- MODULE Disputes -------------------------------
(***************************************************************************)
(* Refund requests and the three kinds of dispute.  None of these contract *)
(* parts calls another, so a behaviour is one of one of them, chosen at    *)
(* first; the others stay as they are.                                     *)
(***************************************************************************)
EXTENDS Refund, RefundDisputes, JuryDispute, ArbiterDispute

ASSUME DisputesAssumption == RulingsAssumption /\ JuryAssumption /\ ArbiterAssumption

VARIABLE part

allVars == <<part, refundVars, rulingVars, juryVars, arbiterVars>>

TypesOK == RefundTypeOK /\ RulingsTypeOK /\ JuryTypeOK /\ ArbiterTypeOK

Init ==
    /\ part \in {"refund", "refund_dispute", "jury", "arbiter"}
    /\ RefundInit /\ RulingsInit /\ JuryInit /\ ArbiterInit

Next ==
    /\ UNCHANGED part
    /\ \/ /\ part = "refund" /\ RefundNext
          /\ UNCHANGED <<rulingVars, juryVars, arbiterVars>>
       \/ /\ part = "refund_dispute" /\ RulingsNext
          /\ UNCHANGED <<refundVars, juryVars, arbiterVars>>
       \/ /\ part = "jury" /\ JuryNext
          /\ UNCHANGED <<refundVars, rulingVars, arbiterVars>>
       \/ /\ part = "arbiter" /\ ArbiterNext
          /\ UNCHANGED <<refundVars, rulingVars, juryVars>>

Spec == Init /\ [][Next]_allVars
=============================================================================
