---------------------------- MODULE RefundDisputes ----------------------------
(***************************************************************************)
(* The disputes of the refund automation contract: one slot per refund id, *)
(* which any passenger may fill and an operator resolves.  A resolution is *)
(* written in a second slot as well, and announced.                        *)
(***************************************************************************)
EXTENDS NoValue, Sequences, Naturals

CONSTANTS
    RefundIds,     \* names of refunds (a Symbol)
    Passengers,    \* who may submit
    Resolutions,   \* what an operator may decide (a Symbol)
    MaxRulings     \* bound: resolutions per refund

RulingsAssumption == None \notin Resolutions

VARIABLES
    dispute,       \* DataKey::Dispute, by refund id
    resolution,    \* DataKey::DisputeResolution, by refund id
    rulings        \* the (refund, resolved) events, by refund id

rulingVars == <<dispute, resolution, rulings>>

DisputeRecord == [passenger : Passengers, status : {"open", "resolved"},
                  resolution : Resolutions \cup {None}]

RulingsTypeOK ==
    /\ dispute \in [RefundIds -> DisputeRecord \cup {None}]
    /\ resolution \in [RefundIds -> Resolutions \cup {None}]
    /\ rulings \in [RefundIds -> Seq(Resolutions)]

RulingsInit ==
    /\ dispute = [r \in RefundIds |-> None]
    /\ resolution = [r \in RefundIds |-> None]
    /\ rulings = [r \in RefundIds |-> <<>>]

\* Whatever is in the slot is overwritten.
SubmitDispute(passenger, r) ==
    /\ dispute' = [dispute EXCEPT ![r] =
          [passenger |-> passenger, status |-> "open", resolution |-> None]]
    /\ UNCHANGED <<resolution, rulings>>

\* Mutant: the second slot keeps the first resolution it was given.
ResolveRefundDisputeOnce(r, decided) ==
    /\ dispute[r] # None /\ dispute[r].status = "open"
    /\ Len(rulings[r]) < MaxRulings
    /\ dispute' = [dispute EXCEPT ![r].status = "resolved", ![r].resolution = decided]
    /\ resolution' = IF resolution[r] = None THEN [resolution EXCEPT ![r] = decided]
                                             ELSE resolution
    /\ rulings' = [rulings EXCEPT ![r] = Append(@, decided)]

ResolveRefundDispute(r, decided) ==
    /\ dispute[r] # None /\ dispute[r].status = "open"
    /\ Len(rulings[r]) < MaxRulings
    /\ dispute' = [dispute EXCEPT ![r].status = "resolved", ![r].resolution = decided]
    /\ resolution' = [resolution EXCEPT ![r] = decided]
    /\ rulings' = [rulings EXCEPT ![r] = Append(@, decided)]

RulingsNext ==
    \E r \in RefundIds :
        \/ \E p \in Passengers : SubmitDispute(p, r)
        \/ \E d \in Resolutions : ResolveRefundDispute(r, d)

RulingsSpec == RulingsInit /\ [][RulingsNext]_rulingVars

(***************************************************************************)
(* Properties.                                                             *)
(***************************************************************************)

\* The two places a resolution is read from agree: a resolved dispute and the
\* resolution slot both hold the last ruling announced, also when the dispute
\* was submitted again after an earlier ruling.
LastRulingHolds ==
    \A r \in RefundIds :
        /\ resolution[r] # None =>
              rulings[r] # <<>> /\ resolution[r] = rulings[r][Len(rulings[r])]
        /\ (dispute[r] # None /\ dispute[r].status = "resolved") =>
              dispute[r].resolution = resolution[r]
=============================================================================
