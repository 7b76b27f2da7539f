---------------------------- MODULE ArbiterDispute ----------------------------
(***************************************************************************)
(* The arbiter contract (contracts/packages/dispute_resolution): a deposit *)
(* per booking, disputed once, by anyone, and paid out by the ruling of    *)
(* the arbiter the contract assigned.  All deposits are in one token here. *)
(* The contract is initialized, with the arbiters it was given.            *)
(***************************************************************************)
EXTENDS NoValue, Sums, SequencesExt

CONSTANTS
    Addresses,       \* depositors, claimants, respondents and arbiters
    Deposits,        \* amounts callers name
    FirstArbiters,   \* the arbiters given to initialize
    MaxDeposits      \* bound: bookings with a deposit

Deposit == [amount : Nat, released : BOOLEAN]

\* What the parameters must satisfy.
ArbiterAssumption ==
    /\ Deposits \subseteq Nat /\ MaxDeposits \in Nat
    /\ FirstArbiters \in Seq(Addresses) /\ FirstArbiters # <<>>
    /\ None \notin Addresses /\ None \notin Deposit

VARIABLES
    active,      \* DataKey::Arbiter: who is an arbiter now
    slots,       \* DataKey::ArbiterSlot: who ever was, in order
    escrow,      \* Escrow by booking, or None
    disputes,    \* Dispute, in order of dispute_id
    holds,       \* tokens of the contract
    received     \* tokens paid to an account for a booking

arbiterVars == <<active, slots, escrow, disputes, holds, received>>

\* The names of bookings (a Symbol), numbered.
Bookings == 1..MaxDeposits

Parties == Addresses \cup {None}
Dispute == [booking : Bookings, claimant : Addresses, respondent : Parties,
            assigned : Addresses, winner : Parties]

ArbiterTypeOK ==
    /\ active \subseteq Addresses
    /\ slots \in Seq(Addresses)
    /\ escrow \in [Bookings -> Deposit \cup {None}]
    /\ disputes \in Seq(Dispute)
    /\ holds \in Nat
    /\ received \in [Bookings \X Addresses -> Nat]

ArbiterInit ==
    /\ active = ToSet(FirstArbiters)
    /\ slots = FirstArbiters
    /\ escrow = [b \in Bookings |-> None]
    /\ disputes = <<>>
    /\ holds = 0
    /\ received = [x \in Bookings \X Addresses |-> 0]

\* A disabled arbiter keeps the slot.
SetArbiter(arbiter, enabled) ==
    /\ active' = IF enabled THEN active \cup {arbiter} ELSE active \ {arbiter}
    /\ slots' = IF enabled /\ arbiter \notin ToSet(slots) THEN Append(slots, arbiter) ELSE slots
    /\ UNCHANGED <<escrow, disputes, holds, received>>

DepositEscrow(b, amount) ==
    /\ amount > 0
    /\ escrow[b] = None
    /\ escrow' = [escrow EXCEPT ![b] = [amount |-> amount, released |-> FALSE]]
    /\ holds' = holds + amount
    /\ UNCHANGED <<active, slots, disputes, received>>

\* The first slot from the dispute's id on, in a circle, whose arbiter is
\* active and no party.
Assignable(id, parties) ==
    LET at(offset) == slots[((id + offset) % Len(slots)) + 1]
        fits(offset) == at(offset) \in active \ parties
    IN  {at(o) : o \in {n \in 0..Len(slots) - 1 :
                           fits(n) /\ \A m \in 0..n - 1 : ~fits(m)}}

OpenDispute(b, claimant) ==
    /\ \A i \in 1..Len(disputes) : disputes[i].booking # b
    /\ escrow[b] # None /\ ~escrow[b].released
    /\ \E arbiter \in Assignable(Len(disputes) + 1, {claimant}) :
          disputes' = Append(disputes,
             [booking |-> b, claimant |-> claimant, respondent |-> None,
              assigned |-> arbiter, winner |-> None])
    /\ UNCHANGED <<active, slots, escrow, holds, received>>

\* Mutant: the arbiter stays, though it has become the respondent.
SubmitCounterEvidenceKept(id, respondent) ==
    /\ disputes[id].winner = None
    /\ respondent # disputes[id].claimant
    /\ disputes[id].respondent = None
    /\ disputes' = [disputes EXCEPT ![id].respondent = respondent]
    /\ UNCHANGED <<active, slots, escrow, holds, received>>

\* Whoever answers first is the respondent; an assigned arbiter who answers is
\* replaced.
SubmitCounterEvidence(id, respondent) ==
    LET open == disputes[id]
        arbiters == IF open.assigned = respondent
                    THEN Assignable(id, {open.claimant, respondent}) ELSE {open.assigned}
    IN  /\ open.winner = None
        /\ respondent # open.claimant
        /\ open.respondent = None
        /\ \E arbiter \in arbiters :
              disputes' = [disputes EXCEPT ![id].respondent = respondent,
                                           ![id].assigned = arbiter]
        /\ UNCHANGED <<active, slots, escrow, holds, received>>

ResolveDispute(id, arbiter, ruling) ==
    LET open == disputes[id]
        winner == IF ruling THEN open.claimant ELSE open.respondent
    IN  /\ arbiter \in active /\ arbiter = open.assigned
        /\ open.winner = None /\ winner # None
        /\ ~escrow[open.booking].released
        /\ holds' = holds - escrow[open.booking].amount
        /\ received' = [received EXCEPT ![<<open.booking, winner>>] = @ + escrow[open.booking].amount]
        /\ escrow' = [escrow EXCEPT ![open.booking] = [amount |-> 0, released |-> TRUE]]
        /\ disputes' = [disputes EXCEPT ![id].winner = winner]
        /\ UNCHANGED <<active, slots>>

ArbiterNext ==
    \/ \E a \in Addresses, enabled \in BOOLEAN : SetArbiter(a, enabled)
    \/ \E b \in Bookings, x \in Deposits : DepositEscrow(b, x)
    \/ \E b \in Bookings, a \in Addresses : OpenDispute(b, a)
    \/ \E id \in 1..Len(disputes), a \in Addresses :
          \/ SubmitCounterEvidence(id, a)
          \/ \E ruling \in BOOLEAN : ResolveDispute(id, a, ruling)

ArbiterSpec == ArbiterInit /\ [][ArbiterNext]_arbiterVars

(***************************************************************************)
(* Properties.                                                             *)
(***************************************************************************)

\* A deposit is ruled on once and by no one it concerns: the assigned arbiter
\* is never a party, whoever answers and whichever arbiters come and go; what
\* left the escrow of a booking went to the winner of its dispute and to no one
\* else, and the contract holds exactly the deposits not ruled on.
RulingIsImpartial ==
    LET ruled == {b \in Bookings : escrow[b] # None /\ escrow[b].released}
    IN  /\ \A i \in 1..Len(disputes) :
              disputes[i].assigned \notin {disputes[i].claimant, disputes[i].respondent}
        /\ \A b \in Bookings, a \in Addresses : received[<<b, a>>] > 0 =>
              /\ b \in ruled
              /\ \E i \in 1..Len(disputes) :
                    disputes[i].booking = b /\ disputes[i].winner = a
        /\ \A b \in ruled : Cardinality({a \in Addresses : received[<<b, a>>] > 0}) = 1
        /\ holds = SumTo([b \in Bookings |-> IF escrow[b] = None \/ b \in ruled
                                             THEN 0 ELSE escrow[b].amount], MaxDeposits)
=============================================================================
