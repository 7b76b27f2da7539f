------------------------------ MODULE Governance ------------------------------
(***************************************************************************)
(* The governance contract (contracts/packages/governance): proposals that *)
(* every address may vote on once until the deadline, and whose outcome an *)
(* admin records after it.                                                 *)
(***************************************************************************)
EXTENDS Parties, Clock, Sequences, FiniteSets

CONSTANTS
    VotingPeriod,    \* voting_period_secs
    MaxMotions       \* bound: proposals

\* What the parameters must satisfy.
GovernanceAssumption ==
    /\ VotingPeriod \in Nat \ {0}
    /\ MaxMotions \in Nat

VARIABLES
    gov_owner, gov_roles,   \* the contract's AccessControl state
    motions,   \* Proposal, in order of id
    voted      \* has_voted; with how, as the (vote, cast) event says

Gov == INSTANCE AccessControl
          WITH owner <- gov_owner, roles <- gov_roles, Addresses <- Users, NoOwner <- None

governanceVars == <<now, gov_owner, gov_roles, motions, voted>>

Motion == [deadline : Nat, yes : Nat, no : Nat, status : {"open", "passed", "rejected"}]

GovernanceTypeOK ==
    /\ Gov!TypeOK
    /\ now \in Nat
    /\ motions \in Seq(Motion)
    /\ voted \subseteq Users \X (1..MaxMotions) \X BOOLEAN

GovernanceInit ==
    /\ gov_owner \in Users /\ gov_roles = {}
    /\ now = 0
    /\ motions = <<>>
    /\ voted = {}

\* The creator is kept but never looked at.
CreateProposal ==
    /\ Len(motions) < MaxMotions
    /\ motions' = Append(motions,
          [deadline |-> now + VotingPeriod, yes |-> 0, no |-> 0, status |-> "open"])
    /\ UNCHANGED <<now, gov_owner, gov_roles, voted>>

\* Mutant: the vote of the other kind is not looked for.
CastVoteBoth(voter, id, support) ==
    /\ <<voter, id, support>> \notin voted
    /\ motions[id].status = "open"
    /\ now <= motions[id].deadline
    /\ motions' = [motions EXCEPT ![id].yes = IF support THEN @ + 1 ELSE @,
                                  ![id].no = IF support THEN @ ELSE @ + 1]
    /\ voted' = voted \cup {<<voter, id, support>>}
    /\ UNCHANGED <<now, gov_owner, gov_roles>>

CastVote(voter, id, support) ==
    /\ \A s \in BOOLEAN : <<voter, id, s>> \notin voted
    /\ motions[id].status = "open"
    /\ now <= motions[id].deadline
    /\ motions' = [motions EXCEPT ![id].yes = IF support THEN @ + 1 ELSE @,
                                  ![id].no = IF support THEN @ ELSE @ + 1]
    /\ voted' = voted \cup {<<voter, id, support>>}
    /\ UNCHANGED <<now, gov_owner, gov_roles>>

ExecuteProposal(executor, id) ==
    /\ Gov!HasRole(executor, "Admin")
    /\ motions[id].status = "open"
    /\ now > motions[id].deadline
    /\ motions' = [motions EXCEPT ![id].status =
                      IF motions[id].yes > motions[id].no THEN "passed" ELSE "rejected"]
    /\ UNCHANGED <<now, gov_owner, gov_roles, voted>>

GovernanceNext ==
    \/ CreateProposal
    \/ \E u \in Users, id \in 1..Len(motions) :
          (\E s \in BOOLEAN : CastVote(u, id, s)) \/ ExecuteProposal(u, id)
    \/ Gov!Manage /\ UNCHANGED <<now, motions, voted>>
    \/ Tick /\ UNCHANGED <<gov_owner, gov_roles, motions, voted>>

GovernanceSpec == GovernanceInit /\ [][GovernanceNext]_governanceVars

(***************************************************************************)
(* Properties.                                                             *)
(***************************************************************************)

Voters(ballots, id, support) == {u \in Users : <<u, id, support>> \in ballots}

\* An outcome is the majority of the addresses: each counts once, on one side,
\* and no vote comes after the outcome was recorded.
OutcomeIsTheVote ==
    \A id \in 1..Len(motions) :
        /\ Voters(voted, id, TRUE) \cap Voters(voted, id, FALSE) = {}
        /\ motions[id].yes = Cardinality(Voters(voted, id, TRUE))
        /\ motions[id].no = Cardinality(Voters(voted, id, FALSE))
        /\ motions[id].status # "open" =>
              (motions[id].status = "passed" <=> motions[id].yes > motions[id].no)
=============================================================================
