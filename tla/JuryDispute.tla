----------------------------- MODULE JuryDispute -----------------------------
(***************************************************************************)
(* One dispute of the jury contract (contracts/packages/dispute): filed by *)
(* a passenger, answered by the airline, decided by jurors who commit to a *)
(* vote and reveal it later, appealed once by the losing party.  Disputes  *)
(* share nothing but their counter, so one is modelled.  The contract      *)
(* moves no tokens: stakes are numbers it writes down (the least it takes, *)
(* here), and a reward is an event.  An operator is taken to be one, and   *)
(* the configuration to be there (initialize).                             *)
(***************************************************************************)
EXTENDS NoValue, Naturals, FiniteSets, SequencesExt

CONSTANTS
    Participants,      \* passengers, airlines and jurors
    Cases,             \* the <<passenger, airline>> pairs that may come before it
    JurySize,          \* DisputeConfig.jury_size
    EvidencePeriod, VotingPeriod, RevealPeriod, AppealPeriod,
    MinStake,          \* amount * min_stake_percentage / 10000
    AppealStake,       \* amount * appeal_stake_multiplier / 10000
    MaxDisputeTime,    \* bound: ledger time
    MaxEvidence,       \* bound: pieces of evidence of a party
    MaxClaims          \* bound: reward events of a juror

Sides == {"passenger", "airline"}
Phases == {"evidence", "jury_selection", "commit_vote", "reveal_vote", "appeal", "finalized"}

Case == [passenger : Participants, airline : Participants, airline_stake : Nat, phase : Phases,
         evidence_deadline : Nat, voting_deadline : Nat, reveal_deadline : Nat,
         appeal_deadline : Nat, evidence_count : [Sides -> Nat], votes : [Sides -> Nat],
         verdict : Sides \cup {"tie", None}, appealed : BOOLEAN]

\* What the parameters must satisfy.
JuryAssumption ==
    /\ Cases \subseteq Participants \X Participants
    /\ JurySize \in Nat \ {0}
    /\ {EvidencePeriod, VotingPeriod, RevealPeriod, AppealPeriod,
        MinStake, AppealStake, MaxDisputeTime, MaxEvidence, MaxClaims} \subseteq Nat
    /\ None \notin Participants \cup Sides \cup {"tie", "void"} /\ None \notin Case

VARIABLES
    timestamp,   \* env.ledger().timestamp()
    case,        \* the dispute, or None
    stake,       \* get_stake, by party
    evidence,    \* the submitter of the evidence at an index; the hash is not told apart
    jurors,      \* juror slots, in order; is_juror is its range
    commit,      \* what a juror committed to; "void" can never be revealed
    reveal,      \* what a juror revealed
    executed,    \* the (verdict, executed) events
    claims       \* (reward, claimed) events by juror

juryVars == <<timestamp, case, stake, evidence, jurors, commit, reveal, executed, claims>>

JuryTypeOK ==
    /\ timestamp \in Nat
    /\ case \in Case \cup {None}
    /\ stake \in [Participants -> Nat]
    /\ evidence \in Seq(Participants)
    /\ jurors \in Seq(Participants)
    /\ commit \in [Participants -> Sides \cup {"void", None}]
    /\ reveal \in [Participants -> Sides \cup {None}]
    /\ executed \in Seq(Sides)
    /\ claims \in [Participants -> Nat]

JuryInit ==
    /\ timestamp = 0
    /\ case = None
    /\ stake = [a \in Participants |-> 0]
    /\ evidence = <<>> /\ jurors = <<>> /\ executed = <<>>
    /\ commit = [a \in Participants |-> None]
    /\ reveal = [a \in Participants |-> None]
    /\ claims = [a \in Participants |-> 0]

\* A case whose four periods start now.
Deadlines(c) ==
    [c EXCEPT !.evidence_deadline = timestamp + EvidencePeriod,
              !.voting_deadline = timestamp + EvidencePeriod + VotingPeriod,
              !.reveal_deadline = timestamp + EvidencePeriod + VotingPeriod + RevealPeriod,
              !.appeal_deadline =
                  timestamp + EvidencePeriod + VotingPeriod + RevealPeriod + AppealPeriod]

FileDispute(passenger, airline) ==
    /\ case = None
    /\ case' = Deadlines(
          [passenger |-> passenger, airline |-> airline, airline_stake |-> 0,
           phase |-> "evidence", evidence_deadline |-> 0, voting_deadline |-> 0,
           reveal_deadline |-> 0, appeal_deadline |-> 0, verdict |-> None, appealed |-> FALSE,
           evidence_count |-> [s \in Sides |-> 0], votes |-> [s \in Sides |-> 0]])
    /\ stake' = [stake EXCEPT ![passenger] = MinStake]
    /\ UNCHANGED <<timestamp, evidence, jurors, commit, reveal, executed, claims>>

AirlineRespond(airline) ==
    /\ case.airline = airline /\ case.phase = "evidence" /\ case.airline_stake = 0
    /\ case' = [case EXCEPT !.airline_stake = MinStake]
    /\ stake' = [stake EXCEPT ![airline] = MinStake]
    /\ UNCHANGED <<timestamp, evidence, jurors, commit, reveal, executed, claims>>

\* Each party counts its own evidence, and both write to the same slots.
SubmitEvidence(submitter) ==
    LET side == IF submitter = case.passenger THEN "passenger" ELSE "airline"
        index == case.evidence_count[side] + 1
    IN  /\ timestamp <= case.evidence_deadline
        /\ case.phase = "evidence"
        /\ submitter \in {case.passenger, case.airline}
        /\ index <= MaxEvidence
        /\ case' = [case EXCEPT !.evidence_count[side] = index]
        /\ evidence' = IF index > Len(evidence) THEN Append(evidence, submitter)
                                                ELSE [evidence EXCEPT ![index] = submitter]
        /\ UNCHANGED <<timestamp, stake, jurors, commit, reveal, executed, claims>>

\* The first call after the evidence deadline opens the selection, the juror
\* who fills the jury closes it.
SelectAsJuror(juror) ==
    LET phase == IF timestamp > case.evidence_deadline /\ case.phase = "evidence"
                 THEN "jury_selection" ELSE case.phase
    IN  /\ phase \in {"jury_selection", "commit_vote"}
        /\ juror \notin ToSet(jurors) \cup {case.passenger, case.airline}
        /\ Len(jurors) < JurySize
        /\ jurors' = Append(jurors, juror)
        /\ case' = [case EXCEPT !.phase =
                       IF Len(jurors) + 1 >= JurySize THEN "commit_vote" ELSE phase]
        /\ UNCHANGED <<timestamp, stake, evidence, commit, reveal, executed, claims>>

\* Mutant: the phase is not looked at, only the deadline.
CommitVoteLate(juror, vote) ==
    /\ timestamp <= case.voting_deadline
    /\ juror \in ToSet(jurors)
    /\ commit[juror] = None
    /\ commit' = [commit EXCEPT ![juror] = vote]
    /\ UNCHANGED <<timestamp, case, stake, evidence, jurors, reveal, executed, claims>>

CommitVote(juror, vote) ==
    /\ timestamp <= case.voting_deadline
    /\ case.phase = "commit_vote"
    /\ juror \in ToSet(jurors)
    /\ commit[juror] = None
    /\ commit' = [commit EXCEPT ![juror] = vote]
    /\ UNCHANGED <<timestamp, case, stake, evidence, jurors, reveal, executed, claims>>

AdvanceToReveal ==
    /\ timestamp > case.voting_deadline
    /\ case.phase = "commit_vote"
    /\ case' = [case EXCEPT !.phase = "reveal_vote"]
    /\ UNCHANGED <<timestamp, stake, evidence, jurors, commit, reveal, executed, claims>>

\* Mutant: a juror may reveal again.
RevealVoteAgain(juror, vote) ==
    /\ timestamp <= case.reveal_deadline
    /\ case.phase = "reveal_vote"
    /\ commit[juror] = vote
    /\ reveal' = [reveal EXCEPT ![juror] = vote]
    /\ case' = [case EXCEPT !.votes[vote] = @ + 1]
    /\ UNCHANGED <<timestamp, stake, evidence, jurors, commit, executed, claims>>

\* The hash of the vote and its salt is that of the commitment.
RevealVote(juror, vote) ==
    /\ timestamp <= case.reveal_deadline
    /\ case.phase = "reveal_vote"
    /\ commit[juror] = vote /\ reveal[juror] = None
    /\ reveal' = [reveal EXCEPT ![juror] = vote]
    /\ case' = [case EXCEPT !.votes[vote] = @ + 1]
    /\ UNCHANGED <<timestamp, stake, evidence, jurors, commit, executed, claims>>

FinalizeDispute ==
    LET passenger == case.votes["passenger"]
        airline == case.votes["airline"]
    IN  /\ timestamp > case.reveal_deadline
        /\ case.phase = "reveal_vote"
        /\ passenger + airline > 0
        /\ case' = [case EXCEPT !.phase = "appeal",
                       !.verdict = IF passenger > airline THEN "passenger"
                                   ELSE IF airline > passenger THEN "airline" ELSE "tie"]
        /\ UNCHANGED <<timestamp, stake, evidence, jurors, commit, reveal, executed, claims>>

\* Back to the evidence phase with new deadlines and no votes; the jurors,
\* their commitments and their reveals are not touched.
FileAppeal(appellant) ==
    /\ timestamp <= case.appeal_deadline
    /\ case.phase = "appeal" /\ ~case.appealed
    /\ \/ case.verdict = "airline" /\ appellant = case.passenger
       \/ case.verdict = "passenger" /\ appellant = case.airline
    /\ case' = [Deadlines(case) EXCEPT !.appealed = TRUE, !.phase = "evidence",
                   !.votes = [s \in Sides |-> 0], !.verdict = None]
    /\ stake' = [stake EXCEPT ![appellant] = @ + AppealStake]
    /\ UNCHANGED <<timestamp, evidence, jurors, commit, reveal, executed, claims>>

\* May be called again: the phase it ends in is not excluded.
ExecuteVerdict ==
    /\ case.phase = "appeal" => timestamp > case.appeal_deadline
    /\ case.verdict \in Sides
    /\ Len(executed) < MaxClaims
    /\ executed' = Append(executed, case.verdict)
    /\ case' = [case EXCEPT !.phase = "finalized"]
    /\ UNCHANGED <<timestamp, stake, evidence, jurors, commit, reveal, claims>>

\* Nothing remembers the claim; the reward is the pool \div votes[verdict].
ClaimJurorReward(juror) ==
    /\ case.phase = "finalized"
    /\ reveal[juror] # None /\ reveal[juror] = case.verdict
    /\ claims[juror] < MaxClaims
    /\ claims' = [claims EXCEPT ![juror] = @ + 1]
    /\ UNCHANGED <<timestamp, case, stake, evidence, jurors, commit, reveal, executed>>

TimePasses ==
    /\ timestamp < MaxDisputeTime
    /\ timestamp' = timestamp + 1
    /\ UNCHANGED <<case, stake, evidence, jurors, commit, reveal, executed, claims>>

JuryNext ==
    \/ \E c \in Cases : FileDispute(c[1], c[2])
    \/ /\ case # None
       /\ \/ \E a \in Participants :
                \/ AirlineRespond(a) \/ SubmitEvidence(a) \/ SelectAsJuror(a)
                \/ \E v \in Sides \cup {"void"} : CommitVote(a, v)
                \/ \E v \in Sides : RevealVote(a, v)
                \/ FileAppeal(a) \/ ClaimJurorReward(a)
          \/ AdvanceToReveal \/ FinalizeDispute \/ ExecuteVerdict
    \/ TimePasses

JurySpec == JuryInit /\ [][JuryNext]_juryVars

(***************************************************************************)
(* Properties.                                                             *)
(***************************************************************************)

RevealsFor(revealed, side) == Cardinality({a \in Participants : revealed[a] = side})

\* Every vote that counts was cast by a juror who is no party, as committed,
\* and counted once; a verdict that was executed, also again, is the majority
\* of the reveals, so that the pool is split among exactly those who may claim.
TallyIsReveals ==
    case # None =>
        /\ \A a \in Participants : reveal[a] # None =>
              /\ reveal[a] = commit[a] /\ a \in ToSet(jurors)
              /\ a \notin {case.passenger, case.airline}
        /\ ~case.appealed => \A s \in Sides : case.votes[s] = RevealsFor(reveal, s)
        /\ \A i \in 1..Len(executed) :
              /\ executed[i] = case.verdict
              /\ \A s \in Sides \ {executed[i]} : RevealsFor(reveal, executed[i]) > RevealsFor(reveal, s)

\* No one chooses a vote who may have seen another's: once a vote is revealed
\* no commitment is made any more, not even when an appeal has opened the
\* deadlines again.
VotesSealed ==
    [][(\E a \in Participants : reveal[a] # None) => commit' = commit]_juryVars

\* The contract's README (src/README.md:36), "Resets dispute to evidence phase
\* with new jury": who voted in the first round is no juror of the second.
AppealGetsNewJury ==
    case # None /\ case.appealed => \A a \in ToSet(jurors) : reveal[a] = None
=============================================================================
