---------------------------- MODULE DisputesProofs ----------------------------
(***************************************************************************)
(* Refund requests and the three kinds of dispute, for any refunds, cases, *)
(* jurors, arbiters and deposits: first each part, then that a behaviour   *)
(* of their composition is one of each.                                    *)
(***************************************************************************)
EXTENDS Disputes, RefundProofs, FiniteSetTheorems

(***************************************************************************)
(* The disputes about refunds keep their last ruling.                      *)
(***************************************************************************)

RulingsInv == RulingsTypeOK /\ LastRulingHolds

\* Nothing is in dispute at first.
LEMMA RulingsInitHolds == RulingsInit => RulingsInv
BY DEF RulingsInit, RulingsInv, RulingsTypeOK, LastRulingHolds

\* A dispute that is submitted again is open, and the slot keeps the ruling; a
\* ruling is written to both places and announced.
LEMMA RulingsStepHolds ==
  ASSUME RulingsAssumption, RulingsInv, [RulingsNext]_rulingVars
  PROVE  RulingsInv'
<1> USE DEF RulingsInv, RulingsTypeOK, LastRulingHolds
<1>1. CASE UNCHANGED rulingVars
  BY <1>1 DEF rulingVars
<1>2. ASSUME NEW r \in RefundIds, NEW p \in Passengers, SubmitDispute(p, r)
      PROVE  RulingsInv'
  <2> DEFINE open == [passenger |-> p, status |-> "open", resolution |-> None]
  <2>1. open \in DisputeRecord /\ open.status # "resolved"
    BY DEF DisputeRecord
  <2>2. dispute' = [dispute EXCEPT ![r] = open] /\ UNCHANGED <<resolution, rulings>>
    BY <1>2 DEF SubmitDispute
  <2> HIDE DEF open
  <2> QED  BY <2>1, <2>2
<1>3. ASSUME NEW r \in RefundIds, NEW d \in Resolutions, ResolveRefundDispute(r, d)
      PROVE  RulingsInv'
  <2>1. PICK old : old = dispute[r] /\ old \in DisputeRecord
    BY <1>3 DEF ResolveRefundDispute
  <2>2. PICK new : new = [old EXCEPT !.status = "resolved", !.resolution = d]
    OBVIOUS
  <2>3. new \in DisputeRecord /\ new.resolution = d
    BY <2>1, <2>2 DEF DisputeRecord
  <2>4. dispute' = [dispute EXCEPT ![r] = new]
    BY <1>3, <2>1, <2>2 DEF ResolveRefundDispute
  <2>5. resolution' = [resolution EXCEPT ![r] = d]
    BY <1>3 DEF ResolveRefundDispute
  <2>6. PICK list : list = Append(rulings[r], d)
    OBVIOUS
  <2>7. list \in Seq(Resolutions) /\ list # <<>> /\ list[Len(list)] = d
    <3>1. PICK first : first = rulings[r] /\ first \in Seq(Resolutions)
      OBVIOUS
    <3>2. list = Append(first, d)
      BY <2>6, <3>1
    <3>3. list \in Seq(Resolutions) /\ Len(list) = Len(first) + 1 /\ list[Len(first) + 1] = d
      BY <3>1, <3>2
    <3>4. Len(list) # 0
      BY <3>1, <3>3
    <3> QED  BY <3>3, <3>4
  <2>8. rulings' = [rulings EXCEPT ![r] = list]
    BY <1>3, <2>6 DEF ResolveRefundDispute
  <2>9. RulingsTypeOK'
    BY <2>3, <2>4, <2>5, <2>7, <2>8
  <2>10. ASSUME NEW q \in RefundIds
         PROVE  /\ resolution'[q] # None =>
                      rulings'[q] # <<>> /\ resolution'[q] = rulings'[q][Len(rulings'[q])]
                /\ (dispute'[q] # None /\ dispute'[q].status = "resolved") =>
                      dispute'[q].resolution = resolution'[q]
    <3>1. CASE q = r
      BY <2>3, <2>4, <2>5, <2>7, <2>8, <3>1
    <3>2. CASE q # r
      BY <2>4, <2>5, <2>8, <3>2
    <3> QED  BY <3>1, <3>2
  <2> QED  BY <2>9, <2>10
<1> QED
  BY <1>1, <1>2, <1>3 DEF RulingsNext

\* The invariant of the refund disputes holds throughout.
THEOREM RulingsInductive ==
  ASSUME RulingsAssumption
  PROVE  RulingsSpec => []RulingsInv
BY RulingsInitHolds, RulingsStepHolds, PTL DEF RulingsSpec

\* A resolved dispute and the resolution slot hold the last ruling announced.
THEOREM LastRulingHoldsAlways ==
  ASSUME RulingsAssumption
  PROVE  RulingsSpec => []LastRulingHolds
BY RulingsInductive, PTL DEF RulingsInv

(***************************************************************************)
(* The jury's tally is its reveals, and a verdict their majority.          *)
(***************************************************************************)

Voters(revealed, side) == {a \in Participants : revealed[a] = side}

\* Nothing is stored before the case is filed; only jurors commit, and only
\* what was committed is revealed.
VotesHold ==
    /\ case = None =>
          executed = <<>> /\ jurors = <<>> /\ \A a \in Participants : commit[a] = None
    /\ \A a \in Participants :
          /\ commit[a] # None => a \in ToSet(jurors)
          /\ reveal[a] # None => reveal[a] = commit[a]

\* The jurors are no parties, and they are complete before they vote; from then
\* on, also after an appeal, no juror is added and no commitment made.
JuryHolds ==
    case # None =>
        /\ \A a \in ToSet(jurors) : a \notin {case.passenger, case.airline}
        /\ case.phase \in {"commit_vote", "reveal_vote", "appeal", "finalized"} =>
              Len(jurors) >= JurySize
        /\ \A a \in Participants : reveal[a] # None =>
              Len(jurors) >= JurySize /\ case.phase # "commit_vote"

\* There is a verdict only when the reveals are over, and an appeal that was
\* filed leaves the case in the evidence phase.
VerdictHolds ==
    case # None =>
        /\ case.verdict # None => case.phase \in {"appeal", "finalized"}
        /\ case.appealed =>
              case.phase = "evidence" /\ case.verdict = None /\ Len(jurors) >= JurySize
        /\ \A i \in 1..Len(executed) : case.phase = "finalized" /\ executed[i] = case.verdict

\* What is counted is what was revealed, and the verdict is the majority.
TallyHolds ==
    /\ \A s \in Sides : IsFiniteSet(Voters(reveal, s))
    /\ case # None =>
          /\ ~case.appealed => \A s \in Sides : case.votes[s] = Cardinality(Voters(reveal, s))
          /\ case.verdict \in Sides => \A s \in Sides \ {case.verdict} :
                Cardinality(Voters(reveal, case.verdict)) > Cardinality(Voters(reveal, s))

JuryInv == JuryTypeOK /\ VotesHold /\ JuryHolds /\ VerdictHolds /\ TallyHolds

\* No case is filed at first, and no one has voted.
LEMMA JuryInitHolds ==
  ASSUME JuryAssumption, JuryInit
  PROVE  JuryInv
<1>1. JuryTypeOK
  BY DEF JuryInit, JuryTypeOK
<1>2. \A s \in Sides : Voters(reveal, s) = {}
  BY DEF JuryInit, JuryAssumption, Voters
<1>3. \A s \in Sides : IsFiniteSet(Voters(reveal, s))
  BY <1>2, FS_EmptySet
<1> QED
  BY <1>1, <1>3 DEF JuryInit, JuryInv, VotesHold, JuryHolds, VerdictHolds, TallyHolds

\* What changes neither the votes nor what is decided of the case.
LEMMA JuryStays ==
  ASSUME JuryInv, JuryTypeOK', case # None, UNCHANGED <<jurors, commit, reveal, executed>>,
         case' # None, case'.passenger = case.passenger, case'.airline = case.airline,
         case'.phase = case.phase, case'.votes = case.votes,
         case'.verdict = case.verdict, case'.appealed = case.appealed
  PROVE  JuryInv'
<1> USE DEF JuryInv
<1>1. VotesHold'
  BY DEF VotesHold
<1>2. JuryHolds'
  BY DEF JuryHolds
<1>3. VerdictHolds'
  BY DEF VerdictHolds
<1>4. TallyHolds'
  BY DEF TallyHolds
<1> QED
  BY <1>1, <1>2, <1>3, <1>4

\* The deadlines are all that Deadlines sets.
LEMMA DeadlinesAre ==
  ASSUME JuryAssumption, timestamp \in Nat, NEW c \in Case
  PROVE  /\ Deadlines(c) \in Case
         /\ Deadlines(c).passenger = c.passenger /\ Deadlines(c).airline = c.airline
         /\ Deadlines(c).phase = c.phase /\ Deadlines(c).votes = c.votes
         /\ Deadlines(c).verdict = c.verdict /\ Deadlines(c).appealed = c.appealed
<1>1. {EvidencePeriod, VotingPeriod, RevealPeriod, AppealPeriod} \subseteq Nat
  BY DEF JuryAssumption
<1>2. /\ timestamp + EvidencePeriod \in Nat
      /\ timestamp + EvidencePeriod + VotingPeriod \in Nat
      /\ timestamp + EvidencePeriod + VotingPeriod + RevealPeriod \in Nat
      /\ timestamp + EvidencePeriod + VotingPeriod + RevealPeriod + AppealPeriod \in Nat
  BY <1>1
<1> QED
  BY <1>2 DEF Deadlines, Case

\* Filing makes a case without jurors, votes or verdict.
LEMMA FileHolds ==
  ASSUME JuryAssumption, JuryInv, NEW c \in Cases, FileDispute(c[1], c[2])
  PROVE  JuryInv'
<1> USE DEF JuryInv
<1> DEFINE empty == [passenger |-> c[1], airline |-> c[2], airline_stake |-> 0,
                     phase |-> "evidence", evidence_deadline |-> 0, voting_deadline |-> 0,
                     reveal_deadline |-> 0, appeal_deadline |-> 0, verdict |-> None,
                     appealed |-> FALSE, evidence_count |-> [s \in Sides |-> 0],
                     votes |-> [s \in Sides |-> 0]]
<1>1. c[1] \in Participants /\ c[2] \in Participants
  BY DEF JuryAssumption
<1>2. PICK first : first = empty
  OBVIOUS
<1>3. /\ first \in Case /\ first.phase = "evidence" /\ first.verdict = None
      /\ ~first.appealed /\ first.votes = [s \in Sides |-> 0]
  BY <1>1, <1>2 DEF Case, Phases
<1>4. case' = Deadlines(first)
  BY <1>2 DEF FileDispute
<1> HIDE DEF empty
<1>5. /\ case' \in Case /\ case'.phase = "evidence" /\ case'.verdict = None
      /\ ~case'.appealed /\ case'.votes = [s \in Sides |-> 0]
  BY <1>3, <1>4, DeadlinesAre DEF JuryTypeOK
<1>6. /\ case = None /\ stake' = [stake EXCEPT ![c[1]] = MinStake]
      /\ UNCHANGED <<timestamp, evidence, jurors, commit, reveal, executed, claims>>
  BY DEF FileDispute
<1>7. JuryTypeOK'
  BY <1>1, <1>5, <1>6 DEF JuryTypeOK, JuryAssumption
<1>8. /\ executed = <<>> /\ jurors = <<>>
      /\ \A a \in Participants : commit[a] = None /\ reveal[a] = None
  BY <1>6 DEF VotesHold
<1>9. ToSet(jurors) = {} /\ Len(executed) = 0
  BY <1>8 DEF ToSet
<1>10. \A s \in Sides : Voters(reveal, s) = {}
  BY <1>8 DEF Voters, JuryAssumption
<1>11. \A s \in Sides : IsFiniteSet(Voters(reveal, s)) /\ Cardinality(Voters(reveal, s)) = 0
  BY <1>10, FS_EmptySet
<1>12. case' # None /\ None \notin Sides
  BY <1>5 DEF JuryAssumption
<1>13. VotesHold' /\ JuryHolds' /\ VerdictHolds'
  BY <1>5, <1>6, <1>8, <1>9, <1>12 DEF VotesHold, JuryHolds, VerdictHolds
<1>14. TallyHolds'
  BY <1>5, <1>6, <1>11, <1>12 DEF TallyHolds
<1> QED
  BY <1>7, <1>13, <1>14

\* The answer and the evidence of the parties.
LEMMA PartiesHold ==
  ASSUME JuryAssumption, JuryInv, case # None, NEW a \in Participants,
         AirlineRespond(a) \/ SubmitEvidence(a)
  PROVE  JuryInv'
<1> USE DEF JuryInv
<1>1. PICK old : old = case /\ old \in Case
  BY DEF JuryTypeOK
<1>2. CASE AirlineRespond(a)
  <2>1. MinStake \in Nat
    BY DEF JuryAssumption
  <2>2. case' = [old EXCEPT !.airline_stake = MinStake]
    BY <1>1, <1>2 DEF AirlineRespond
  <2>3. /\ case' \in Case /\ case'.passenger = case.passenger /\ case'.airline = case.airline
        /\ case'.phase = case.phase /\ case'.votes = case.votes
        /\ case'.verdict = case.verdict /\ case'.appealed = case.appealed
    BY <1>1, <2>1, <2>2 DEF Case
  <2>4. /\ stake' = [stake EXCEPT ![a] = MinStake]
        /\ UNCHANGED <<timestamp, evidence, jurors, commit, reveal, executed, claims>>
    BY <1>2 DEF AirlineRespond
  <2>5. JuryTypeOK' /\ case' # None
    BY <2>1, <2>3, <2>4 DEF JuryTypeOK, JuryAssumption
  <2> QED  BY <2>3, <2>4, <2>5, JuryStays
<1>3. CASE SubmitEvidence(a)
  <2> DEFINE side == IF a = old.passenger THEN "passenger" ELSE "airline"
             index == old.evidence_count[side] + 1
             counts == [old.evidence_count EXCEPT ![side] = index]
  <2>1. side \in Sides /\ old.evidence_count \in [Sides -> Nat]
    BY <1>1 DEF Case, Sides
  <2>2. index \in Nat \ {0} /\ counts \in [Sides -> Nat]
    BY <2>1
  <2>3. case' = [old EXCEPT !.evidence_count = counts]
    BY <1>1, <1>3 DEF SubmitEvidence
  <2>4. evidence' = IF index > Len(evidence) THEN Append(evidence, a)
                                             ELSE [evidence EXCEPT ![index] = a]
    BY <1>1, <1>3 DEF SubmitEvidence
  <2>5. UNCHANGED <<timestamp, stake, jurors, commit, reveal, executed, claims>>
    BY <1>3 DEF SubmitEvidence
  <2> HIDE DEF side, index, counts
  <2>6. /\ case' \in Case /\ case'.passenger = case.passenger /\ case'.airline = case.airline
        /\ case'.phase = case.phase /\ case'.votes = case.votes
        /\ case'.verdict = case.verdict /\ case'.appealed = case.appealed
    BY <1>1, <2>2, <2>3 DEF Case
  <2>7. evidence' \in Seq(Participants)
    BY <2>2, <2>4 DEF JuryTypeOK
  <2>8. JuryTypeOK' /\ case' # None
    BY <2>5, <2>6, <2>7 DEF JuryTypeOK, JuryAssumption
  <2> QED  BY <2>5, <2>6, <2>8, JuryStays
<1> QED
  BY <1>2, <1>3

\* A juror is added only to a jury that is not complete, so that no one has
\* revealed a vote yet.
LEMMA SelectHolds ==
  ASSUME JuryAssumption, JuryInv, case # None, NEW j \in Participants, SelectAsJuror(j)
  PROVE  JuryInv'
<1> USE DEF JuryInv
<1> DEFINE phase == IF timestamp > case.evidence_deadline /\ case.phase = "evidence"
                    THEN "jury_selection" ELSE case.phase
           next == IF Len(jurors) + 1 >= JurySize THEN "commit_vote" ELSE phase
<1>1. PICK old : old = case /\ old \in Case
  BY DEF JuryTypeOK
<1>2. /\ phase \in {"jury_selection", "commit_vote"}
      /\ j \notin ToSet(jurors) \cup {case.passenger, case.airline}
      /\ Len(jurors) < JurySize
      /\ jurors' = Append(jurors, j)
      /\ case' = [old EXCEPT !.phase = next]
      /\ UNCHANGED <<timestamp, stake, evidence, commit, reveal, executed, claims>>
  BY <1>1 DEF SelectAsJuror
<1>3. /\ case.phase \in {"evidence", "jury_selection", "commit_vote"}
      /\ next \in {"jury_selection", "commit_vote"}
  BY <1>2
<1>4. JurySize \in Nat /\ Len(jurors) \in Nat /\ ~(Len(jurors) >= JurySize)
  <2>1. JurySize \in Nat
    BY JuryAssumption DEF JuryAssumption
  <2>2. jurors \in Seq(Participants)
    BY DEF JuryTypeOK
  <2>3. Len(jurors) \in Nat
    BY <2>2
  <2> QED  BY <1>2, <2>1, <2>3
<1>5. /\ \A a \in Participants : reveal[a] = None
      /\ case.phase # "commit_vote" /\ ~case.appealed /\ case.verdict = None
      /\ Len(executed) = 0
  <2>1. Len(executed) = 0
    <3>1. Len(executed) \in Nat /\ (Len(executed) # 0 => 1 \in 1..Len(executed))
      BY DEF JuryTypeOK
    <3> QED  BY <1>3, <3>1 DEF VerdictHolds
  <2> QED  BY <1>3, <1>4, <2>1 DEF JuryHolds, VerdictHolds
<1>6. next = "commit_vote" => Len(jurors) + 1 >= JurySize
  BY <1>2, <1>5
<1> HIDE DEF next, phase
<1>7. /\ case' \in Case /\ case'.passenger = case.passenger /\ case'.airline = case.airline
      /\ case'.phase = next /\ case'.votes = case.votes
      /\ case'.verdict = case.verdict /\ case'.appealed = case.appealed
  BY <1>1, <1>2, <1>3 DEF Case, Phases
<1>8. /\ jurors' \in Seq(Participants) /\ Len(jurors') = Len(jurors) + 1
      /\ ToSet(jurors') = ToSet(jurors) \cup {j}
  <2>1. /\ jurors' \in Seq(Participants) /\ Len(jurors') = Len(jurors) + 1
        /\ jurors'[Len(jurors) + 1] = j
        /\ \A i \in 1..Len(jurors) : jurors'[i] = jurors[i]
    BY <1>2 DEF JuryTypeOK
  <2>2. /\ DOMAIN jurors = 1..Len(jurors)
        /\ DOMAIN jurors' = 1..Len(jurors) \cup {Len(jurors) + 1}
    BY <1>4, <2>1 DEF JuryTypeOK
  <2> QED  BY <2>1, <2>2 DEF ToSet
<1>9. case' # None
  BY <1>7 DEF JuryAssumption
<1>10. JuryTypeOK'
  BY <1>2, <1>7, <1>8 DEF JuryTypeOK
<1>11. VotesHold'
  BY <1>2, <1>8, <1>9 DEF VotesHold
<1>12. JuryHolds'
  BY <1>2, <1>3, <1>5, <1>6, <1>7, <1>8 DEF JuryHolds
<1>13. VerdictHolds'
  BY <1>2, <1>5, <1>7 DEF VerdictHolds
<1>14. TallyHolds'
  BY <1>2, <1>7 DEF TallyHolds
<1> QED
  BY <1>10, <1>11, <1>12, <1>13, <1>14

\* A juror commits once, before anything is revealed.
LEMMA CommitHolds ==
  ASSUME JuryAssumption, JuryInv, case # None, NEW j \in Participants,
         NEW v \in Sides \cup {"void"}, CommitVote(j, v)
  PROVE  JuryInv'
<1> USE DEF JuryInv
<1>1. /\ j \in ToSet(jurors) /\ commit[j] = None /\ commit' = [commit EXCEPT ![j] = v]
      /\ UNCHANGED <<timestamp, case, stake, evidence, jurors, reveal, executed, claims>>
  BY DEF CommitVote
<1>2. JuryTypeOK'
  BY <1>1 DEF JuryTypeOK
<1>3. VotesHold'
  BY <1>1 DEF VotesHold, JuryTypeOK
<1>4. JuryHolds' /\ VerdictHolds' /\ TallyHolds'
  BY <1>1 DEF JuryHolds, VerdictHolds, TallyHolds
<1> QED
  BY <1>2, <1>3, <1>4

\* Who reveals is counted for the side committed to, and for no other.
LEMMA RevealHolds ==
  ASSUME JuryAssumption, JuryInv, case # None, NEW j \in Participants,
         NEW v \in Sides, RevealVote(j, v)
  PROVE  JuryInv'
<1> USE DEF JuryInv
<1>1. PICK old : old = case /\ old \in Case
  BY DEF JuryTypeOK
<1>2. PICK votes : votes = [old.votes EXCEPT ![v] = @ + 1]
  OBVIOUS
<1>3. /\ old.votes \in [Sides -> Nat] /\ votes \in [Sides -> Nat]
      /\ \A s \in Sides : votes[s] = IF s = v THEN old.votes[s] + 1 ELSE old.votes[s]
  BY <1>1, <1>2 DEF Case
<1>4. /\ old.phase = "reveal_vote" /\ commit[j] = v /\ reveal[j] = None
      /\ reveal' = [reveal EXCEPT ![j] = v] /\ case' = [old EXCEPT !.votes = votes]
      /\ UNCHANGED <<timestamp, stake, evidence, jurors, commit, executed, claims>>
  BY <1>1, <1>2 DEF RevealVote
<1>5. /\ case' \in Case /\ case'.passenger = case.passenger /\ case'.airline = case.airline
      /\ case'.phase = case.phase /\ case'.votes = votes
      /\ case'.verdict = case.verdict /\ case'.appealed = case.appealed
  BY <1>1, <1>3, <1>4 DEF Case
<1>6. case.verdict = None /\ ~case.appealed /\ case' # None /\ None \notin Sides
  BY <1>1, <1>4, <1>5 DEF VerdictHolds, JuryAssumption
<1>7. JuryTypeOK'
  BY <1>4, <1>5 DEF JuryTypeOK
<1>8. VotesHold'
  BY <1>4, <1>6 DEF VotesHold, JuryTypeOK
<1>9. JuryHolds' /\ VerdictHolds'
  BY <1>1, <1>4, <1>5, <1>6 DEF JuryHolds, VerdictHolds
<1>10. ASSUME NEW s \in Sides
       PROVE  /\ IsFiniteSet(Voters(reveal', s))
              /\ votes[s] = Cardinality(Voters(reveal', s))
  <2>1. /\ IsFiniteSet(Voters(reveal, s)) /\ old.votes[s] = Cardinality(Voters(reveal, s))
        /\ old.votes[s] \in Nat
    BY <1>1, <1>3, <1>6 DEF TallyHolds
  <2>2. CASE s = v
    <3>1. Voters(reveal', s) = Voters(reveal, s) \cup {j} /\ j \notin Voters(reveal, s)
      BY <1>4, <1>6, <2>2 DEF Voters, JuryTypeOK
    <3>2. /\ IsFiniteSet(Voters(reveal', s))
          /\ Cardinality(Voters(reveal', s)) = Cardinality(Voters(reveal, s)) + 1
      BY <2>1, <3>1, FS_AddElement
    <3> QED  BY <1>3, <2>1, <2>2, <3>2
  <2>3. CASE s # v
    <3>1. Voters(reveal', s) = Voters(reveal, s)
      BY <1>4, <1>6, <2>3 DEF Voters, JuryTypeOK
    <3> QED  BY <1>3, <2>1, <2>3, <3>1
  <2> QED  BY <2>2, <2>3
<1>11. TallyHolds'
  BY <1>5, <1>6, <1>10 DEF TallyHolds
<1> QED
  BY <1>7, <1>8, <1>9, <1>11

\* The phase advances without a verdict.
LEMMA AdvanceHolds ==
  ASSUME JuryAssumption, JuryInv, case # None, AdvanceToReveal
  PROVE  JuryInv'
<1> USE DEF JuryInv
<1>1. PICK old : old = case /\ old \in Case
  BY DEF JuryTypeOK
<1>2. /\ old.phase = "commit_vote" /\ case' = [old EXCEPT !.phase = "reveal_vote"]
      /\ UNCHANGED <<timestamp, stake, evidence, jurors, commit, reveal, executed, claims>>
  BY <1>1 DEF AdvanceToReveal
<1>3. /\ case' \in Case /\ case'.passenger = case.passenger /\ case'.airline = case.airline
      /\ case'.phase = "reveal_vote" /\ case'.votes = case.votes
      /\ case'.verdict = case.verdict /\ case'.appealed = case.appealed
  BY <1>1, <1>2 DEF Case, Phases
<1>4. case.verdict = None /\ ~case.appealed /\ case' # None
  BY <1>1, <1>2, <1>3 DEF VerdictHolds, JuryAssumption
<1>5. JuryTypeOK'
  BY <1>2, <1>3 DEF JuryTypeOK
<1>6. VotesHold' /\ JuryHolds'
  BY <1>1, <1>2, <1>3, <1>4 DEF VotesHold, JuryHolds
<1>7. VerdictHolds' /\ TallyHolds'
  BY <1>1, <1>2, <1>3, <1>4 DEF VerdictHolds, TallyHolds
<1> QED
  BY <1>5, <1>6, <1>7

\* The verdict is the side with more reveals, if there is one.
LEMMA FinalizeHolds ==
  ASSUME JuryAssumption, JuryInv, case # None, FinalizeDispute
  PROVE  JuryInv'
<1> USE DEF JuryInv
<1>1. PICK old : old = case /\ old \in Case
  BY DEF JuryTypeOK
<1> DEFINE p == old.votes["passenger"]
           q == old.votes["airline"]
           winner == IF p > q THEN "passenger" ELSE IF q > p THEN "airline" ELSE "tie"
<1>2. /\ old.phase = "reveal_vote"
      /\ case' = [old EXCEPT !.phase = "appeal", !.verdict = winner]
      /\ UNCHANGED <<timestamp, stake, evidence, jurors, commit, reveal, executed, claims>>
  BY <1>1 DEF FinalizeDispute
<1>3. ~case.appealed
  BY <1>1, <1>2 DEF VerdictHolds
<1>4. /\ p \in Nat /\ q \in Nat /\ winner \in Sides \cup {"tie"} /\ Sides = {"passenger", "airline"}
      /\ p = Cardinality(Voters(reveal, "passenger"))
      /\ q = Cardinality(Voters(reveal, "airline"))
  BY <1>1, <1>3 DEF Case, Sides, TallyHolds
<1>5. winner \in Sides => \A s \in Sides \ {winner} :
         Cardinality(Voters(reveal, winner)) > Cardinality(Voters(reveal, s))
  <2>1. CASE p > q
    BY <1>4, <2>1
  <2>2. CASE q > p
    BY <1>4, <2>2
  <2>3. CASE ~(p > q) /\ ~(q > p)
    BY <1>4, <2>3
  <2> QED  BY <2>1, <2>2, <2>3
<1> HIDE DEF winner
<1>6. /\ case' \in Case /\ case'.passenger = case.passenger /\ case'.airline = case.airline
      /\ case'.phase = "appeal" /\ case'.votes = case.votes
      /\ case'.verdict = winner /\ case'.appealed = case.appealed
  BY <1>1, <1>2, <1>4 DEF Case, Phases
<1>7. case' # None
  BY <1>6 DEF JuryAssumption
<1>8. Len(executed) = 0
  <2>1. Len(executed) \in Nat /\ (Len(executed) # 0 => 1 \in 1..Len(executed))
    BY DEF JuryTypeOK
  <2> QED  BY <1>1, <1>2, <2>1 DEF VerdictHolds
<1>9. JuryTypeOK'
  BY <1>2, <1>6 DEF JuryTypeOK
<1>10. VotesHold' /\ JuryHolds'
  BY <1>1, <1>2, <1>6, <1>7 DEF VotesHold, JuryHolds
<1>11. VerdictHolds'
  BY <1>2, <1>3, <1>6, <1>8 DEF VerdictHolds
<1>12. TallyHolds'
  BY <1>2, <1>3, <1>5, <1>6 DEF TallyHolds
<1> QED
  BY <1>9, <1>10, <1>11, <1>12

\* An appeal forgets the votes and the verdict, and keeps the complete jury.
LEMMA AppealHolds ==
  ASSUME JuryAssumption, JuryInv, case # None, NEW a \in Participants, FileAppeal(a)
  PROVE  JuryInv'
<1> USE DEF JuryInv
<1>1. PICK old : old = case /\ old \in Case
  BY DEF JuryTypeOK
<1>2. PICK next : next = Deadlines(old)
  OBVIOUS
<1>3. /\ next \in Case /\ next.passenger = old.passenger /\ next.airline = old.airline
  BY <1>1, <1>2, DeadlinesAre DEF JuryTypeOK
<1>4. /\ old.phase = "appeal"
      /\ case' = [next EXCEPT !.appealed = TRUE, !.phase = "evidence",
                              !.votes = [s \in Sides |-> 0], !.verdict = None]
      /\ stake' = [stake EXCEPT ![a] = @ + AppealStake]
      /\ UNCHANGED <<timestamp, evidence, jurors, commit, reveal, executed, claims>>
  BY <1>1, <1>2 DEF FileAppeal
<1>5. /\ case' \in Case /\ case'.passenger = case.passenger /\ case'.airline = case.airline
      /\ case'.phase = "evidence" /\ case'.appealed /\ case'.verdict = None
  <2>1. [s \in Sides |-> 0] \in [Sides -> Nat]
    OBVIOUS
  <2> QED  BY <1>1, <1>3, <1>4, <2>1 DEF Case, Phases
<1>6. case' # None /\ None \notin Sides
  BY <1>5 DEF JuryAssumption
<1>7. Len(jurors) >= JurySize
  BY <1>1, <1>4 DEF JuryHolds
<1>8. Len(executed) = 0
  <2>1. Len(executed) \in Nat /\ (Len(executed) # 0 => 1 \in 1..Len(executed))
    BY DEF JuryTypeOK
  <2> QED  BY <1>1, <1>4, <2>1 DEF VerdictHolds
<1>9. JuryTypeOK'
  <2>1. AppealStake \in Nat
    BY DEF JuryAssumption
  <2>2. stake' \in [Participants -> Nat]
    BY <1>4, <2>1 DEF JuryTypeOK
  <2> QED  BY <1>4, <1>5, <2>2 DEF JuryTypeOK
<1>10. VotesHold' /\ JuryHolds'
  BY <1>4, <1>5, <1>6, <1>7 DEF VotesHold, JuryHolds
<1>11. VerdictHolds'
  BY <1>4, <1>5, <1>7, <1>8 DEF VerdictHolds
<1>12. TallyHolds'
  BY <1>4, <1>5, <1>6 DEF TallyHolds
<1> QED
  BY <1>9, <1>10, <1>11, <1>12

\* A verdict is executed, once or again, as it stands.
LEMMA ExecuteHoldsVerdict ==
  ASSUME JuryAssumption, JuryInv, case # None, ExecuteVerdict
  PROVE  JuryInv'
<1> USE DEF JuryInv
<1>1. PICK old : old = case /\ old \in Case
  BY DEF JuryTypeOK
<1>2. /\ old.verdict \in Sides /\ executed' = Append(executed, old.verdict)
      /\ case' = [old EXCEPT !.phase = "finalized"]
      /\ UNCHANGED <<timestamp, stake, evidence, jurors, commit, reveal, claims>>
  BY <1>1 DEF ExecuteVerdict
<1>3. /\ case' \in Case /\ case'.passenger = case.passenger /\ case'.airline = case.airline
      /\ case'.phase = "finalized" /\ case'.votes = case.votes
      /\ case'.verdict = case.verdict /\ case'.appealed = case.appealed
  BY <1>1, <1>2 DEF Case, Phases
<1>4. case.verdict # None /\ case' # None
  BY <1>1, <1>2, <1>3 DEF JuryAssumption
<1>5. /\ case.phase \in {"appeal", "finalized"} /\ ~case.appealed
      /\ Len(jurors) >= JurySize
  BY <1>4 DEF VerdictHolds, JuryHolds
<1>6. /\ executed' \in Seq(Sides) /\ Len(executed') = Len(executed) + 1
      /\ executed'[Len(executed) + 1] = case.verdict
      /\ \A i \in 1..Len(executed) : executed'[i] = executed[i]
  BY <1>1, <1>2 DEF JuryTypeOK
<1>7. JuryTypeOK'
  BY <1>2, <1>3, <1>6 DEF JuryTypeOK
<1>8. VotesHold' /\ JuryHolds'
  BY <1>2, <1>3, <1>4, <1>5 DEF VotesHold, JuryHolds
<1>9. VerdictHolds'
  <2>1. \A i \in 1..Len(executed') : executed'[i] = case.verdict
    <3>1. \A i \in 1..Len(executed') : i \in 1..Len(executed) \/ i = Len(executed) + 1
      BY <1>6 DEF JuryTypeOK
    <3> QED  BY <1>6, <3>1 DEF VerdictHolds
  <2> QED  BY <1>3, <1>5, <2>1 DEF VerdictHolds
<1>10. TallyHolds'
  BY <1>2, <1>3 DEF TallyHolds
<1> QED
  BY <1>7, <1>8, <1>9, <1>10

\* One step per entrypoint.
LEMMA JuryStepHolds ==
  ASSUME JuryAssumption, JuryInv, [JuryNext]_juryVars
  PROVE  JuryInv'
<1>1. ASSUME UNCHANGED <<case, jurors, commit, reveal, executed>>, JuryTypeOK'
      PROVE  JuryInv'
  <2> USE DEF JuryInv
  <2>1. VotesHold' /\ JuryHolds'
    BY <1>1 DEF VotesHold, JuryHolds
  <2>2. VerdictHolds' /\ TallyHolds'
    BY <1>1 DEF VerdictHolds, TallyHolds
  <2> QED  BY <1>1, <2>1, <2>2
<1>2. CASE UNCHANGED juryVars
  BY <1>1, <1>2 DEF juryVars, JuryInv, JuryTypeOK
<1>3. CASE TimePasses
  BY <1>1, <1>3 DEF TimePasses, JuryInv, JuryTypeOK
<1>4. ASSUME NEW a \in Participants, ClaimJurorReward(a)
      PROVE  JuryInv'
  BY <1>1, <1>4 DEF ClaimJurorReward, JuryInv, JuryTypeOK
<1> QED
  BY <1>2, <1>3, <1>4, FileHolds, PartiesHold, SelectHolds, CommitHolds, RevealHolds,
     AdvanceHolds, FinalizeHolds, AppealHolds, ExecuteHoldsVerdict DEF JuryNext

\* The invariant of the jury holds throughout.
THEOREM JuryInductive ==
  ASSUME JuryAssumption
  PROVE  JurySpec => []JuryInv
BY JuryInitHolds, JuryStepHolds, PTL DEF JurySpec

\* Every vote that counts is a juror's who is no party, as committed, and
\* counted once; an executed verdict is the majority of the reveals.
THEOREM TallyIsRevealsAlways ==
  ASSUME JuryAssumption
  PROVE  JurySpec => []TallyIsReveals
<1>1. ASSUME JuryInv PROVE TallyIsReveals
  <2> USE <1>1 DEF JuryInv
  <2> SUFFICES ASSUME case # None
               PROVE  /\ \A a \in Participants : reveal[a] # None =>
                            /\ reveal[a] = commit[a] /\ a \in ToSet(jurors)
                            /\ a \notin {case.passenger, case.airline}
                      /\ ~case.appealed => \A s \in Sides : case.votes[s] = RevealsFor(reveal, s)
                      /\ \A i \in 1..Len(executed) :
                            /\ executed[i] = case.verdict
                            /\ \A s \in Sides \ {executed[i]} :
                                  RevealsFor(reveal, executed[i]) > RevealsFor(reveal, s)
    BY DEF TallyIsReveals
  <2>1. \A a \in Participants : reveal[a] # None =>
           /\ reveal[a] = commit[a] /\ a \in ToSet(jurors)
           /\ a \notin {case.passenger, case.airline}
    BY DEF VotesHold, JuryHolds
  <2>2. \A s : RevealsFor(reveal, s) = Cardinality(Voters(reveal, s))
    BY DEF RevealsFor, Voters
  <2>3. ~case.appealed => \A s \in Sides : case.votes[s] = RevealsFor(reveal, s)
    BY <2>2 DEF TallyHolds
  <2>4. ASSUME NEW i \in 1..Len(executed)
        PROVE  /\ executed[i] = case.verdict
               /\ \A s \in Sides \ {executed[i]} :
                     RevealsFor(reveal, executed[i]) > RevealsFor(reveal, s)
    <3>1. executed[i] = case.verdict /\ executed[i] \in Sides
      BY DEF VerdictHolds, JuryTypeOK
    <3> QED  BY <2>2, <3>1 DEF TallyHolds
  <2> QED  BY <2>1, <2>3, <2>4
<1> QED
  BY <1>1, JuryInductive, PTL

\* Once a vote is revealed no commitment is made, also after an appeal.
THEOREM VotesSealedAlways ==
  ASSUME JuryAssumption
  PROVE  JurySpec => VotesSealed
<1>1. ASSUME JuryInv, [JuryNext]_juryVars
      PROVE  [(\E a \in Participants : reveal[a] # None) => commit' = commit]_juryVars
  <2> SUFFICES ASSUME NEW a \in Participants, reveal[a] # None, commit' # commit
               PROVE  FALSE
    OBVIOUS
  <2>1. case # None
    BY <1>1 DEF JuryInv, VotesHold
  <2>2. case.phase # "commit_vote"
    BY <1>1, <2>1 DEF JuryInv, JuryHolds
  <2> QED
    BY <1>1, <2>2 DEF JuryNext, juryVars, FileDispute, AirlineRespond, SubmitEvidence,
       SelectAsJuror, CommitVote, RevealVote, FileAppeal, ClaimJurorReward, AdvanceToReveal,
       FinalizeDispute, ExecuteVerdict, TimePasses
<1> QED
  BY <1>1, JuryInductive, PTL DEF JurySpec, VotesSealed

(***************************************************************************)
(* The arbiter rules once and impartially, and the contract holds what is  *)
(* not ruled on.                                                           *)
(***************************************************************************)

\* What the contract holds for a booking.
Held(deposits) ==
    [b \in Bookings |-> IF deposits[b] = None \/ deposits[b].released
                        THEN 0 ELSE deposits[b].amount]

\* A booking is disputed once, with a deposit, which is released when there is
\* a winner; the arbiter is no party.
DisputesHold ==
    /\ \A i \in 1..Len(disputes) :
          /\ disputes[i].assigned \notin {disputes[i].claimant, disputes[i].respondent}
          /\ escrow[disputes[i].booking] # None
          /\ escrow[disputes[i].booking].released <=> disputes[i].winner # None
    /\ \A i, j \in 1..Len(disputes) : disputes[i].booking = disputes[j].booking => i = j
    /\ \A b \in Bookings : escrow[b] # None /\ escrow[b].released =>
          \E i \in 1..Len(disputes) : disputes[i].booking = b

\* What is not ruled on is a positive amount, and only winners were paid.
PaymentsHold ==
    /\ \A b \in Bookings : escrow[b] # None /\ ~escrow[b].released => escrow[b].amount > 0
    /\ \A b \in Bookings, a \in Addresses : received[<<b, a>>] > 0 <=>
          \E i \in 1..Len(disputes) : disputes[i].booking = b /\ disputes[i].winner = a

Backed == holds = SumTo(Held(escrow), MaxDeposits)

ArbiterInv == ArbiterTypeOK /\ DisputesHold /\ PaymentsHold /\ Backed

\* What is held for a deposit is a natural number.
LEMMA HeldType ==
  ASSUME ArbiterTypeOK
  PROVE  \A b \in Bookings : Held(escrow)[b] \in Nat
<1> SUFFICES ASSUME NEW b \in Bookings PROVE Held(escrow)[b] \in Nat
  OBVIOUS
<1>1. escrow[b] # None => escrow[b] \in Deposit
  BY DEF ArbiterTypeOK
<1> QED
  BY <1>1 DEF Held, Deposit

\* Nothing is deposited at first.
LEMMA ArbiterInitHolds ==
  ASSUME ArbiterAssumption, ArbiterInit
  PROVE  ArbiterInv
<1>1. ToSet(FirstArbiters) \subseteq Addresses
  BY DEF ToSet, ArbiterAssumption
<1>2. ArbiterTypeOK
  BY <1>1 DEF ArbiterInit, ArbiterTypeOK, ArbiterAssumption
<1>3. Len(disputes) = 0
  BY DEF ArbiterInit
<1>4. DisputesHold /\ PaymentsHold
  BY <1>3 DEF ArbiterInit, DisputesHold, PaymentsHold
<1>5. \A b \in 1..MaxDeposits : Held(escrow)[b] = 0
  BY DEF ArbiterInit, Held, Bookings
<1>6. SumTo(Held(escrow), MaxDeposits) = 0
  BY <1>5, SumToZero DEF ArbiterAssumption
<1> QED
  BY <1>2, <1>4, <1>6 DEF ArbiterInit, ArbiterInv, Backed

\* Who is assigned is an active arbiter and no party.
LEMMA AssignedAreFit ==
  ASSUME NEW id, NEW parties
  PROVE  Assignable(id, parties) \subseteq active \ parties
BY DEF Assignable

\* Naming or disabling an arbiter moves no money and touches no dispute.
LEMMA SetArbiterHolds ==
  ASSUME ArbiterInv, NEW a \in Addresses, NEW enabled \in BOOLEAN, SetArbiter(a, enabled)
  PROVE  ArbiterInv'
<1> USE DEF ArbiterInv
<1>1. /\ active' \subseteq Addresses /\ slots' \in Seq(Addresses)
      /\ UNCHANGED <<escrow, disputes, holds, received>>
  BY DEF SetArbiter, ArbiterTypeOK
<1>2. ArbiterTypeOK' /\ Backed'
  BY <1>1 DEF ArbiterTypeOK, Backed
<1>3. DisputesHold' /\ PaymentsHold'
  BY <1>1 DEF DisputesHold, PaymentsHold
<1> QED
  BY <1>2, <1>3

\* A deposit adds to what the contract holds for its booking.
LEMMA DepositHolds ==
  ASSUME ArbiterAssumption, ArbiterInv, NEW b \in Bookings, NEW x \in Deposits,
         DepositEscrow(b, x)
  PROVE  ArbiterInv'
<1> USE DEF ArbiterInv
<1>1. PICK d : d = [amount |-> x, released |-> FALSE]
  OBVIOUS
<1>2. /\ x \in Nat /\ x > 0 /\ escrow[b] = None /\ escrow' = [escrow EXCEPT ![b] = d]
      /\ holds' = holds + x /\ UNCHANGED <<active, slots, disputes, received>>
  BY <1>1 DEF DepositEscrow, ArbiterAssumption
<1>3. d \in Deposit /\ d # None /\ ~d.released /\ d.amount = x
  <2>1. d \in Deposit
    BY <1>1, <1>2 DEF Deposit
  <2>2. d # None
    BY <2>1 DEF ArbiterAssumption
  <2>3. ~d.released /\ d.amount = x
    BY <1>1
  <2> QED  BY <2>1, <2>2, <2>3
<1>4. ArbiterTypeOK'
  BY <1>2, <1>3 DEF ArbiterTypeOK
<1>5. \A i \in 1..Len(disputes) : disputes[i].booking # b /\ disputes[i].booking \in Bookings
  <2> SUFFICES ASSUME NEW i \in 1..Len(disputes)
               PROVE  disputes[i].booking # b /\ disputes[i].booking \in Bookings
    OBVIOUS
  <2>1. disputes[i] \in Dispute
    BY DEF ArbiterTypeOK
  <2> QED  BY <1>2, <2>1 DEF DisputesHold, Dispute
<1>6. /\ \A c \in Bookings : c # b => escrow'[c] = escrow[c]
      /\ escrow'[b] = d
  BY <1>2 DEF ArbiterTypeOK
<1>7. DisputesHold'
  BY <1>2, <1>3, <1>5, <1>6 DEF DisputesHold
<1>8. PaymentsHold'
  BY <1>2, <1>3, <1>6 DEF PaymentsHold
<1>9. Backed'
  <2>1. /\ \A c \in Bookings : c # b => Held(escrow')[c] = Held(escrow)[c]
        /\ Held(escrow)[b] = 0 /\ Held(escrow')[b] = x
    BY <1>2, <1>3, <1>6 DEF Held
  <2>2. \A c \in Bookings : Held(escrow)[c] \in Int /\ Held(escrow')[c] \in Int
    <3>1. \A c \in Bookings : Held(escrow)[c] \in Nat
      BY HeldType
    <3> DEFINE before == Held(escrow)
               after == Held(escrow')
    <3>2. \A c \in Bookings : after[c] = before[c] \/ after[c] = x
      BY <2>1
    <3> HIDE DEF before, after
    <3>3. \A c \in Bookings : after[c] \in Int
      BY <1>2, <3>1, <3>2 DEF before
    <3> QED  BY <3>1, <3>3 DEF after
  <2>3. SumTo(Held(escrow'), MaxDeposits) = SumTo(Held(escrow), MaxDeposits) - 0 + x
    BY <2>1, <2>2, SumToUpdate DEF Bookings, ArbiterAssumption
  <2>4. SumTo(Held(escrow), MaxDeposits) = holds /\ holds \in Nat
    BY DEF Backed, ArbiterTypeOK
  <2> QED  BY <1>2, <2>3, <2>4 DEF Backed
<1> QED
  BY <1>4, <1>7, <1>8, <1>9

\* A dispute is the first of its booking and has no winner yet.
LEMMA OpenHolds ==
  ASSUME ArbiterAssumption, ArbiterInv, NEW b \in Bookings, NEW a \in Addresses,
         OpenDispute(b, a)
  PROVE  ArbiterInv'
<1> USE DEF ArbiterInv
<1> DEFINE n == Len(disputes)
<1>1. PICK arbiter \in Assignable(n + 1, {a}) :
         disputes' = Append(disputes, [booking |-> b, claimant |-> a, respondent |-> None,
                                       assigned |-> arbiter, winner |-> None])
  BY DEF OpenDispute
<1>2. PICK new : new = [booking |-> b, claimant |-> a, respondent |-> None,
                        assigned |-> arbiter, winner |-> None]
  OBVIOUS
<1>3. arbiter \in Addresses /\ arbiter # a /\ arbiter # None
  BY AssignedAreFit DEF ArbiterTypeOK, ArbiterAssumption
<1>4. /\ new \in Dispute /\ new.booking = b /\ new.winner = None
      /\ new.assigned \notin {new.claimant, new.respondent}
  BY <1>2, <1>3 DEF Dispute, Parties
<1>5. /\ \A i \in 1..n : disputes[i].booking # b
      /\ escrow[b] # None /\ ~escrow[b].released
      /\ UNCHANGED <<active, slots, escrow, holds, received>>
  BY DEF OpenDispute
<1>6. /\ disputes' \in Seq(Dispute) /\ Len(disputes') = n + 1 /\ n \in Nat
      /\ \A i \in 1..n : disputes'[i] = disputes[i]
      /\ disputes'[n + 1] = new
      /\ \A i \in 1..n + 1 : i \in 1..n \/ i = n + 1
      /\ 1..n \subseteq 1..n + 1 /\ n + 1 \in 1..n + 1
  BY <1>1, <1>2, <1>4 DEF ArbiterTypeOK
<1> HIDE DEF n
<1>7. ArbiterTypeOK' /\ Backed'
  BY <1>5, <1>6 DEF ArbiterTypeOK, Backed, n
<1>8. \A i \in 1..n :
         /\ disputes[i].assigned \notin {disputes[i].claimant, disputes[i].respondent}
         /\ escrow[disputes[i].booking] # None
         /\ escrow[disputes[i].booking].released <=> disputes[i].winner # None
  BY DEF DisputesHold, n
<1>9. \A i \in 1..n + 1 :
         /\ disputes'[i].assigned \notin {disputes'[i].claimant, disputes'[i].respondent}
         /\ escrow[disputes'[i].booking] # None
         /\ escrow[disputes'[i].booking].released <=> disputes'[i].winner # None
  BY <1>4, <1>5, <1>6, <1>8
<1>10. ASSUME NEW i \in 1..n + 1, NEW j \in 1..n + 1, disputes'[i].booking = disputes'[j].booking
       PROVE  i = j
  <2>1. i \in 1..n /\ j \in 1..n => i = j
    BY <1>6, <1>10 DEF DisputesHold, n
  <2> QED  BY <1>4, <1>5, <1>6, <1>10, <2>1
<1>11. \A c \in Bookings : escrow[c] # None /\ escrow[c].released =>
          \E i \in 1..n + 1 : disputes'[i].booking = c
  BY <1>6 DEF DisputesHold, n
<1>12. DisputesHold'
  BY <1>5, <1>6, <1>9, <1>10, <1>11 DEF DisputesHold
<1>13. ASSUME NEW c \in Bookings, NEW p \in Addresses
       PROVE  received[<<c, p>>] > 0 <=>
                 \E i \in 1..n + 1 : disputes'[i].booking = c /\ disputes'[i].winner = p
  <2>1. received[<<c, p>>] > 0 <=>
           \E i \in 1..n : disputes[i].booking = c /\ disputes[i].winner = p
    BY DEF PaymentsHold, n
  <2>2. p # None
    BY DEF ArbiterAssumption
  <2> QED  BY <1>4, <1>6, <2>1, <2>2
<1>14. PaymentsHold'
  BY <1>5, <1>6, <1>13 DEF PaymentsHold
<1> QED
  BY <1>7, <1>12, <1>14

\* An arbiter who answers, and so becomes a party, is replaced by one who is none.
LEMMA CounterHolds ==
  ASSUME ArbiterAssumption, ArbiterInv, NEW id \in 1..Len(disputes), NEW a \in Addresses,
         SubmitCounterEvidence(id, a)
  PROVE  ArbiterInv'
<1> USE DEF ArbiterInv
<1>1. PICK old : old = disputes[id] /\ old \in Dispute
  BY DEF ArbiterTypeOK
<1> DEFINE arbiters == IF old.assigned = a THEN Assignable(id, {old.claimant, a})
                                           ELSE {old.assigned}
<1>2. PICK arbiter \in arbiters :
         disputes' = [disputes EXCEPT ![id].respondent = a, ![id].assigned = arbiter]
  BY <1>1 DEF SubmitCounterEvidence
<1>3. /\ a # old.claimant
      /\ UNCHANGED <<active, slots, escrow, holds, received>>
  BY <1>1 DEF SubmitCounterEvidence
<1>4. PICK new : new = [old EXCEPT !.respondent = a, !.assigned = arbiter]
  OBVIOUS
<1>5. disputes' = [disputes EXCEPT ![id] = new]
  BY <1>1, <1>2, <1>4
<1>6. arbiter \in Addresses /\ arbiter \notin {old.claimant, a}
  <2>1. CASE old.assigned = a
    <3>1. arbiter \in active \ {old.claimant, a}
      BY <2>1, AssignedAreFit
    <3> QED  BY <3>1 DEF ArbiterTypeOK
  <2>2. CASE old.assigned # a
    <3>1. arbiter = old.assigned /\ old.assigned \in Addresses
      BY <1>1, <2>2 DEF Dispute
    <3>2. old.assigned # old.claimant
      BY <1>1 DEF DisputesHold
    <3> QED  BY <2>2, <3>1, <3>2
  <2> QED  BY <2>1, <2>2
<1>7. /\ new \in Dispute /\ new.booking = old.booking /\ new.winner = old.winner
      /\ new.assigned \notin {new.claimant, new.respondent}
  BY <1>1, <1>4, <1>6 DEF Dispute, Parties
<1>8. /\ disputes' \in Seq(Dispute) /\ Len(disputes') = Len(disputes)
      /\ disputes'[id] = new
      /\ \A i \in 1..Len(disputes) : i # id => disputes'[i] = disputes[i]
  BY <1>5, <1>7 DEF ArbiterTypeOK
<1>9. \A i \in 1..Len(disputes) :
         /\ disputes'[i].booking = disputes[i].booking
         /\ disputes'[i].winner = disputes[i].winner
  BY <1>1, <1>7, <1>8
<1>10. ArbiterTypeOK' /\ Backed'
  BY <1>3, <1>8 DEF ArbiterTypeOK, Backed
<1>11. \A i \in 1..Len(disputes) :
          disputes'[i].assigned \notin {disputes'[i].claimant, disputes'[i].respondent}
  BY <1>7, <1>8 DEF DisputesHold
<1>12. DisputesHold'
  BY <1>3, <1>8, <1>9, <1>11 DEF DisputesHold
<1>13. PaymentsHold'
  BY <1>3, <1>8, <1>9 DEF PaymentsHold
<1> QED
  BY <1>10, <1>12, <1>13

\* A ruling pays what is held for the booking, which was not paid before, to the
\* winner.
LEMMA RulingHolds ==
  ASSUME ArbiterAssumption, ArbiterInv, NEW id \in 1..Len(disputes), NEW a \in Addresses,
         NEW ruling \in BOOLEAN, ResolveDispute(id, a, ruling)
  PROVE  ArbiterInv'
<1> USE DEF ArbiterInv
<1>1. PICK old : old = disputes[id] /\ old \in Dispute
  BY DEF ArbiterTypeOK
<1>2. PICK b : b = old.booking /\ b \in Bookings
  BY <1>1 DEF Dispute
<1>3. PICK w : w = IF ruling THEN old.claimant ELSE old.respondent
  OBVIOUS
<1>4. PICK x : x = escrow[b].amount
  OBVIOUS
<1>5. PICK spent : spent = [amount |-> 0, released |-> TRUE]
  OBVIOUS
<1>6. PICK new : new = [old EXCEPT !.winner = w]
  OBVIOUS
<1>7. /\ old.winner = None /\ w # None /\ ~escrow[b].released
      /\ holds' = holds - x
      /\ received' = [received EXCEPT ![<<b, w>>] = @ + x]
      /\ escrow' = [escrow EXCEPT ![b] = spent]
      /\ UNCHANGED <<active, slots>>
  BY <1>1, <1>2, <1>3, <1>4, <1>5 DEF ResolveDispute
<1>8. disputes' = [disputes EXCEPT ![id] = new]
  BY <1>1, <1>2, <1>3, <1>6 DEF ResolveDispute
<1>9. w \in Addresses
  BY <1>1, <1>3, <1>7 DEF Dispute, Parties
<1>10. /\ new \in Dispute /\ new.booking = b /\ new.winner = w
       /\ new.claimant = old.claimant /\ new.respondent = old.respondent
       /\ new.assigned = old.assigned
  BY <1>1, <1>2, <1>6, <1>9 DEF Dispute, Parties
<1>11. escrow[b] # None /\ escrow[b] \in Deposit /\ x \in Nat /\ x > 0
  <2>1. escrow[b] # None
    BY <1>1, <1>2 DEF DisputesHold
  <2>2. escrow[b] \in Deposit
    BY <1>2, <2>1 DEF ArbiterTypeOK
  <2>3. x > 0
    BY <1>2, <1>4, <1>7, <2>1 DEF PaymentsHold
  <2> QED  BY <1>4, <2>1, <2>2, <2>3 DEF Deposit
<1>12. spent \in Deposit /\ spent # None /\ spent.released /\ spent.amount = 0
  <2>1. spent \in Deposit
    BY <1>5 DEF Deposit
  <2>2. spent # None
    BY <2>1 DEF ArbiterAssumption
  <2> QED  BY <1>5, <2>1, <2>2
<1>13. /\ disputes' \in Seq(Dispute) /\ Len(disputes') = Len(disputes)
       /\ disputes'[id] = new
       /\ \A i \in 1..Len(disputes) : i # id => disputes'[i] = disputes[i]
  BY <1>8, <1>10 DEF ArbiterTypeOK
<1>14. \A i \in 1..Len(disputes) :
          /\ disputes'[i].booking = disputes[i].booking
          /\ disputes'[i].booking \in Bookings
          /\ i # id => disputes[i].booking # b
  <2> SUFFICES ASSUME NEW i \in 1..Len(disputes)
               PROVE  /\ disputes'[i].booking = disputes[i].booking
                      /\ disputes'[i].booking \in Bookings
                      /\ i # id => disputes[i].booking # b
    OBVIOUS
  <2>1. disputes[i] \in Dispute
    BY DEF ArbiterTypeOK
  <2>2. disputes[i].booking \in Bookings
    BY <2>1 DEF Dispute
  <2> QED  BY <1>1, <1>2, <1>10, <1>13, <2>2 DEF DisputesHold
<1>15. escrow' \in [Bookings -> Deposit \cup {None}] /\ escrow'[b] = spent
       /\ \A c \in Bookings : c # b => escrow'[c] = escrow[c]
  BY <1>2, <1>7, <1>12 DEF ArbiterTypeOK
<1>16. SumTo(Held(escrow'), MaxDeposits) = holds - x /\ x <= holds
  <2>1. /\ \A c \in Bookings : c # b => Held(escrow')[c] = Held(escrow)[c]
        /\ Held(escrow)[b] = x /\ Held(escrow')[b] = 0
    BY <1>2, <1>4, <1>7, <1>11, <1>12, <1>15 DEF Held
  <2>2. \A c \in Bookings : Held(escrow)[c] \in Nat
    BY HeldType
  <2>3. \A c \in Bookings : Held(escrow)[c] \in Int /\ Held(escrow')[c] \in Int
    <3> DEFINE before == Held(escrow)
               after == Held(escrow')
    <3>1. \A c \in Bookings : after[c] = before[c] \/ after[c] = 0
      BY <2>1
    <3> HIDE DEF before, after
    <3>2. \A c \in Bookings : after[c] \in Int
      BY <2>2, <3>1 DEF before
    <3> QED  BY <2>2, <3>2 DEF after
  <2>4. MaxDeposits \in Nat
    BY DEF ArbiterAssumption
  <2>5. SumTo(Held(escrow'), MaxDeposits) = SumTo(Held(escrow), MaxDeposits) - x + 0
    BY <1>2, <2>1, <2>3, <2>4, SumToUpdate DEF Bookings
  <2>6. x <= SumTo(Held(escrow), MaxDeposits)
    <3>1. Held(escrow)[b] <= SumTo(Held(escrow), MaxDeposits)
      BY <1>2, <2>2, <2>4, SumToAtLeast DEF Bookings
    <3> QED  BY <2>1, <3>1
  <2>7. SumTo(Held(escrow), MaxDeposits) = holds /\ holds \in Nat
    BY DEF Backed, ArbiterTypeOK
  <2> QED  BY <1>11, <2>5, <2>6, <2>7
<1>17. holds' \in Nat /\ Backed'
  BY <1>7, <1>11, <1>16 DEF Backed, ArbiterTypeOK
<1>18. received' \in [Bookings \X Addresses -> Nat]
  BY <1>2, <1>7, <1>9, <1>11 DEF ArbiterTypeOK
<1>19. ArbiterTypeOK'
  BY <1>7, <1>13, <1>15, <1>17, <1>18 DEF ArbiterTypeOK
<1>20. ASSUME NEW i \in 1..Len(disputes)
       PROVE  /\ disputes'[i].assigned \notin {disputes'[i].claimant, disputes'[i].respondent}
              /\ escrow'[disputes'[i].booking] # None
              /\ escrow'[disputes'[i].booking].released <=> disputes'[i].winner # None
  <2>1. /\ disputes[i].assigned \notin {disputes[i].claimant, disputes[i].respondent}
        /\ escrow[disputes[i].booking] # None
        /\ escrow[disputes[i].booking].released <=> disputes[i].winner # None
    BY DEF DisputesHold
  <2>2. CASE i = id
    BY <1>1, <1>7, <1>10, <1>12, <1>13, <1>15, <2>1, <2>2
  <2>3. CASE i # id
    BY <1>13, <1>14, <1>15, <2>1, <2>3
  <2> QED  BY <2>2, <2>3
<1>21. \A c \in Bookings : escrow'[c] # None /\ escrow'[c].released =>
          \E i \in 1..Len(disputes) : disputes'[i].booking = c
  BY <1>10, <1>13, <1>14, <1>15 DEF DisputesHold
<1>22. DisputesHold'
  BY <1>13, <1>14, <1>20, <1>21 DEF DisputesHold
<1>23. ASSUME NEW c \in Bookings, NEW p \in Addresses
       PROVE  received'[<<c, p>>] > 0 <=>
                 \E i \in 1..Len(disputes) : disputes'[i].booking = c /\ disputes'[i].winner = p
  <2>1. /\ received[<<c, p>>] \in Nat
        /\ received[<<c, p>>] > 0 <=>
              \E i \in 1..Len(disputes) : disputes[i].booking = c /\ disputes[i].winner = p
    BY DEF PaymentsHold, ArbiterTypeOK
  <2>2. received'[<<c, p>>] = IF c = b /\ p = w THEN received[<<c, p>>] + x
                                                ELSE received[<<c, p>>]
    BY <1>2, <1>7, <1>9 DEF ArbiterTypeOK
  <2>3. CASE c = b
    <3>1. ~(received[<<c, p>>] > 0)
      <4>1. p # None
        BY DEF ArbiterAssumption
      <4> QED  BY <1>1, <1>7, <1>14, <2>1, <2>3, <4>1
    <3>2. received'[<<c, p>>] > 0 <=> p = w
      BY <1>11, <2>1, <2>2, <2>3, <3>1
    <3>3. (\E i \in 1..Len(disputes) : disputes'[i].booking = c /\ disputes'[i].winner = p)
             <=> p = w
      BY <1>10, <1>13, <1>14, <2>3
    <3> QED  BY <3>2, <3>3
  <2>4. CASE c # b
    BY <1>10, <1>13, <1>14, <2>1, <2>2, <2>4
  <2> QED  BY <2>3, <2>4
<1>24. PaymentsHold'
  <2>1. \A c \in Bookings : escrow'[c] # None /\ ~escrow'[c].released => escrow'[c].amount > 0
    BY <1>12, <1>15 DEF PaymentsHold
  <2> QED  BY <1>13, <1>23, <2>1 DEF PaymentsHold
<1> QED
  BY <1>17, <1>19, <1>22, <1>24

\* One step per entrypoint.
LEMMA ArbiterStepHolds ==
  ASSUME ArbiterAssumption, ArbiterInv, [ArbiterNext]_arbiterVars
  PROVE  ArbiterInv'
<1>1. CASE UNCHANGED arbiterVars
  <2>1. UNCHANGED <<active, slots, escrow, disputes, holds, received>>
    BY <1>1 DEF arbiterVars
  <2>2. ArbiterTypeOK' /\ Backed'
    BY <2>1 DEF ArbiterInv, ArbiterTypeOK, Backed
  <2>3. DisputesHold' /\ PaymentsHold'
    BY <2>1 DEF ArbiterInv, DisputesHold, PaymentsHold
  <2> QED  BY <2>2, <2>3 DEF ArbiterInv
<1> QED
  BY <1>1, SetArbiterHolds, DepositHolds, OpenHolds, CounterHolds, RulingHolds DEF ArbiterNext

\* The invariant of the arbiters' contract holds throughout.
THEOREM ArbiterInductive ==
  ASSUME ArbiterAssumption
  PROVE  ArbiterSpec => []ArbiterInv
BY ArbiterInitHolds, ArbiterStepHolds, PTL DEF ArbiterSpec

\* A deposit is ruled on once and by no party, it goes to the winner alone, and
\* the contract holds what is not ruled on.
THEOREM RulingIsImpartialAlways ==
  ASSUME ArbiterAssumption
  PROVE  ArbiterSpec => []RulingIsImpartial
<1>1. ASSUME ArbiterInv PROVE RulingIsImpartial
  <2> USE <1>1 DEF ArbiterInv
  <2> DEFINE ruled == {b \in Bookings : escrow[b] # None /\ escrow[b].released}
  <2>1. \A i \in 1..Len(disputes) :
           disputes[i].assigned \notin {disputes[i].claimant, disputes[i].respondent}
    BY DEF DisputesHold
  <2>2. ASSUME NEW b \in Bookings, NEW a \in Addresses, received[<<b, a>>] > 0
        PROVE  /\ b \in ruled
               /\ \E i \in 1..Len(disputes) :
                     disputes[i].booking = b /\ disputes[i].winner = a
    <3>1. PICK i \in 1..Len(disputes) : disputes[i].booking = b /\ disputes[i].winner = a
      BY <2>2 DEF PaymentsHold
    <3>2. a # None
      BY DEF ArbiterAssumption
    <3> QED  BY <3>1, <3>2 DEF DisputesHold
  <2>3. ASSUME NEW b \in ruled
        PROVE  Cardinality({a \in Addresses : received[<<b, a>>] > 0}) = 1
    <3>1. PICK i \in 1..Len(disputes) : disputes[i].booking = b
      BY DEF DisputesHold
    <3>2. disputes[i].winner # None /\ disputes[i] \in Dispute
      BY <3>1 DEF DisputesHold, ArbiterTypeOK
    <3>3. disputes[i].winner \in Addresses
      BY <3>2 DEF Dispute, Parties
    <3>4. \A a \in Addresses : received[<<b, a>>] > 0 <=> a = disputes[i].winner
      BY <3>1 DEF PaymentsHold, DisputesHold
    <3>5. {a \in Addresses : received[<<b, a>>] > 0} = {disputes[i].winner}
      BY <3>3, <3>4
    <3> QED  BY <3>5, FS_Singleton
  <2>4. Held(escrow) = [b \in Bookings |-> IF escrow[b] = None \/ b \in ruled
                                           THEN 0 ELSE escrow[b].amount]
    BY DEF Held
  <2> HIDE DEF ruled
  <2>5. holds = SumTo([b \in Bookings |-> IF escrow[b] = None \/ b \in ruled
                                          THEN 0 ELSE escrow[b].amount], MaxDeposits)
    BY <2>4 DEF Backed
  <2> QED
    BY <2>1, <2>2, <2>3, <2>5 DEF RulingIsImpartial, ruled
<1> QED
  BY <1>1, ArbiterInductive, PTL

(***************************************************************************)
(* The composition: a behaviour is one of each part, whichever of them it  *)
(* is about.                                                               *)
(***************************************************************************)

\* What is proved of each contract alone holds of the four side by side.
THEOREM EachPartHolds ==
  Spec => RefundSpec /\ RulingsSpec /\ JurySpec /\ ArbiterSpec
<1>1. [Next]_allVars => /\ [RefundNext]_refundVars /\ [RulingsNext]_rulingVars
                        /\ [JuryNext]_juryVars /\ [ArbiterNext]_arbiterVars
  BY DEF Next, allVars
<1> QED
  BY <1>1, PTL DEF Spec, Init, RefundSpec, RulingsSpec, JurySpec, ArbiterSpec

\* The state of the four parts keeps its shape.
THEOREM TypesCorrect == Spec => []TypesOK
<1>1. RulingsAssumption /\ JuryAssumption /\ ArbiterAssumption
  BY DisputesAssumption DEF DisputesAssumption
<1>2. BooksInv /\ RulingsInv /\ JuryInv /\ ArbiterInv => TypesOK
  BY DEF BooksInv, RulingsInv, JuryInv, ArbiterInv, TypesOK
<1> QED
  BY <1>1, <1>2, EachPartHolds, RefundInductive, RulingsInductive, JuryInductive,
     ArbiterInductive, PTL
=============================================================================
