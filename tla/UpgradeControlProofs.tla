------------------------- MODULE UpgradeControlProofs -------------------------
(***************************************************************************)
(* The contracts that decide about upgrades and parameters, for any        *)
(* addresses, lists, proposals, durations and times: first each contract,  *)
(* then that a behaviour of their composition is one of each.              *)
(***************************************************************************)
EXTENDS UpgradeControl, SumsProofs, FiniteSetTheorems

(***************************************************************************)
(* The admin multisig can always be used, and only together.               *)
(***************************************************************************)

\* The k-th list the loop of a removal builds, from the one before.
Grow(g, list, a, k) == IF list[k] = a THEN g[k - 1] ELSE Append(g[k - 1], list[k])

IsKept(g, list, a, n) ==
    /\ g \in [0..n -> Seq(Accounts)]
    /\ g[0] = <<>>
    /\ \A k \in 1..n : g[k] = Grow(g, list, a, k)

\* The loop has a list after each of its passes.
LEMMA KeptExists ==
  ASSUME NEW list \in Seq(Accounts), NEW a
  PROVE  \E g : IsKept(g, list, a, Len(list))
<1> DEFINE n == Len(list)
           S == {k \in 0..n : \E g : IsKept(g, list, a, k)}
<1>0. n \in Nat /\ \A k \in 1..n : list[k] \in Accounts
  OBVIOUS
<1> HIDE DEF n
<1>1. 0 \in S
  <2>1. IsKept([i \in 0..0 |-> <<>>], list, a, 0)
    BY DEF IsKept
  <2> QED  BY <2>1, <1>0
<1>2. ASSUME NEW m \in 1..n, m - 1 \in S
      PROVE  m \in S
  <2>1. PICK g : IsKept(g, list, a, m - 1)
    BY <1>2
  <2> DEFINE h == [i \in 0..m |-> IF i = m THEN Grow(g, list, a, m) ELSE g[i]]
  <2>2. g[m - 1] \in Seq(Accounts) /\ list[m] \in Accounts
    BY <1>0, <2>1 DEF IsKept
  <2>3. Grow(g, list, a, m) \in Seq(Accounts)
    BY <2>2 DEF Grow
  <2>4. h \in [0..m -> Seq(Accounts)] /\ h[0] = <<>>
    BY <2>1, <2>3 DEF IsKept
  <2>5. ASSUME NEW k \in 1..m PROVE h[k] = Grow(h, list, a, k)
    <3>1. k - 1 \in 0..m /\ k - 1 # m /\ h[k - 1] = g[k - 1]
      OBVIOUS
    <3>2. CASE k = m
      BY <3>1, <3>2 DEF Grow
    <3>3. CASE k # m
      <4>1. k \in 1..(m - 1) /\ h[k] = g[k]
        BY <3>3
      <4>2. g[k] = Grow(g, list, a, k)
        BY <2>1, <4>1 DEF IsKept
      <4> QED  BY <3>1, <4>1, <4>2 DEF Grow
    <3> QED  BY <3>2, <3>3
  <2> HIDE DEF h
  <2>6. IsKept(h, list, a, m)
    BY <2>4, <2>5 DEF IsKept
  <2> QED  BY <2>6, <1>0
<1> HIDE DEF S
<1>3. 0..n \subseteq S
  BY <1>0, <1>1, <1>2, UpTo
<1> QED  BY <1>0, <1>3 DEF S, n

\* The recursive function of Without, as an equation.
Unfolds(g, list, a, n) ==
    g = [k \in 0..n |-> IF k = 0 THEN <<>> ELSE Grow(g, list, a, k)]

\* The lists of the passes satisfy the equation ...
LEMMA KeptUnfolds ==
  ASSUME NEW list, NEW a, NEW n \in Nat, NEW g, IsKept(g, list, a, n)
  PROVE  Unfolds(g, list, a, n)
<1>1. g = [k \in 0..n |-> g[k]]
  BY DEF IsKept
<1>2. ASSUME NEW k \in 0..n
      PROVE  g[k] = IF k = 0 THEN <<>> ELSE Grow(g, list, a, k)
  BY DEF IsKept
<1> QED  BY <1>1, <1>2 DEF Unfolds

\* An address that is not on a list that repeats nobody can be put at its end.
LEMMA AppendedOnce ==
  ASSUME NEW s \in Seq(Accounts), NEW e \in Accounts, IsInjective(s), e \notin ToSet(s)
  PROVE  IsInjective(Append(s, e)) /\ ToSet(Append(s, e)) \subseteq ToSet(s) \cup {e}
<1> DEFINE t == Append(s, e)
<1>1. /\ Len(s) \in Nat /\ DOMAIN s = 1..Len(s) /\ DOMAIN t = 1..(Len(s) + 1)
      /\ \A i \in 1..Len(s) : t[i] = s[i]
      /\ t[Len(s) + 1] = e
  OBVIOUS
<1>2. \A i \in 1..(Len(s) + 1) : i \in 1..Len(s) \/ i = Len(s) + 1
  BY <1>1
<1>3. \A i \in 1..Len(s) : s[i] # e
  BY <1>1 DEF ToSet
<1> HIDE DEF t
<1>4. IsInjective(t)
  BY <1>1, <1>2, <1>3 DEF IsInjective
<1>5. ToSet(t) \subseteq ToSet(s) \cup {e}
  BY <1>1, <1>2 DEF ToSet
<1> QED  BY <1>4, <1>5 DEF t

\* A list that repeats nobody has as many entries as addresses.
LEMMA AsManyAsEntries ==
  ASSUME NEW s \in Seq(Accounts), IsInjective(s)
  PROVE  Cardinality(ToSet(s)) = Len(s)
<1>1. /\ Len(s) \in Nat /\ DOMAIN s = 1..Len(s) /\ s \in [1..Len(s) -> Accounts]
      /\ ToSet(s) = {s[i] : i \in 1..Len(s)}
  BY DEF ToSet
<1>2. s \in Bijection(1..Len(s), ToSet(s))
  <2>1. s \in [1..Len(s) -> ToSet(s)]
    BY <1>1
  <2>2. \A e \in ToSet(s) : \E i \in 1..Len(s) : s[i] = e
    BY <1>1
  <2> QED  BY <1>1, <2>1, <2>2 DEF Bijection, Injection, Surjection, IsInjective
<1>3. ExistsBijection(1..Len(s), ToSet(s))
  BY <1>2 DEF ExistsBijection
<1> QED  BY <1>1, <1>3, FS_CountingElements

\* ... and what satisfies it consists of lists of addresses, without
\* repetitions where the list had none.
LEMMA UnfoldedType ==
  ASSUME NEW list, NEW a, NEW n \in Nat, \A k \in 1..n : list[k] \in Accounts,
         NEW g, Unfolds(g, list, a, n)
  PROVE  /\ g[n] \in Seq(Accounts)
         /\ (\A j, k \in 1..n : list[j] = list[k] => j = k) => IsInjective(g[n])
<1> DEFINE Distinct == \A j, k \in 1..n : list[j] = list[k] => j = k
           T == {k \in 0..n : /\ g[k] \in Seq(Accounts)
                              /\ Distinct =>
                                    /\ IsInjective(g[k])
                                    /\ ToSet(g[k]) \subseteq {list[j] : j \in 1..k}}
<1>1. 0 \in T
  <2>1. g[0] = <<>>
    BY DEF Unfolds
  <2>2. DOMAIN <<>> = {} /\ <<>> \in Seq(Accounts)
    OBVIOUS
  <2>3. IsInjective(<<>>) /\ ToSet(<<>>) = {}
    <3> DEFINE none == <<>>
    <3>1. DOMAIN none = {}
      OBVIOUS
    <3> HIDE DEF none
    <3>2. IsInjective(none)
      BY <3>1 DEF IsInjective
    <3>3. ToSet(none) = {}
      BY <3>1 DEF ToSet
    <3> QED  BY <3>2, <3>3 DEF none
  <2>4. g[0] \in Seq(Accounts) /\ IsInjective(g[0]) /\ ToSet(g[0]) = {}
    BY <2>1, <2>2, <2>3
  <2>5. 0 \in 0..n
    OBVIOUS
  <2> HIDE DEF Distinct
  <2> QED  BY <2>4, <2>5
<1>2. ASSUME NEW k \in 1..n, k - 1 \in T PROVE k \in T
  <2>1. g[k] = IF list[k] = a THEN g[k - 1] ELSE Append(g[k - 1], list[k])
    <3>1. g[k] = Grow(g, list, a, k)
      BY DEF Unfolds
    <3> QED  BY <3>1 DEF Grow
  <2>2. /\ g[k - 1] \in Seq(Accounts) /\ list[k] \in Accounts
        /\ Distinct => /\ IsInjective(g[k - 1])
                       /\ ToSet(g[k - 1]) \subseteq {list[j] : j \in 1..(k - 1)}
    BY <1>2
  <2>3. g[k] \in Seq(Accounts)
    BY <2>1, <2>2
  <2>4. ASSUME Distinct
        PROVE  IsInjective(g[k]) /\ ToSet(g[k]) \subseteq {list[j] : j \in 1..k}
    <3>1. list[k] \notin ToSet(g[k - 1])
      <4>1. \A j \in 1..(k - 1) : list[j] # list[k]
        <5>1. \A j \in 1..(k - 1) : j \in 1..n /\ j # k
          OBVIOUS
        <5> QED  BY <2>4, <5>1
      <4> QED  BY <2>2, <2>4, <4>1
    <3>2. ToSet(g[k - 1]) \subseteq {list[j] : j \in 1..k}
      <4>1. \A j \in 1..(k - 1) : j \in 1..k
        OBVIOUS
      <4> QED  BY <2>2, <2>4, <4>1
    <3> QED  BY <2>1, <2>2, <2>4, <3>1, <3>2, AppendedOnce
  <2> QED  BY <2>3, <2>4
<1> HIDE DEF T
<1>3. n \in T
  BY <1>1, <1>2, UpTo
<1> QED  BY <1>3 DEF T

\* What is left of a list after a removal is a list of addresses, and repeats
\* none unless the list did, for lists of every length.
LEMMA WithoutType ==
  ASSUME NEW list \in Seq(Accounts), NEW a
  PROVE  /\ Without(list, a) \in Seq(Accounts)
         /\ IsInjective(list) => IsInjective(Without(list, a))
<1> DEFINE K == CHOOSE g : Unfolds(g, list, a, Len(list))
<1>0. /\ Len(list) \in Nat /\ \A k \in 1..Len(list) : list[k] \in Accounts
      /\ DOMAIN list = 1..Len(list)
  OBVIOUS
<1>1. PICK g : IsKept(g, list, a, Len(list))
  BY KeptExists
<1>2. Unfolds(g, list, a, Len(list))
  BY <1>0, <1>1, KeptUnfolds
<1>3. Unfolds(K, list, a, Len(list))
  BY <1>2
<1>4. Without(list, a) = K[Len(list)]
  BY DEF Without, Unfolds, Grow
<1>5. IsInjective(list) => \A j, k \in 1..Len(list) : list[j] = list[k] => j = k
  BY <1>0 DEF IsInjective
<1> HIDE DEF K
<1> QED  BY <1>0, <1>3, <1>4, <1>5, UnfoldedType
-----------------------------------------------------------------------------
\* The invariant needs the types of the proposals: what a proposal does when it
\* is executed is one of the actions they may carry.  The code compares the
\* threshold with the length of the list.
WithinList == 2 <= threshold /\ threshold <= Len(signers)

MultisigInv == MultisigTypeOK /\ WithinList

\* initialize is given a list of at least two and a threshold within it.
LEMMA MultisigInitHolds ==
  ASSUME MultisigAssumption, MultisigInit
  PROVE  MultisigInv
<1>1. signers \in Seq(Accounts)
  BY DEF MultisigAssumption, MultisigInit
<1>2. threshold \in Nat /\ 2 <= threshold /\ threshold <= Len(signers)
  BY <1>1 DEF MultisigInit
<1>3. proposals \in Seq(Proposal)
  BY DEF MultisigInit
<1> QED
  BY <1>1, <1>2, <1>3 DEF MultisigInit, MultisigInv, MultisigTypeOK, WithinList

\* A proposal starts with its proposer's approval.
LEMMA ProposeHolds ==
  ASSUME MultisigAssumption, MultisigInv, NEW a \in Accounts, NEW action \in Actions,
         ProposeAdminAction(a, action)
  PROVE  MultisigInv'
<1>1. [proposer |-> a, action |-> action, expires_at |-> now + Expiration,
       approvals |-> {a}, executed |-> FALSE, cancelled |-> FALSE] \in Proposal
  BY DEF Proposal, MultisigInv, MultisigTypeOK, MultisigAssumption
<1> QED
  BY <1>1 DEF ProposeAdminAction, MultisigInv, MultisigTypeOK, WithinList

\* What an executed proposal does to the signers and the threshold is checked
\* against what they are when it is executed.
LEMMA ExecuteHolds ==
  ASSUME MultisigAssumption, MultisigInv, NEW a \in Accounts, NEW id \in 1..Len(proposals),
         ExecuteAdminAction(a, id)
  PROVE  MultisigInv'
<1> DEFINE p == proposals[id]
<1> USE DEF MultisigInv, MultisigTypeOK, WithinList
<1>1. p \in Proposal /\ p.action \in ActionTypes
  <2>1. p \in Proposal
    OBVIOUS
  <2> QED
    BY <2>1 DEF Proposal, MultisigAssumption
<1>2. proposals' \in Seq(Proposal)
  <2>1. [p EXCEPT !.executed = TRUE] \in Proposal
    BY <1>1 DEF Proposal
  <2>2. proposals' = [proposals EXCEPT ![id] = [p EXCEPT !.executed = TRUE]]
    BY DEF ExecuteAdminAction
  <2> QED
    BY <2>1, <2>2
<1>3. now' = now
  BY DEF ExecuteAdminAction
<1> DEFINE Kept == /\ signers' \in Seq(Accounts) /\ threshold' \in Nat /\ stopped' \in BOOLEAN
                   /\ 2 <= threshold' /\ threshold' <= Len(signers')
<1>4. ASSUME p.action.type = "AddSigner", AddSigner(p.action.target)
      PROVE  Kept
  <2>1. p.action.target \in Accounts
    BY <1>1, <1>4 DEF ActionTypes
  <2> QED
    BY <1>4, <2>1 DEF AddSigner
<1>5. ASSUME RemoveSigner(p.action.target)
      PROVE  Kept
  <2>1. Without(signers, p.action.target) \in Seq(Accounts)
    BY WithoutType
  <2> QED
    BY <1>5, <2>1 DEF RemoveSigner
<1>6. ASSUME p.action.type = "UpdateThreshold", UpdateThreshold(p.action.threshold)
      PROVE  Kept
  <2>1. p.action.threshold \in Nat
    BY <1>1, <1>6 DEF ActionTypes, Thresholds
  <2> QED
    BY <1>6, <2>1 DEF UpdateThreshold
<1>7. ASSUME stopped' \in BOOLEAN, UNCHANGED <<signers, threshold>>
      PROVE  Kept
  BY <1>7
<1>8. Kept
  BY <1>4, <1>5, <1>6, <1>7 DEF ExecuteAdminAction
<1> QED
  BY <1>2, <1>3, <1>8

\* One step per operation.
LEMMA MultisigStepHolds ==
  ASSUME MultisigAssumption, MultisigInv, [MultisigNext]_multisigVars
  PROVE  MultisigInv'
<1> USE DEF MultisigInv, MultisigTypeOK, WithinList
<1>1. CASE UNCHANGED multisigVars
  BY <1>1 DEF multisigVars
<1>2. ASSUME NEW a \in Accounts, NEW id \in 1..Len(proposals), ApproveAdminAction(a, id)
      PROVE  MultisigInv'
  <2>1. proposals[id] \in Proposal
    OBVIOUS
  <2>2. [proposals[id] EXCEPT !.approvals = @ \cup {a}] \in Proposal
    BY <2>1 DEF Proposal
  <2>3. proposals' = [proposals EXCEPT ![id] = [proposals[id] EXCEPT !.approvals = @ \cup {a}]]
    BY <1>2 DEF ApproveAdminAction
  <2>4. proposals' \in Seq(Proposal)
    BY <2>2, <2>3
  <2> QED
    BY <1>2, <2>4 DEF ApproveAdminAction
<1>3. ASSUME NEW a \in Accounts, NEW id \in 1..Len(proposals), CancelProposal(a, id)
      PROVE  MultisigInv'
  <2>1. proposals[id] \in Proposal
    OBVIOUS
  <2>2. [proposals[id] EXCEPT !.cancelled = TRUE] \in Proposal
    BY <2>1 DEF Proposal
  <2>3. proposals' = [proposals EXCEPT ![id] = [proposals[id] EXCEPT !.cancelled = TRUE]]
    BY <1>3 DEF CancelProposal
  <2>4. proposals' \in Seq(Proposal)
    BY <2>2, <2>3
  <2> QED
    BY <1>3, <2>4 DEF CancelProposal
<1>4. CASE Tick /\ UNCHANGED <<signers, threshold, proposals, stopped>>
  BY <1>4 DEF Tick
<1> QED
  BY <1>1, <1>2, <1>3, <1>4, ProposeHolds, ExecuteHolds DEF MultisigNext

\* The invariant holds throughout.
THEOREM MultisigInductive ==
  ASSUME MultisigAssumption
  PROVE  MultisigSpec => []MultisigInv
BY MultisigInitHolds, MultisigStepHolds, PTL DEF MultisigSpec

\* No step makes a list that repeats nobody repeat somebody: a signer that is
\* added was not on it.
LEMMA NobodyTwice ==
  ASSUME MultisigAssumption, MultisigInv, [MultisigNext]_multisigVars, IsInjective(signers)
  PROVE  IsInjective(signers')
<1> USE DEF MultisigInv, MultisigTypeOK
<1>1. ASSUME NEW a \in Accounts, NEW id \in 1..Len(proposals), ExecuteAdminAction(a, id)
      PROVE  IsInjective(signers')
  <2> DEFINE p == proposals[id]
  <2>1. ASSUME p.action.type = "AddSigner", AddSigner(p.action.target)
        PROVE  IsInjective(signers')
    <3>1. p \in Proposal
      OBVIOUS
    <3>2. p.action \in ActionTypes
      BY <3>1 DEF Proposal, MultisigAssumption
    <3>3. p.action.target \in Accounts
      BY <2>1, <3>2 DEF ActionTypes
    <3> QED  BY <2>1, <3>3, AppendedOnce DEF AddSigner, IsSigner
  <2>2. ASSUME RemoveSigner(p.action.target)
        PROVE  IsInjective(signers')
    BY <2>2, WithoutType DEF RemoveSigner
  <2>3. ASSUME UNCHANGED signers
        PROVE  IsInjective(signers')
    BY <2>3
  <2> QED
    BY <1>1, <2>1, <2>2, <2>3 DEF ExecuteAdminAction, UpdateThreshold
<1>2. \/ UNCHANGED signers
      \/ \E a \in Accounts, id \in 1..Len(proposals) : ExecuteAdminAction(a, id)
  BY DEF MultisigNext, multisigVars, ProposeAdminAction, ApproveAdminAction, CancelProposal
<1> QED
  BY <1>1, <1>2

\* Whatever removals and thresholds the signers propose together and in which
\* order they execute them, they cannot lock themselves out, if the contract
\* was given a list that names nobody twice.
THEOREM ThresholdInReachAlways ==
  ASSUME MultisigAssumption
  PROVE  MultisigSpec => ThresholdInReach
<1> DEFINE InReach == IsInjective(signers) =>
                          2 <= threshold /\ threshold <= Cardinality(ToSet(signers))
           StaysDistinct == IsInjective(signers) => IsInjective(signers')
<1>1. MultisigInv => InReach
  BY AsManyAsEntries DEF MultisigInv, MultisigTypeOK, WithinList
<1>2. ASSUME MultisigInv, [MultisigNext]_multisigVars
      PROVE  [StaysDistinct]_multisigVars
  BY <1>2, NobodyTwice
<1> QED
  BY MultisigInductive, <1>1, <1>2, PTL DEF MultisigSpec, ThresholdInReach

\* The signers, the threshold and the emergency flag change only by a proposal
\* with enough approvals, and what was executed or cancelled stays as it is.
THEOREM OnlyByAgreementAlways ==
  ASSUME MultisigAssumption
  PROVE  MultisigSpec => OnlyByAgreement
<1> DEFINE Agreed ==
      /\ <<signers, threshold, stopped>>' # <<signers, threshold, stopped>> =>
             \E id \in DOMAIN proposals :
                 /\ IsOpen(proposals[id]) /\ proposals'[id].executed
                 /\ Cardinality(proposals[id].approvals) >= threshold
      /\ \A id \in DOMAIN proposals :
             proposals[id].executed \/ proposals[id].cancelled =>
                 proposals'[id] = proposals[id]
<1>1. ASSUME MultisigInv, [MultisigNext]_multisigVars
      PROVE  [Agreed]_multisigVars
  <2> USE <1>1 DEF MultisigInv, MultisigTypeOK
  <2>0. DOMAIN proposals = 1..Len(proposals)
    OBVIOUS
  <2>1. ASSUME NEW a \in Accounts, NEW action \in Actions, ProposeAdminAction(a, action)
        PROVE  Agreed
    BY <2>0, <2>1 DEF ProposeAdminAction
  <2>2. ASSUME NEW a \in Accounts, NEW id \in 1..Len(proposals), ApproveAdminAction(a, id)
        PROVE  Agreed
    BY <2>0, <2>2 DEF ApproveAdminAction, IsOpen
  <2>3. ASSUME NEW a \in Accounts, NEW id \in 1..Len(proposals), ExecuteAdminAction(a, id)
        PROVE  Agreed
    <3>1. IsOpen(proposals[id]) /\ Cardinality(proposals[id].approvals) >= threshold
      BY <2>3 DEF ExecuteAdminAction
    <3>2. proposals' = [proposals EXCEPT ![id] = [proposals[id] EXCEPT !.executed = TRUE]]
      BY <2>3 DEF ExecuteAdminAction
    <3>3. proposals[id] \in Proposal
      OBVIOUS
    <3>4. proposals'[id].executed
      BY <2>0, <3>2, <3>3 DEF Proposal
    <3>5. \A i \in DOMAIN proposals : proposals[i].executed \/ proposals[i].cancelled =>
                                          proposals'[i] = proposals[i]
      BY <2>0, <3>1, <3>2 DEF IsOpen
    <3> QED
      BY <2>0, <3>1, <3>4, <3>5
  <2>4. ASSUME NEW a \in Accounts, NEW id \in 1..Len(proposals), CancelProposal(a, id)
        PROVE  Agreed
    BY <2>0, <2>4 DEF CancelProposal
  <2>5. CASE Tick /\ UNCHANGED <<signers, threshold, proposals, stopped>>
    BY <2>0, <2>5 DEF Tick
  <2> QED
    BY <2>1, <2>2, <2>3, <2>4, <2>5 DEF MultisigNext
<1> QED
  BY MultisigInductive, <1>1, PTL DEF MultisigSpec, OnlyByAgreement

(***************************************************************************)
(* The upgrade contract executes what was scheduled, and when it was       *)
(* announced.                                                              *)
(***************************************************************************)

\* The duration an upgrade is judged by when it is executed is the one it was
\* scheduled under, as long as the owner has set no other since.
AnnouncedInForce == announced \in {0, timelock}

TimelockInv == TimelockTypeOK /\ AnnouncedInForce

\* An initialized contract has the default duration and nothing scheduled.
LEMMA TimelockInitHolds ==
  ASSUME TimelockAssumption, TimelockInit
  PROVE  TimelockInv
BY PartiesAssumption
   DEF TimelockAssumption, TimelockInit, TimelockInv, TimelockTypeOK, AnnouncedInForce,
       Access!TypeOK

\* One step per operation of the contract.
LEMMA TimelockStepHolds ==
  ASSUME TimelockAssumption, TimelockInv, [TimelockNext]_timelockVars
  PROVE  TimelockInv'
<1> USE DEF TimelockInv, TimelockTypeOK, AnnouncedInForce, TimelockAssumption
<1>1. CASE UNCHANGED timelockVars
  BY <1>1 DEF timelockVars, Access!TypeOK
<1>2. ASSUME NEW u \in Users, NEW h \in Hashes, ScheduleUpgrade(u, h)
      PROVE  TimelockInv'
  BY <1>2 DEF ScheduleUpgrade, Access!TypeOK
<1>3. ASSUME NEW u \in Users, ExecuteUpgrade(u)
      PROVE  TimelockInv'
  <2>1. upgrade \in [hash : Hashes, scheduled_at : Nat, executed : BOOLEAN]
    BY <1>3 DEF ExecuteUpgrade
  <2> QED
    BY <1>3, <2>1 DEF ExecuteUpgrade, Access!TypeOK
<1>4. ASSUME NEW u \in Users, NEW d \in Durations, SetTimelockDuration(u, d)
      PROVE  TimelockInv'
  BY <1>4 DEF SetTimelockDuration, Access!TypeOK
<1>5. ASSUME NEW u \in Users, CancelUpgrade(u)
      PROVE  TimelockInv'
  BY <1>5 DEF CancelUpgrade, Access!TypeOK
<1>6. CASE Access!Manage /\ UNCHANGED <<now, timelock, upgrade, announced>>
  BY <1>6 DEF Access!Manage, Access!TypeOK, Access!SetRole, Access!TransferOwnership
<1>7. CASE Tick /\ UNCHANGED <<owner, roles, timelock, upgrade, announced>>
  BY <1>7 DEF Tick, Access!TypeOK
<1> QED
  BY <1>1, <1>2, <1>3, <1>4, <1>5, <1>6, <1>7 DEF TimelockNext

\* The invariant holds throughout.
THEOREM TimelockInductive ==
  ASSUME TimelockAssumption
  PROVE  TimelockSpec => []TimelockInv
BY TimelockInitHolds, TimelockStepHolds, PTL DEF TimelockSpec

\* A pending upgrade is never exchanged for another, and none is executed twice
\* or before the wait that was announced with it has passed, unless the owner
\* has set another duration since.
THEOREM UpgradeAsScheduledAlways ==
  ASSUME TimelockAssumption
  PROVE  TimelockSpec => UpgradeAsScheduled
<1> DEFINE Scheduled ==
      /\ upgrade # None /\ ~upgrade.executed =>
             upgrade' \in {None, upgrade, [upgrade EXCEPT !.executed = TRUE]}
      /\ upgrade' # upgrade /\ upgrade' # None /\ upgrade'.executed =>
             /\ upgrade # None /\ ~upgrade.executed
             /\ upgrade.scheduled_at + announced <= now
<1>1. ASSUME TimelockInv, [TimelockNext]_timelockVars
      PROVE  [Scheduled]_timelockVars
  <2>1. CASE upgrade' = upgrade
    BY <2>1
  <2>2. ASSUME NEW u \in Users, NEW h \in Hashes, ScheduleUpgrade(u, h)
        PROVE  Scheduled
    BY <2>2 DEF ScheduleUpgrade
  <2>3. ASSUME NEW u \in Users, ExecuteUpgrade(u)
        PROVE  Scheduled
    <3>1. upgrade \in [hash : Hashes, scheduled_at : Nat, executed : BOOLEAN]
      BY <1>1, <2>3 DEF ExecuteUpgrade, TimelockInv, TimelockTypeOK
    <3>2. upgrade.scheduled_at + announced <= now
      BY <1>1, <2>3, <3>1
         DEF ExecuteUpgrade, TimelockInv, TimelockTypeOK, AnnouncedInForce
    <3> QED
      BY <2>3, <3>2 DEF ExecuteUpgrade
  <2>4. ASSUME NEW u \in Users, CancelUpgrade(u)
        PROVE  Scheduled
    BY <2>4 DEF CancelUpgrade
  <2> QED
    BY <1>1, <2>1, <2>2, <2>3, <2>4
       DEF TimelockNext, SetTimelockDuration, timelockVars
<1> QED
  BY TimelockInductive, <1>1, PTL DEF TimelockSpec, UpgradeAsScheduled

(***************************************************************************)
(* The governance contract records the majority of the addresses.          *)
(***************************************************************************)

\* Votes are for proposals that exist, and there are finitely many of each
\* kind, whatever the number of addresses.
VotesHold ==
    /\ Len(motions) <= MaxMotions
    /\ voted \subseteq Users \X (1..Len(motions)) \X BOOLEAN
    /\ \A id \in 1..Len(motions), s \in BOOLEAN : IsFiniteSet(Voters(voted, id, s))

GovernanceInv == GovernanceTypeOK /\ VotesHold /\ OutcomeIsTheVote

\* No proposal, no vote.
LEMMA GovernanceInitHolds ==
  ASSUME GovernanceAssumption, GovernanceInit
  PROVE  GovernanceInv
BY DEF GovernanceAssumption, GovernanceInit, GovernanceInv, GovernanceTypeOK, VotesHold,
       OutcomeIsTheVote, Gov!TypeOK

\* A step that neither votes nor adds a proposal, and keeps the counts.
LEMMA CountsStay ==
  ASSUME GovernanceInv, UNCHANGED voted, Len(motions') = Len(motions),
         \A id \in 1..Len(motions) :
            /\ motions'[id].yes = motions[id].yes /\ motions'[id].no = motions[id].no
            /\ motions'[id].status # "open" =>
                  (motions'[id].status = "passed" <=> motions'[id].yes > motions'[id].no)
  PROVE  VotesHold' /\ OutcomeIsTheVote'
<1> QED
  BY DEF GovernanceInv, VotesHold, OutcomeIsTheVote

\* A proposal starts without votes.
LEMMA CreateHolds ==
  ASSUME GovernanceAssumption, GovernanceInv, CreateProposal
  PROVE  GovernanceInv'
<1> USE DEF GovernanceInv, CreateProposal
<1> DEFINE n == Len(motions)
           new == [deadline |-> now + VotingPeriod, yes |-> 0, no |-> 0, status |-> "open"]
<1>1. n \in Nat /\ new \in Motion /\ motions \in Seq(Motion)
  BY DEF GovernanceTypeOK, Motion, GovernanceAssumption
<1>2. /\ motions' \in Seq(Motion) /\ Len(motions') = n + 1 /\ motions'[n + 1] = new
      /\ \A id \in 1..n : motions'[id] = motions[id]
  BY <1>1
<1>3. \A s \in BOOLEAN : Voters(voted', n + 1, s) = {}
  BY <1>1 DEF Voters, VotesHold
<1>4. \A id \in 1..n, s \in BOOLEAN : Voters(voted', id, s) = Voters(voted, id, s)
  BY DEF Voters
<1>5. GovernanceTypeOK'
  BY <1>2 DEF GovernanceTypeOK, Gov!TypeOK
<1>6. VotesHold'
  <2>1. Len(motions') <= MaxMotions
    BY <1>1, <1>2 DEF GovernanceAssumption
  <2>2. voted' \subseteq Users \X (1..Len(motions')) \X BOOLEAN
    BY <1>1, <1>2 DEF VotesHold
  <2>3. ASSUME NEW id \in 1..Len(motions'), NEW s \in BOOLEAN
        PROVE  IsFiniteSet(Voters(voted', id, s))
    <3>1. CASE id = n + 1
      BY <1>3, <3>1, FS_EmptySet
    <3>2. CASE id \in 1..n
      BY <1>4, <3>2 DEF VotesHold
    <3> QED
      BY <1>1, <1>2, <3>1, <3>2
  <2> QED
    BY <2>1, <2>2, <2>3 DEF VotesHold
<1>7. OutcomeIsTheVote'
  <2>1. ASSUME NEW id \in 1..n
        PROVE  /\ Voters(voted', id, TRUE) \cap Voters(voted', id, FALSE) = {}
               /\ motions'[id].yes = Cardinality(Voters(voted', id, TRUE))
               /\ motions'[id].no = Cardinality(Voters(voted', id, FALSE))
               /\ motions'[id].status # "open" =>
                     (motions'[id].status = "passed" <=> motions'[id].yes > motions'[id].no)
    BY <1>2, <1>4 DEF OutcomeIsTheVote
  <2>2. /\ Voters(voted', n + 1, TRUE) \cap Voters(voted', n + 1, FALSE) = {}
        /\ motions'[n + 1].yes = Cardinality(Voters(voted', n + 1, TRUE))
        /\ motions'[n + 1].no = Cardinality(Voters(voted', n + 1, FALSE))
        /\ motions'[n + 1].status = "open"
    <3>1. Voters(voted', n + 1, TRUE) = {} /\ Voters(voted', n + 1, FALSE) = {}
      BY <1>3
    <3>2. motions'[n + 1].yes = 0 /\ motions'[n + 1].no = 0 /\ motions'[n + 1].status = "open"
      BY <1>2
    <3> QED
      BY <3>1, <3>2, FS_EmptySet
  <2>3. \A id \in 1..(n + 1) : id \in 1..n \/ id = n + 1
    BY <1>1
  <2> QED
    BY <1>2, <2>1, <2>2, <2>3 DEF OutcomeIsTheVote
<1> QED
  BY <1>5, <1>6, <1>7

\* A vote adds its address to one side, once.
LEMMA CastHolds ==
  ASSUME GovernanceAssumption, GovernanceInv, NEW voter \in Users, NEW id \in 1..Len(motions),
         NEW support \in BOOLEAN, CastVote(voter, id, support)
  PROVE  GovernanceInv'
<1> USE DEF GovernanceInv
<1>1. /\ motions \in Seq(Motion) /\ motions[id] \in Motion
      /\ motions[id].yes \in Nat /\ motions[id].no \in Nat
  <2>1. motions \in Seq(Motion) /\ motions[id] \in Motion
    BY DEF GovernanceTypeOK
  <2> QED
    BY <2>1 DEF Motion
<1> DEFINE counted == [motions[id] EXCEPT !.yes = IF support THEN @ + 1 ELSE @,
                                          !.no = IF support THEN @ ELSE @ + 1]
<1>2. counted \in Motion
  <2>1. PICK y \in Nat, n \in Nat :
          /\ y = (IF support THEN motions[id].yes + 1 ELSE motions[id].yes)
          /\ n = (IF support THEN motions[id].no ELSE motions[id].no + 1)
    BY <1>1
  <2>2. counted = [motions[id] EXCEPT !.yes = y, !.no = n]
    BY <1>1, <2>1 DEF Motion
  <2> QED
    BY <1>1, <2>2 DEF Motion
<1>3. motions' = [motions EXCEPT ![id] = counted]
  BY <1>1 DEF Motion, CastVote
<1>4. /\ counted.yes = IF support THEN motions[id].yes + 1 ELSE motions[id].yes
      /\ counted.no = IF support THEN motions[id].no ELSE motions[id].no + 1
      /\ counted.status = "open"
  BY <1>1 DEF Motion, CastVote
<1> HIDE DEF counted
<1>5. /\ motions' \in Seq(Motion) /\ Len(motions') = Len(motions) /\ motions'[id] = counted
      /\ \A j \in 1..Len(motions) : j # id => motions'[j] = motions[j]
  BY <1>1, <1>2, <1>3
<1>6. /\ Voters(voted', id, support) = Voters(voted, id, support) \cup {voter}
      /\ Voters(voted', id, ~support) = Voters(voted, id, ~support)
      /\ voter \notin Voters(voted, id, support) /\ voter \notin Voters(voted, id, ~support)
      /\ \A j \in 1..Len(motions), s \in BOOLEAN :
            j # id => Voters(voted', j, s) = Voters(voted, j, s)
  BY DEF Voters, CastVote
<1>7. /\ IsFiniteSet(Voters(voted, id, support)) /\ IsFiniteSet(Voters(voted, id, ~support))
      /\ IsFiniteSet(Voters(voted, id, support) \cup {voter})
      /\ Cardinality(Voters(voted, id, support) \cup {voter}) = Cardinality(Voters(voted, id, support)) + 1
  <2>1. IsFiniteSet(Voters(voted, id, support)) /\ IsFiniteSet(Voters(voted, id, ~support))
    BY DEF VotesHold
  <2> QED
    BY <1>6, <2>1, FS_AddElement
<1>8. GovernanceTypeOK'
  <2>1. id \in 1..MaxMotions
    <3>1. Len(motions) \in Nat /\ Len(motions) <= MaxMotions /\ MaxMotions \in Nat
      BY DEF VotesHold, GovernanceTypeOK, GovernanceAssumption
    <3> QED
      BY <3>1
  <2> QED
    BY <1>5, <2>1 DEF GovernanceTypeOK, Gov!TypeOK, CastVote
<1>9. VotesHold'
  <2>1. voted' \subseteq Users \X (1..Len(motions')) \X BOOLEAN
    BY <1>5 DEF VotesHold, CastVote
  <2>2. ASSUME NEW j \in 1..Len(motions), NEW s \in BOOLEAN
        PROVE  IsFiniteSet(Voters(voted', j, s))
    BY <1>6, <1>7 DEF VotesHold
  <2> QED
    BY <1>5, <2>1, <2>2 DEF VotesHold
<1>10. OutcomeIsTheVote'
  <2>1. ASSUME NEW j \in 1..Len(motions), j # id
        PROVE  /\ Voters(voted', j, TRUE) \cap Voters(voted', j, FALSE) = {}
               /\ motions'[j].yes = Cardinality(Voters(voted', j, TRUE))
               /\ motions'[j].no = Cardinality(Voters(voted', j, FALSE))
               /\ motions'[j].status # "open" =>
                     (motions'[j].status = "passed" <=> motions'[j].yes > motions'[j].no)
    BY <1>5, <1>6, <2>1 DEF OutcomeIsTheVote
  <2>2. /\ Voters(voted', id, TRUE) \cap Voters(voted', id, FALSE) = {}
        /\ motions'[id].yes = Cardinality(Voters(voted', id, TRUE))
        /\ motions'[id].no = Cardinality(Voters(voted', id, FALSE))
    <3>1. /\ Voters(voted, id, TRUE) \cap Voters(voted, id, FALSE) = {}
          /\ motions[id].yes = Cardinality(Voters(voted, id, TRUE))
          /\ motions[id].no = Cardinality(Voters(voted, id, FALSE))
      BY DEF OutcomeIsTheVote
    <3>2. CASE support
      BY <1>4, <1>5, <1>6, <1>7, <3>1, <3>2
    <3>3. CASE ~support
      BY <1>4, <1>5, <1>6, <1>7, <3>1, <3>3
    <3> QED
      BY <3>2, <3>3
  <2> QED
    BY <1>4, <1>5, <2>1, <2>2 DEF OutcomeIsTheVote
<1> QED
  BY <1>8, <1>9, <1>10

\* One step per operation.
LEMMA GovernanceStepHolds ==
  ASSUME GovernanceAssumption, GovernanceInv, [GovernanceNext]_governanceVars
  PROVE  GovernanceInv'
<1> USE DEF GovernanceInv
<1>1. CASE UNCHANGED <<motions, voted>>
  <2>1. VotesHold' /\ OutcomeIsTheVote'
    BY <1>1 DEF VotesHold, OutcomeIsTheVote
  <2>2. now \in Nat /\ Gov!TypeOK
    BY DEF GovernanceTypeOK
  <2>3. ASSUME UNCHANGED <<now, gov_owner, gov_roles>>
        PROVE  now' \in Nat /\ Gov!TypeOK'
    BY <2>2, <2>3 DEF Gov!TypeOK
  <2>4. ASSUME Gov!Manage /\ UNCHANGED now
        PROVE  now' \in Nat /\ Gov!TypeOK'
    BY <2>2, <2>4 DEF Gov!TypeOK, Gov!Manage, Gov!SetRole, Gov!TransferOwnership
  <2>5. ASSUME Tick /\ UNCHANGED <<gov_owner, gov_roles>>
        PROVE  now' \in Nat /\ Gov!TypeOK'
    BY <2>2, <2>5 DEF Tick, Gov!TypeOK
  <2>6. now' \in Nat /\ Gov!TypeOK'
    BY <2>2, <2>3, <2>4, <2>5
       DEF GovernanceNext, governanceVars, CreateProposal, CastVote, ExecuteProposal
  <2> QED
    BY <1>1, <2>1, <2>6 DEF GovernanceTypeOK
<1>2. ASSUME NEW u \in Users, NEW id \in 1..Len(motions), ExecuteProposal(u, id)
      PROVE  GovernanceInv'
  <2>1. /\ motions \in Seq(Motion) /\ motions[id] \in Motion
    BY DEF GovernanceTypeOK
  <2> DEFINE outcome == IF motions[id].yes > motions[id].no THEN "passed" ELSE "rejected"
             decided == [motions[id] EXCEPT !.status = outcome]
  <2>2. decided \in Motion /\ decided.yes = motions[id].yes /\ decided.no = motions[id].no
        /\ decided.status = outcome
    BY <2>1 DEF Motion
  <2>3. motions' = [motions EXCEPT ![id] = decided]
    BY <1>2 DEF ExecuteProposal
  <2> HIDE DEF decided
  <2>4. /\ motions' \in Seq(Motion) /\ Len(motions') = Len(motions) /\ motions'[id] = decided
        /\ \A j \in 1..Len(motions) : j # id => motions'[j] = motions[j]
    BY <2>1, <2>2, <2>3
  <2>5. VotesHold' /\ OutcomeIsTheVote'
    <3>1. UNCHANGED voted
      BY <1>2 DEF ExecuteProposal
    <3>2. ASSUME NEW j \in 1..Len(motions)
          PROVE  /\ motions'[j].yes = motions[j].yes /\ motions'[j].no = motions[j].no
                 /\ motions'[j].status # "open" =>
                      (motions'[j].status = "passed" <=> motions'[j].yes > motions'[j].no)
      BY <2>2, <2>4 DEF OutcomeIsTheVote
    <3> QED
      BY <2>4, <3>1, <3>2, CountsStay
  <2> QED
    BY <1>2, <2>4, <2>5 DEF ExecuteProposal, GovernanceTypeOK, Gov!TypeOK
<1> QED
  BY <1>1, <1>2, CreateHolds, CastHolds DEF GovernanceNext, governanceVars

\* The invariant holds throughout.
THEOREM GovernanceInductive ==
  ASSUME GovernanceAssumption
  PROVE  GovernanceSpec => []GovernanceInv
BY GovernanceInitHolds, GovernanceStepHolds, PTL DEF GovernanceSpec

\* Each address counts once, on one side, and the recorded outcome is what
\* they said.
THEOREM OutcomeIsTheVoteAlways ==
  ASSUME GovernanceAssumption
  PROVE  GovernanceSpec => []OutcomeIsTheVote
BY GovernanceInductive, PTL DEF GovernanceInv

(***************************************************************************)
(* The proxy runs what its signers agreed on.                              *)
(***************************************************************************)

Executed == {id \in 1..Len(upgrades) : upgrades[id].executed}

ProxyInv == ProxyTypeOK /\ VersionsAreProposals

\* The first implementation is given, not agreed on.
LEMMA ProxyInitHolds ==
  ASSUME ProxyAssumption, ProxyInit
  PROVE  ProxyInv
<1> USE PartiesAssumption DEF ProxyInit
<1>1. ProxyTypeOK
  BY DEF ProxyTypeOK, Config, Held!TypeOK
<1>2. {id \in 1..Len(upgrades) : upgrades[id].executed} = {}
  OBVIOUS
<1>3. VersionsAreProposals
  BY <1>2, FS_EmptySet DEF VersionsAreProposals
<1> QED
  BY <1>1, <1>3 DEF ProxyInv

\* What is agreed on is read from the proposals' executed flags and from the
\* versions and the owner: a step that keeps them keeps it.
LEMMA AgreementStays ==
  ASSUME ProxyInv,
         /\ Len(upgrades') \in Nat
         /\ {id \in 1..Len(upgrades') : upgrades'[id].executed} = Executed
         /\ \A id \in Executed : upgrades'[id].implementation = upgrades[id].implementation
         /\ config'.version = config.version
         /\ config'.implementation = config.implementation
         /\ config'.storage_version = config.storage_version
         /\ config'.admin = proxy_owner'
         /\ DOMAIN migrations' = DOMAIN migrations
  PROVE  VersionsAreProposals'
<1>1. /\ config.version = 1 + Cardinality(Executed)
      /\ config.version > 1 => \E id \in Executed :
                                   config.implementation = upgrades[id].implementation
      /\ config.storage_version # 1 =>
            \E m \in DOMAIN migrations : m[2] = config.storage_version
  BY DEF ProxyInv, VersionsAreProposals, Executed
<1>2. config'.version > 1 => \E id \in Executed :
                                 config'.implementation = upgrades'[id].implementation
  BY <1>1
<1> QED
  BY <1>1, <1>2 DEF VersionsAreProposals

\* A proposal is not executed when it is made.
LEMMA ProposeUpgradeHolds ==
  ASSUME ProxyAssumption, ProxyInv, NEW u \in Users, NEW i \in Implementations,
         NEW v \in Versions \cup {None}, ProposeUpgrade(u, i, v)
  PROVE  ProxyInv'
<1> DEFINE n == Len(upgrades)
           new == [implementation |-> i, storage_version |-> v, approvals |-> {u},
                   executed |-> FALSE]
<1>1. upgrades \in Seq(UpgradeProposal) /\ n \in Nat /\ new \in UpgradeProposal
  BY DEF ProxyInv, ProxyTypeOK, UpgradeProposal
<1>2. upgrades' = Append(upgrades, new)
  BY DEF ProposeUpgrade
<1>3. /\ upgrades' \in Seq(UpgradeProposal) /\ Len(upgrades') = n + 1
      /\ ~upgrades'[n + 1].executed
      /\ \A id \in 1..n : upgrades'[id] = upgrades[id]
  BY <1>1, <1>2
<1> HIDE DEF n, new
<1>4. UNCHANGED <<proxy_owner, proxy_roles, config, council, migrations>>
  BY DEF ProposeUpgrade
<1>5. VersionsAreProposals'
  <2>1. {id \in 1..Len(upgrades') : upgrades'[id].executed} = Executed
    <3>1. \A id \in 1..(n + 1) : id \in 1..n \/ id = n + 1
      BY <1>1
    <3> QED
      BY <1>1, <1>3, <3>1 DEF Executed, n
  <2>2. \A id \in Executed : upgrades'[id].implementation = upgrades[id].implementation
    BY <1>3 DEF Executed, n
  <2>3. config.admin = proxy_owner
    BY DEF ProxyInv, VersionsAreProposals
  <2> QED
    BY <1>1, <1>3, <1>4, <2>1, <2>2, <2>3, AgreementStays
<1> QED
  BY <1>3, <1>4, <1>5 DEF ProxyInv, ProxyTypeOK, Held!TypeOK

\* An approval changes a proposal in nothing else.
LEMMA ApproveUpgradeHolds ==
  ASSUME ProxyInv, NEW u \in Users, NEW id \in 1..Len(upgrades), ApproveUpgrade(u, id)
  PROVE  ProxyInv'
<1> DEFINE plan == [upgrades[id] EXCEPT !.approvals = @ \cup {u}]
<1>1. upgrades \in Seq(UpgradeProposal) /\ upgrades[id] \in UpgradeProposal
  BY DEF ProxyInv, ProxyTypeOK
<1>2. /\ plan \in UpgradeProposal /\ plan.executed = upgrades[id].executed
      /\ plan.implementation = upgrades[id].implementation
  BY <1>1 DEF UpgradeProposal
<1>3. upgrades' = [upgrades EXCEPT ![id] = plan]
  BY DEF ApproveUpgrade
<1> HIDE DEF plan
<1>4. /\ upgrades' \in Seq(UpgradeProposal) /\ Len(upgrades') = Len(upgrades)
      /\ upgrades'[id] = plan
      /\ \A j \in 1..Len(upgrades) : j # id => upgrades'[j] = upgrades[j]
  BY <1>1, <1>2, <1>3
<1>5. UNCHANGED <<proxy_owner, proxy_roles, config, council, migrations>>
  BY DEF ApproveUpgrade
<1>6. /\ {j \in 1..Len(upgrades') : upgrades'[j].executed} = Executed
      /\ \A j \in Executed : upgrades'[j].implementation = upgrades[j].implementation
      /\ Len(upgrades') \in Nat
  BY <1>1, <1>2, <1>4 DEF Executed
<1>7. config.admin = proxy_owner
  BY DEF ProxyInv, VersionsAreProposals
<1>8. VersionsAreProposals'
  BY <1>5, <1>6, <1>7, AgreementStays
<1> QED
  BY <1>4, <1>5, <1>8 DEF ProxyInv, ProxyTypeOK, Held!TypeOK

\* An upgrade executes one more proposal, and raises the version by one.
LEMMA UpgradeToHolds ==
  ASSUME ProxyAssumption, ProxyInv, NEW u \in Users, NEW id \in 1..Len(upgrades),
         UpgradeTo(u, id)
  PROVE  ProxyInv'
<1> DEFINE plan == upgrades[id]
           done == [plan EXCEPT !.executed = TRUE]
           version == plan.storage_version
<1>1. /\ upgrades \in Seq(UpgradeProposal) /\ plan \in UpgradeProposal
      /\ config \in Config /\ ~plan.executed /\ Versions \subseteq Nat /\ None \notin Versions
  BY DEF ProxyInv, ProxyTypeOK, UpgradeTo, ProxyAssumption
<1>2. /\ done \in UpgradeProposal /\ done.executed = TRUE
      /\ done.implementation = plan.implementation
      /\ plan.implementation \in Implementations /\ version \in Versions \cup {None}
  BY <1>1 DEF UpgradeProposal
<1>3. upgrades' = [upgrades EXCEPT ![id] = done]
  BY DEF UpgradeTo
<1>4. UNCHANGED <<proxy_owner, proxy_roles, council>>
  BY DEF UpgradeTo
<1>5. /\ config' \in Config
      /\ config'.version = config.version + 1
      /\ config'.implementation = plan.implementation
      /\ config'.admin = config.admin
      /\ config'.storage_version = IF version = None THEN config.storage_version ELSE version
  <2>1. PICK s \in Nat : s = IF version = None THEN config.storage_version ELSE version
    BY <1>1, <1>2 DEF Config
  <2>2. PICK n \in Nat : n = config.version + 1
    BY <1>1 DEF Config
  <2>3. config' = [config EXCEPT !.implementation = plan.implementation, !.version = n,
                                 !.storage_version = s, !.state = "Active"]
    BY <1>1, <2>1, <2>2 DEF UpgradeTo, Config
  <2>4. config' \in Config
    BY <1>1, <1>2, <2>3 DEF Config
  <2> QED
    BY <1>1, <2>1, <2>2, <2>3, <2>4 DEF Config
<1>6. /\ DOMAIN migrations' \subseteq Nat \X Nat
      /\ \A m \in DOMAIN migrations' : migrations'[m] \in BOOLEAN
      /\ DOMAIN migrations \subseteq DOMAIN migrations'
      /\ version # None => <<config.storage_version, version>> \in DOMAIN migrations'
  <2>0. /\ DOMAIN migrations \subseteq Nat \X Nat
        /\ \A m \in DOMAIN migrations : migrations[m] \in BOOLEAN
    BY DEF ProxyInv, ProxyTypeOK
  <2>1. CASE version = None
    BY <2>0, <2>1 DEF UpgradeTo
  <2>2. CASE version # None
    <3> DEFINE move == <<config.storage_version, version>>
    <3>1. move \in Nat \X Nat
      BY <1>1, <1>2, <2>2 DEF Config
    <3>2. migrations' = Reopened(move)
      BY <2>2 DEF UpgradeTo
    <3> HIDE DEF move
    <3>3. migrations' = [x \in DOMAIN migrations \cup {move} |->
                            IF x = move THEN FALSE ELSE migrations[x]]
      BY <3>2 DEF Reopened
    <3>4. DOMAIN migrations' = {move} \cup DOMAIN migrations
      BY <3>3
    <3>5. \A m \in DOMAIN migrations' : migrations'[m] \in BOOLEAN
      BY <2>0, <3>3
    <3> QED
      BY <2>0, <3>1, <3>4, <3>5 DEF move
  <2> QED
    BY <2>1, <2>2
<1> HIDE DEF plan, done, version
<1>7. /\ upgrades' \in Seq(UpgradeProposal) /\ Len(upgrades') = Len(upgrades)
      /\ upgrades'[id] = done
      /\ \A j \in 1..Len(upgrades) : j # id => upgrades'[j] = upgrades[j]
  BY <1>1, <1>2, <1>3
<1>8. /\ {j \in 1..Len(upgrades') : upgrades'[j].executed} = Executed \cup {id}
      /\ id \notin Executed
  BY <1>1, <1>2, <1>7 DEF Executed, plan
<1>9. /\ Cardinality(Executed \cup {id}) = Cardinality(Executed) + 1
      /\ Cardinality(Executed) \in Nat
  <2>1. IsFiniteSet(1..Len(upgrades)) /\ Executed \subseteq 1..Len(upgrades)
    BY <1>1, FS_Interval DEF Executed
  <2> QED
    BY <1>8, <2>1, FS_Subset, FS_AddElement, FS_CardinalityType
<1>10. VersionsAreProposals'
  <2>1. /\ config.version = 1 + Cardinality(Executed)
        /\ config.storage_version # 1 =>
              \E m \in DOMAIN migrations : m[2] = config.storage_version
        /\ config.admin = proxy_owner
    BY DEF ProxyInv, VersionsAreProposals, Executed
  <2>2. config'.version = 1 + Cardinality(Executed \cup {id})
    BY <1>5, <1>9, <2>1
  <2>3. id \in Executed \cup {id} /\ config'.implementation = upgrades'[id].implementation
    BY <1>2, <1>5, <1>7
  <2>4. config'.storage_version # 1 =>
            \E m \in DOMAIN migrations' : m[2] = config'.storage_version
    <3>1. CASE version = None
      BY <1>5, <1>6, <2>1, <3>1
    <3>2. CASE version # None
      BY <1>5, <1>6, <3>2
    <3> QED
      BY <3>1, <3>2
  <2> QED
    BY <1>4, <1>5, <1>8, <2>1, <2>2, <2>3, <2>4 DEF VersionsAreProposals
<1> QED
  BY <1>4, <1>5, <1>6, <1>7, <1>10 DEF ProxyInv, ProxyTypeOK, Held!TypeOK

\* One step per operation.
LEMMA ProxyStepHolds ==
  ASSUME ProxyAssumption, ProxyInv, [ProxyNext]_proxyVars
  PROVE  ProxyInv'
<1>0. /\ ProxyTypeOK /\ Len(upgrades) \in Nat /\ config \in Config
      /\ config.admin = proxy_owner
  BY DEF ProxyInv, ProxyTypeOK, VersionsAreProposals
<1>1. CASE UNCHANGED proxyVars
  BY <1>0, <1>1, AgreementStays DEF ProxyInv, proxyVars, ProxyTypeOK, Held!TypeOK, Executed
<1>2. ASSUME NEW u \in Users, NEW s \in {"Active", "Paused"}, SetState(u, s)
      PROVE  ProxyInv'
  <2>1. /\ config' \in Config /\ config'.version = config.version
        /\ config'.implementation = config.implementation
        /\ config'.storage_version = config.storage_version /\ config'.admin = config.admin
    BY <1>0, <1>2 DEF SetState, Config
  <2>2. VersionsAreProposals'
    BY <1>0, <1>2, <2>1, AgreementStays DEF SetState, Executed
  <2> QED
    BY <1>0, <1>2, <2>1, <2>2 DEF SetState, ProxyInv, ProxyTypeOK, Held!TypeOK
<1>3. ASSUME NEW u \in Users, NEW m \in DOMAIN migrations, MigrateStorage(u, m)
      PROVE  ProxyInv'
  <2>1. /\ DOMAIN migrations' = DOMAIN migrations
        /\ \A x \in DOMAIN migrations : migrations'[x] \in {TRUE, migrations[x]}
    BY <1>3 DEF MigrateStorage
  <2>2. VersionsAreProposals'
    BY <1>0, <1>3, <2>1, AgreementStays DEF MigrateStorage, Executed
  <2> QED
    BY <1>0, <1>3, <2>1, <2>2 DEF MigrateStorage, ProxyInv, ProxyTypeOK, Held!TypeOK
<1>4. ASSUME NEW u \in Users, NEW c \in Councils, UpdateMultisig(u, c)
      PROVE  ProxyInv'
  <2>1. VersionsAreProposals'
    BY <1>0, <1>4, AgreementStays DEF UpdateMultisig, Executed
  <2> QED
    BY <1>0, <1>4, <2>1 DEF UpdateMultisig, ProxyInv, ProxyTypeOK, Held!TypeOK
<1>5. ASSUME NEW u \in Users, NEW t \in Users, NEW r \in Held!Roles, NEW e \in BOOLEAN,
             SetRole(u, t, r, e)
      PROVE  ProxyInv'
  <2>1. VersionsAreProposals'
    BY <1>0, <1>5, AgreementStays DEF SetRole, Held!SetRole, Executed
  <2> QED
    BY <1>0, <1>5, <2>1 DEF SetRole, Held!SetRole, ProxyInv, ProxyTypeOK, Held!TypeOK
<1>6. ASSUME NEW u \in Users, NEW t \in Users, TransferOwnership(u, t)
      PROVE  ProxyInv'
  <2>1. /\ config' \in Config /\ config'.version = config.version
        /\ config'.implementation = config.implementation
        /\ config'.storage_version = config.storage_version /\ config'.admin = proxy_owner'
    BY <1>0, <1>6 DEF TransferOwnership, Held!TransferOwnership, Config
  <2>2. VersionsAreProposals'
    BY <1>0, <1>6, <2>1, AgreementStays
       DEF TransferOwnership, Held!TransferOwnership, Executed
  <2> QED
    BY <1>0, <1>6, <2>1, <2>2
       DEF TransferOwnership, Held!TransferOwnership, ProxyInv, ProxyTypeOK, Held!TypeOK
<1> QED
  BY <1>1, <1>2, <1>3, <1>4, <1>5, <1>6, ProposeUpgradeHolds, ApproveUpgradeHolds,
     UpgradeToHolds DEF ProxyNext

\* The invariant holds throughout.
THEOREM ProxyInductive ==
  ASSUME ProxyAssumption
  PROVE  ProxySpec => []ProxyInv
BY ProxyInitHolds, ProxyStepHolds, PTL DEF ProxySpec

\* What a step may do to the proposals and to what runs.
AgreedStep == (WhatRuns' # WhatRuns => ExecutesAgreed) /\ ApprovedBySigners

\* A step that leaves the proposals and what runs alone is within that.
LEMMA NothingAgreed ==
  ASSUME ProxyTypeOK, UNCHANGED upgrades, config'.implementation = config.implementation,
         config'.version = config.version, config'.storage_version = config.storage_version
  PROVE  AgreedStep
<1>1. upgrades' = upgrades
  OBVIOUS
<1>2. ApprovedBySigners
  BY <1>1 DEF ApprovedBySigners
<1> QED
  BY <1>2 DEF AgreedStep, WhatRuns

\* A proposal is made by a signer, and has that approval only.
LEMMA ProposedBySigner ==
  ASSUME ProxyAssumption, ProxyTypeOK, NEW u \in Users, NEW i \in Implementations,
         NEW v \in Versions \cup {None}, ProposeUpgrade(u, i, v)
  PROVE  AgreedStep
<1> DEFINE n == Len(upgrades)
           new == [implementation |-> i, storage_version |-> v, approvals |-> {u},
                   executed |-> FALSE]
<1>1. upgrades \in Seq(UpgradeProposal) /\ n \in Nat /\ new \in UpgradeProposal
      /\ new.approvals = {u}
  BY DEF ProxyTypeOK, UpgradeProposal
<1>2. upgrades' = Append(upgrades, new) /\ IsCouncilSigner(u) /\ UNCHANGED config
  BY DEF ProposeUpgrade
<1>3. /\ DOMAIN upgrades = 1..n /\ DOMAIN upgrades' = 1..(n + 1)
      /\ upgrades'[n + 1] = new
      /\ \A id \in 1..n : upgrades'[id] = upgrades[id]
  BY <1>1, <1>2
<1>4. \A id \in 1..(n + 1) : id \in 1..n \/ id = n + 1
  BY <1>1
<1> HIDE DEF n, new
<1>5. \A id \in 1..n : id \in 1..(n + 1)
  BY <1>1
<1>6. \A id \in 1..(n + 1) : \A a \in upgrades'[id].approvals :
          IsCouncilSigner(a) \/ (id \in 1..n /\ a \in upgrades[id].approvals)
  BY <1>1, <1>2, <1>3, <1>4
<1>7. ApprovedBySigners
  BY <1>3, <1>5, <1>6 DEF ApprovedBySigners
<1> QED
  BY <1>2, <1>7 DEF AgreedStep, WhatRuns

\* An approval is added to a proposal that is not executed, by a signer.
LEMMA ApprovalBySigner ==
  ASSUME ProxyTypeOK, NEW u \in Users, NEW id \in 1..Len(upgrades), ApproveUpgrade(u, id)
  PROVE  AgreedStep
<1> DEFINE plan == [upgrades[id] EXCEPT !.approvals = @ \cup {u}]
<1>1. /\ upgrades \in Seq(UpgradeProposal) /\ upgrades[id] \in UpgradeProposal
      /\ DOMAIN upgrades = 1..Len(upgrades)
  BY DEF ProxyTypeOK
<1>2. /\ plan \in UpgradeProposal /\ plan.approvals = upgrades[id].approvals \cup {u}
      /\ plan.implementation = upgrades[id].implementation
      /\ plan.storage_version = upgrades[id].storage_version
  BY <1>1 DEF UpgradeProposal
<1>3. /\ upgrades' = [upgrades EXCEPT ![id] = plan] /\ IsCouncilSigner(u)
      /\ UNCHANGED config /\ ~upgrades[id].executed
  BY DEF ApproveUpgrade
<1> HIDE DEF plan
<1>4. /\ DOMAIN upgrades' = DOMAIN upgrades /\ upgrades'[id] = plan
      /\ \A j \in DOMAIN upgrades : j # id => upgrades'[j] = upgrades[j]
  BY <1>1, <1>2, <1>3
<1>5. \A j \in DOMAIN upgrades : \A a \in upgrades'[j].approvals :
          IsCouncilSigner(a) \/ a \in upgrades[j].approvals
  BY <1>1, <1>2, <1>3, <1>4
<1>6. \A j \in DOMAIN upgrades :
          /\ upgrades[j].executed => upgrades'[j] = upgrades[j]
          /\ upgrades'[j].implementation = upgrades[j].implementation
          /\ upgrades'[j].storage_version = upgrades[j].storage_version
          /\ upgrades[j].approvals \subseteq upgrades'[j].approvals
  BY <1>1, <1>2, <1>3, <1>4
<1>7. ApprovedBySigners
  BY <1>4, <1>5, <1>6 DEF ApprovedBySigners
<1> QED
  BY <1>3, <1>7 DEF AgreedStep, WhatRuns

\* An upgrade runs what the proposal it executes names.
LEMMA UpgradeIsAgreed ==
  ASSUME ProxyTypeOK, NEW u \in Users, NEW id \in 1..Len(upgrades), UpgradeTo(u, id)
  PROVE  AgreedStep
<1> DEFINE plan == upgrades[id]
           done == [plan EXCEPT !.executed = TRUE]
<1>1. /\ upgrades \in Seq(UpgradeProposal) /\ plan \in UpgradeProposal /\ config \in Config
      /\ DOMAIN upgrades = 1..Len(upgrades)
  BY DEF ProxyTypeOK
<1>2. /\ done \in UpgradeProposal /\ done.executed = TRUE
      /\ done.implementation = plan.implementation
      /\ done.storage_version = plan.storage_version /\ done.approvals = plan.approvals
  BY <1>1 DEF UpgradeProposal
<1>3. /\ upgrades' = [upgrades EXCEPT ![id] = done] /\ ~plan.executed
      /\ Cardinality(plan.approvals) >= council.threshold
  BY DEF UpgradeTo
<1>4. /\ config'.implementation = plan.implementation
      /\ config'.storage_version \in {config.storage_version, plan.storage_version}
  <2>1. PICK s : s = IF plan.storage_version = None THEN config.storage_version
                                                    ELSE plan.storage_version
    OBVIOUS
  <2>2. PICK n : n = config.version + 1
    OBVIOUS
  <2>3. config' = [config EXCEPT !.implementation = plan.implementation, !.version = n,
                                 !.storage_version = s, !.state = "Active"]
    BY <2>1, <2>2 DEF UpgradeTo
  <2> QED
    BY <1>1, <2>1, <2>3 DEF Config
<1> HIDE DEF plan, done
<1>5. /\ DOMAIN upgrades' = DOMAIN upgrades /\ upgrades'[id] = done
      /\ \A j \in DOMAIN upgrades : j # id => upgrades'[j] = upgrades[j]
  BY <1>1, <1>2, <1>3
<1>6. ApprovedBySigners
  BY <1>1, <1>2, <1>3, <1>5 DEF ApprovedBySigners, plan
<1>7. ExecutesAgreed
  BY <1>1, <1>2, <1>3, <1>4, <1>5 DEF ExecutesAgreed, plan
<1> QED
  BY <1>6, <1>7 DEF AgreedStep

\* The other operations leave the proposals and what runs alone.
LEMMA StepsAreAgreed ==
  ASSUME ProxyAssumption, ProxyTypeOK, [ProxyNext]_proxyVars
  PROVE  AgreedStep
<1>0. config \in Config
  BY DEF ProxyTypeOK
<1>1. CASE UNCHANGED proxyVars
  BY <1>1, NothingAgreed DEF proxyVars
<1>2. ASSUME NEW u \in Users, NEW s \in {"Active", "Paused"}, SetState(u, s)
      PROVE  AgreedStep
  BY <1>0, <1>2, NothingAgreed DEF SetState, Config
<1>3. ASSUME NEW u \in Users, NEW m \in DOMAIN migrations, MigrateStorage(u, m)
      PROVE  AgreedStep
  BY <1>3, NothingAgreed DEF MigrateStorage
<1>4. ASSUME NEW u \in Users, NEW c \in Councils, UpdateMultisig(u, c)
      PROVE  AgreedStep
  BY <1>4, NothingAgreed DEF UpdateMultisig
<1>5. ASSUME NEW u \in Users, NEW t \in Users, NEW r \in Held!Roles, NEW e \in BOOLEAN,
             SetRole(u, t, r, e)
      PROVE  AgreedStep
  BY <1>5, NothingAgreed DEF SetRole
<1>6. ASSUME NEW u \in Users, NEW t \in Users, TransferOwnership(u, t)
      PROVE  AgreedStep
  BY <1>0, <1>6, NothingAgreed DEF TransferOwnership, Config
<1> QED
  BY <1>1, <1>2, <1>3, <1>4, <1>5, <1>6, ProposedBySigner, ApprovalBySigner,
     UpgradeIsAgreed DEF ProxyNext

\* Whoever becomes owner or signer on the way, the proxy changes what it runs
\* only by executing a proposal, once, that as many addresses approved as the
\* council asks for, each of them a signer as it approved.
THEOREM RunsWhatWasAgreedAlways ==
  ASSUME ProxyAssumption
  PROVE  ProxySpec => RunsWhatWasAgreed
<1> DEFINE Executes == WhatRuns' # WhatRuns => ExecutesAgreed
<1>1. ProxyInv => VersionsAreProposals
  BY DEF ProxyInv
<1>2. ASSUME ProxyInv, [ProxyNext]_proxyVars
      PROVE  [Executes]_proxyVars /\ [ApprovedBySigners]_proxyVars
  BY <1>2, StepsAreAgreed DEF ProxyInv, AgreedStep
<1> QED
  BY ProxyInductive, <1>1, <1>2, PTL DEF ProxySpec, RunsWhatWasAgreed

(***************************************************************************)
(* The composition: a behaviour is one of each contract, whichever of them *)
(* it is about, since all of them let the ledger's time pass.              *)
(***************************************************************************)

\* Only the ledger moves its clock.
LEMMA ClockTicks ==
  ASSUME [Next]_vars
  PROVE  UNCHANGED now \/ Tick
<1>1. ASSUME MultisigNext PROVE UNCHANGED now \/ Tick
  BY <1>1 DEF MultisigNext, ProposeAdminAction, ApproveAdminAction, ExecuteAdminAction,
              CancelProposal
<1>2. ASSUME TimelockNext PROVE UNCHANGED now \/ Tick
  BY <1>2 DEF TimelockNext, ScheduleUpgrade, ExecuteUpgrade, SetTimelockDuration,
              CancelUpgrade
<1>3. ASSUME GovernanceNext PROVE UNCHANGED now \/ Tick
  BY <1>3 DEF GovernanceNext, CreateProposal, CastVote, ExecuteProposal
<1> QED
  BY <1>1, <1>2, <1>3 DEF Next, vars

\* What one contract does is, for another, nothing or the passing of time.
LEMMA EachContractSteps ==
  ASSUME [Next]_vars
  PROVE  /\ [MultisigNext]_multisigVars /\ [TimelockNext]_timelockVars
         /\ [GovernanceNext]_governanceVars /\ [ProxyNext]_proxyVars
<1>1. UNCHANGED adminOnly => [MultisigNext]_multisigVars
  BY ClockTicks DEF adminOnly, multisigVars, MultisigNext
<1>2. UNCHANGED timelockOnly => [TimelockNext]_timelockVars
  BY ClockTicks DEF timelockOnly, timelockVars, TimelockNext
<1>3. UNCHANGED votesOnly => [GovernanceNext]_governanceVars
  BY ClockTicks DEF votesOnly, governanceVars, GovernanceNext
<1>4. UNCHANGED proxyOnly => [ProxyNext]_proxyVars
  BY DEF proxyOnly, proxyVars
<1> QED
  BY <1>1, <1>2, <1>3, <1>4 DEF Next, vars

\* So what is proved of a contract holds in the composition.
THEOREM EachContractHolds ==
  Spec => MultisigSpec /\ TimelockSpec /\ GovernanceSpec /\ ProxySpec
BY EachContractSteps, PTL
   DEF Spec, Init, MultisigSpec, TimelockSpec, GovernanceSpec, ProxySpec

\* The state of the four contracts keeps its shape.
THEOREM TypesCorrect == Spec => []TypesOK
<1>1. MultisigAssumption /\ TimelockAssumption /\ GovernanceAssumption /\ ProxyAssumption
  BY ContractsAssumption DEF ContractsAssumption
<1>2. MultisigInv /\ TimelockInv /\ GovernanceInv /\ ProxyInv => TypesOK
  BY DEF MultisigInv, TimelockInv, GovernanceInv, ProxyInv, TypesOK
<1> QED
  BY <1>1, <1>2, EachContractHolds, MultisigInductive, TimelockInductive,
     GovernanceInductive, ProxyInductive, PTL
=============================================================================
