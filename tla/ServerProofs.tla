----------------------------- MODULE ServerProofs -----------------------------
(***************************************************************************)
(* Theorems of the parts of the backend, for any number of callers, keys,  *)
(* processes, seats, groups, members, refunds, jobs and servers, and of a  *)
(* server that consists of them.                                           *)
(***************************************************************************)
EXTENDS Server, FiniteSetTheorems, SequenceTheorems, TLAPS

(***************************************************************************)
(* The idempotency store: what executeOnce promises each caller.           *)
(***************************************************************************)

\* d's execution is one c may be given: it is of c's operation.
SameOperation(c, d) == KeyOf[d] = KeyOf[c] /\ PayloadOf[d] = PayloadOf[c]

\* What a stored or answered record says of a key: its resource was made by an
\* execution that succeeded, of the operation the record was made for.
RecordOf(k, r) ==
    r.resourceId # None =>
        /\ at[r.resourceId] = "executed"
        /\ KeyOf[r.resourceId] = k
        /\ PayloadOf[r.resourceId] = r.requestHash

RecordsHold == \A k \in Keys : record[k] # None => RecordOf(k, record[k])

\* The payload of a record never changes, so an answer tells it for good.
CopiesHold ==
    \A c \in Callers : copy[c] # None =>
        /\ record[KeyOf[c]] # None
        /\ record[KeyOf[c]].requestHash = copy[c].requestHash
        /\ RecordOf(KeyOf[c], copy[c])

\* Where a caller has compared its payload, and whom it waits for.
CallersHold ==
    \A c \in Callers :
        /\ at[c] \in {"check", "join"} \cup Executing => copy[c] # None
        /\ at[c] \in {"join"} \cup Executing => copy[c].requestHash = PayloadOf[c]
        /\ at[c] = "join" => joined[c] # None /\ SameOperation(c, joined[c])

\* The map of a process names executions under way, under their own keys.
LocksHold ==
    \A l \in Processes \X Keys : inFlight[l] # None =>
        at[inFlight[l]] \in Executing /\ Lock(inFlight[l]) = l

IInv ==
    /\ TypeOK
    /\ RecordsHold /\ CopiesHold /\ CallersHold /\ LocksHold
    /\ OneInFlight /\ AnswersAreResults

-----------------------------------------------------------------------------
\* No key has a record and no caller has begun.
LEMMA InitHolds == Init => IInv
BY IdempotencyAssumption
   DEF Init, IInv, TypeOK, RecordsHold, CopiesHold, CallersHold, LocksHold, OneInFlight,
       AnswersAreResults, Lock, Executing, Ended, IdempotencyAssumption

\* Types, one action at a time.
LEMMA TypePreserved ==
  ASSUME TypeOK, CopiesHold, CallersHold, [Next]_vars
  PROVE  TypeOK'
<1>1. CASE UNCHANGED vars
  BY <1>1 DEF TypeOK, vars
<1>2. ASSUME NEW c \in Callers,
             \/ Find(c) \/ Insert(c) \/ Conflict(c) \/ Join(c) \/ Cached(c)
             \/ Start(c) \/ Execute(c) \/ Save(c) \/ Awaited(c)
      PROVE  TypeOK'
  <2> USE IdempotencyAssumption
      DEF TypeOK, IdempotencyAssumption, Executing, Ended, At, Give, Lock, Unlock
  <2>1. CASE Find(c)
    BY <2>1 DEF Find
  <2>2. CASE Insert(c)
    <3> DEFINE created == [requestHash |-> PayloadOf[c], resourceId |-> None]
    <3>1. created \in Record
      BY DEF Record
    <3>2. CASE UNCHANGED <<record, copy>>
      BY <2>2, <3>2 DEF Insert
    <3>3. CASE record' = [record EXCEPT ![KeyOf[c]] = created] /\ copy' = [copy EXCEPT ![c] = created]
      <4>1. record' \in [Keys -> Record \cup {None}] /\ copy' \in [Callers -> Record \cup {None}]
        <5> HIDE DEF created
        <5> QED  BY <3>1, <3>3
      <4>2. at' \in [Callers -> {"find", "insert", "refind", "check", "join"} \cup Executing \cup Ended]
        BY <2>2 DEF Insert
      <4> QED  BY <2>2, <4>1, <4>2 DEF Insert
    <3> QED
      BY <2>2, <3>2, <3>3 DEF Insert
  <2>3. CASE Conflict(c)
    BY <2>3 DEF Conflict
  <2>4. CASE Join(c)
    BY <2>4 DEF Join
  <2>5. CASE Cached(c)
    BY <2>5 DEF Cached, CallersHold, Record
  <2>6. CASE Start(c)
    BY <2>6 DEF Start
  <2>7. CASE Execute(c)
    <3>1. at' \in [Callers -> {"find", "insert", "refind", "check", "join"} \cup Executing \cup Ended]
      BY <2>7 DEF Execute
    <3>2. inFlight' \in [Processes \X Keys -> Callers \cup {None}]
      BY <2>7 DEF Execute
    <3>3. result' \in [Callers -> Callers \cup {None}]
      BY <2>7 DEF Execute
    <3> QED
      BY <2>7, <3>1, <3>2, <3>3 DEF Execute
  <2>8. CASE Save(c)
    <3>1. record[KeyOf[c]] \in Record
      BY <2>8 DEF Save, CallersHold, CopiesHold
    <3>2. record' \in [Keys -> Record \cup {None}]
      BY <2>8, <3>1 DEF Save, Record
    <3> QED
      BY <2>8, <3>2 DEF Save
  <2>9. CASE Awaited(c)
    BY <2>9 DEF Awaited
  <2> QED
    BY <1>2, <2>1, <2>2, <2>3, <2>4, <2>5, <2>6, <2>7, <2>8, <2>9
<1> QED
  BY <1>1, <1>2 DEF Next

\* An execution that succeeded has succeeded for good, and an operation under
\* way stays where it is but for the caller that takes a step.
LEMMA ExecutedStays ==
  ASSUME TypeOK, [Next]_vars, NEW d \in Callers, at[d] = "executed"
  PROVE  at'[d] = "executed"
BY DEF TypeOK, Next, vars, Find, Insert, Conflict, Join, Cached, Start, Execute, Save,
       Awaited, At, Executing, Ended

\* An operation that was made or joined stays one that succeeded.
LEMMA RecordOfStays ==
  ASSUME IInv, [Next]_vars, NEW k \in Keys, NEW r \in Record, RecordOf(k, r)
  PROVE  RecordOf(k, r)'
BY ExecutedStays DEF IInv, RecordOf, Record

\* A stored record is changed only by Save, which keeps its payload and gives
\* it the resource of an execution that has just succeeded.
LEMMA RecordsPreserved ==
  ASSUME IInv, [Next]_vars
  PROVE  RecordsHold'
<1> USE DEF IInv
<1>1. SUFFICES ASSUME NEW k \in Keys, record'[k] # None
               PROVE  RecordOf(k, record[k])'
  BY DEF RecordsHold
<1>2. CASE record'[k] = record[k]
  BY <1>1, <1>2, RecordOfStays DEF RecordsHold, TypeOK, RecordOf
<1>3. ASSUME NEW c \in Callers, Insert(c), k = KeyOf[c], record'[k] # record[k]
      PROVE  RecordOf(k, record[k])'
  BY <1>3, IdempotencyAssumption DEF Insert, RecordOf, TypeOK, IdempotencyAssumption
<1>4. ASSUME NEW c \in Callers, Save(c), k = KeyOf[c], record'[k] # record[k]
      PROVE  RecordOf(k, record[k])'
  <2>1. record[k] \in Record /\ record[k].requestHash = PayloadOf[c]
    BY <1>4, IdempotencyAssumption
       DEF Save, CopiesHold, CallersHold, Executing, TypeOK, IdempotencyAssumption
  <2>2. record'[k] = [record[k] EXCEPT !.resourceId = c] /\ at'[c] = "executed"
    BY <1>4 DEF Save, At, TypeOK
  <2> QED
    BY <1>4, <2>1, <2>2 DEF RecordOf, Record
<1>5. \/ record'[k] = record[k]
      \/ \E c \in Callers : (Insert(c) \/ Save(c)) /\ k = KeyOf[c]
  BY IdempotencyAssumption
     DEF Next, vars, TypeOK, Find, Insert, Conflict, Join, Cached, Start, Execute, Save,
         Awaited, IdempotencyAssumption
<1> QED
  BY <1>2, <1>3, <1>4, <1>5

\* Callers act on answers given earlier: what those say stays true.
LEMMA CopiesPreserved ==
  ASSUME IInv, [Next]_vars
  PROVE  CopiesHold'
<1> USE DEF IInv
<1>1. SUFFICES ASSUME NEW c \in Callers, copy'[c] # None
               PROVE  /\ record'[KeyOf[c]] # None
                      /\ record'[KeyOf[c]].requestHash = copy'[c].requestHash
                      /\ RecordOf(KeyOf[c], copy[c])'
  BY DEF CopiesHold
<1>2. KeyOf[c] \in Keys
  BY IdempotencyAssumption DEF IdempotencyAssumption
<1>3. ASSUME NEW k \in Keys, record[k] # None
      PROVE  record'[k] # None /\ record'[k].requestHash = record[k].requestHash
  <2>1. ASSUME NEW d \in Callers, Save(d) PROVE record'[k] # None
                                 /\ record'[k].requestHash = record[k].requestHash
    BY <1>3, <2>1, IdempotencyAssumption
       DEF Save, TypeOK, IdempotencyAssumption, Record
  <2>2. \/ record'[k] = record[k]
        \/ \E d \in Callers : Save(d)
    BY <1>3, IdempotencyAssumption
       DEF Next, vars, TypeOK, Find, Insert, Conflict, Join, Cached, Start, Execute, Save,
           Awaited, IdempotencyAssumption
  <2> QED
    BY <1>3, <2>1, <2>2
<1>4. CASE copy'[c] = copy[c]
  BY <1>1, <1>2, <1>3, <1>4, RecordOfStays DEF CopiesHold, TypeOK, RecordOf
<1>5. CASE Find(c) /\ copy'[c] # copy[c]
  <2>1. record' = record /\ copy'[c] = record[KeyOf[c]] /\ record[KeyOf[c]] # None
    BY <1>5 DEF Find, TypeOK
  <2> QED
    BY <1>2, <2>1, RecordsPreserved DEF RecordsHold, RecordOf
<1>6. CASE Insert(c) /\ copy'[c] # copy[c]
  <2>1. copy'[c] = record'[KeyOf[c]] /\ record'[KeyOf[c]] # None
    BY <1>6, <1>2, IdempotencyAssumption DEF Insert, TypeOK, Record, IdempotencyAssumption
  <2> QED
    BY <1>2, <2>1, RecordsPreserved DEF RecordsHold, RecordOf
<1>7. copy'[c] = copy[c] \/ Find(c) \/ Insert(c)
  BY DEF Next, vars, TypeOK, Find, Insert, Conflict, Join, Cached, Start, Execute, Save,
         Awaited
<1> QED
  BY <1>4, <1>5, <1>6, <1>7

\* A caller that has compared its payload keeps the answer it compared, and
\* whoever joins an execution joins one of its own operation: both compared
\* their payload with the one of the record of their key.
LEMMA CallersPreserved ==
  ASSUME IInv, [Next]_vars
  PROVE  CallersHold'
<1> USE DEF IInv
<1>1. CASE UNCHANGED vars
  BY <1>1 DEF vars, CallersHold, SameOperation, Executing
<1>2. ASSUME NEW c \in Callers,
             \/ Find(c) \/ Insert(c) \/ Conflict(c) \/ Join(c) \/ Cached(c)
             \/ Start(c) \/ Execute(c) \/ Save(c) \/ Awaited(c)
      PROVE  CallersHold'
  <2> USE IdempotencyAssumption
      DEF TypeOK, IdempotencyAssumption, Executing, Ended, At, Lock, CallersHold, SameOperation
  <2>1. CASE Find(c)
    BY <2>1 DEF Find
  <2>2. CASE Insert(c)
    BY <2>2 DEF Insert, Record
  <2>3. CASE Conflict(c)
    BY <2>3 DEF Conflict
  <2>4. CASE Join(c)
    <3> DEFINE d == inFlight[Lock(c)]
    <3>1. d \in Callers /\ at[d] \in Executing /\ KeyOf[d] = KeyOf[c]
      BY <2>4 DEF Join, LocksHold
    <3>2. PayloadOf[d] = PayloadOf[c]
      <4>1. copy[d].requestHash = PayloadOf[d] /\ copy[d] # None
        BY <3>1
      <4>2. copy[c].requestHash = PayloadOf[c] /\ copy[c] # None
        BY <2>4 DEF Join
      <4> QED
        BY <3>1, <4>1, <4>2 DEF CopiesHold
    <3>3. joined' = [joined EXCEPT ![c] = d] /\ d # None
      BY <2>4 DEF Join
    <3> QED
      BY <2>4, <3>1, <3>2, <3>3 DEF Join
  <2>5. CASE Cached(c)
    BY <2>5 DEF Cached
  <2>6. CASE Start(c)
    BY <2>6 DEF Start
  <2>7. CASE Execute(c)
    BY <2>7 DEF Execute
  <2>8. CASE Save(c)
    BY <2>8 DEF Save
  <2>9. CASE Awaited(c)
    BY <2>9 DEF Awaited
  <2> QED
    BY <1>2, <2>1, <2>2, <2>3, <2>4, <2>5, <2>6, <2>7, <2>8, <2>9
<1> QED
  BY <1>1, <1>2 DEF Next

\* The map is written from its check to its update in one go, and cleared by
\* the execution it names: no other is under way with that lock.
LEMMA LocksPreserved ==
  ASSUME IInv, [Next]_vars
  PROVE  LocksHold' /\ OneInFlight'
<1> USE DEF IInv
<1>1. CASE UNCHANGED vars
  BY <1>1 DEF vars, LocksHold, OneInFlight, Executing, Lock
<1>2. ASSUME NEW c \in Callers,
             \/ Find(c) \/ Insert(c) \/ Conflict(c) \/ Join(c) \/ Cached(c)
             \/ Start(c) \/ Execute(c) \/ Save(c) \/ Awaited(c)
      PROVE  LocksHold' /\ OneInFlight'
  <2> USE IdempotencyAssumption
      DEF TypeOK, IdempotencyAssumption, Executing, Ended, At, Unlock, LocksHold, OneInFlight
  <2> DEFINE lock == Lock(c)
  <2>0. /\ lock \in Processes \X Keys
        /\ \A d \in Callers : Lock(d) \in Processes \X Keys
    BY DEF Lock
  <2>1. CASE inFlight' = inFlight /\ \A d \in Callers : at'[d] \in Executing <=> at[d] \in Executing
    BY <2>1 DEF Lock
  <2>2. CASE Start(c)
    <3>1. inFlight' = [inFlight EXCEPT ![lock] = c] /\ inFlight[lock] = None
      BY <2>2 DEF Start
    <3>2. at' = [at EXCEPT ![c] = "execute"]
      BY <2>2 DEF Start
    <3>3. \A d \in Callers : at[d] \in Executing => Lock(d) # lock
      BY <3>1
    <3> HIDE DEF lock
    <3>4. LocksHold'
      BY <3>1, <3>2, <3>3, <2>0 DEF Lock, lock
    <3>5. OneInFlight'
      BY <3>1, <3>2, <3>3, <2>0 DEF Lock, lock
    <3> QED
      BY <3>4, <3>5
  <2>3. ASSUME at[c] \in Executing, at'[c] \notin Executing,
               inFlight' = [inFlight EXCEPT ![lock] = None],
               \A d \in Callers \ {c} : at'[d] = at[d]
        PROVE  LocksHold' /\ OneInFlight'
    <3>1. \A d \in Callers : at[d] \in Executing /\ Lock(d) = lock => d = c
      BY <2>3
    <3>2. \A l \in Processes \X Keys : inFlight[l] = c => l = lock
      BY <2>3
    <3> HIDE DEF lock
    <3>3. LocksHold'
      BY <2>3, <2>0, <3>1, <3>2 DEF Lock
    <3>4. OneInFlight'
      BY <2>3, <2>0, <3>1, <3>2 DEF Lock
    <3> QED
      BY <3>3, <3>4
  <2>4. CASE Execute(c) \/ Save(c)
    BY <2>1, <2>3, <2>4 DEF Execute, Save
  <2> QED
    BY <1>2, <2>1, <2>2, <2>4 DEF Find, Insert, Conflict, Join, Cached, Awaited
<1> QED
  BY <1>1, <1>2 DEF Next

\* A result is given by the caller that executed, or copied from a record or from
\* the execution that was joined.
LEMMA AnswersPreserved ==
  ASSUME IInv, [Next]_vars
  PROVE  AnswersAreResults'
<1> USE DEF IInv
<1>1. SUFFICES ASSUME NEW c \in Callers, result'[c] # None
               PROVE  /\ at'[result'[c]] = "executed"
                      /\ SameOperation(c, result'[c])
  BY DEF AnswersAreResults, SameOperation
<1>2. CASE result'[c] = result[c]
  BY <1>1, <1>2, ExecutedStays DEF AnswersAreResults, SameOperation, TypeOK
<1>3. CASE Cached(c)
  <2>1. result'[c] = copy[c].resourceId /\ copy[c] \in Record /\ copy[c] # None
    BY <1>3 DEF Cached, Give, TypeOK, CallersHold
  <2>2. at[result'[c]] = "executed" /\ result'[c] \in Callers
    BY <1>1, <2>1 DEF CopiesHold, RecordOf, Record
  <2>3. SameOperation(c, result'[c])
    BY <1>1, <1>3, <2>1 DEF Cached, CopiesHold, RecordOf, SameOperation
  <2> QED
    BY <2>2, <2>3, ExecutedStays
<1>4. CASE (Execute(c) \/ Save(c)) /\ result'[c] # result[c]
  BY <1>4 DEF Execute, Save, Give, At, TypeOK, SameOperation
<1>5. CASE Awaited(c) /\ result'[c] # result[c]
  <2>1. joined[c] \in Callers /\ SameOperation(c, joined[c])
    BY <1>5 DEF Awaited, CallersHold, TypeOK
  <2>2. result'[c] = joined[c] /\ at[joined[c]] = "executed"
    BY <1>5 DEF Awaited, Give, TypeOK
  <2> QED
    BY <2>1, <2>2, ExecutedStays DEF SameOperation
<1>6. result'[c] = result[c] \/ Cached(c) \/ Execute(c) \/ Save(c) \/ Awaited(c)
  <2>1. ASSUME NEW d \in Callers \ {c},
               Cached(d) \/ Execute(d) \/ Save(d) \/ Awaited(d)
        PROVE  result'[c] = result[c]
    BY <2>1 DEF Cached, Execute, Save, Awaited, Give, TypeOK
  <2>2. result' = result \/ \E d \in Callers : Cached(d) \/ Execute(d) \/ Save(d) \/ Awaited(d)
    BY DEF Next, vars, Find, Insert, Conflict, Join, Start
  <2> QED
    BY <2>1, <2>2
<1> QED
  BY <1>2, <1>3, <1>4, <1>5, <1>6

-----------------------------------------------------------------------------
\* The conjunction is inductive.
THEOREM Inductive == Spec => []IInv
<1>1. IInv /\ [Next]_vars => IInv'
  BY TypePreserved, RecordsPreserved, CopiesPreserved, CallersPreserved, LocksPreserved,
     AnswersPreserved DEF IInv
<1> QED
  BY InitHolds, <1>1, PTL DEF Spec

\* The stored records, the map of each process and the callers are what the
\* declarations say.
THEOREM TypeCorrect == Spec => []TypeOK
BY Inductive, PTL DEF IInv

\* However many callers of a key there are and however their database answers
\* interleave, a server process executes a key's operation once at a time.
THEOREM OneInFlightAlways == Spec => []OneInFlight
BY Inductive, PTL DEF IInv

\* Whatever fails and whoever saves last, a caller is only ever given the
\* result of an execution that succeeded, of its own key and its own payload.
THEOREM AnswersAlways == Spec => []AnswersAreResults
BY Inductive, PTL DEF IInv


(***************************************************************************)
(* The seat locks.                                                         *)
(***************************************************************************)

\* The seats of a hold in force that no call took are locked for its group at
\* least as long as it lasts, so that nobody finds them available.
HoldsLocked ==
    \A g \in Groups : HasHold(g) => \A s \in holds[g].seats \ lost[g] :
        /\ locks[s] # None
        /\ locks[s].owner = ForGroup(g)
        /\ holds[g].expiresAt <= locks[s].expiresAt

SeatInv == SeatTypeOK /\ HoldsLocked

(***************************************************************************)
(* The group booking.                                                      *)
(***************************************************************************)

\* What a row or a copy of the group may say: who is marked as paid has paid,
\* and an approval that is asked for is marked as pending.
GroupAgrees(g) == approval = "pending" => g.approval = "pending"
MembersAgree(statuses) == \A m \in People : statuses[m] = "paid" => m \in charged
CopyAgrees(read) == GroupAgrees(read.group) /\ MembersAgree(read.members)

\* A confirmation books who has paid, and runs when no approval is open.
ConfirmationAgrees(confirmation) ==
    /\ CopyAgrees(confirmation.copy)
    /\ confirmation.due \subseteq charged \cup {Organizer}
    /\ approval # "pending"

\* Before the group is made there is nothing to confirm.
NothingBeforeTheGroup ==
    group = None =>
        /\ \A m \in People : members[m] = "absent" /\ paying[m] = None
        /\ \A c \in Confirmers : confirming[c] = None
        /\ saving = None /\ approval = None /\ booked = {}

RowsAgree ==
    /\ group # None => GroupAgrees(group)
    /\ MembersAgree(members)
    /\ \A m \in People : paying[m] # None => CopyAgrees(paying[m].copy)
    /\ saving # None => CopyAgrees(saving.copy)
    /\ \A c \in Confirmers : confirming[c] # None => ConfirmationAgrees(confirming[c])

GroupInv == GroupTypeOK /\ NothingBeforeTheGroup /\ RowsAgree /\ BookingsAreDue

(***************************************************************************)
(* The refunds.                                                            *)
(***************************************************************************)

\* A row a call has is one that was made.
CallsHaveRows ==
    \A w \in Workers : call[w] # None /\ call[w].step # "create" =>
        call[w].row \in Refunds /\ refund[call[w].row] # None

\* A row that was not made waits for nothing and was not paid.
UnmadeRows ==
    \A r \in Refunds : refund[r] = None => until[r] = None /\ paid[r] = 0

\* Row r was paid, or there was nothing to pay for it by card.
Settled(r) == paid[r] > 0 \/ r \in waived

\* What only that leads to.
AfterPayment ==
    /\ \A r \in Refunds :
          /\ refund[r] \in {"onchain_pending", "onchain_submitted", "completed"} => Settled(r)
          /\ r \in hashed => Settled(r)
    /\ \A w \in Workers : call[w] # None /\ call[w].step \in {"finish", "submit"} =>
          Settled(call[w].row)

\* The payment of row r is due: its delay is over, or an admin has acted on it.
PaymentDue(r) == until[r] # None => r \in decided \/ Expired(r)

\* What leads to a payment, and an override, which is an admin's.
BeforePayment ==
    /\ \A r \in Refunds : paid[r] > 0 => PaymentDue(r)
    /\ \A w \in Workers : call[w] # None =>
          /\ call[w].step \notin {"create", "cancel", "notify", "submit"} => PaymentDue(call[w].row)
          /\ call[w].step = "override" => call[w].row \in decided

RefundsInv ==
    /\ RefundsTypeOK
    /\ CallsHaveRows /\ UnmadeRows
    /\ AfterPayment /\ BeforePayment

(***************************************************************************)
(* The queue.                                                              *)
(***************************************************************************)

\* Where a job may be, and what may have become of it.
Waiting == ToSet(queue)
Buried == ToSet(deadLetters)
Popped == {running[s] : s \in Servers} \ {None}
Listed == Waiting \cup Buried \cup Popped
Over == handled \cup removed \cup dropped
Missing == enqueued \ (Listed \cup Over)

\* A job is in one place, once, and was taken on and is not over.
InOnePlace ==
    /\ IsInjective(queue) /\ IsInjective(deadLetters)
    /\ \A s, t \in Servers : running[s] # None /\ running[s] = running[t] => s = t
    /\ Waiting \cap Buried = {} /\ Popped \cap (Waiting \cup Buried) = {}
    /\ Listed \subseteq enqueued \ Over

\* A job that may still run has an attempt left.
AttemptsLeft ==
    \A j \in Jobs : j \notin enqueued \/ j \in Waiting \cup Popped => attempts[j] < MaxRetries

QueueInv ==
    /\ QueueTypeOK
    /\ InOnePlace /\ AttemptsLeft
    /\ IsFiniteSet(enqueued) /\ Cardinality(Missing) <= losses
-----------------------------------------------------------------------------
(***************************************************************************)
(* Proofs: the seat locks.                                                 *)
(***************************************************************************)

\* Nothing is held at first.
LEMMA SeatInitHolds == ASSUME SeatAssumption  PROVE  SeatInit => SeatInv
BY DEF SeatInit, SeatInv, SeatTypeOK, HoldsLocked, HasHold, SeatAssumption

\* A hold takes seats that no hold in force has locked.
LEMMA HoldHolds ==
  ASSUME SeatAssumption, SeatInv, NEW g \in Groups, NEW n, HoldSeatsForGroup(g, n)
  PROVE  SeatInv'
<1> USE DEF SeatAssumption, SeatInv, SeatTypeOK
<1>1. PICK taken \in SUBSET Available :
         /\ holds' = [holds EXCEPT ![g] = [seats |-> taken, expiresAt |-> clock + Duration]]
         /\ locks' = [s \in Seats |-> IF s \in taken
               THEN [owner |-> ForGroup(g), expiresAt |-> clock + Duration] ELSE locks[s]]
         /\ lost' = [lost EXCEPT ![g] = {}]
         /\ UNCHANGED <<clock, locking>>
  BY DEF HoldSeatsForGroup
<1> DEFINE hold == [seats |-> taken, expiresAt |-> clock + Duration]
           lock == [owner |-> ForGroup(g), expiresAt |-> clock + Duration]
<1>2. taken \subseteq Seats /\ clock + Duration \in Nat
  BY DEF Available
<1>3. hold \in GroupSeatHold /\ lock \in SeatLock
  BY <1>2 DEF GroupSeatHold, SeatLock, ForGroup, Ids
<1>4. hold # None /\ lock # None
  BY <1>3
<1>5. SeatTypeOK'
  <2>1. holds' \in [Groups -> GroupSeatHold \cup {None}]
    BY <1>1, <1>3
  <2>2. locks' \in [Seats -> SeatLock \cup {None}]
    BY <1>1, <1>3
  <2>3. lost' \in [Groups -> SUBSET Seats]
    BY <1>1
  <2> QED  BY <1>1, <2>1, <2>2, <2>3
<1>6. HoldsLocked'
  <2> SUFFICES ASSUME NEW h \in Groups, HasHold(h)',
                      NEW s \in Seats, s \in holds'[h].seats, s \notin lost'[h]
               PROVE  /\ locks'[s] # None
                      /\ locks'[s].owner = ForGroup(h)
                      /\ holds'[h].expiresAt <= locks'[s].expiresAt
    <3>1. \A h \in Groups : HasHold(h)' => holds'[h].seats \subseteq Seats
      BY <1>5 DEF HasHold, GroupSeatHold
    <3> QED  BY <3>1 DEF HoldsLocked
  <2>1. CASE h = g
    <3>1. s \in taken /\ locks'[s] = lock /\ holds'[h] = hold
      BY <1>1, <2>1
    <3> QED  BY <1>2, <1>4, <2>1, <3>1
  <2>2. CASE h # g
    <3>1. holds'[h] = holds[h] /\ lost'[h] = lost[h] /\ clock' = clock
      BY <1>1, <2>2
    <3>2. HasHold(h)
      BY <3>1 DEF HasHold
    <3>3. /\ locks[s] # None /\ locks[s].owner = ForGroup(h)
          /\ holds[h].expiresAt <= locks[s].expiresAt
      BY <3>1, <3>2 DEF HoldsLocked
    <3>4. locks[s].expiresAt \in Nat /\ holds[h].expiresAt \in Nat
      BY <3>2, <3>3 DEF HasHold, SeatLock, GroupSeatHold
    <3>5. ~(locks[s].expiresAt < clock)
      BY <3>2, <3>3, <3>4 DEF HasHold
    <3>6. s \notin taken
      BY <3>3, <3>5 DEF Available, SeatLockOf
    <3> QED  BY <1>1, <3>1, <3>3, <3>6
  <2> QED  BY <2>1, <2>2
<1> QED  BY <1>5, <1>6

\* The locks of some seats are deleted, or overwritten ...
LocksChange(gone, given) == locks' = [s \in Seats |-> IF s \in gone THEN given ELSE locks[s]]

\* ... which are expired, of no hold that stays, or recorded as taken.
HoldsSpared(gone) ==
    \A g \in Groups : HasHold(g)' =>
        /\ holds'[g] = holds[g] /\ lost[g] \subseteq lost'[g]
        /\ \A s \in gone \cap holds[g].seats :
              s \in lost'[g] \/ SeatLockOf(s) = None \/ SeatLockOf(s).owner # ForGroup(g)

\* Then the seats of every hold that stays are locked for it as before.
LEMMA LocksGivenUp ==
  ASSUME SeatAssumption, SeatInv, clock' \in Nat, clock' >= clock,
         NEW gone \in SUBSET Seats, NEW given \in SeatLock \cup {None},
         LocksChange(gone, given), HoldsSpared(gone),
         holds' \in [Groups -> GroupSeatHold \cup {None}],
         lost' \in [Groups -> SUBSET Seats], locking' \in [SeatCallers -> Seats \cup {None}]
  PROVE  SeatInv'
<1> USE DEF SeatAssumption, SeatInv, SeatTypeOK, LocksChange, HoldsSpared
<1>1. SeatTypeOK'
  OBVIOUS
<1>2. HoldsLocked'
  <2> SUFFICES ASSUME NEW g \in Groups, HasHold(g)', NEW s \in holds'[g].seats \ lost'[g]
               PROVE  /\ locks'[s] # None
                      /\ locks'[s].owner = ForGroup(g)
                      /\ holds'[g].expiresAt <= locks'[s].expiresAt
    BY DEF HoldsLocked
  <2>1. holds'[g] = holds[g] /\ lost[g] \subseteq lost'[g] /\ holds[g] # None
    BY DEF HasHold
  <2>2. holds[g].seats \subseteq Seats /\ holds[g].expiresAt \in Nat
    BY <2>1 DEF GroupSeatHold
  <2>3. HasHold(g)
    BY <2>1, <2>2 DEF HasHold
  <2>4. /\ locks[s] # None /\ locks[s].owner = ForGroup(g)
        /\ holds[g].expiresAt <= locks[s].expiresAt
    BY <2>1, <2>3 DEF HoldsLocked
  <2>5. locks[s].expiresAt \in Nat
    BY <2>1, <2>2, <2>4 DEF SeatLock
  <2>6. SeatLockOf(s) = locks[s]
    BY <2>2, <2>3, <2>4, <2>5 DEF HasHold, SeatLockOf
  <2>7. s \notin gone
    BY <2>1, <2>4, <2>6
  <2> QED  BY <2>1, <2>2, <2>4, <2>7
<1> QED  BY <1>1, <1>2
\* What a call on a single seat takes from a hold is recorded.
LEMMA SeatTaken ==
  ASSUME SeatAssumption, SeatInv, NEW s \in Seats, lost' = TakenFrom(s),
         NEW given \in SeatLock \cup {None}, locks' = [locks EXCEPT ![s] = given],
         UNCHANGED <<clock, holds>>, locking' \in [SeatCallers -> Seats \cup {None}]
  PROVE  SeatInv'
<1> USE DEF SeatInv, SeatTypeOK
<1> DEFINE gone == {s}
<1>1. gone \in SUBSET Seats /\ clock' \in Nat /\ clock' >= clock
  OBVIOUS
<1>2. LocksChange(gone, given)
  BY DEF LocksChange
<1>3. lost' \in [Groups -> SUBSET Seats] /\ holds' \in [Groups -> GroupSeatHold \cup {None}]
  BY DEF TakenFrom
<1>4. HoldsSpared(gone)
  <2>1. \A g \in Groups : HasHold(g)' => HasHold(g)
    BY DEF HasHold
  <2> QED  BY <2>1 DEF HoldsSpared, TakenFrom
<1> HIDE DEF gone, SeatInv, SeatTypeOK
<1> QED  BY <1>1, <1>2, <1>3, <1>4, LocksGivenUp

\* One step per call.
LEMMA SeatStepHolds ==
  ASSUME SeatAssumption, SeatInv, [SeatNext]_seatVars
  PROVE  SeatInv'
<1> USE DEF SeatAssumption, SeatInv, SeatTypeOK
<1>1. CASE UNCHANGED seatVars
  BY <1>1 DEF seatVars, HoldsLocked, HasHold
<1>2. ASSUME NEW g \in Groups, NEW n, HoldSeatsForGroup(g, n)
      PROVE  SeatInv'
  BY <1>2, HoldHolds
<1>3. ASSUME NEW g \in Groups, ReleaseGroupSeatHold(g)
      PROVE  SeatInv'
  <2> DEFINE gone == {s \in Seats : /\ s \in holds[g].seats /\ locks[s] # None
                                    /\ locks[s].owner = ForGroup(g)}
  <2>1. /\ LocksChange(gone, None)
        /\ holds' = [holds EXCEPT ![g] = None] /\ lost' = [lost EXCEPT ![g] = {}]
        /\ UNCHANGED <<clock, locking>>
    BY <1>3 DEF ReleaseGroupSeatHold, LocksChange
  <2>2. HoldsSpared(gone)
    <3> SUFFICES ASSUME NEW h \in Groups, HasHold(h)'
                 PROVE  /\ holds'[h] = holds[h] /\ lost[h] \subseteq lost'[h]
                        /\ \A s \in gone \cap holds[h].seats :
                              SeatLockOf(s) = None \/ SeatLockOf(s).owner # ForGroup(h)
      BY DEF HoldsSpared
    <3>1. h # g
      BY <2>1 DEF HasHold
    <3>2. holds'[h] = holds[h] /\ lost'[h] = lost[h]
      BY <2>1, <3>1
    <3>3. \A s \in gone : SeatLockOf(s) = None \/ SeatLockOf(s).owner = ForGroup(g)
      BY DEF SeatLockOf
    <3>4. ForGroup(g) # ForGroup(h)
      BY <3>1 DEF ForGroup
    <3> HIDE DEF gone
    <3> QED  BY <3>2, <3>3, <3>4
  <2>3. /\ gone \in SUBSET Seats /\ clock' \in Nat /\ clock' >= clock
        /\ holds' \in [Groups -> GroupSeatHold \cup {None}]
        /\ lost' \in [Groups -> SUBSET Seats] /\ locking' \in [SeatCallers -> Seats \cup {None}]
    BY <2>1
  <2> HIDE DEF gone, SeatInv, SeatTypeOK
  <2> QED  BY <2>1, <2>2, <2>3, LocksGivenUp
<1>4. ASSUME NEW id \in SeatCallers, NEW s \in Seats, LockSeat(id, s)
      PROVE  SeatInv'
  BY <1>4 DEF LockSeat, HoldsLocked, HasHold
<1>5. ASSUME NEW id \in SeatCallers, LockSeatAnswered(id)
      PROVE  SeatInv'
  <2> DEFINE lock == [owner |-> Named(id), expiresAt |-> clock + Duration]
  <2>1. PICK s \in Seats : s = locking[id]
    BY <1>5 DEF LockSeatAnswered
  <2>2. lock \in SeatLock
    BY DEF SeatLock, Named, Ids
  <2>3. /\ locks' = [locks EXCEPT ![s] = lock] /\ lost' = TakenFrom(s)
        /\ UNCHANGED <<clock, holds>> /\ locking' = [locking EXCEPT ![id] = None]
    BY <1>5, <2>1 DEF LockSeatAnswered
  <2> HIDE DEF lock
  <2> QED  BY <2>1, <2>2, <2>3, SeatTaken
<1>6. ASSUME NEW id \in SeatCallers, NEW s \in Seats, ReleaseSeatLock(id, s)
      PROVE  SeatInv'
  BY <1>6, SeatTaken DEF ReleaseSeatLock
<1>7. CASE CleanupExpiredLocks
  <2> DEFINE gone == {s \in Seats : SeatLockOf(s) = None}
  <2>1. LocksChange(gone, None)
    BY <1>7 DEF CleanupExpiredLocks, SeatLockOf, LocksChange
  <2>2. HoldsSpared(gone)
    BY <1>7 DEF CleanupExpiredLocks, HasHold, HoldsSpared
  <2>3. /\ holds' \in [Groups -> GroupSeatHold \cup {None}]
        /\ lost' \in [Groups -> SUBSET Seats] /\ locking' \in [SeatCallers -> Seats \cup {None}]
        /\ clock' \in Nat /\ clock' >= clock
    BY <1>7 DEF CleanupExpiredLocks
  <2>4. gone \in SUBSET Seats
    OBVIOUS
  <2> HIDE DEF gone, SeatInv, SeatTypeOK
  <2> QED  BY <2>1, <2>2, <2>3, <2>4, LocksGivenUp
<1>8. CASE ClearAllLocksAndHolds
  BY <1>8 DEF ClearAllLocksAndHolds, HoldsLocked, HasHold
<1>9. CASE ClockTicks
  <2> DEFINE gone == {}
  <2>1. LocksChange(gone, None)
    BY <1>9 DEF ClockTicks, LocksChange
  <2>2. /\ clock' \in Nat /\ clock' >= clock
        /\ holds' \in [Groups -> GroupSeatHold \cup {None}]
        /\ lost' \in [Groups -> SUBSET Seats] /\ locking' \in [SeatCallers -> Seats \cup {None}]
    BY <1>9 DEF ClockTicks
  <2>3. HoldsSpared(gone)
    BY <1>9 DEF ClockTicks, HasHold, HoldsSpared
  <2>4. gone \in SUBSET Seats
    OBVIOUS
  <2> HIDE DEF gone, SeatInv, SeatTypeOK
  <2> QED  BY <2>1, <2>2, <2>3, <2>4, LocksGivenUp
<1> QED
  BY <1>1, <1>2, <1>3, <1>4, <1>5, <1>6, <1>7, <1>8, <1>9 DEF SeatNext

\* Holds in force share no seat that was not taken from one of them: the lock of
\* such a seat names one group.
LEMMA HoldsApart == SeatInv => HoldsAreDisjoint
<1> SUFFICES ASSUME SeatInv, NEW g \in Groups, NEW h \in Groups, g # h,
                    HasHold(g), HasHold(h), NEW s \in holds[g].seats \cap holds[h].seats,
                    s \notin lost[g] \cup lost[h]
             PROVE  FALSE
  BY DEF HoldsAreDisjoint
<1>1. locks[s].owner = ForGroup(g) /\ locks[s].owner = ForGroup(h)
  BY DEF SeatInv, HoldsLocked
<1> QED  BY <1>1 DEF ForGroup
-----------------------------------------------------------------------------
(***************************************************************************)
(* Proofs: the group booking.                                              *)
(***************************************************************************)

\* There is no group at first.
LEMMA GroupInitHolds == ASSUME GroupAssumption  PROVE  GroupInit => GroupInv
BY DEF GroupAssumption, GroupInit, GroupInv, GroupTypeOK, NothingBeforeTheGroup, RowsAgree,
       MembersAgree, BookingsAreDue, MemberStatus, Confirmers

\* What a row or a copy says stays true while the approval is not asked for anew
\* and nobody's payment is forgotten.
Grows == (approval' = "pending" => approval = "pending") /\ charged \subseteq charged'

\* So no such step makes a row or a copy wrong.
LEMMA AgreementStays ==
  ASSUME Grows
  PROVE  /\ \A g : GroupAgrees(g) => GroupAgrees(g)'
         /\ \A statuses : MembersAgree(statuses) => MembersAgree(statuses)'
         /\ \A read : CopyAgrees(read) => CopyAgrees(read)'
         /\ \A confirmation : ConfirmationAgrees(confirmation) => ConfirmationAgrees(confirmation)'
BY DEF Grows, GroupAgrees, MembersAgree, CopyAgrees, ConfirmationAgrees

\* The group as read is a copy of it.
LEMMA ReadIsCopy ==
  ASSUME GroupAssumption, GroupInv, group # None
  PROVE  Read \in Copy /\ CopyAgrees(Read)
BY DEF GroupInv, GroupTypeOK, RowsAgree, Read, Copy, CopyAgrees

\* A copy that is written over the group.
LEMMA SaveGroupHolds ==
  ASSUME GroupAssumption, GroupInv, NEW read \in Copy, CopyAgrees(read), SaveGroup(read),
         Grows
  PROVE  /\ group' \in Group /\ group' # None /\ members' \in [People -> MemberStatus]
         /\ GroupAgrees(group)' /\ MembersAgree(members)'
<1>1. group' = read.group /\ read.group \in Group /\ read.members \in [People -> MemberStatus]
  BY DEF SaveGroup, Copy
<1>2. members' = read.members
  BY DEF SaveGroup
<1>3. members' \in [People -> MemberStatus]
  BY <1>1, <1>2
<1>4. GroupAgrees(group)'
  BY <1>1 DEF CopyAgrees, GroupAgrees, Grows
<1>5. MembersAgree(members)'
  BY <1>2 DEF CopyAgrees, MembersAgree, Grows
<1> QED
  BY <1>1, <1>3, <1>4, <1>5 DEF GroupAssumption

\* A confirmation that begins is to book who has paid, and nobody who waits for an
\* approval.
LEMMA ConfirmHolds ==
  ASSUME GroupAssumption, GroupInv, NEW c \in Confirmers, NEW g \in Group,
         ConfirmGroupBooking(c, g), Grows,
         approval' = "pending" => g.approval = "pending"
  PROVE  /\ confirming' \in [Confirmers -> Confirmation \cup {None}]
         /\ \A d \in Confirmers : confirming'[d] # None =>
                confirming'[d] = confirming[d] \/ ConfirmationAgrees(confirming[d])'
<1> DEFINE new == [copy |-> [group |-> g, members |-> members], due |-> Due]
<1>1. confirming \in [Confirmers -> Confirmation \cup {None}]
  BY DEF GroupInv, GroupTypeOK
<1>2. CASE g.approval = "pending"
  BY <1>1, <1>2 DEF ConfirmGroupBooking
<1>3. CASE g.approval # "pending"
  <2>1. confirming' = [confirming EXCEPT ![c] = new]
    BY <1>3 DEF ConfirmGroupBooking
  <2>2. MembersAgree(members) /\ members \in [People -> MemberStatus]
    BY DEF GroupInv, GroupTypeOK, RowsAgree
  <2>3. Due \subseteq charged \cup {Organizer} /\ Due \subseteq People
    BY <2>2 DEF Due, Present, MembersAgree
  <2>4. new \in Confirmation
    BY <2>2, <2>3 DEF Confirmation, Copy
  <2>5. ConfirmationAgrees(confirming[c])'
    <3>1. confirming'[c] = new
      BY <1>1, <2>1
    <3>2. approval' # "pending" /\ charged \subseteq charged'
      BY <1>3 DEF Grows
    <3>3. /\ confirming'[c].copy.group = g /\ confirming'[c].copy.members = members
          /\ confirming'[c].due = Due
      BY <3>1
    <3> QED
      BY <2>2, <2>3, <3>2, <3>3 DEF ConfirmationAgrees, CopyAgrees, GroupAgrees, MembersAgree
  <2> HIDE DEF new
  <2>6. \A d \in Confirmers : d # c => confirming'[d] = confirming[d]
    BY <1>1, <2>1
  <2> QED
    BY <1>1, <2>1, <2>4, <2>5, <2>6
<1> QED
  BY <1>2, <1>3

\* One lemma per call or step of a call.
LEMMA CreateGroupHolds ==
  ASSUME GroupAssumption, GroupInv, NEW joining \in SUBSET People, NEW requires \in BOOLEAN,
         CreateGroupBooking(joining, requires)
  PROVE  GroupInv'
<1> USE DEF GroupAssumption, GroupInv, GroupTypeOK, CreateGroupBooking, NothingBeforeTheGroup
<1>1. /\ group = None /\ booked = {} /\ saving = None /\ approval = None
      /\ \A m \in People : members[m] = "absent" /\ paying[m] = None
      /\ UNCHANGED <<seatsAvailable, paying, saving, confirming, booked, charged, groupCalls>>
  OBVIOUS
<1>2. /\ group' \in Group
      /\ group'.approval = IF requires THEN "pending" ELSE "not_required"
  BY DEF Group
<1>3. /\ members' \in [People -> MemberStatus]
      /\ \A m \in People : members'[m] # "paid"
  BY <1>1 DEF MemberStatus
<1>4. approval' \in {None, "pending"} /\ (approval' = "pending" => requires)
  BY <1>1
<1>5. GroupTypeOK'
  BY <1>1, <1>2, <1>3, <1>4
<1>6. RowsAgree'
  BY <1>1, <1>2, <1>3, <1>4 DEF RowsAgree, GroupAgrees, MembersAgree
<1>7. NothingBeforeTheGroup' /\ BookingsAreDue'
  BY <1>1, <1>2 DEF BookingsAreDue
<1> QED
  BY <1>5, <1>6, <1>7

\* Where only members change, and a call may read what it writes back.
LEMMA MembersChange ==
  ASSUME GroupAssumption, GroupInv, group # None,
         UNCHANGED <<group, seatsAvailable, approval, confirming, booked, charged>>,
         members' \in [People -> MemberStatus], MembersAgree(members'),
         groupCalls' \in 0..MaxGroupCalls,
         paying' \in [People -> Payment \cup {None}],
         \A m \in People : paying'[m] # None =>
             paying'[m] = paying[m] \/ CopyAgrees(paying'[m].copy),
         saving' \in Saving \cup {None},
         saving' # None => saving' = saving \/ CopyAgrees(saving'.copy)
  PROVE  GroupInv'
<1> USE DEF GroupInv
<1>1. GroupTypeOK'
  BY DEF GroupTypeOK
<1>2. NothingBeforeTheGroup'
  BY DEF NothingBeforeTheGroup
<1>3. BookingsAreDue'
  BY DEF BookingsAreDue
<1>4. GroupAgrees(group)' /\ MembersAgree(members)'
  BY DEF RowsAgree, GroupAgrees, MembersAgree
<1>5. \A m \in People : paying'[m] # None => CopyAgrees(paying[m].copy)'
  BY DEF RowsAgree, CopyAgrees, GroupAgrees, MembersAgree
<1>6. saving' # None => CopyAgrees(saving.copy)'
  BY DEF RowsAgree, CopyAgrees, GroupAgrees, MembersAgree
<1>7. \A c \in Confirmers : confirming'[c] # None => ConfirmationAgrees(confirming[c])'
  BY DEF RowsAgree, ConfirmationAgrees, CopyAgrees, GroupAgrees, MembersAgree
<1> QED
  BY <1>1, <1>2, <1>3, <1>4, <1>5, <1>6, <1>7 DEF RowsAgree

\* An invitation changes statuses of members, none to paid.
LEMMA InviteHolds ==
  ASSUME GroupAssumption, GroupInv, NEW invited \in SUBSET People, InviteMembers(invited)
  PROVE  GroupInv'
<1> DEFINE new == [step |-> "invite", copy |-> Read]
<1>1. group # None
  BY DEF InviteMembers, Open
<1>2. Read \in Copy /\ CopyAgrees(Read)
  BY <1>1, ReadIsCopy
<1>3. saving' = new /\ new \in Saving /\ CopyAgrees(saving'.copy)
  BY <1>2 DEF InviteMembers, Saving
<1>4. members' \in [People -> MemberStatus] /\ MembersAgree(members')
  BY DEF InviteMembers, GroupInv, GroupTypeOK, MemberStatus, RowsAgree, MembersAgree
<1>5. groupCalls' \in 0..MaxGroupCalls
  BY DEF InviteMembers, GroupInv, GroupTypeOK, GroupAssumption
<1>6. /\ UNCHANGED <<group, seatsAvailable, approval, confirming, booked, charged, paying>>
      /\ paying \in [People -> Payment \cup {None}]
  BY DEF InviteMembers, GroupInv, GroupTypeOK
<1> HIDE DEF new
<1> QED
  BY <1>1, <1>3, <1>4, <1>5, <1>6, MembersChange

\* An acceptance changes one member who has not paid.
LEMMA AcceptHolds ==
  ASSUME GroupAssumption, GroupInv, NEW m \in People, AcceptInvitation(m)
  PROVE  GroupInv'
<1> DEFINE read == [Read EXCEPT !.members = members']
           new == [step |-> "accept", copy |-> read]
<1>1. group # None
  BY DEF AcceptInvitation, Present, GroupInv, NothingBeforeTheGroup
<1>2. Read \in Copy /\ CopyAgrees(Read)
  BY <1>1, ReadIsCopy
<1>3. members' \in [People -> MemberStatus] /\ MembersAgree(members')
  BY DEF AcceptInvitation, GroupInv, GroupTypeOK, MemberStatus, RowsAgree, MembersAgree
<1>4. read = [group |-> group, members |-> members']
  BY DEF Read
<1>5. read \in Copy /\ CopyAgrees(read)
  BY <1>1, <1>2, <1>3, <1>4 DEF Copy, CopyAgrees, Read
<1>6. saving' = new /\ new \in Saving /\ CopyAgrees(saving'.copy)
  BY <1>5 DEF AcceptInvitation, Saving
<1>7. /\ UNCHANGED <<group, seatsAvailable, approval, confirming, booked, charged, paying>>
      /\ UNCHANGED groupCalls
      /\ paying \in [People -> Payment \cup {None}] /\ groupCalls \in 0..MaxGroupCalls
  BY DEF AcceptInvitation, GroupInv, GroupTypeOK
<1> HIDE DEF new, read
<1> QED
  BY <1>1, <1>3, <1>6, <1>7, MembersChange

\* A payment that begins keeps a copy of rows that agree.
LEMMA PaymentBeginsHolds ==
  ASSUME GroupAssumption, GroupInv, NEW m \in People, ProcessMemberPayment(m)
  PROVE  GroupInv'
<1> DEFINE new == [step |-> "charge", seat |-> seatsAvailable > 0, copy |-> Read]
<1>1. group # None
  BY DEF ProcessMemberPayment, Present, GroupInv, NothingBeforeTheGroup
<1>2. Read \in Copy /\ CopyAgrees(Read)
  BY <1>1, ReadIsCopy
<1>3. paying' = [paying EXCEPT ![m] = new] /\ new \in Payment /\ CopyAgrees(new.copy)
  BY <1>2 DEF ProcessMemberPayment, Payment
<1>4. /\ UNCHANGED <<group, members, saving, confirming, seatsAvailable, approval, booked, charged>>
      /\ paying \in [People -> Payment \cup {None}] /\ groupCalls' \in 0..MaxGroupCalls
      /\ saving \in Saving \cup {None}
      /\ members' \in [People -> MemberStatus] /\ MembersAgree(members')
  BY DEF ProcessMemberPayment, GroupInv, GroupTypeOK, GroupAssumption, RowsAgree
<1> HIDE DEF new
<1>5. /\ paying' \in [People -> Payment \cup {None}]
      /\ \A n \in People : paying'[n] # None =>
            paying'[n] = paying[n] \/ CopyAgrees(paying'[n].copy)
  BY <1>3, <1>4
<1> QED
  BY <1>1, <1>4, <1>5, MembersChange
\* Where the group is written, or charged or booked for.
LEMMA GroupChanges ==
  ASSUME GroupAssumption, GroupInv, Grows,
         group' \in Group, GroupAgrees(group)',
         members' \in [People -> MemberStatus], MembersAgree(members)',
         seatsAvailable' \in Int, groupCalls' = groupCalls,
         approval' \in {None, "pending", "approved", "rejected"},
         charged' \subseteq People,
         booked' \subseteq People, booked' \subseteq charged' \cup {Organizer},
         booked' # {} => approval' # "pending",
         paying' \in [People -> Payment \cup {None}],
         \A m \in People : paying'[m] # None =>
             paying'[m] = paying[m] \/ CopyAgrees(paying[m].copy)',
         saving' \in {None, saving},
         confirming' \in [Confirmers -> Confirmation \cup {None}],
         \A c \in Confirmers : confirming'[c] # None =>
             confirming'[c] = confirming[c] \/ ConfirmationAgrees(confirming[c])'
  PROVE  GroupInv'
<1> USE DEF GroupInv
<1>1. GroupTypeOK'
  BY DEF GroupTypeOK
<1>2. NothingBeforeTheGroup' /\ BookingsAreDue'
  BY DEF NothingBeforeTheGroup, GroupAssumption, BookingsAreDue
<1>3. \A m \in People : paying'[m] # None => CopyAgrees(paying[m].copy)'
  <2> SUFFICES ASSUME NEW m \in People, paying'[m] # None, paying'[m] = paying[m]
               PROVE  CopyAgrees(paying[m].copy)'
    OBVIOUS
  <2>1. CopyAgrees(paying[m].copy)
    BY DEF RowsAgree
  <2> QED  BY <2>1 DEF CopyAgrees, GroupAgrees, MembersAgree, Grows
<1>4. saving' # None => CopyAgrees(saving.copy)'
  BY DEF RowsAgree, CopyAgrees, GroupAgrees, MembersAgree, Grows
<1>5. \A c \in Confirmers : confirming'[c] # None => ConfirmationAgrees(confirming[c])'
  <2> SUFFICES ASSUME NEW c \in Confirmers, confirming'[c] # None, confirming'[c] = confirming[c]
               PROVE  ConfirmationAgrees(confirming[c])'
    OBVIOUS
  <2>1. ConfirmationAgrees(confirming[c])
    BY DEF RowsAgree
  <2> QED
    BY <2>1 DEF ConfirmationAgrees, CopyAgrees, GroupAgrees, MembersAgree, Grows
<1> QED
  BY <1>1, <1>2, <1>3, <1>4, <1>5 DEF RowsAgree

\* A copy with another status agrees as well.
LEMMA StatusChanges ==
  ASSUME NEW read \in Copy, CopyAgrees(read),
         NEW status \in {"inviting", "partial_paid", "paid", "confirmed"}
  PROVE  /\ [read EXCEPT !.group.status = status] \in Copy
         /\ CopyAgrees([read EXCEPT !.group.status = status])
<1> DEFINE g == [read.group EXCEPT !.status = status]
<1>1. [read EXCEPT !.group.status = status] = [group |-> g, members |-> read.members]
  BY DEF Copy
<1>2. g \in Group /\ g.approval = read.group.approval
  BY DEF Copy, Group
<1> HIDE DEF g
<1> QED
  BY <1>1, <1>2 DEF Copy, CopyAgrees, GroupAgrees

\* The copy saved after the invitations were sent agrees.
LEMMA InvitationsSentHolds ==
  ASSUME GroupAssumption, GroupInv, InvitationsSent
  PROVE  GroupInv'
<1> DEFINE read == [saving.copy EXCEPT !.group.status = "inviting"]
<1>1. saving.copy \in Copy /\ CopyAgrees(saving.copy)
  BY DEF InvitationsSent, GroupInv, GroupTypeOK, Saving, RowsAgree
<1>2. read \in Copy /\ CopyAgrees(read)
  BY <1>1, StatusChanges
<1>3. /\ SaveGroup(read)
      /\ UNCHANGED <<seatsAvailable, approval, paying, confirming, booked, charged, groupCalls>>
  BY DEF InvitationsSent
<1>4. Grows
  BY <1>3 DEF Grows
<1> HIDE DEF read
<1>5. /\ group' \in Group /\ members' \in [People -> MemberStatus]
      /\ GroupAgrees(group)' /\ MembersAgree(members)'
  BY <1>2, <1>3, <1>4, SaveGroupHolds
<1>6. saving' = None
  BY DEF InvitationsSent
<1> QED
  BY <1>3, <1>4, <1>5, <1>6, GroupChanges DEF GroupInv, GroupTypeOK, BookingsAreDue

\* The members saved with their shares agree.
LEMMA SharesSavedHolds ==
  ASSUME GroupAssumption, GroupInv, SharesSaved
  PROVE  GroupInv'
<1>1. saving.copy \in Copy /\ CopyAgrees(saving.copy)
  BY DEF SharesSaved, GroupInv, GroupTypeOK, Saving, RowsAgree
<1>2. group \in Group
  BY DEF SharesSaved, GroupInv, GroupTypeOK, NothingBeforeTheGroup
<1>3. /\ UNCHANGED <<seatsAvailable, approval, paying, confirming, booked, charged, groupCalls>>
      /\ saving' = None
  BY DEF SharesSaved
<1>4. /\ members' \in [People -> MemberStatus]
      /\ \A m \in People : members'[m] \in {saving.copy.members[m], members[m]}
  BY <1>1 DEF SharesSaved, Copy, GroupInv, GroupTypeOK
<1>5. MembersAgree(members)'
  BY <1>1, <1>3, <1>4 DEF CopyAgrees, MembersAgree, GroupInv, RowsAgree
<1>6. group' \in Group /\ group'.approval = group.approval
  BY <1>2 DEF SharesSaved, Group
<1>7. GroupAgrees(group)'
  BY <1>2, <1>3, <1>6 DEF GroupAgrees, GroupInv, RowsAgree, GroupAssumption
<1>8. Grows
  BY <1>3 DEF Grows
<1> QED
  BY <1>3, <1>4, <1>5, <1>6, <1>7, <1>8, GroupChanges DEF GroupInv, GroupTypeOK, BookingsAreDue

\* Who was charged is marked as paid in the copy that will be saved.
LEMMA ChargeHolds ==
  ASSUME GroupAssumption, GroupInv, NEW m \in People, ChargeMember(m)
  PROVE  GroupInv'
<1> DEFINE old == paying[m].copy
           read == [old EXCEPT !.members[m] = "paid"]
           status == IF AllPaid(read) THEN "paid" ELSE "partial_paid"
           written == [read EXCEPT !.group.status = status]
           step == IF AllPaid(read) THEN "confirm" ELSE "save"
           new == [step |-> step, seat |-> paying[m].seat, copy |-> written]
<1>1. paying[m] \in Payment /\ paying[m] # None /\ CopyAgrees(old) /\ old \in Copy
  BY DEF ChargeMember, GroupInv, GroupTypeOK, Payment, RowsAgree
<1>2. /\ paying' = [paying EXCEPT ![m] = new]
      /\ members' = [members EXCEPT ![m] = "paid"]
      /\ charged' = charged \cup {m} /\ seatsAvailable' \in Int
      /\ UNCHANGED <<group, approval, saving, confirming, booked, groupCalls>>
  BY DEF ChargeMember, GroupInv, GroupTypeOK
<1>3. Grows
  BY <1>2 DEF Grows
<1>4. read = [group |-> old.group, members |-> [old.members EXCEPT ![m] = "paid"]]
  BY <1>1 DEF Copy
<1>5. read \in Copy
  BY <1>1, <1>4 DEF Copy, MemberStatus
<1>6. /\ written = [group |-> [old.group EXCEPT !.status = status],
                    members |-> [old.members EXCEPT ![m] = "paid"]]
      /\ status \in {"paid", "partial_paid"} /\ step \in {"confirm", "save"}
  <2> HIDE DEF read
  <2> QED  BY <1>4
<1>7. [old.group EXCEPT !.status = status] \in Group
  BY <1>1, <1>6 DEF Copy, Group
<1>8. written \in Copy /\ new \in Payment
  <2>1. written \in Copy
    BY <1>1, <1>6, <1>7 DEF Copy, MemberStatus
  <2> HIDE DEF written, step
  <2> QED  BY <1>1, <1>6, <2>1 DEF Payment
<1>9. CopyAgrees(paying[m].copy)'
  <2>1. paying'[m].copy = written
    BY <1>2 DEF GroupInv, GroupTypeOK
  <2>2. written.group.approval = old.group.approval
    BY <1>1, <1>6 DEF Copy, Group
  <2>3. \A n \in People : written.members[n] = "paid" => n = m \/ old.members[n] = "paid"
    BY <1>1, <1>6 DEF Copy
  <2> HIDE DEF written
  <2> QED  BY <1>1, <1>2, <2>1, <2>2, <2>3 DEF CopyAgrees, GroupAgrees, MembersAgree
<1> HIDE DEF new, written
<1>10. \A n \in People : paying'[n] # None =>
          paying'[n] = paying[n] \/ CopyAgrees(paying[n].copy)'
  BY <1>2, <1>9 DEF GroupInv, GroupTypeOK
<1>11. /\ paying' \in [People -> Payment \cup {None}]
       /\ members' \in [People -> MemberStatus] /\ MembersAgree(members)'
  BY <1>2, <1>8 DEF GroupInv, GroupTypeOK, RowsAgree, MembersAgree, MemberStatus
<1>12. group' \in Group /\ GroupAgrees(group)'
  BY <1>1, <1>2 DEF GroupInv, GroupTypeOK, NothingBeforeTheGroup, RowsAgree, GroupAgrees
<1> QED
  BY <1>2, <1>3, <1>10, <1>11, <1>12, GroupChanges DEF GroupInv, GroupTypeOK, BookingsAreDue

\* The payment that finds everyone paid has those booked who were charged, unless
\* it asks for an approval.
LEMMA PaymentConfirmsHolds ==
  ASSUME GroupAssumption, GroupInv, NEW m \in People, PaymentConfirms(m)
  PROVE  GroupInv'
<1> DEFINE new == [paying[m] EXCEPT !.step = "save"]
<1>1. paying[m] \in Payment /\ paying[m] # None /\ CopyAgrees(paying[m].copy)
  BY DEF PaymentConfirms, GroupInv, GroupTypeOK, RowsAgree
<1>2. /\ paying' = [paying EXCEPT ![m] = new]
      /\ UNCHANGED <<group, members, seatsAvailable, approval, saving, booked, charged, groupCalls>>
      /\ ConfirmGroupBooking(m, group)
  BY DEF PaymentConfirms
<1>3. group # None /\ group \in Group /\ GroupAgrees(group) /\ m \in Confirmers
  BY <1>1 DEF GroupInv, GroupTypeOK, NothingBeforeTheGroup, RowsAgree, Confirmers
<1>4. Grows /\ GroupAgrees(group)'
  BY <1>2, <1>3 DEF Grows, GroupAgrees
<1>5. /\ confirming' \in [Confirmers -> Confirmation \cup {None}]
      /\ \A d \in Confirmers : confirming'[d] # None =>
            confirming'[d] = confirming[d] \/ ConfirmationAgrees(confirming[d])'
  BY <1>2, <1>3, <1>4, ConfirmHolds DEF GroupAgrees
<1>6. new \in Payment /\ new.copy = paying[m].copy
  BY <1>1 DEF Payment
<1>7. CopyAgrees(paying[m].copy)'
  <2>1. paying'[m].copy = paying[m].copy
    BY <1>2, <1>6 DEF GroupInv, GroupTypeOK
  <2> QED  BY <1>1, <1>2, <2>1 DEF CopyAgrees, GroupAgrees, MembersAgree
<1> HIDE DEF new
<1>8. /\ paying' \in [People -> Payment \cup {None}]
      /\ \A n \in People : paying'[n] # None =>
            paying'[n] = paying[n] \/ CopyAgrees(paying[n].copy)'
  BY <1>2, <1>6, <1>7 DEF GroupInv, GroupTypeOK
<1>9. members' \in [People -> MemberStatus] /\ MembersAgree(members)'
  BY <1>2 DEF GroupInv, GroupTypeOK, RowsAgree, MembersAgree
<1> QED
  BY <1>2, <1>3, <1>4, <1>5, <1>8, <1>9, GroupChanges DEF GroupInv, GroupTypeOK, BookingsAreDue

\* Whoever a confirmation books was charged, or is the organizer.
LEMMA BookMemberHolds ==
  ASSUME GroupAssumption, GroupInv, NEW c \in Confirmers, NEW m \in People, BookMember(c, m)
  PROVE  GroupInv'
<1> PICK old \in Confirmation : old = confirming[c]
  BY DEF BookMember, GroupInv, GroupTypeOK
<1> PICK new : new = [old EXCEPT !.due = @ \ {m}]
  OBVIOUS
<1>1. /\ confirming[c] # None /\ m \in old.due /\ confirming' = [confirming EXCEPT ![c] = new]
      /\ booked' = booked \cup {m}
      /\ UNCHANGED <<group, members, seatsAvailable, approval, paying, saving,
                     charged, groupCalls>>
  BY DEF BookMember
<1>2. ConfirmationAgrees(old)
  BY <1>1 DEF GroupInv, RowsAgree
<1>3. new \in Confirmation /\ new.copy = old.copy /\ new.due \subseteq old.due
  BY DEF Confirmation
<1>4. confirming'[c] = new /\ \A d \in Confirmers : d # c => confirming'[d] = confirming[d]
  BY <1>1 DEF GroupInv, GroupTypeOK
<1>5. ConfirmationAgrees(confirming[c])'
  BY <1>1, <1>2, <1>3, <1>4 DEF ConfirmationAgrees, CopyAgrees, GroupAgrees, MembersAgree
<1>6. /\ confirming' \in [Confirmers -> Confirmation \cup {None}]
      /\ \A d \in Confirmers : confirming'[d] # None =>
            confirming'[d] = confirming[d] \/ ConfirmationAgrees(confirming[d])'
  BY <1>1, <1>3, <1>4, <1>5 DEF GroupInv, GroupTypeOK
<1>7. /\ booked' \subseteq People /\ booked' \subseteq charged' \cup {Organizer}
      /\ booked' # {} => approval' # "pending"
  BY <1>1, <1>2 DEF ConfirmationAgrees, GroupInv, GroupTypeOK, BookingsAreDue
<1>8. group # None
  BY <1>1 DEF GroupInv, NothingBeforeTheGroup
<1>9. /\ Grows /\ group' \in Group /\ GroupAgrees(group)'
      /\ members' \in [People -> MemberStatus] /\ MembersAgree(members)'
  BY <1>1, <1>8 DEF Grows, GroupInv, GroupTypeOK, RowsAgree, GroupAgrees, MembersAgree
<1> QED
  BY <1>1, <1>6, <1>7, <1>9, GroupChanges DEF GroupInv, GroupTypeOK

\* The copy a confirmation saves agrees.
LEMMA GroupConfirmedHolds ==
  ASSUME GroupAssumption, GroupInv, NEW c \in Confirmers, GroupConfirmed(c)
  PROVE  GroupInv'
<1> PICK old \in Confirmation : old = confirming[c]
  BY DEF GroupConfirmed, GroupInv, GroupTypeOK
<1> PICK read : read = [old.copy EXCEPT !.group.status = "confirmed"]
  OBVIOUS
<1>1. /\ confirming[c] # None /\ SaveGroup(read)
      /\ confirming' = [confirming EXCEPT ![c] = None]
      /\ UNCHANGED <<seatsAvailable, approval, paying, saving, booked, charged, groupCalls>>
  BY DEF GroupConfirmed
<1>2. CopyAgrees(old.copy) /\ old.copy \in Copy
  BY <1>1 DEF GroupInv, RowsAgree, ConfirmationAgrees, Confirmation
<1>3. read \in Copy /\ CopyAgrees(read)
  BY <1>2, StatusChanges
<1>4. Grows
  BY <1>1 DEF Grows
<1>5. /\ group' \in Group /\ members' \in [People -> MemberStatus]
      /\ GroupAgrees(group)' /\ MembersAgree(members)'
  BY <1>1, <1>3, <1>4, SaveGroupHolds
<1>6. /\ confirming' \in [Confirmers -> Confirmation \cup {None}]
      /\ \A d \in Confirmers : confirming'[d] # None => confirming'[d] = confirming[d]
  BY <1>1 DEF GroupInv, GroupTypeOK
<1> QED
  BY <1>1, <1>4, <1>5, <1>6, GroupChanges DEF GroupInv, GroupTypeOK, BookingsAreDue

\* A payment saves the copy it had.
LEMMA PaymentSavedHolds ==
  ASSUME GroupAssumption, GroupInv, NEW m \in People, PaymentSaved(m)
  PROVE  GroupInv'
<1>1. paying[m].copy \in Copy /\ CopyAgrees(paying[m].copy)
  BY DEF PaymentSaved, GroupInv, GroupTypeOK, RowsAgree, Payment
<1>2. /\ SaveGroup(paying[m].copy) /\ paying' = [paying EXCEPT ![m] = None]
      /\ UNCHANGED <<seatsAvailable, approval, saving, confirming, booked, charged, groupCalls>>
  BY DEF PaymentSaved
<1>3. Grows
  BY <1>2 DEF Grows
<1>4. /\ group' \in Group /\ members' \in [People -> MemberStatus]
      /\ GroupAgrees(group)' /\ MembersAgree(members)'
  BY <1>1, <1>2, <1>3, SaveGroupHolds
<1>5. /\ paying' \in [People -> Payment \cup {None}]
      /\ \A n \in People : paying'[n] # None => paying'[n] = paying[n]
  BY <1>2 DEF GroupInv, GroupTypeOK
<1> QED
  BY <1>2, <1>3, <1>4, <1>5, GroupChanges DEF GroupInv, GroupTypeOK, BookingsAreDue

\* A call that fails forgets its copy.
LEMMA GroupCallFailsHolds ==
  ASSUME GroupAssumption, GroupInv, GroupCallFails
  PROVE  GroupInv'
<1>1. UNCHANGED <<group, members, seatsAvailable, approval, booked, charged, groupCalls>>
  BY DEF GroupCallFails
<1>2. /\ paying' \in [People -> Payment \cup {None}]
      /\ \A n \in People : paying'[n] # None => paying'[n] = paying[n]
      /\ saving' \in {None, saving}
  BY DEF GroupCallFails, GroupInv, GroupTypeOK
<1>3. /\ confirming' \in [Confirmers -> Confirmation \cup {None}]
      /\ \A d \in Confirmers : confirming'[d] # None => confirming'[d] = confirming[d]
  BY DEF GroupCallFails, GroupInv, GroupTypeOK
<1>4. group # None
  BY DEF GroupCallFails, GroupInv, NothingBeforeTheGroup, Confirmers
<1>5. /\ Grows /\ group' \in Group /\ GroupAgrees(group)'
      /\ members' \in [People -> MemberStatus] /\ MembersAgree(members)'
  BY <1>1, <1>4 DEF Grows, GroupInv, GroupTypeOK, RowsAgree, GroupAgrees, MembersAgree
<1> QED
  BY <1>1, <1>2, <1>3, <1>5, GroupChanges DEF GroupInv, GroupTypeOK, BookingsAreDue

\* The decision of an approval, and the end of a group.
LEMMA ApprovalHolds ==
  ASSUME GroupAssumption, GroupInv, ApproveBooking \/ RejectBooking
  PROVE  GroupInv'
<1>1. /\ UNCHANGED <<members, seatsAvailable, paying, saving, booked, charged, groupCalls>>
      /\ approval' \in {"approved", "rejected"} /\ approval = "pending"
  BY DEF ApproveBooking, RejectBooking
<1>2. group # None /\ group \in Group
  BY <1>1 DEF GroupInv, GroupTypeOK, NothingBeforeTheGroup, GroupAssumption
<1>3. group' \in Group
  BY <1>2 DEF ApproveBooking, RejectBooking, Group
<1>4. Grows /\ GroupAgrees(group)' /\ MembersAgree(members)'
  BY <1>1 DEF Grows, GroupAgrees, MembersAgree, GroupInv, RowsAgree
<1>5. /\ confirming' \in [Confirmers -> Confirmation \cup {None}]
      /\ \A d \in Confirmers : confirming'[d] # None =>
            confirming'[d] = confirming[d] \/ ConfirmationAgrees(confirming[d])'
  <2>1. CASE confirming' = confirming
    BY <2>1 DEF GroupInv, GroupTypeOK
  <2>2. CASE ConfirmGroupBooking(None, group')
    <3>1. None \in Confirmers
      BY DEF Confirmers
    <3> PICK g : g = group'
      OBVIOUS
    <3>2. ConfirmGroupBooking(None, g)
      BY <2>2 DEF ConfirmGroupBooking
    <3> QED  BY <1>1, <1>3, <1>4, <3>1, <3>2, ConfirmHolds
  <2> QED  BY <2>1, <2>2 DEF ApproveBooking, RejectBooking
<1> QED
  BY <1>1, <1>3, <1>4, <1>5, GroupChanges DEF GroupInv, GroupTypeOK, BookingsAreDue

\* A cancellation changes only the status of the group.
LEMMA CancelGroupHolds ==
  ASSUME GroupAssumption, GroupInv, CancelGroupBooking
  PROVE  GroupInv'
<1>1. /\ UNCHANGED <<members, seatsAvailable, approval, paying, saving, confirming, booked,
                     charged, groupCalls>>
      /\ group # None /\ group' = [group EXCEPT !.status = "cancelled"]
  BY DEF CancelGroupBooking, Open
<1>2. group' \in Group /\ group'.approval = group.approval
  BY <1>1 DEF GroupInv, GroupTypeOK, Group
<1>3. Grows /\ GroupAgrees(group)' /\ MembersAgree(members)'
  BY <1>1, <1>2 DEF Grows, GroupAgrees, MembersAgree, GroupInv, RowsAgree
<1> QED
  BY <1>1, <1>2, <1>3, GroupChanges DEF GroupInv, GroupTypeOK, BookingsAreDue

\* Every step of a group booking keeps its rows in agreement.
LEMMA GroupStepHolds ==
  ASSUME GroupAssumption, GroupInv, [GroupNext]_groupVars
  PROVE  GroupInv'
<1>1. CASE UNCHANGED groupVars
  BY <1>1 DEF groupVars, GroupInv, GroupTypeOK, NothingBeforeTheGroup, RowsAgree, CopyAgrees,
              GroupAgrees, MembersAgree, BookingsAreDue, ConfirmationAgrees
<1>2. ASSUME NEW joining \in SUBSET People, NEW requires \in BOOLEAN,
             CreateGroupBooking(joining, requires)
      PROVE  GroupInv'
  BY <1>2, CreateGroupHolds
<1>3. ASSUME NEW invited \in SUBSET People, InviteMembers(invited)
      PROVE  GroupInv'
  BY <1>3, InviteHolds
<1>4. ASSUME NEW m \in People,
             \/ AcceptInvitation(m) \/ ProcessMemberPayment(m) \/ ChargeMember(m)
             \/ PaymentConfirms(m) \/ PaymentSaved(m)
      PROVE  GroupInv'
  BY <1>4, AcceptHolds, PaymentBeginsHolds, ChargeHolds, PaymentConfirmsHolds, PaymentSavedHolds
<1>5. CASE \/ InvitationsSent \/ SharesSaved \/ GroupCallFails
           \/ ApproveBooking \/ RejectBooking \/ CancelGroupBooking
  BY <1>5, InvitationsSentHolds, SharesSavedHolds, GroupCallFailsHolds, ApprovalHolds,
     CancelGroupHolds
<1>6. ASSUME NEW c \in Confirmers, GroupConfirmed(c) \/ \E m \in People : BookMember(c, m)
      PROVE  GroupInv'
  BY <1>6, GroupConfirmedHolds, BookMemberHolds
<1>7. \A invited \in SUBSET (People \ Present) : invited \in SUBSET People
  OBVIOUS
<1>8. \A joining \in SUBSET (People \ {Organizer}) : joining \in SUBSET People
  OBVIOUS
<1> QED
  BY <1>1, <1>2, <1>3, <1>4, <1>5, <1>6, <1>7, <1>8 DEF GroupNext
-----------------------------------------------------------------------------
(***************************************************************************)
(* Proofs: the refunds.                                                    *)
(***************************************************************************)

\* No refund is made and no call is under way at first.
LEMMA RefundsInitHolds == ASSUME RefundsAssumption  PROVE  RefundsInit => RefundsInv
<1> SUFFICES ASSUME RefundsInit  PROVE  RefundsInv
  OBVIOUS
<1>1. RefundsTypeOK
  <2>1. onchain \in BOOLEAN /\ bycard \in BOOLEAN /\ cycling \in BOOLEAN
    BY DEF RefundsInit
  <2>2. date \in Nat /\ calls \in 0..MaxCalls /\ failures \in 0..MaxFailures
    BY DEF RefundsAssumption, RefundsInit
  <2>3. /\ refund \in [Refunds -> Status \cup {None}] /\ until \in [Refunds -> Nat \cup {None}]
        /\ call \in [Workers -> Call \cup {None}] /\ paid \in [Refunds -> Nat]
        /\ ready = {} /\ hashed = {} /\ decided = {} /\ cancelled = {} /\ payable = {}
        /\ waived = {} /\ cut = {}
    BY DEF RefundsInit
  <2> QED  BY <2>1, <2>2, <2>3 DEF RefundsTypeOK
<1>2. /\ \A r \in Refunds : refund[r] = None /\ until[r] = None /\ paid[r] = 0
      /\ \A w \in Workers : call[w] = None
      /\ hashed = {} /\ None \notin Status
  BY DEF RefundsAssumption, RefundsInit
<1>3. \A r \in Refunds : refund[r] \notin {"onchain_pending", "onchain_submitted", "completed"}
  BY <1>2 DEF Status
<1> QED
  BY <1>1, <1>2, <1>3 DEF RefundsInv, CallsHaveRows, UnmadeRows, AfterPayment, BeforePayment

Paid == {"onchain_pending", "onchain_submitted", "completed"}

\* What a call may leave row r as, and the step it may go on to.
MayBecome(r, status) == status \in Status /\ (status \in Paid => Settled(r)')
MayGoOn(r, next) ==
    /\ next \in Call \cup {None}
    /\ next # None =>
          /\ next.row = r /\ next.step # "create"
          /\ next.step \in {"finish", "submit"} => Settled(r)'
          /\ next.step \notin {"cancel", "notify", "submit"} => PaymentDue(r)'
          /\ next.step = "override" => r \in decided'

\* Such a step of one call, on the row it has; a payment is of that row and due.
RowStep(w, r, status, next) ==
    /\ MayBecome(r, status) /\ refund' = [refund EXCEPT ![r] = status]
    /\ MayGoOn(r, next) /\ call' = [call EXCEPT ![w] = next]
    /\ paid' \in [Refunds -> Nat]
    /\ \A p \in Refunds : paid'[p] >= paid[p] /\ (p # r => paid'[p] = paid[p])
    /\ paid'[r] > 0 => paid[r] > 0 \/ PaymentDue(r)'
    /\ hashed' \subseteq hashed \cup {r} /\ (hashed' = hashed \/ Settled(r)')

\* What was approved, and what of it is paid by card.
Approved ==
    /\ payable' \subseteq Refunds /\ cut' \subseteq Refunds
    /\ waived \subseteq waived' /\ waived' \subseteq Refunds

\* Who has acted on what, and what is counted.
Recorded ==
    /\ UNCHANGED <<date, bookingVars, until, cycling>> /\ Approved
    /\ ready' \subseteq ready /\ cancelled' \subseteq Refunds
    /\ decided \subseteq decided' /\ decided' \subseteq Refunds
    /\ calls' \in 0..MaxCalls /\ failures' \in 0..MaxFailures

\* A step of one call on one row keeps the invariant, as long as the call may go
\* on as it does.
LEMMA RowStepHolds ==
  ASSUME RefundsAssumption, RefundsInv, NEW w \in Workers, NEW r \in Refunds,
         NEW status, NEW next, RowStep(w, r, status, next), Recorded
  PROVE  RefundsInv'
<1> USE DEF RefundsInv, RowStep, Recorded, Approved, bookingVars
<1>0. status # None /\ status \in Status
  BY DEF MayBecome, RefundsAssumption
<1>1. RefundsTypeOK'
  BY <1>0 DEF RefundsTypeOK, MayGoOn
<1>2. /\ refund'[r] = status
      /\ \A p \in Refunds : refund'[p] = None => p # r /\ refund[p] = None
  BY <1>0 DEF RefundsTypeOK
<1>3. \A p \in Refunds : PaymentDue(p) => PaymentDue(p)'
  BY DEF PaymentDue, Expired
<1>4. \A v \in Workers : v # w => call'[v] = call[v]
  BY DEF RefundsTypeOK
<1>5. w \in Workers /\ call'[w] = next
  BY DEF RefundsTypeOK
<1>6. CallsHaveRows'
  BY <1>0, <1>2, <1>4, <1>5 DEF CallsHaveRows, MayGoOn
<1>7. UnmadeRows'
  BY <1>0, <1>2 DEF UnmadeRows
<1>8. AfterPayment'
  <2>0. \A p \in Refunds : Settled(p) => Settled(p)'
    <3> SUFFICES ASSUME NEW p \in Refunds, Settled(p)
                 PROVE  Settled(p)'
      OBVIOUS
    <3>1. paid[p] \in Nat /\ paid'[p] \in Nat /\ paid'[p] >= paid[p]
      BY DEF RefundsTypeOK
    <3> QED  BY <3>1 DEF Settled
  <2>1. ASSUME NEW p \in Refunds, refund'[p] \in Paid \/ p \in hashed'
        PROVE  Settled(p)'
    <3>1. refund'[p] = IF p = r THEN status ELSE refund[p]
      BY <1>0 DEF RefundsTypeOK
    <3>2. CASE p = r /\ refund'[p] \in Paid
      BY <3>1, <3>2 DEF MayBecome
    <3>3. CASE p # r \/ refund'[p] \notin Paid
      BY <2>0, <2>1, <3>1, <3>3 DEF AfterPayment, Paid
    <3> QED  BY <3>2, <3>3
  <2>2. ASSUME NEW v \in Workers, call'[v] # None, call'[v].step \in {"finish", "submit"}
        PROVE  Settled(call[v].row)'
    <3>1. CASE v = w
      BY <1>5, <2>2, <3>1 DEF MayGoOn, Settled
    <3>2. CASE v # w
      <4>1. call'[v] = call[v] /\ call[v].row \in Refunds /\ Settled(call[v].row)
        BY <1>4, <2>2, <3>2 DEF AfterPayment, CallsHaveRows
      <4> PICK p \in Refunds : p = call[v].row
        BY <4>1
      <4>2. Settled(p)'
        BY <2>0, <4>1
      <4> QED  BY <4>1, <4>2 DEF Settled
    <3> QED  BY <3>1, <3>2
  <2> QED  BY <2>1, <2>2 DEF AfterPayment, Paid
<1>9. BeforePayment'
  <2>1. ASSUME NEW p \in Refunds, paid'[p] > 0
        PROVE  PaymentDue(p)'
    <3>1. p # r => PaymentDue(p)
      BY <2>1 DEF BeforePayment
    <3>2. p = r => PaymentDue(p) \/ PaymentDue(p)'
      BY <2>1 DEF BeforePayment
    <3> QED  BY <1>3, <3>1, <3>2
  <2>2. ASSUME NEW v \in Workers, call'[v] # None
        PROVE  /\ call'[v].step \notin {"create", "cancel", "notify", "submit"} => PaymentDue(call[v].row)'
               /\ call'[v].step = "override" => call'[v].row \in decided'
    <3>1. CASE v = w
      <4>1. next # None /\ next = call'[v]
        BY <1>5, <2>2, <3>1
      <4>2. next.row = r
        BY <4>1 DEF MayGoOn
      <4>3. next.step \notin {"cancel", "notify", "submit"} => PaymentDue(r)'
        BY <4>1 DEF MayGoOn
      <4> QED  BY <4>1, <4>2, <4>3 DEF MayGoOn, PaymentDue, Expired
    <3>2. CASE v # w
      <4>1. call'[v] = call[v]
        BY <1>4, <3>2
      <4>2. /\ call[v].step \notin {"create", "cancel", "notify", "submit"} =>
                  call[v].row \in Refunds /\ PaymentDue(call[v].row)
            /\ call[v].step = "override" => call[v].row \in decided
        BY <2>2, <4>1 DEF BeforePayment, CallsHaveRows
      <4> QED  BY <4>1, <4>2 DEF PaymentDue, Expired
    <3> QED  BY <3>1, <3>2
  <2> QED  BY <2>1, <2>2 DEF BeforePayment
<1> QED
  BY <1>1, <1>6, <1>7, <1>8, <1>9
\* A call of a route is begun by a caller that has none.
LEMMA BeginTypes ==
  ASSUME RefundsAssumption, RefundsInv, NEW w \in RefundCallers, Begin(w)
  PROVE  w \in Workers /\ calls' \in 0..MaxCalls
BY DEF RefundsAssumption, RefundsInv, RefundsTypeOK, Begin, Workers

\* The row of a call is one that was made.
LEMMA RowOfCall ==
  ASSUME RefundsInv, NEW w \in Workers, NEW step \in Steps \ {"create"}, AtStep(w, step)
  PROVE  /\ Row(w) \in Rows /\ Row(w) \in Refunds
         /\ step \notin {"cancel", "notify", "submit"} => PaymentDue(Row(w))
         /\ step \in {"finish", "submit"} => Settled(Row(w))
         /\ step = "override" => Row(w) \in decided
BY DEF RefundsInv, AtStep, Row, Rows, CallsHaveRows, AfterPayment, BeforePayment

\* A call that goes on, by its step.
LEMMA CallHolds ==
  ASSUME RefundsAssumption, RefundsInv, NEW w \in Workers, CallGoesOn(w), ~CreateRefund(w)
  PROVE  RefundsInv'
<1> USE DEF RefundsAssumption
<1>1. PICK step \in Steps \ {"create"} : AtStep(w, step)
  BY DEF CallGoesOn, Judge, ApproveRefund, ProcessRefund, MarkProcessing, RefundByStripe,
         NothingByCard, FinishRefund, RefundAnnounced, SubmissionSaved, CancellationSaved,
         OverrideSaved, Steps
<1>0. PICK r \in Rows : r = Row(w)
  BY <1>1, RowOfCall
<1> DEFINE with(s, b) == [row |-> r, step |-> s, payable |-> b]
           to(s) == with(s, FALSE)
<1>2. r \in Rows /\ r \in Refunds /\ refund[r] \in Status /\ paid[r] \in Nat
  BY <1>0, <1>1, RowOfCall DEF RefundsInv, RefundsTypeOK, Rows
<1>3. /\ step \notin {"cancel", "notify", "submit"} => PaymentDue(r)
      /\ step \in {"finish", "submit"} => Settled(r)
      /\ step = "override" => r \in decided
  BY <1>0, <1>1, RowOfCall
<1>4. \A s \in Steps, b \in BOOLEAN :
        with(s, b) \in Call /\ with(s, b).row = r /\ with(s, b).step = s
  BY <1>2 DEF Call
<1>5. /\ cancelled \subseteq Refunds /\ decided \subseteq Refunds /\ payable \subseteq Refunds
      /\ waived \subseteq Refunds /\ cut \subseteq Refunds
      /\ calls \in 0..MaxCalls /\ failures \in 0..MaxFailures
      /\ paid \in [Refunds -> Nat] /\ refund \in [Refunds -> Status \cup {None}]
  BY DEF RefundsInv, RefundsTypeOK
<1>6. Recorded => (PaymentDue(r) => PaymentDue(r)')
  BY DEF PaymentDue, Expired, Recorded
<1>7. refund[r] \in Paid => Settled(r)
  BY <1>2 DEF RefundsInv, AfterPayment, Paid
<1>8. UNCHANGED paid /\ waived \subseteq waived' => (Settled(r) => Settled(r)')
  BY DEF Settled
<1>9. ASSUME Recorded, NEW status \in Status, refund' = [refund EXCEPT ![r] = status],
             NEW next, MayGoOn(r, next), call' = [call EXCEPT ![w] = next],
             \/ paid' = paid
             \/ step = "pay" /\ paid' = [paid EXCEPT ![r] = @ + 1],
             status \in Paid => Settled(r)',
             hashed' = hashed \/ (hashed' = hashed \cup {r} /\ Settled(r)')
      PROVE  RefundsInv'
  <2>1. /\ paid' \in [Refunds -> Nat] /\ \A p \in Refunds : paid'[p] >= paid[p]
        /\ \A p \in Refunds \ {r} : paid'[p] = paid[p]
    BY <1>2, <1>5, <1>9
  <2>2. paid'[r] > 0 => paid[r] > 0 \/ PaymentDue(r)'
    BY <1>2, <1>3, <1>5, <1>6, <1>9
  <2>3. RowStep(w, r, status, next)
    BY <1>9, <2>1, <2>2 DEF MayBecome, RowStep
  <2> HIDE DEF to, with
  <2> QED  BY <1>2, <1>9, <2>3, RowStepHolds
<1>10. MayGoOn(r, None)
  BY DEF MayGoOn
<1>11. ASSUME Recorded, NEW s \in Steps \ {"create", "override"}, NEW b \in BOOLEAN,
              s \in {"notify", "submit"} \/ step \notin {"cancel", "notify", "submit"},
              s \in {"finish", "submit"} => Settled(r)'
       PROVE  MayGoOn(r, with(s, b))
  BY <1>3, <1>4, <1>6, <1>11 DEF MayGoOn
<1>12. refund' = refund => refund' = [refund EXCEPT ![r] = refund[r]]
  BY <1>2, <1>5
<1>13. CASE Judge(w)
  <2>1. step = "judge" /\ UNCHANGED <<paid, waived, hashed>> /\ Recorded
    BY <1>1, <1>5, <1>13 DEF Judge, AtStep, Recorded, Approved, jobVars
  <2>2. MayGoOn(r, to("approve"))
    BY <1>11, <2>1 DEF Steps
  <2>3. \/ refund' = refund /\ call' = [call EXCEPT ![w] = to("approve")]
        \/ \E status \in {"manual_review", "rejected"} :
              refund' = [refund EXCEPT ![r] = status] /\ call' = [call EXCEPT ![w] = None]
    BY <1>0, <1>13 DEF Judge, SaveRow, Go, Done
  <2> HIDE DEF to, with
  <2> QED  BY <1>2, <1>7, <1>8, <1>9, <1>10, <1>12, <2>1, <2>2, <2>3 DEF Status, Paid
<1>14. CASE ApproveRefund(w)
  <2>1. /\ step = "approve" /\ UNCHANGED <<paid, waived, hashed>>
        /\ payable' \subseteq Refunds /\ cut' \subseteq Refunds
    BY <1>0, <1>1, <1>2, <1>5, <1>14 DEF ApproveRefund, AtStep, SaveApproval
  <2>2. Recorded
    BY <1>5, <1>14, <2>1 DEF ApproveRefund, Recorded, Approved, jobVars
  <2>3. MayGoOn(r, to("process"))
    BY <1>11, <2>1, <2>2 DEF Steps
  <2>4. refund' = [refund EXCEPT ![r] = "approved"] /\ call' = [call EXCEPT ![w] = to("process")]
    BY <1>0, <1>14 DEF ApproveRefund, SaveApproval, SaveRow, Go
  <2> HIDE DEF to, with
  <2> QED  BY <1>9, <2>1, <2>2, <2>3, <2>4 DEF Status, Paid
<1>15. CASE ProcessRefund(w)
  <2>1. step = "process" /\ UNCHANGED <<paid, waived, hashed>> /\ Recorded
    BY <1>1, <1>5, <1>15 DEF ProcessRefund, AtStep, Recorded, Approved, jobVars
  <2>2. \A b \in BOOLEAN : MayGoOn(r, with("mark", b))
    BY <1>11, <2>1 DEF Steps
  <2>3. /\ refund' = refund
        /\ \/ \E b \in BOOLEAN : call' = [call EXCEPT ![w] = with("mark", b)]
           \/ call' = [call EXCEPT ![w] = None]
    <3>1. PICK b \in BOOLEAN : b <=> (r \in payable)
      BY Zenon
    <3>2. /\ refund' = refund
          /\ \/ call' = [call EXCEPT ![w] = with("mark", b)]
             \/ call' = [call EXCEPT ![w] = None]
      BY <1>0, <1>15, <3>1 DEF ProcessRefund, Done
    <3> QED  BY <3>2
  <2> HIDE DEF to, with
  <2> QED  BY <1>2, <1>7, <1>8, <1>9, <1>10, <1>12, <2>1, <2>2, <2>3
<1>16. CASE MarkProcessing(w)
  <2>1. step = "mark" /\ UNCHANGED <<paid, waived, hashed>> /\ Recorded
    BY <1>1, <1>5, <1>16 DEF MarkProcessing, AtStep, Recorded, Approved, jobVars
  <2>2. PICK b \in BOOLEAN : call[w] = with("mark", b)
    <3>1. call[w] \in Call /\ call[w].row = r /\ call[w].step = "mark"
      BY <1>0, <1>1, <2>1 DEF AtStep, Row, RefundsInv, RefundsTypeOK
    <3> QED  BY <3>1 DEF Call
  <2>3. MayGoOn(r, with("pay", b))
    BY <1>11, <2>1 DEF Steps
  <2>4. [call[w] EXCEPT !.step = "pay"] = with("pay", b)
    BY <2>2
  <2>5. call' = [call EXCEPT ![w] = with("pay", b)]
    <3> HIDE DEF with
    <3> QED  BY <1>16, <2>4 DEF MarkProcessing
  <2>6. refund' = [refund EXCEPT ![r] = "processing"]
    BY <1>0, <1>16 DEF MarkProcessing, SaveRow
  <2> HIDE DEF to, with
  <2> QED  BY <1>9, <2>1, <2>3, <2>5, <2>6 DEF Status, Paid
<1>17. CASE RefundByStripe(w)
  <2>1. step = "pay" /\ UNCHANGED <<waived, hashed>> /\ Recorded
    BY <1>1, <1>5, <1>17 DEF RefundByStripe, AtStep, Recorded, Approved, jobVars
  <2>2. \/ /\ refund' = [refund EXCEPT ![r] = "stripe_refunded"]
           /\ call' = [call EXCEPT ![w] = to("finish")]
           /\ paid' = [paid EXCEPT ![r] = @ + 1]
        \/ /\ refund' = [refund EXCEPT ![r] = "failed"] /\ call' = [call EXCEPT ![w] = None]
           /\ paid' = paid \/ paid' = [paid EXCEPT ![r] = @ + 1]
    BY <1>0, <1>17 DEF RefundByStripe, SaveRow, Go, Done
  <2>3. paid' = [paid EXCEPT ![r] = @ + 1] => Settled(r)'
    BY <1>2, <1>5 DEF Settled
  <2>4. Settled(r)' => MayGoOn(r, to("finish"))
    BY <1>11, <2>1 DEF Steps
  <2> HIDE DEF to, with
  <2> QED  BY <1>9, <1>10, <2>1, <2>2, <2>3, <2>4 DEF Status, Paid
<1>18. CASE NothingByCard(w)
  <2>1. /\ step = "pay" /\ UNCHANGED <<refund, paid, hashed>> /\ waived' = waived \cup {r}
        /\ Settled(r)'
    BY <1>0, <1>1, <1>18 DEF NothingByCard, AtStep, Settled
  <2>2. Recorded
    BY <1>2, <1>5, <1>18, <2>1 DEF NothingByCard, Recorded, Approved, jobVars
  <2>3. MayGoOn(r, to("finish")) /\ call' = [call EXCEPT ![w] = to("finish")]
    BY <1>0, <1>11, <1>18, <2>1, <2>2 DEF NothingByCard, Go, Steps
  <2> HIDE DEF to, with
  <2> QED  BY <1>2, <1>9, <1>12, <2>1, <2>2, <2>3
<1>19. CASE FinishRefund(w)
  <2>1. step = "finish" /\ UNCHANGED <<paid, waived, hashed>> /\ Recorded /\ Settled(r)'
    BY <1>1, <1>3, <1>5, <1>8, <1>19 DEF FinishRefund, AtStep, Recorded, Approved, jobVars
  <2>2. MayGoOn(r, to("notify"))
    BY <1>11, <2>1 DEF Steps
  <2>3. /\ \E status \in {"onchain_pending", "completed", "failed"} :
              refund' = [refund EXCEPT ![r] = status]
        /\ \/ call' = [call EXCEPT ![w] = to("notify")]
           \/ call' = [call EXCEPT ![w] = None]
    BY <1>0, <1>19 DEF FinishRefund, SaveRow, Go, Done
  <2> HIDE DEF to, with
  <2> QED  BY <1>9, <1>10, <2>1, <2>2, <2>3 DEF Status, Paid
<1>20. CASE RefundAnnounced(w)
  <2>1. UNCHANGED <<paid, waived, hashed>> /\ Recorded
    BY <1>5, <1>20 DEF RefundAnnounced, Recorded, Approved, jobVars
  <2>2. /\ refund' = refund \/ refund' = [refund EXCEPT ![r] = "failed"]
        /\ call' = [call EXCEPT ![w] = None]
    BY <1>0, <1>20 DEF RefundAnnounced, SaveRow, Done
  <2> HIDE DEF to, with
  <2> QED  BY <1>2, <1>7, <1>8, <1>9, <1>10, <1>12, <2>1, <2>2 DEF Status, Paid
<1>21. CASE SubmissionSaved(w)
  <2>1. step = "submit" /\ UNCHANGED <<paid, waived>> /\ Recorded /\ Settled(r)'
    BY <1>1, <1>3, <1>5, <1>8, <1>21 DEF SubmissionSaved, AtStep, Recorded, Approved, jobVars
  <2>2. /\ \/ refund' = [refund EXCEPT ![r] = "onchain_submitted"] /\ hashed' = hashed \cup {r}
           \/ refund' = refund /\ hashed' = hashed
        /\ call' = [call EXCEPT ![w] = None]
    BY <1>0, <1>21 DEF SubmissionSaved, SaveRow, Done
  <2> HIDE DEF to, with
  <2> QED  BY <1>2, <1>9, <1>10, <1>12, <2>1, <2>2 DEF Status
<1>22. CASE CancellationSaved(w)
  <2>1. /\ UNCHANGED <<paid, waived, hashed>> /\ call' = [call EXCEPT ![w] = None]
        /\ refund' = [refund EXCEPT ![r] = "delayed_cancelled"]
        /\ cancelled' = cancelled \cup {r}
    BY <1>0, <1>22 DEF CancellationSaved, SaveRow, Done
  <2>2. Recorded
    BY <1>2, <1>5, <1>22, <2>1 DEF CancellationSaved, Recorded, Approved, jobVars
  <2> HIDE DEF to, with
  <2> QED  BY <1>9, <1>10, <2>1, <2>2 DEF Status, Paid
<1>23. CASE OverrideSaved(w)
  <2>1. step = "override" /\ UNCHANGED <<paid, waived, hashed>> /\ Recorded
    BY <1>1, <1>5, <1>23 DEF OverrideSaved, AtStep, Recorded, Approved, jobVars
  <2>2. MayGoOn(r, to("judge"))
    BY <1>11, <2>1 DEF Steps
  <2>3. /\ refund' = [refund EXCEPT ![r] = "delayed_pending"]
        /\ call' = [call EXCEPT ![w] = to("judge")]
    BY <1>0, <1>23 DEF OverrideSaved, SaveRow, Go
  <2> HIDE DEF to, with
  <2> QED  BY <1>9, <2>1, <2>2, <2>3 DEF Status, Paid
<1> QED
  BY <1>13, <1>14, <1>15, <1>16, <1>17, <1>18, <1>19, <1>20, <1>21, <1>22, <1>23 DEF CallGoesOn

\* Where calls end, the date passes or the job's list changes.
LEMMA CallsEndHolds ==
  ASSUME RefundsAssumption, RefundsInv,
         UNCHANGED <<bookingVars, refund, until, payable, hashed, paid, decided, cancelled, waived>>,
         cut' \subseteq Refunds, date' \in Nat, date' >= date, ready' \subseteq Refunds, cycling' \in BOOLEAN,
         call' \in [Workers -> Call \cup {None}],
         \A w \in Workers : call'[w] \in {call[w], None},
         calls' \in 0..MaxCalls, failures' \in 0..MaxFailures
  PROVE  RefundsInv'
<1> USE DEF RefundsInv, bookingVars
<1>1. RefundsTypeOK'
  BY DEF RefundsTypeOK
<1>2. \A r \in Refunds : PaymentDue(r) => PaymentDue(r)'
  BY DEF PaymentDue, Expired, RefundsTypeOK
<1>3. CallsHaveRows' /\ UnmadeRows'
  BY DEF CallsHaveRows, UnmadeRows
<1>4. AfterPayment'
  BY DEF AfterPayment, CallsHaveRows, Settled
<1>5. BeforePayment'
  <2>1. \A r \in Refunds : paid'[r] > 0 => PaymentDue(r)'
    BY <1>2 DEF BeforePayment
  <2>2. ASSUME NEW w \in Workers, call'[w] # None
        PROVE  /\ call'[w].step \notin {"create", "cancel", "notify", "submit"} => PaymentDue(call[w].row)'
               /\ call'[w].step = "override" => call'[w].row \in decided'
    <3>1. call'[w] = call[w]
      BY <2>2
    <3>2. /\ call[w].step \notin {"create", "cancel", "notify", "submit"} =>
                call[w].row \in Refunds /\ PaymentDue(call[w].row)
          /\ call[w].step = "override" => call[w].row \in decided
      BY <2>2, <3>1 DEF BeforePayment, CallsHaveRows
    <3>3. call[w].step \notin {"create", "cancel", "notify", "submit"} => PaymentDue(call[w].row)'
      <4> SUFFICES ASSUME NEW r \in Refunds, r = call[w].row, PaymentDue(r)
                   PROVE  PaymentDue(call[w].row)'
        BY <3>2
      <4>1. PaymentDue(r)'
        BY <1>2
      <4> QED  BY <3>1, <4>1 DEF PaymentDue, Expired
    <3> QED  BY <3>1, <3>2, <3>3
  <2> QED  BY <2>1, <2>2 DEF BeforePayment
<1> QED
  BY <1>1, <1>3, <1>4, <1>5

\* Where the chain's answer is written to a row that was settled.
LEMMA PaidRowHolds ==
  ASSUME RefundsAssumption, RefundsInv, NEW r \in Refunds, Settled(r),
         NEW status \in Status, refund' = [refund EXCEPT ![r] = status],
         UNCHANGED <<date, bookingVars, until, payable, call, jobVars, hashed, paid, decided,
                     cancelled, waived, cut, calls, failures>>
  PROVE  RefundsInv'
<1> USE DEF RefundsInv, bookingVars, jobVars
<1>0. status # None
  BY DEF RefundsAssumption
<1>1. RefundsTypeOK'
  BY DEF RefundsTypeOK
<1>2. \A p \in Refunds : refund'[p] = IF p = r THEN status ELSE refund[p]
  BY DEF RefundsTypeOK
<1>3. CallsHaveRows' /\ UnmadeRows'
  BY <1>0, <1>2 DEF CallsHaveRows, UnmadeRows
<1>4. AfterPayment'
  BY <1>2 DEF AfterPayment, CallsHaveRows, Settled
<1>5. BeforePayment'
  BY DEF BeforePayment, PaymentDue, Expired
<1> QED
  BY <1>1, <1>3, <1>4, <1>5

\* A request is under way, for no row yet.
LEMMA RequestBeginsHolds ==
  ASSUME RefundsAssumption, RefundsInv, NEW w \in RefundCallers, RequestDelayedRefund(w)
  PROVE  RefundsInv'
<1> USE DEF RefundsInv
<1> DEFINE new == [row |-> None, step |-> "create", payable |-> FALSE]
<1>1. /\ call' = [call EXCEPT ![w] = new] /\ w \in Workers /\ calls' \in 0..MaxCalls
      /\ UNCHANGED <<date, onchain, bycard, refund, until, payable, ready, cycling, hashed, paid,
                     decided, cancelled, waived, cut, failures>>
  BY BeginTypes DEF RequestDelayedRefund, Go, bookingVars, jobVars
<1>2. new \in Call /\ new.step = "create"
  BY DEF Call, Steps
<1> HIDE DEF new
<1>3. RefundsTypeOK'
  BY <1>1, <1>2 DEF RefundsTypeOK
<1>4. \A v \in Workers : v # w => call'[v] = call[v]
  BY <1>1 DEF RefundsTypeOK
<1>5. call'[w] = new
  BY <1>1 DEF RefundsTypeOK
<1>6. CallsHaveRows' /\ UnmadeRows'
  BY <1>1, <1>2, <1>4, <1>5 DEF CallsHaveRows, UnmadeRows
<1>7. AfterPayment'
  BY <1>1, <1>2, <1>4, <1>5 DEF AfterPayment, Settled
<1>8. BeforePayment'
  BY <1>1, <1>2, <1>4, <1>5 DEF BeforePayment, PaymentDue, Expired
<1> QED
  BY <1>3, <1>6, <1>7, <1>8

\* The row a request makes: it waits, or is judged at once.
LEMMA CreateHolds ==
  ASSUME RefundsAssumption, RefundsInv, NEW w \in Workers, CreateRefund(w)
  PROVE  RefundsInv'
<1> USE DEF RefundsAssumption
<1>1. PICK r \in Refunds \ Rows :
        \/ /\ SaveRow(r, "delayed_pending") /\ until' = [until EXCEPT ![r] = date + Delay]
           /\ Done(w)
        \/ SaveRow(r, "eligibility_check") /\ UNCHANGED until /\ Go(w, r, "judge")
  BY DEF CreateRefund
<1>2. refund[r] = None /\ until[r] = None /\ paid[r] = 0
  BY <1>1 DEF Rows, RefundsInv, UnmadeRows
<1>3. /\ UNCHANGED <<date, onchain, bycard, payable, ready, cycling, hashed, paid, decided,
                     cancelled, waived, cut, calls, failures>>
      /\ payable \subseteq Refunds /\ waived \subseteq Refunds /\ cut \subseteq Refunds
      /\ decided \subseteq Refunds /\ cancelled \subseteq Refunds
      /\ calls \in 0..MaxCalls /\ failures \in 0..MaxFailures /\ paid \in [Refunds -> Nat]
  BY DEF CreateRefund, RefundsInv, RefundsTypeOK, bookingVars, jobVars
<1>4. CASE SaveRow(r, "eligibility_check") /\ UNCHANGED until /\ Go(w, r, "judge")
  <2> DEFINE next == [row |-> r, step |-> "judge", payable |-> FALSE]
  <2>1. next \in Call /\ next.row = r /\ next.step = "judge"
    BY DEF Call, Steps
  <2>2. PaymentDue(r)'
    BY <1>2, <1>4 DEF PaymentDue
  <2>3. refund' = [refund EXCEPT ![r] = "eligibility_check"] /\ call' = [call EXCEPT ![w] = next]
    BY <1>4 DEF SaveRow, Go
  <2> HIDE DEF next
  <2>4. RowStep(w, r, "eligibility_check", next)
    BY <1>2, <1>3, <2>1, <2>2, <2>3 DEF RowStep, MayBecome, MayGoOn, Status, Paid
  <2>5. Recorded
    BY <1>3, <1>4 DEF Recorded, Approved, bookingVars
  <2> QED  BY <2>4, <2>5, RowStepHolds
<1>5. CASE /\ SaveRow(r, "delayed_pending") /\ until' = [until EXCEPT ![r] = date + Delay]
           /\ Done(w)
  <2> USE DEF RefundsInv
  <2>1. /\ refund' = [refund EXCEPT ![r] = "delayed_pending"]
        /\ call' = [call EXCEPT ![w] = None] /\ "delayed_pending" \in Status
        /\ "delayed_pending" \notin Paid
    BY <1>5 DEF SaveRow, Done, Status, Paid
  <2>2. RefundsTypeOK'
    BY <1>3, <1>5, <2>1 DEF RefundsTypeOK
  <2>3. /\ \A p \in Refunds : p # r => refund'[p] = refund[p] /\ until'[p] = until[p]
        /\ refund'[r] = "delayed_pending" /\ refund'[r] # None
        /\ \A v \in Workers : call'[v] \in {call[v], None}
    BY <1>5, <2>1 DEF RefundsTypeOK
  <2>4. \A v \in Workers : call[v] # None /\ call[v].step # "create" => call[v].row # r
    BY <1>2 DEF CallsHaveRows
  <2>5. CallsHaveRows' /\ UnmadeRows'
    BY <1>3, <2>3 DEF CallsHaveRows, UnmadeRows
  <2>6. AfterPayment'
    BY <1>3, <2>1, <2>3 DEF AfterPayment, Paid, Settled
  <2>7. BeforePayment'
    <3>1. \A p \in Refunds : paid'[p] > 0 => PaymentDue(p)'
      BY <1>2, <1>3, <2>3 DEF BeforePayment, PaymentDue, Expired
    <3>2. ASSUME NEW v \in Workers, call'[v] # None
          PROVE  /\ call'[v].step \notin {"create", "cancel", "notify", "submit"} => PaymentDue(call[v].row)'
                 /\ call'[v].step = "override" => call'[v].row \in decided'
      <4>1. call'[v] = call[v]
        BY <2>3, <3>2
      <4>2. /\ call[v].step \notin {"create", "cancel", "notify", "submit"} =>
                  /\ call[v].row \in Refunds /\ call[v].row # r
                  /\ PaymentDue(call[v].row)
            /\ call[v].step = "override" => call[v].row \in decided
        BY <2>4, <3>2, <4>1 DEF BeforePayment, CallsHaveRows
      <4> QED  BY <1>3, <2>3, <4>1, <4>2 DEF PaymentDue, Expired
    <3> QED  BY <3>1, <3>2 DEF BeforePayment
  <2> QED  BY <2>2, <2>5, <2>6, <2>7
<1> QED
  BY <1>1, <1>4, <1>5
\* What a call of a route does to the row it is about.
LEMMA RouteHolds ==
  ASSUME RefundsAssumption, RefundsInv, NEW w \in RefundCallers, Begin(w),
         NEW r \in Refunds, NEW status, NEW next, RowStep(w, r, status, next),
         UNCHANGED <<date, bookingVars, until, jobVars, cancelled, failures>>, Approved,
         decided' \in {decided, decided \cup {r}}
  PROVE  RefundsInv'
<1>1. Recorded
  BY BeginTypes DEF Recorded, RefundsInv, RefundsTypeOK, jobVars
<1> QED
  BY <1>1, BeginTypes, RowStepHolds

\* A route that leaves the payments alone: what the row becomes and where it goes on.
LEMMA RouteRow ==
  ASSUME RefundsInv, NEW r \in Refunds, NEW w, UNCHANGED <<paid, hashed, waived>>,
         NEW status \in Status, refund' = [refund EXCEPT ![r] = status],
         status \in Paid => Settled(r),
         NEW next, MayGoOn(r, next), call' = [call EXCEPT ![w] = next]
  PROVE  RowStep(w, r, status, next)
BY DEF RowStep, MayBecome, RefundsInv, RefundsTypeOK, Settled

\* The status a row has it may keep.
LEMMA SameStatus ==
  ASSUME RefundsInv, NEW r \in Rows
  PROVE  /\ refund[r] \in Status /\ refund = [refund EXCEPT ![r] = refund[r]]
         /\ refund[r] \in Paid => Settled(r)
BY DEF RefundsInv, RefundsTypeOK, Rows, AfterPayment, Paid

\* A step a call about row r may go on to.
LEMMA GoesOn ==
  ASSUME NEW r \in Refunds,
         NEW step \in {"judge", "approve", "process", "mark", "cancel", "override", "submit"},
         step \notin {"cancel", "submit"} => PaymentDue(r)', step = "override" => r \in decided',
         step = "submit" => Settled(r)'
  PROVE  MayGoOn(r, [row |-> r, step |-> step, payable |-> FALSE])
BY DEF MayGoOn, Call, Steps

\* An admin's decision makes a payment due.
LEMMA DecidedIsDue ==
  ASSUME NEW r \in Refunds, r \in decided'
  PROVE  PaymentDue(r)'
BY DEF PaymentDue

\* What a reviewer, an arbiter, the requester or an administrator starts on a
\* row.
LEMMA RoutesHold ==
  ASSUME RefundsAssumption, RefundsInv, NEW w \in RefundCallers, NEW r \in Refunds,
         \/ ManualReview(w, r) \/ CancelDelayedRefund(w, r) \/ ProcessDelayedRefund(w, r)
         \/ EmergencyOverrideDelayedRefund(w, r) \/ SubmitOnchainRefund(w, r)
  PROVE  RefundsInv'
<1> DEFINE to(s) == [row |-> r, step |-> s, payable |-> FALSE]
<1>1. /\ Begin(w) /\ r \in Rows /\ UNCHANGED <<paid, hashed, waived, payable, cut>>
      /\ UNCHANGED <<date, bookingVars, until, jobVars, cancelled, failures>>
      /\ decided' \in {decided, decided \cup {r}}
  BY DEF ManualReview, CancelDelayedRefund, ProcessDelayedRefund, EmergencyOverrideDelayedRefund,
         SubmitOnchainRefund, Begin, Waits, Rows, RefundsAssumption, Status
<1>0. Approved
  BY <1>1 DEF Approved, RefundsInv, RefundsTypeOK
<1>2. /\ refund[r] \in Status /\ refund = [refund EXCEPT ![r] = refund[r]]
      /\ refund[r] \in Paid => Settled(r)
  BY <1>1, SameStatus
<1>3. ASSUME NEW s \in {"approve", "cancel", "judge", "override", "submit"},
             refund' = refund, call' = [call EXCEPT ![w] = to(s)],
             s \notin {"cancel", "submit"} => PaymentDue(r)', s = "override" => r \in decided',
             s = "submit" => Settled(r)'
      PROVE  RefundsInv'
  <2>1. MayGoOn(r, to(s))
    BY <1>3, GoesOn
  <2> HIDE DEF to
  <2>2. RowStep(w, r, refund[r], to(s))
    BY <1>1, <1>2, <1>3, <2>1, RouteRow
  <2> QED  BY <1>0, <1>1, <2>2, RouteHolds
<1>4. CASE ManualReview(w, r)
  <2>1. PaymentDue(r)'
    BY <1>4, DecidedIsDue DEF ManualReview
  <2>2. CASE Go(w, r, "approve") /\ UNCHANGED refund
    BY <1>3, <2>1, <2>2 DEF Go
  <2>3. CASE SaveRow(r, "rejected") /\ UNCHANGED call
    <3>1. call' = [call EXCEPT ![w] = None]
      BY <1>1, <2>3 DEF Begin, RefundsInv, RefundsTypeOK
    <3>2. MayGoOn(r, None) /\ "rejected" \in Status /\ "rejected" \notin Paid
      BY DEF MayGoOn, Status, Paid
    <3>3. RowStep(w, r, "rejected", None)
      BY <1>1, <2>3, <3>1, <3>2, RouteRow DEF SaveRow
    <3> QED  BY <1>0, <1>1, <3>3, RouteHolds
  <2> QED  BY <1>4, <2>2, <2>3 DEF ManualReview
<1>5. CASE CancelDelayedRefund(w, r)
  BY <1>3, <1>5 DEF CancelDelayedRefund, Go
<1>6. CASE ProcessDelayedRefund(w, r)
  <2>1. PaymentDue(r)'
    BY <1>6 DEF ProcessDelayedRefund, PaymentDue, Expired
  <2> QED  BY <1>3, <1>6, <2>1 DEF ProcessDelayedRefund, Go
<1>7. CASE EmergencyOverrideDelayedRefund(w, r)
  <2>1. r \in decided' /\ PaymentDue(r)'
    BY <1>7, DecidedIsDue DEF EmergencyOverrideDelayedRefund
  <2> QED  BY <1>3, <1>7, <2>1 DEF EmergencyOverrideDelayedRefund, Go
<1>8. CASE SubmitOnchainRefund(w, r)
  <2>1. Settled(r)'
    BY <1>1, <1>2, <1>8 DEF SubmitOnchainRefund, Settled, Paid
  <2> QED  BY <1>3, <1>8, <2>1 DEF SubmitOnchainRefund, Go
<1> QED
  BY <1>4, <1>5, <1>6, <1>7, <1>8

\* The automated decision marks the refund as decided on, which makes its payment
\* due.
LEMMA AutomatedHolds ==
  ASSUME RefundsAssumption, RefundsInv, NEW w \in RefundCallers, ProcessAutomatedRefund(w)
  PROVE  RefundsInv'
<1>1. PICK r \in Refunds :
        /\ decided' = decided \cup {r}
        /\ \/ SaveApproval(r) /\ Go(w, r, "process")
           \/ SaveRow(r, "rejected") /\ UNCHANGED <<call, payable, cut>>
  BY DEF ProcessAutomatedRefund
<1>2. /\ Begin(w) /\ UNCHANGED <<paid, hashed, waived>>
      /\ UNCHANGED <<date, bookingVars, until, jobVars, cancelled, failures>>
  BY DEF ProcessAutomatedRefund, Begin
<1>0. Approved
  BY <1>1, <1>2 DEF SaveApproval, Approved, RefundsInv, RefundsTypeOK
<1>3. PaymentDue(r)'
  BY <1>1, DecidedIsDue
<1>4. CASE SaveApproval(r) /\ Go(w, r, "process")
  <2> DEFINE next == [row |-> r, step |-> "process", payable |-> FALSE]
  <2>1. MayGoOn(r, next)
    BY <1>3, GoesOn
  <2>2. call' = [call EXCEPT ![w] = next] /\ refund' = [refund EXCEPT ![r] = "approved"]
    BY <1>4 DEF Go, SaveApproval, SaveRow
  <2> HIDE DEF next
  <2>3. "approved" \in Status /\ "approved" \notin Paid
    BY DEF Status, Paid
  <2>4. RowStep(w, r, "approved", next)
    BY <1>2, <2>1, <2>2, <2>3, RouteRow
  <2> QED  BY <1>0, <1>1, <1>2, <2>4, RouteHolds
<1>5. CASE SaveRow(r, "rejected") /\ UNCHANGED <<call, payable, cut>>
  <2>1. call' = [call EXCEPT ![w] = None]
    BY <1>2, <1>5 DEF Begin, RefundsInv, RefundsTypeOK
  <2>2. MayGoOn(r, None) /\ "rejected" \in Status /\ "rejected" \notin Paid
    BY DEF MayGoOn, Status, Paid
  <2>3. RowStep(w, r, "rejected", None)
    BY <1>2, <1>5, <2>1, <2>2, RouteRow DEF SaveRow
  <2> QED  BY <1>0, <1>1, <1>2, <2>3, RouteHolds
<1> QED
  BY <1>1, <1>4, <1>5

\* The job's cycle, and what ends calls or passes time.
LEMMA CycleHolds ==
  ASSUME RefundsAssumption, RefundsInv, NEW r \in Refunds, CycleProcesses(r)
  PROVE  RefundsInv'
<1>1. /\ UNCHANGED <<date, bookingVars, refund, until, payable, cycling, hashed, paid, decided,
                     cancelled, waived, cut, calls, failures>>
      /\ ready' = ready \ {r} /\ call[Job] = None /\ Job \in Workers
  BY DEF CycleProcesses, Workers
<1>2. /\ date \in Nat /\ cycling \in BOOLEAN /\ ready \subseteq Refunds
      /\ cancelled \subseteq Refunds /\ decided \subseteq Refunds /\ payable \subseteq Refunds
      /\ waived \subseteq Refunds /\ cut \subseteq Refunds
      /\ calls \in 0..MaxCalls /\ failures \in 0..MaxFailures
      /\ call \in [Workers -> Call \cup {None}]
  BY DEF RefundsInv, RefundsTypeOK
<1>3. CASE Waits(r) /\ Expired(r)
  <2> DEFINE next == [row |-> r, step |-> "judge", payable |-> FALSE]
  <2>1. call' = [call EXCEPT ![Job] = next] /\ PaymentDue(r)'
    BY <1>1, <1>3 DEF CycleProcesses, Go, PaymentDue, Expired
  <2>2. MayGoOn(r, next)
    BY <2>1, GoesOn
  <2> HIDE DEF next
  <2>3. r \in Rows
    BY <1>3 DEF Waits, Rows, RefundsAssumption, Status
  <2>4. RowStep(Job, r, refund[r], next)
    BY <1>1, <2>1, <2>2, <2>3, SameStatus, RouteRow
  <2>5. Recorded
    BY <1>1, <1>2 DEF Recorded, Approved
  <2> QED  BY <1>1, <2>4, <2>5, RowStepHolds
<1>4. CASE ~(Waits(r) /\ Expired(r))
  BY <1>1, <1>2, <1>4, CallsEndHolds DEF CycleProcesses
<1> QED
  BY <1>3, <1>4

\* Every step of the refunds keeps rows, calls and payments in agreement.
LEMMA RefundsStepHolds ==
  ASSUME RefundsAssumption, RefundsInv, [RefundsNext]_refundRowVars
  PROVE  RefundsInv'
<1>0. /\ date \in Nat /\ cycling \in BOOLEAN /\ ready \subseteq Refunds
      /\ calls \in 0..MaxCalls /\ failures \in 0..MaxFailures
      /\ call \in [Workers -> Call \cup {None}]
      /\ MaxFailures \in Nat /\ MaxDate \in Nat /\ cut \subseteq Refunds
  BY DEF RefundsInv, RefundsTypeOK, RefundsAssumption
<1>1. CASE UNCHANGED refundRowVars
  BY <1>0, <1>1, CallsEndHolds DEF refundRowVars, jobVars
<1>2. ASSUME NEW w \in RefundCallers, RequestDelayedRefund(w) \/ ProcessAutomatedRefund(w)
      PROVE  RefundsInv'
  BY <1>2, RequestBeginsHolds, AutomatedHolds
<1>3. ASSUME NEW w \in RefundCallers, NEW r \in Refunds,
             \/ ManualReview(w, r) \/ HandleDisputeResolution(w, r)
             \/ CancelDelayedRefund(w, r) \/ ProcessDelayedRefund(w, r)
             \/ EmergencyOverrideDelayedRefund(w, r) \/ SubmitOnchainRefund(w, r)
      PROVE  RefundsInv'
  BY <1>3, RoutesHold DEF HandleDisputeResolution
<1>4. ASSUME NEW w \in Workers, CallGoesOn(w)
      PROVE  RefundsInv'
  BY <1>4, CallHolds, CreateHolds
<1>5. ASSUME NEW lost_calls, Lose(lost_calls), ready' \subseteq Refunds, cycling' \in BOOLEAN
      PROVE  RefundsInv'
  <2>1. /\ call' \in [Workers -> Call \cup {None}] /\ cut' \subseteq Refunds
        /\ \A v \in Workers : call'[v] \in {call[v], None}
    BY <1>0, <1>5 DEF Lose
  <2>2. /\ failures' \in 0..MaxFailures /\ date' = date /\ calls' = calls
        /\ UNCHANGED <<bookingVars, refund, until, payable, hashed, paid, decided, cancelled, waived>>
    BY <1>0, <1>5 DEF Lose
  <2> QED  BY <1>0, <1>5, <2>1, <2>2, CallsEndHolds
<1>6. ASSUME NEW r \in Refunds, CheckOnchainStatus(r)
      PROVE  RefundsInv'
  <2>1. Settled(r)
    BY <1>6 DEF CheckOnchainStatus, RefundsInv, AfterPayment
  <2>2. \E status \in Status : refund' = [refund EXCEPT ![r] = status]
    BY <1>6 DEF CheckOnchainStatus, SaveRow, Status
  <2>3. UNCHANGED <<date, bookingVars, until, payable, call, jobVars, hashed, paid, decided,
                    cancelled, waived, cut, calls, failures>>
    BY <1>6 DEF CheckOnchainStatus
  <2> QED  BY <2>1, <2>2, <2>3, PaidRowHolds
<1>7. CASE CycleStarts \/ CycleEnds
  <2>1. ready' \subseteq Refunds /\ cycling' \in BOOLEAN
    BY <1>0, <1>7 DEF CycleStarts, CycleEnds
  <2>2. UNCHANGED <<date, bookingVars, refund, until, payable, call, hashed, paid, decided,
                    cancelled, waived, cut, calls, failures>>
    BY <1>7 DEF CycleStarts, CycleEnds
  <2> QED  BY <1>0, <2>1, <2>2, CallsEndHolds
<1>8. ServerRestarts \/ (\E w \in Workers : RefundCallFails(w)) => RefundsInv'
  BY <1>0, <1>5 DEF ServerRestarts, RefundCallFails, jobVars
<1>9. CASE DatePasses
  BY <1>0, <1>9, CallsEndHolds DEF DatePasses, jobVars
<1> QED
  BY <1>1, <1>2, <1>3, <1>4, <1>6, <1>7, <1>8, <1>9, CycleHolds DEF RefundsNext

\* The two promises are parts of the invariant.
LEMMA RefundsPromises == RefundsInv => CompletedMeansPaid /\ LargeRefundsWait
BY DEF RefundsInv, AfterPayment, BeforePayment, CompletedMeansPaid, LargeRefundsWait, PaymentDue,
       Settled
-----------------------------------------------------------------------------
(***************************************************************************)
(* Proofs: the queue.  First what the commands do to a list without        *)
(* repetitions, then one lemma per step.                                   *)
(***************************************************************************)

\* A push adds the element and repeats none.
LEMMA PushedOnce ==
  ASSUME NEW S, NEW s \in Seq(S), NEW e \in S, IsInjective(s), e \notin ToSet(s)
  PROVE  /\ Append(s, e) \in Seq(S) /\ IsInjective(Append(s, e))
         /\ ToSet(Append(s, e)) = ToSet(s) \cup {e}
<1> DEFINE t == Append(s, e)
<1>1. /\ Len(s) \in Nat /\ DOMAIN s = 1..Len(s)
      /\ t \in Seq(S) /\ Len(t) = Len(s) + 1 /\ DOMAIN t = 1..(Len(s) + 1)
      /\ \A i \in 1..Len(s) : t[i] = s[i]
      /\ t[Len(s) + 1] = e
  OBVIOUS
<1>2. \A i \in 1..(Len(s) + 1) : i \in 1..Len(s) \/ i = Len(s) + 1
  BY <1>1
<1>3. \A i \in 1..Len(s) : s[i] # e
  BY <1>1 DEF ToSet
<1> HIDE DEF t
<1>4. IsInjective(t)
  BY <1>1, <1>2, <1>3 DEF IsInjective
<1>5. ToSet(t) = ToSet(s) \cup {e}
  <2>1. ASSUME NEW x \in ToSet(t)  PROVE x \in ToSet(s) \cup {e}
    BY <1>1, <1>2, <2>1 DEF ToSet
  <2>2. ASSUME NEW x \in ToSet(s)  PROVE x \in ToSet(t)
    <3>1. PICK i \in 1..Len(s) : x = s[i]
      BY <1>1 DEF ToSet
    <3>2. i \in 1..(Len(s) + 1)
      BY <1>1
    <3> QED  BY <1>1, <3>1, <3>2 DEF ToSet
  <2>3. e \in ToSet(t)
    <3>1. Len(s) + 1 \in 1..(Len(s) + 1)
      BY <1>1
    <3> QED  BY <1>1, <3>1 DEF ToSet
  <2> QED  BY <2>1, <2>2, <2>3
<1> QED  BY <1>1, <1>4, <1>5 DEF t

\* A pop takes the first element and leaves the others.
LEMMA PoppedOnce ==
  ASSUME NEW S, NEW s \in Seq(S), IsInjective(s), s # <<>>
  PROVE  /\ Head(s) \in ToSet(s) /\ Head(s) \in S
         /\ Tail(s) \in Seq(S) /\ IsInjective(Tail(s))
         /\ ToSet(Tail(s)) = ToSet(s) \ {Head(s)}
<1> DEFINE t == Tail(s)
           n == Len(s)
<1>1. /\ n \in Nat /\ n > 0 /\ DOMAIN s = 1..n
      /\ t \in Seq(S) /\ Len(t) = n - 1 /\ DOMAIN t = 1..(n - 1)
      /\ \A i \in 1..(n - 1) : t[i] = s[i + 1]
      /\ Head(s) = s[1] /\ Head(s) \in S
  <2>1. n \in Nat /\ n > 0 /\ DOMAIN s = 1..n
    BY EmptySeq, LenProperties
  <2>2. t \in Seq(S) /\ Len(t) = n - 1 /\ Head(s) \in S
    BY HeadTailProperties
  <2>3. \A i \in 1..(n - 1) : t[i] = s[i + 1]
    BY <2>2, HeadTailProperties
  <2>4. DOMAIN t = 1..(n - 1)
    BY <2>2, LenProperties
  <2>5. Head(s) = s[1]
    OBVIOUS
  <2> QED  BY <2>1, <2>2, <2>3, <2>4, <2>5
<1>2. 1 \in 1..n /\ \A i \in 1..(n - 1) : i + 1 \in 1..n /\ i + 1 # 1
  BY <1>1
<1> HIDE DEF t, n
<1>3. IsInjective(t)
  <2> SUFFICES ASSUME NEW i \in 1..(n - 1), NEW m \in 1..(n - 1), t[i] = t[m]  PROVE i = m
    BY <1>1 DEF IsInjective
  <2>1. i + 1 \in 1..n /\ m + 1 \in 1..n /\ s[i + 1] = s[m + 1]
    BY <1>1, <1>2
  <2>2. i + 1 = m + 1
    BY <1>1, <2>1 DEF IsInjective
  <2> QED  BY <1>1, <2>2
<1>4. ASSUME NEW x \in ToSet(t)  PROVE  x \in ToSet(s) /\ x # s[1]
  <2>1. PICK i \in 1..(n - 1) : x = s[i + 1]
    BY <1>1 DEF ToSet
  <2> QED  BY <1>1, <1>2, <2>1 DEF ToSet, IsInjective
<1>5. ASSUME NEW x \in ToSet(s), x # s[1]  PROVE  x \in ToSet(t)
  <2>1. PICK i \in 1..n : x = s[i]
    BY <1>1 DEF ToSet
  <2>2. i - 1 \in 1..(n - 1) /\ (i - 1) + 1 = i
    BY <1>1, <1>5, <2>1
  <2>3. t[i - 1] = x
    BY <1>1, <2>1, <2>2
  <2> QED  BY <1>1, <2>2, <2>3 DEF ToSet
<1>6. Head(s) \in ToSet(s)
  BY <1>1, <1>2 DEF ToSet
<1> QED  BY <1>1, <1>3, <1>4, <1>5, <1>6 DEF t

\* What is taken out of a list is gone, and the others stay.
LEMMA RemovedOnce ==
  ASSUME NEW S, NEW s \in Seq(S), NEW i \in 1..Len(s), IsInjective(s)
  PROVE  /\ RemoveAt(s, i) \in Seq(S) /\ Len(RemoveAt(s, i)) = Len(s) - 1
         /\ IsInjective(RemoveAt(s, i))
         /\ ToSet(RemoveAt(s, i)) = ToSet(s) \ {s[i]}
<1> DEFINE n == Len(s)
           t == RemoveAt(s, i)
           before == SubSeq(s, 1, i - 1)
           after == SubSeq(s, i + 1, n)
<1>1. n \in Nat /\ DOMAIN s = 1..n /\ i \in Int /\ 1 <= i /\ i <= n
      /\ \A m \in 1..n : s[m] \in S
  BY LenProperties, ElementOfSeq
<1>2. before \in Seq(S) /\ Len(before) = i - 1 /\ \A m \in 1..(i - 1) : before[m] = s[m]
  <2>1. \A m \in 1..(i - 1) : s[m] \in S
    BY <1>1
  <2>2. i - 1 \in Int /\ (IF 1 <= i - 1 THEN (i - 1) - 1 + 1 ELSE 0) = i - 1
        /\ (i - 1) - 1 + 1 = i - 1
        /\ \A m \in 1..(i - 1) : 1 + m - 1 = m
    BY <1>1
  <2>3. /\ before \in Seq(S)
        /\ Len(before) = IF 1 <= i - 1 THEN (i - 1) - 1 + 1 ELSE 0
        /\ \A m \in 1..((i - 1) - 1 + 1) : before[m] = s[1 + m - 1]
    BY <2>1, <2>2, SubSeqProperties
  <2> HIDE DEF before
  <2> QED  BY <2>2, <2>3
<1>3. after \in Seq(S) /\ Len(after) = n - i /\ \A m \in 1..(n - i) : after[m] = s[i + m]
  <2>1. \A m \in (i + 1)..n : s[m] \in S
    BY <1>1
  <2> HIDE DEF n
  <2> DEFINE first == i + 1
  <2>2. /\ first \in Int /\ n \in Int /\ n - first + 1 = n - i
        /\ (IF first <= n THEN n - first + 1 ELSE 0) = n - i
    BY <1>1
  <2>3. \A m \in 1..(n - i) : first + m - 1 = i + m
    BY <1>1
  <2> HIDE DEF first
  <2>4. after = SubSeq(s, first, n) /\ \A m \in first..n : s[m] \in S
    BY <2>1 DEF first
  <2> HIDE DEF after
  <2>5. /\ after \in Seq(S)
        /\ Len(after) = IF first <= n THEN n - first + 1 ELSE 0
        /\ \A m \in 1..(n - first + 1) : after[m] = s[first + m - 1]
    BY <2>2, <2>4, SubSeqProperties
  <2> QED  BY <2>2, <2>3, <2>5
<1>4. t = before \o after
  BY DEF RemoveAt
<1> HIDE DEF t, before, after, n
<1>5. t \in Seq(S) /\ Len(t) = (i - 1) + (n - i)
      /\ \A m \in 1..((i - 1) + (n - i)) :
            t[m] = IF m <= i - 1 THEN before[m] ELSE after[m - (i - 1)]
  <2>1. /\ t \in Seq(S) /\ Len(t) = Len(before) + Len(after)
        /\ \A m \in 1..(Len(before) + Len(after)) :
              t[m] = IF m <= Len(before) THEN before[m] ELSE after[m - Len(before)]
    BY <1>2, <1>3, <1>4, ConcatProperties
  <2> QED  BY <1>2, <1>3, <2>1
<1>6. Len(t) = n - 1 /\ DOMAIN t = 1..(n - 1)
  BY <1>1, <1>5, LenProperties
<1>7. \A m \in 1..(n - 1) : t[m] = IF m < i THEN s[m] ELSE s[m + 1]
  <2> TAKE m \in 1..(n - 1)
  <2>1. m \in 1..((i - 1) + (n - i)) /\ (m <= i - 1 <=> m < i)
    BY <1>1
  <2>2. CASE m < i
    <3>1. m \in 1..(i - 1)
      BY <1>1, <2>2
    <3> QED  BY <1>2, <1>5, <2>1, <2>2, <3>1
  <2>3. CASE ~(m < i)
    <3>1. m - (i - 1) \in 1..(n - i) /\ i + (m - (i - 1)) = m + 1
      BY <1>1, <2>3
    <3> QED  BY <1>3, <1>5, <2>1, <2>3, <3>1
  <2> QED  BY <2>2, <2>3
<1> DEFINE place(m) == IF m < i THEN m ELSE m + 1
<1>8. \A m \in 1..(n - 1) : place(m) \in 1..n /\ place(m) # i /\ t[m] = s[place(m)]
  BY <1>1, <1>7
<1>9. \A m, l \in 1..(n - 1) : place(m) = place(l) => m = l
  BY <1>1
<1>10. \A m \in 1..n : m # i => \E l \in 1..(n - 1) : place(l) = m
  <2> TAKE m \in 1..n
  <2>1. CASE m < i
    BY <1>1, <2>1
  <2>2. CASE m > i
    <3>1. m - 1 \in 1..(n - 1) /\ place(m - 1) = m
      BY <1>1, <2>2
    <3> QED  BY <3>1
  <2> QED  BY <1>1, <2>1, <2>2
<1> HIDE DEF place
<1>11. IsInjective(t)
  BY <1>1, <1>6, <1>8, <1>9 DEF IsInjective
<1>12. ToSet(t) = ToSet(s) \ {s[i]}
  <2>1. ASSUME NEW x \in ToSet(t)  PROVE  x \in ToSet(s) \ {s[i]}
    <3>1. PICK m \in 1..(n - 1) : x = t[m]
      BY <1>6 DEF ToSet
    <3>2. s[place(m)] # s[i]
      BY <1>1, <1>8 DEF IsInjective
    <3> QED  BY <1>1, <1>8, <3>1, <3>2 DEF ToSet
  <2>2. ASSUME NEW x \in ToSet(s), x # s[i]  PROVE  x \in ToSet(t)
    <3>1. PICK m \in 1..n : x = s[m]
      BY <1>1 DEF ToSet
    <3>2. PICK l \in 1..(n - 1) : place(l) = m
      BY <1>10, <2>2, <3>1
    <3> QED  BY <1>6, <1>8, <3>1, <3>2 DEF ToSet
  <2> QED  BY <2>1, <2>2
<1> QED  BY <1>5, <1>6, <1>11, <1>12 DEF t, n

\* An element put in front is in the list, once.
LEMMA LedOnce ==
  ASSUME NEW S, NEW s \in Seq(S), NEW e \in S, IsInjective(s), e \notin ToSet(s)
  PROVE  /\ <<e>> \o s \in Seq(S) /\ Len(<<e>> \o s) = Len(s) + 1
         /\ IsInjective(<<e>> \o s)
         /\ ToSet(<<e>> \o s) = ToSet(s) \cup {e}
<1> DEFINE n == Len(s)
           t == <<e>> \o s
<1>1. n \in Nat /\ DOMAIN s = 1..n
  BY LenProperties
<1>2. <<e>> \in Seq(S) /\ Len(<<e>>) = 1 /\ <<e>>[1] = e
  OBVIOUS
<1>3. t \in Seq(S) /\ Len(t) = 1 + n
      /\ \A m \in 1..(1 + n) : t[m] = IF m <= 1 THEN <<e>>[m] ELSE s[m - 1]
  BY <1>2, ConcatProperties
<1> HIDE DEF t, n
<1>4. DOMAIN t = 1..(1 + n)
  BY <1>3, LenProperties
<1>5. t[1] = e /\ \A m \in 1..n : t[m + 1] = s[m]
  <2>1. 1 \in 1..(1 + n)
    BY <1>1
  <2>2. ASSUME NEW m \in 1..n  PROVE t[m + 1] = s[m]
    <3>1. m + 1 \in 1..(1 + n) /\ ~(m + 1 <= 1) /\ (m + 1) - 1 = m
      BY <1>1
    <3> QED  BY <1>3, <3>1
  <2> QED  BY <1>2, <1>3, <2>1, <2>2
<1>6. \A m \in 1..(1 + n) : m = 1 \/ \E l \in 1..n : m = l + 1
  <2> TAKE m \in 1..(1 + n)
  <2>1. CASE m # 1
    <3>1. m - 1 \in 1..n /\ m = (m - 1) + 1
      BY <1>1, <2>1
    <3> QED  BY <3>1
  <2> QED  BY <2>1
<1>7. \A m \in 1..n : s[m] # e
  BY <1>1 DEF ToSet
<1>8. IsInjective(t)
  <2> SUFFICES ASSUME NEW l \in 1..(1 + n), NEW m \in 1..(1 + n), t[l] = t[m]  PROVE l = m
    BY <1>4 DEF IsInjective
  <2>1. CASE l = 1 \/ m = 1
    BY <1>5, <1>6, <1>7, <2>1
  <2>2. CASE l # 1 /\ m # 1
    <3>1. PICK a \in 1..n, b \in 1..n : l = a + 1 /\ m = b + 1
      BY <1>6, <2>2
    <3>2. s[a] = s[b]
      BY <1>5, <3>1
    <3> QED  BY <1>1, <3>1, <3>2 DEF IsInjective
  <2> QED  BY <2>1, <2>2
<1>9. 1 \in 1..(1 + n) /\ \A m \in 1..n : m + 1 \in 1..(1 + n)
  BY <1>1
<1>10. ToSet(t) = ToSet(s) \cup {e}
  <2>1. ASSUME NEW x \in ToSet(t)  PROVE x \in ToSet(s) \cup {e}
    <3>1. PICK m \in 1..(1 + n) : x = t[m]
      BY <1>4 DEF ToSet
    <3>2. CASE m = 1
      BY <1>5, <3>1, <3>2
    <3>3. CASE m # 1
      <4>1. PICK l \in 1..n : m = l + 1
        BY <1>6, <3>3
      <4> QED  BY <1>1, <1>5, <3>1, <4>1 DEF ToSet
    <3> QED  BY <3>2, <3>3
  <2>2. ASSUME NEW x \in ToSet(s)  PROVE x \in ToSet(t)
    <3>1. PICK m \in 1..n : x = s[m]
      BY <1>1 DEF ToSet
    <3> QED  BY <1>4, <1>5, <1>9, <3>1 DEF ToSet
  <2>3. e \in ToSet(t)
    BY <1>4, <1>5, <1>9 DEF ToSet
  <2> QED  BY <2>1, <2>2, <2>3
<1> QED  BY <1>1, <1>3, <1>8, <1>10 DEF t, n

\* The first part of a list repeats nothing either.
LEMMA KeptOnce ==
  ASSUME NEW S, NEW s \in Seq(S), NEW k \in 1..Len(s), IsInjective(s)
  PROVE  /\ SubSeq(s, 1, k) \in Seq(S) /\ Len(SubSeq(s, 1, k)) = k
         /\ IsInjective(SubSeq(s, 1, k))
         /\ ToSet(SubSeq(s, 1, k)) \subseteq ToSet(s)
<1> DEFINE t == SubSeq(s, 1, k)
<1>1. Len(s) \in Nat /\ DOMAIN s = 1..Len(s) /\ \A m \in 1..k : m \in 1..Len(s) /\ s[m] \in S
  <2>1. Len(s) \in Nat /\ DOMAIN s = 1..Len(s)
    BY LenProperties
  <2>2. \A m \in 1..k : m \in 1..Len(s)
    BY <2>1
  <2> QED  BY <2>1, <2>2, ElementOfSeq
<1>2. 1 \in Int /\ k \in Int /\ (IF 1 <= k THEN k - 1 + 1 ELSE 0) = k /\ k - 1 + 1 = k
      /\ \A m \in 1..k : 1 + m - 1 = m
  BY <1>1
<1>3. /\ t \in Seq(S)
      /\ Len(t) = IF 1 <= k THEN k - 1 + 1 ELSE 0
      /\ \A m \in 1..(k - 1 + 1) : t[m] = s[1 + m - 1]
  BY <1>1, <1>2, SubSeqProperties
<1> HIDE DEF t
<1>4. DOMAIN t = 1..k /\ Len(t) = k /\ \A m \in 1..k : t[m] = s[m]
  BY <1>2, <1>3, LenProperties
<1>5. IsInjective(t)
  BY <1>1, <1>4 DEF IsInjective
<1>6. ToSet(t) \subseteq ToSet(s)
  BY <1>1, <1>4 DEF ToSet
<1> QED  BY <1>3, <1>4, <1>5, <1>6 DEF t

\* Nothing was taken on at first.
LEMMA QueueInitHolds == ASSUME QueueAssumption  PROVE  QueueInit => QueueInv
<1> SUFFICES ASSUME QueueInit  PROVE QueueInv
  OBVIOUS
<1>1. QueueTypeOK /\ AttemptsLeft
  BY DEF QueueInit, QueueTypeOK, AttemptsLeft, QueueAssumption
<1>2. Waiting = {} /\ Buried = {} /\ Popped = {} /\ Missing = {} /\ Over = {}
  BY DEF QueueInit, Waiting, Buried, Popped, Missing, Over, ToSet
<1>3. InOnePlace
  BY <1>2 DEF QueueInit, InOnePlace, Listed, IsInjective
<1>4. IsFiniteSet(enqueued) /\ Cardinality(Missing) <= losses
  BY <1>2, FS_EmptySet DEF QueueInit
<1> QED  BY <1>1, <1>3, <1>4 DEF QueueInv

\* A step that leaves no more jobs missing than there were.
LEMMA NoMoreMissing ==
  ASSUME QueueInv, QueueTypeOK', InOnePlace', AttemptsLeft',
         IsFiniteSet(enqueued'), Missing' \subseteq Missing, losses' = losses
  PROVE  QueueInv'
<1>1. IsFiniteSet(Missing)
  BY FS_Subset DEF QueueInv, Missing
<1>2. IsFiniteSet(Missing') /\ Cardinality(Missing') <= Cardinality(Missing)
  BY <1>1, FS_Subset
<1>3. Cardinality(Missing) \in Nat /\ Cardinality(Missing') \in Nat /\ losses \in Int
  BY <1>1, <1>2, FS_CardinalityType DEF QueueInv, QueueTypeOK
<1> QED  BY <1>2, <1>3 DEF QueueInv

\* A server that is through with its job has none.
LEMMA HandsEmptied ==
  ASSUME QueueAssumption, QueueInv, NEW s \in Servers, running[s] # None,
         running' = [running EXCEPT ![s] = None]
  PROVE  /\ running[s] \in Jobs /\ running[s] \in Popped /\ running[s] \in enqueued \ Over
         /\ running[s] \notin Waiting /\ running[s] \notin Buried
         /\ attempts[running[s]] < MaxRetries
         /\ running' \in [Servers -> Jobs \cup {None}]
         /\ Popped' = Popped \ {running[s]}
         /\ \A t, u \in Servers : running'[t] # None /\ running'[t] = running'[u] => t = u
<1>1. /\ running \in [Servers -> Jobs \cup {None}]
      /\ \A t, u \in Servers : running[t] # None /\ running[t] = running[u] => t = u
  BY DEF QueueInv, QueueTypeOK, InOnePlace
<1>2. /\ running' \in [Servers -> Jobs \cup {None}]
      /\ \A t \in Servers : running'[t] = IF t = s THEN None ELSE running[t]
  BY <1>1
<1>3. running[s] \in Jobs /\ running[s] \in Popped
  BY <1>1 DEF Popped
<1>4. Popped' = Popped \ {running[s]}
  BY <1>1, <1>2 DEF Popped
<1>5. running[s] \in enqueued \ Over /\ running[s] \notin Waiting /\ running[s] \notin Buried
  BY <1>3 DEF QueueInv, InOnePlace, Listed
<1>6. attempts[running[s]] < MaxRetries
  BY <1>3 DEF QueueInv, AttemptsLeft
<1> QED  BY <1>1, <1>2, <1>3, <1>4, <1>5, <1>6

\* A new job waits at the end of the queue.
LEMMA EnqueueHolds ==
  ASSUME QueueAssumption, QueueInv, NEW j \in Jobs, Enqueue(j)
  PROVE  QueueInv'
<1>1. /\ j \notin enqueued /\ queue' = Append(queue, j) /\ enqueued' = enqueued \cup {j}
      /\ UNCHANGED <<deadLetters, running, attempts, handled, removed, dropped, losses>>
  BY DEF Enqueue
<1>2. queue \in Seq(Jobs) /\ IsInjective(queue) /\ Listed \subseteq enqueued \ Over
  BY DEF QueueInv, QueueTypeOK, InOnePlace
<1>3. j \notin Waiting /\ j \notin Buried /\ j \notin Popped
  BY <1>1, <1>2 DEF Listed
<1>4. queue' \in Seq(Jobs) /\ IsInjective(queue') /\ Waiting' = Waiting \cup {j}
  BY <1>1, <1>2, <1>3, PushedOnce DEF Waiting
<1>5. Buried' = Buried /\ Popped' = Popped /\ Over' = Over
  BY <1>1 DEF Buried, Popped, Over
<1>6. QueueTypeOK'
  BY <1>1, <1>4 DEF QueueInv, QueueTypeOK
<1>7. InOnePlace'
  <2>1. /\ IsInjective(deadLetters') /\ Waiting \cap Buried = {}
        /\ Popped \cap (Waiting \cup Buried) = {}
        /\ \A s, t \in Servers : running'[s] # None /\ running'[s] = running'[t] => s = t
    BY <1>1 DEF QueueInv, InOnePlace
  <2>2. Over \subseteq enqueued
    BY DEF QueueInv, QueueTypeOK, Over
  <2> QED  BY <1>1, <1>2, <1>3, <1>4, <1>5, <2>1, <2>2 DEF InOnePlace, Listed
<1>8. AttemptsLeft'
  BY <1>1, <1>4, <1>5 DEF QueueInv, AttemptsLeft
<1>9. IsFiniteSet(enqueued') /\ Missing' \subseteq Missing
  BY <1>1, <1>4, <1>5, FS_AddElement DEF QueueInv, Missing, Listed
<1> QED  BY <1>1, <1>6, <1>7, <1>8, <1>9, NoMoreMissing

\* A server takes the first job.
LEMMA PopHolds ==
  ASSUME QueueAssumption, QueueInv, NEW s \in Servers, Pop(s)
  PROVE  QueueInv'
<1> DEFINE j == Head(queue)
<1>1. /\ running[s] = None /\ queue # <<>>
      /\ running' = [running EXCEPT ![s] = j] /\ queue' = Tail(queue)
      /\ UNCHANGED <<deadLetters, attempts, enqueued, handled, removed, dropped, losses>>
  BY DEF Pop
<1>2. /\ queue \in Seq(Jobs) /\ IsInjective(queue)
      /\ running \in [Servers -> Jobs \cup {None}] /\ None \notin Jobs
      /\ \A t, u \in Servers : running[t] # None /\ running[t] = running[u] => t = u
      /\ Waiting \cap Buried = {} /\ Popped \cap (Waiting \cup Buried) = {}
      /\ Listed \subseteq enqueued \ Over
  BY DEF QueueInv, QueueTypeOK, InOnePlace, QueueAssumption
<1>3. /\ j \in Waiting /\ j \in Jobs /\ queue' \in Seq(Jobs) /\ IsInjective(queue')
      /\ Waiting' = Waiting \ {j}
  BY <1>1, <1>2, PoppedOnce DEF Waiting
<1> HIDE DEF j
<1>4. /\ running' \in [Servers -> Jobs \cup {None}]
      /\ \A t \in Servers : running'[t] = IF t = s THEN j ELSE running[t]
      /\ \A t \in Servers : running[t] # j
  BY <1>1, <1>2, <1>3 DEF Popped
<1>5. Popped' = Popped \cup {j}
  BY <1>1, <1>2, <1>3, <1>4 DEF Popped
<1>6. \A t, u \in Servers : running'[t] # None /\ running'[t] = running'[u] => t = u
  BY <1>2, <1>4
<1>7. Buried' = Buried /\ Over' = Over
  BY <1>1 DEF Buried, Over
<1>8. QueueTypeOK'
  BY <1>1, <1>3, <1>4 DEF QueueInv, QueueTypeOK
<1>9. InOnePlace'
  <2>1. IsInjective(deadLetters')
    BY <1>1 DEF QueueInv, InOnePlace
  <2> QED  BY <1>1, <1>2, <1>3, <1>5, <1>6, <1>7, <2>1 DEF InOnePlace, Listed
<1>10. AttemptsLeft'
  BY <1>1, <1>3, <1>5 DEF QueueInv, AttemptsLeft
<1>11. IsFiniteSet(enqueued') /\ Missing' \subseteq Missing
  BY <1>1, <1>3, <1>5, <1>7 DEF QueueInv, Missing, Listed
<1> QED  BY <1>1, <1>8, <1>9, <1>10, <1>11, NoMoreMissing

\* A job that was done, or that nothing handles, is over.
LEMMA JobDoneHolds ==
  ASSUME QueueAssumption, QueueInv, NEW s \in Servers, JobDone(s)
  PROVE  QueueInv'
<1> DEFINE j == running[s]
<1>1. /\ j # None /\ running' = [running EXCEPT ![s] = None]
      /\ UNCHANGED <<queue, deadLetters, attempts, enqueued, removed, losses>>
      /\ \/ dropped' = dropped \cup {j} /\ handled' = handled
         \/ handled' = handled \cup {j} /\ dropped' = dropped
  BY DEF JobDone
<1>2. /\ j \in Jobs /\ j \in Popped /\ j \in enqueued \ Over
      /\ j \notin Waiting /\ j \notin Buried
      /\ running' \in [Servers -> Jobs \cup {None}] /\ Popped' = Popped \ {j}
      /\ \A t, u \in Servers : running'[t] # None /\ running'[t] = running'[u] => t = u
  BY <1>1, HandsEmptied
<1> HIDE DEF j
<1>3. Waiting' = Waiting /\ Buried' = Buried /\ Over' = Over \cup {j}
  BY <1>1 DEF Waiting, Buried, Over
<1>4. QueueTypeOK'
  BY <1>1, <1>2 DEF QueueInv, QueueTypeOK
<1>5. InOnePlace'
  <2>1. /\ IsInjective(queue') /\ IsInjective(deadLetters')
        /\ Waiting \cap Buried = {} /\ Popped \cap (Waiting \cup Buried) = {}
        /\ Listed \subseteq enqueued \ Over
    BY <1>1 DEF QueueInv, InOnePlace
  <2> QED  BY <1>1, <1>2, <1>3, <2>1 DEF InOnePlace, Listed
<1>6. AttemptsLeft'
  BY <1>1, <1>2, <1>3 DEF QueueInv, AttemptsLeft
<1>7. IsFiniteSet(enqueued') /\ Missing' \subseteq Missing
  BY <1>1, <1>2, <1>3 DEF QueueInv, Missing, Listed
<1> QED  BY <1>1, <1>4, <1>5, <1>6, <1>7, NoMoreMissing

\* A dead letter is put first, and what the list has no room for is trimmed.
LEMMA BuryKeeps ==
  ASSUME QueueAssumption, QueueInv, NEW j \in Jobs, j \notin Buried, Bury(j)
  PROVE  /\ deadLetters' \in Seq(Jobs) /\ Len(deadLetters') <= MaxDeadLetters
         /\ IsInjective(deadLetters') /\ Buried' \subseteq Buried \cup {j}
         /\ dropped' = dropped \cup ((Buried \cup {j}) \ Buried')
<1> DEFINE letters == <<j>> \o deadLetters
           room == IF Len(letters) < MaxDeadLetters THEN Len(letters) ELSE MaxDeadLetters
           kept == SubSeq(letters, 1, room)
<1>1. deadLetters \in Seq(Jobs) /\ IsInjective(deadLetters) /\ MaxDeadLetters \in Nat \ {0}
      /\ Len(deadLetters) \in Nat
  BY LenProperties DEF QueueInv, QueueTypeOK, InOnePlace, QueueAssumption
<1>2. /\ letters \in Seq(Jobs) /\ Len(letters) = Len(deadLetters) + 1
      /\ IsInjective(letters) /\ ToSet(letters) = Buried \cup {j}
  BY <1>1, LedOnce DEF Buried
<1>3. deadLetters' = kept /\ dropped' = dropped \cup (ToSet(letters) \ ToSet(kept))
  BY DEF Bury
<1> HIDE DEF letters
<1>4. room \in 1..Len(letters) /\ room <= MaxDeadLetters
  BY <1>1, <1>2
<1> HIDE DEF room
<1>5. /\ kept \in Seq(Jobs) /\ Len(kept) = room /\ IsInjective(kept)
      /\ ToSet(kept) \subseteq ToSet(letters)
  BY <1>2, <1>4, KeptOnce
<1> HIDE DEF kept
<1>6. Buried' = ToSet(kept)
  BY <1>3 DEF Buried
<1> QED  BY <1>2, <1>3, <1>4, <1>5, <1>6

\* A job that failed waits once more while it has an attempt left, and then is
\* a dead letter.
LEMMA JobFailsHolds ==
  ASSUME QueueAssumption, QueueInv, NEW s \in Servers, JobFails(s)
  PROVE  QueueInv'
<1>0. PICK j : j = running[s]
  OBVIOUS
<1>1. /\ j # None /\ running' = [running EXCEPT ![s] = None]
      /\ attempts' = [attempts EXCEPT ![j] = @ + 1]
      /\ UNCHANGED <<enqueued, handled, removed, losses>>
      /\ IF attempts[j] + 1 < MaxRetries
         THEN queue' = Append(queue, j) /\ UNCHANGED <<deadLetters, dropped>>
         ELSE Bury(j) /\ UNCHANGED queue
  BY <1>0 DEF JobFails
<1>2. /\ j \in Jobs /\ j \in Popped /\ j \in enqueued \ Over
      /\ j \notin Waiting /\ j \notin Buried /\ attempts[j] < MaxRetries
      /\ running' \in [Servers -> Jobs \cup {None}] /\ Popped' = Popped \ {j}
      /\ \A t, u \in Servers : running'[t] # None /\ running'[t] = running'[u] => t = u
  BY <1>0, <1>1, HandsEmptied
<1>3. /\ queue \in Seq(Jobs) /\ IsInjective(queue) /\ deadLetters \in Seq(Jobs)
      /\ IsInjective(deadLetters) /\ Len(deadLetters) <= MaxDeadLetters
      /\ Waiting \cap Buried = {} /\ Popped \cap (Waiting \cup Buried) = {}
      /\ Listed \subseteq enqueued \ Over
      /\ attempts \in [Jobs -> 0..MaxRetries] /\ MaxRetries \in Nat
      /\ handled \subseteq enqueued /\ removed \subseteq enqueued /\ dropped \subseteq enqueued
      /\ enqueued \subseteq Jobs /\ losses \in 0..MaxLosses /\ IsFiniteSet(enqueued)
  BY DEF QueueInv, QueueTypeOK, InOnePlace, QueueAssumption
<1>4. /\ attempts' \in [Jobs -> 0..MaxRetries] /\ attempts'[j] = attempts[j] + 1
      /\ \A i \in Jobs : i # j => attempts'[i] = attempts[i]
  BY <1>1, <1>2, <1>3
<1>5. CASE attempts[j] + 1 < MaxRetries
  <2>1. queue' = Append(queue, j) /\ UNCHANGED <<deadLetters, dropped>>
    BY <1>1, <1>5
  <2>2. queue' \in Seq(Jobs) /\ IsInjective(queue') /\ Waiting' = Waiting \cup {j}
    BY <1>2, <1>3, <2>1, PushedOnce DEF Waiting
  <2>3. Buried' = Buried /\ Over' = Over
    BY <1>1, <2>1 DEF Buried, Over
  <2>4. QueueTypeOK'
    BY <1>1, <1>2, <1>3, <1>4, <2>1, <2>2 DEF QueueTypeOK
  <2>5. InOnePlace'
    BY <1>1, <1>2, <1>3, <2>1, <2>2, <2>3 DEF InOnePlace, Listed
  <2>6. AttemptsLeft'
    BY <1>1, <1>2, <1>4, <1>5, <2>2 DEF QueueInv, AttemptsLeft
  <2>7. Missing' \subseteq Missing
    BY <1>1, <1>2, <2>2, <2>3 DEF Missing, Listed
  <2> QED  BY <1>1, <1>3, <2>4, <2>5, <2>6, <2>7, NoMoreMissing
<1>6. CASE ~(attempts[j] + 1 < MaxRetries)
  <2>1. Bury(j) /\ queue' = queue
    BY <1>1, <1>6
  <2>2. /\ deadLetters' \in Seq(Jobs) /\ Len(deadLetters') <= MaxDeadLetters
        /\ IsInjective(deadLetters') /\ Buried' \subseteq Buried \cup {j}
        /\ dropped' = dropped \cup ((Buried \cup {j}) \ Buried')
    BY <1>2, <2>1, BuryKeeps
  <2>3. Waiting' = Waiting /\ Over' = Over \cup ((Buried \cup {j}) \ Buried')
    BY <1>1, <2>1, <2>2 DEF Waiting, Over
  <2>4. (Buried \cup {j}) \subseteq enqueued
    BY <1>2, <1>3 DEF Listed
  <2>5. QueueTypeOK'
    BY <1>1, <1>2, <1>3, <1>4, <2>1, <2>2, <2>4 DEF QueueTypeOK
  <2>6. InOnePlace'
    BY <1>1, <1>2, <1>3, <2>1, <2>2, <2>3 DEF InOnePlace, Listed
  <2>7. AttemptsLeft'
    BY <1>1, <1>2, <1>4, <2>3 DEF QueueInv, AttemptsLeft
  <2>8. Missing' \subseteq Missing
    BY <1>1, <1>2, <2>3 DEF Missing, Listed
  <2> QED  BY <1>1, <1>3, <2>5, <2>6, <2>7, <2>8, NoMoreMissing
<1> QED  BY <1>5, <1>6

\* One failure loses one job.
LEMMA JobLostHolds ==
  ASSUME QueueAssumption, QueueInv, NEW s \in Servers, JobLost(s)
  PROVE  QueueInv'
<1>0. PICK j : j = running[s]
  OBVIOUS
<1>1. /\ j # None /\ running' = [running EXCEPT ![s] = None]
      /\ losses < MaxLosses /\ losses' = losses + 1
      /\ UNCHANGED <<queue, deadLetters, attempts, enqueued, handled, removed, dropped>>
  BY <1>0 DEF JobLost
<1>2. /\ running' \in [Servers -> Jobs \cup {None}] /\ Popped' = Popped \ {j}
      /\ \A t, u \in Servers : running'[t] # None /\ running'[t] = running'[u] => t = u
  BY <1>0, <1>1, HandsEmptied
<1>3. Waiting' = Waiting /\ Buried' = Buried /\ Over' = Over
  BY <1>1 DEF Waiting, Buried, Over
<1>4. losses \in 0..MaxLosses /\ MaxLosses \in Nat
  BY DEF QueueInv, QueueTypeOK, QueueAssumption
<1>5. QueueTypeOK'
  BY <1>1, <1>2, <1>4 DEF QueueInv, QueueTypeOK
<1>6. InOnePlace' /\ AttemptsLeft'
  BY <1>1, <1>2, <1>3 DEF QueueInv, InOnePlace, AttemptsLeft, Listed
<1>7. Missing' \subseteq Missing \cup {j}
  BY <1>1, <1>2, <1>3 DEF Missing, Listed
<1>8. IsFiniteSet(Missing)
  BY FS_Subset DEF QueueInv, Missing
<1>9. IsFiniteSet(Missing \cup {j}) /\ Cardinality(Missing) \in Nat
      /\ Cardinality(Missing \cup {j}) <= Cardinality(Missing) + 1
  BY <1>8, FS_AddElement, FS_CardinalityType
<1>10. IsFiniteSet(Missing') /\ Cardinality(Missing') <= Cardinality(Missing \cup {j})
  BY <1>7, <1>9, FS_Subset
<1>11. Cardinality(Missing') \in Nat /\ Cardinality(Missing \cup {j}) \in Nat
  BY <1>9, <1>10, FS_CardinalityType
<1>12. Cardinality(Missing') <= losses' /\ IsFiniteSet(enqueued')
  BY <1>1, <1>4, <1>9, <1>10, <1>11 DEF QueueInv
<1> QED  BY <1>5, <1>6, <1>12 DEF QueueInv

\* A dead letter that is removed is over.
LEMMA RemoveDeadLetterHolds ==
  ASSUME QueueAssumption, QueueInv, NEW j \in Jobs, RemoveDeadLetter(j)
  PROVE  QueueInv'
<1>1. PICK i \in 1..Len(deadLetters) :
        deadLetters[i] = j /\ deadLetters' = RemoveAt(deadLetters, i)
  BY DEF RemoveDeadLetter
<1>2. /\ removed' = removed \cup {j}
      /\ UNCHANGED <<queue, running, attempts, enqueued, handled, dropped, losses>>
  BY DEF RemoveDeadLetter
<1>3. /\ deadLetters \in Seq(Jobs) /\ IsInjective(deadLetters)
      /\ Len(deadLetters) <= MaxDeadLetters /\ Len(deadLetters) \in Nat
      /\ MaxDeadLetters \in Nat /\ Listed \subseteq enqueued \ Over
      /\ Waiting \cap Buried = {} /\ Popped \cap (Waiting \cup Buried) = {}
  BY LenProperties DEF QueueInv, QueueTypeOK, InOnePlace, QueueAssumption
<1>4. /\ deadLetters' \in Seq(Jobs) /\ Len(deadLetters') = Len(deadLetters) - 1
      /\ IsInjective(deadLetters') /\ Buried' = Buried \ {j}
  BY <1>1, <1>3, RemovedOnce DEF Buried
<1>5. j \in Buried /\ j \in enqueued
  BY <1>1, <1>3, LenProperties DEF Buried, ToSet, Listed
<1>6. Waiting' = Waiting /\ Popped' = Popped /\ Over' = Over \cup {j}
  BY <1>2 DEF Waiting, Popped, Over
<1>7. QueueTypeOK'
  BY <1>2, <1>3, <1>4, <1>5 DEF QueueInv, QueueTypeOK
<1>8. InOnePlace'
  <2>1. /\ IsInjective(queue')
        /\ \A s, t \in Servers : running'[s] # None /\ running'[s] = running'[t] => s = t
    BY <1>2 DEF QueueInv, InOnePlace
  <2> QED  BY <1>2, <1>3, <1>4, <1>5, <1>6, <2>1 DEF InOnePlace, Listed
<1>9. AttemptsLeft'
  BY <1>2, <1>6 DEF QueueInv, AttemptsLeft
<1>10. IsFiniteSet(enqueued') /\ Missing' \subseteq Missing
  BY <1>2, <1>4, <1>6 DEF QueueInv, Missing, Listed
<1> QED  BY <1>2, <1>7, <1>8, <1>9, <1>10, NoMoreMissing

\* Every step keeps each job in one place.
LEMMA QueueStepHolds ==
  ASSUME QueueAssumption, QueueInv, [QueueNext]_queueVars
  PROVE  QueueInv'
<1>1. CASE UNCHANGED queueVars
  <2>1. QueueTypeOK' /\ InOnePlace' /\ AttemptsLeft' /\ IsFiniteSet(enqueued')
    BY <1>1 DEF queueVars, QueueInv, QueueTypeOK, InOnePlace, AttemptsLeft, Listed, Waiting,
         Buried, Popped, Over
  <2>2. Missing' = Missing /\ losses' = losses
    BY <1>1 DEF queueVars, Missing, Listed, Waiting, Buried, Popped, Over
  <2> QED  BY <2>1, <2>2, NoMoreMissing
<1>2. ASSUME NEW j \in Jobs, Enqueue(j) \/ RemoveDeadLetter(j)  PROVE QueueInv'
  BY <1>2, EnqueueHolds, RemoveDeadLetterHolds
<1>3. ASSUME NEW s \in Servers, Pop(s) \/ JobDone(s) \/ JobFails(s) \/ JobLost(s)
      PROVE  QueueInv'
  BY <1>3, PopHolds, JobDoneHolds, JobFailsHolds, JobLostHolds
<1> QED  BY <1>1, <1>2, <1>3 DEF QueueNext

\* The jobs that are in no list and not over are the missing ones.
LEMMA JobsAreAccounted == ASSUME QueueAssumption, QueueInv  PROVE  JobsAccounted
<1>1. /\ queue \in Seq(Jobs) /\ deadLetters \in Seq(Jobs) /\ enqueued \subseteq Jobs
      /\ running \in [Servers -> Jobs \cup {None}] /\ None \notin Jobs
      /\ Listed \subseteq enqueued \ Over /\ Cardinality(Missing) <= losses
  BY DEF QueueInv, QueueTypeOK, InOnePlace, QueueAssumption
<1>2. DOMAIN queue = 1..Len(queue) /\ DOMAIN deadLetters = 1..Len(deadLetters)
  BY <1>1, LenProperties
<1>3. \A j \in enqueued : InList(j) <=> j \in Listed
  BY <1>1, <1>2 DEF InList, Contains, Listed, Waiting, Buried, Popped, ToSet
<1>4. {j \in enqueued : ~InList(j) /\ j \notin handled \cup removed \cup dropped} = Missing
  BY <1>3 DEF Missing, Over
<1>5. \A j \in enqueued : InList(j) => j \notin handled \cup removed \cup dropped
  BY <1>1, <1>3 DEF Over
<1> QED  BY <1>1, <1>4, <1>5 DEF JobsAccounted
-----------------------------------------------------------------------------
(***************************************************************************)
(* The parts on their own, and the server they make up.                    *)
(***************************************************************************)

\* The locks and holds of the seats agree.
THEOREM SeatsInductive == ASSUME SeatAssumption  PROVE  SeatSpec => []SeatInv
BY SeatInitHolds, SeatStepHolds, PTL DEF SeatSpec

\* The rows of a group and the copies requests have of them agree with what
\* was charged.
THEOREM GroupInductive == ASSUME GroupAssumption  PROVE  GroupSpec => []GroupInv
BY GroupInitHolds, GroupStepHolds, PTL DEF GroupSpec

\* The rows of the refunds agree with the calls under way and the payments.
THEOREM RefundsInductive == ASSUME RefundsAssumption  PROVE  RefundsSpec => []RefundsInv
BY RefundsInitHolds, RefundsStepHolds, PTL DEF RefundsSpec

\* Each job is in one place.
THEOREM QueueInductive == ASSUME QueueAssumption  PROVE  QueueSpec => []QueueInv
BY QueueInitHolds, QueueStepHolds, PTL DEF QueueSpec

\* A step of the server is a step of each part, or leaves that part as it is.
LEMMA EachPartSteps ==
  ASSUME [ServerNext]_allVars
  PROVE  /\ [Next]_vars /\ [SeatNext]_seatVars /\ [GroupNext]_groupVars
         /\ [RefundsNext]_refundRowVars /\ [QueueNext]_queueVars
BY DEF ServerNext, allVars

\* So what is proved of a part holds in the server.
THEOREM EachPartHolds ==
  ServerSpec => Spec /\ SeatSpec /\ GroupSpec /\ RefundsSpec /\ QueueSpec
BY EachPartSteps, PTL
   DEF ServerSpec, ServerInit, Spec, SeatSpec, GroupSpec, RefundsSpec, QueueSpec

\* The invariants of the parts together.
LEMMA PartsInvariant == ServerSpec => [](IInv /\ SeatInv /\ GroupInv /\ RefundsInv /\ QueueInv)
<1>1. SeatAssumption /\ GroupAssumption /\ RefundsAssumption /\ QueueAssumption
  BY ServerAssumption DEF ServerAssumption
<1> QED
  BY <1>1, EachPartHolds, Inductive, SeatsInductive, GroupInductive, RefundsInductive,
     QueueInductive, PTL

\* The state of the server keeps its shape.
THEOREM ServerTypesCorrect == ServerSpec => []TypesOK
<1>1. IInv /\ SeatInv /\ GroupInv /\ RefundsInv /\ QueueInv => TypesOK
  BY DEF IInv, SeatInv, GroupInv, RefundsInv, QueueInv, TypesOK
<1> QED
  BY <1>1, PartsInvariant, PTL

\* Two groups never hold one seat at a time, but for a seat that a call on a
\* single seat has taken from one of them, however holds, updates, expiries and
\* cleanups follow one another.
THEOREM HoldsApartAlways == ServerSpec => []HoldsAreDisjoint
BY PartsInvariant, HoldsApart, PTL

\* Everyone a group has booked, but for its organizer, was charged, and nobody
\* is booked while the approval it needs is undecided, whatever copies of the
\* group are saved over one another.
THEOREM BookingsDueAlways == ServerSpec => []BookingsAreDue
BY PartsInvariant, PTL DEF GroupInv

\* A refund is completed only when Stripe has paid it, or a call found nothing to
\* pay for it by card.
THEOREM CompletedPaidAlways == ServerSpec => []CompletedMeansPaid
BY PartsInvariant, RefundsPromises, PTL

\* A large refund no admin has acted on is paid only after its delay.
THEOREM LargeWaitAlways == ServerSpec => []LargeRefundsWait
BY PartsInvariant, RefundsPromises, PTL

\* Every job taken on is done, kept, in a server's hands or dropped on purpose,
\* but for one for each failure.
THEOREM JobsAccountedAlways == ServerSpec => []JobsAccounted
<1>1. QueueAssumption
  BY ServerAssumption DEF ServerAssumption
<1> QED  BY <1>1, PartsInvariant, JobsAreAccounted, PTL
=============================================================================
