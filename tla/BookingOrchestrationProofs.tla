---------------------- MODULE BookingOrchestrationProofs ----------------------
(***************************************************************************)
(* No overselling, and statuses that agree with the chain, for any number  *)
(* of requests, keys, clients, seats, attempts and faults.                 *)
(***************************************************************************)
EXTENDS BookingOrchestration, FiniteSetTheorems, TLAPS

Reserved == {r \in Requests : post[r] \in Holding}
Live == {b \in Requests : rows[b] \in {"onchain_submitted", "confirmed"}}

\* The bookings whose seat was not given back: only the poller of a failed
\* transaction gives one back, and it is done then.
Owed == {b \in Requests : rows[b] # None /\ ~(poller[b].at = "done" /\ tx[b] = "failed")}

\* Every seat the flight had is on offer, reserved or owed to a booking.
SeatsAddUp ==
    /\ IsFiniteSet(Reserved) /\ IsFiniteSet(Owed)
    /\ seats + Cardinality(Reserved) + Cardinality(Owed) <= Capacity + unanswered

\* Before its booking is saved a request has neither a booking nor a poller,
\* and before it is submitted no transaction.
PostsHold ==
    \A r \in Requests :
        /\ post[r] \in {"new", "reserve", "passenger", "submit", "save"} =>
              rows[r] = None /\ poller[r].at = "off"
        /\ post[r] \in {"new", "reserve", "passenger", "submit"} => tx[r] = "none"

\* What a poller saw is the transaction's outcome, and what it does follows
\* from it.
PollersHold ==
    \A b \in Requests :
        /\ poller[b].at # "off" => rows[b] # None
        /\ poller[b].seen # None => tx[b] = poller[b].seen
        /\ poller[b].at = "write" => poller[b].seen # None
        /\ poller[b].at = "release" =>
              poller[b].seen = "failed" /\ rows[b] # "onchain_submitted"
        /\ poller[b].at = "done" => rows[b] # "onchain_submitted"

HandlersHold ==
    \A c \in Clients :
        /\ handler[c].at # "idle" =>
              handler[c].booking \in Requests /\ rows[handler[c].booking] # None
        /\ handler[c].at = "settle" =>
              handler[c].seen # None /\ tx[handler[c].booking] = handler[c].seen

\* A key leads to a booking made for it, and the request that was answered
\* with its booking has linked one.
LinksHold ==
    /\ \A k \in Keys : resource[k] # None =>
          rows[resource[k]] # None /\ KeyOf[resource[k]] = k
    /\ \A r \in Requests :
          /\ post[r] = "link" => rows[r] # None
          /\ post[r] = "created" => resource[KeyOf[r]] # None

IInv ==
    /\ TypeOK /\ PostsHold /\ PollersHold /\ HandlersHold /\ LinksHold
    /\ OutcomeAgrees /\ SeatsAddUp

-----------------------------------------------------------------------------
\* Nothing was requested, and every seat is on offer.
LEMMA InitHolds == Init => IInv
<1> SUFFICES ASSUME Init PROVE IInv
  OBVIOUS
<1> USE OrchestrationAssumption DEF Init, OrchestrationAssumption
<1>1. TypeOK
  BY DEF TypeOK, Idle, Poller, Handler
<1>2. PostsHold /\ PollersHold /\ HandlersHold /\ LinksHold /\ OutcomeAgrees
  BY DEF PostsHold, PollersHold, HandlersHold, LinksHold, OutcomeAgrees, Idle, Statuses
<1>3. Reserved = {} /\ Owed = {}
  BY DEF Reserved, Owed, Holding
<1>4. SeatsAddUp
  BY <1>3, FS_EmptySet DEF SeatsAddUp
<1> QED
  BY <1>1, <1>2, <1>4 DEF IInv

-----------------------------------------------------------------------------
PollerPlaces == {"off", "poll", "write", "release", "giveup", "overwrite", "done", "dead"}

\* What the record of a poller may be changed to.
LEMMA PollerMoves ==
  ASSUME poller \in [Requests -> Poller], NEW b \in Requests, NEW place \in PollerPlaces,
         poller' = [poller EXCEPT ![b].at = place]
  PROVE  poller' \in [Requests -> Poller]
BY DEF Poller, PollerPlaces

\* A poller that was told an outcome keeps its type.
LEMMA PollerSees ==
  ASSUME poller \in [Requests -> Poller], NEW b \in Requests, NEW place \in PollerPlaces,
         NEW seen \in {"success", "failed", None},
         poller' = [poller EXCEPT ![b].seen = seen, ![b].at = place]
  PROVE  poller' \in [Requests -> Poller]
<1>1. ASSUME NEW old \in Poller
      PROVE  [old EXCEPT !.seen = seen, !.at = place] \in Poller
  BY DEF Poller, PollerPlaces
<1>2. poller' = [poller EXCEPT ![b] = [@ EXCEPT !.seen = seen, !.at = place]]
  BY DEF Poller
<1>3. PICK new \in Poller : new = [poller[b] EXCEPT !.seen = seen, !.at = place]
  BY <1>1
<1>4. poller' = [poller EXCEPT ![b] = new]
  BY <1>2, <1>3
<1> QED  BY <1>4

\* So does one that tries again or gives up: attempts stay within the bound.
LEMMA PollerRetries ==
  ASSUME poller \in [Requests -> Poller], NEW b \in Requests, RetryOrGiveUp(b)
  PROVE  poller' \in [Requests -> Poller]
<1>1. CASE poller' = [poller EXCEPT ![b].at = "giveup"]
  BY <1>1 DEF Poller
<1>2. CASE /\ poller[b].attempt < MaxAttempts
           /\ poller' = [poller EXCEPT ![b].at = "poll", ![b].attempt = @ + 1]
  <2>1. poller[b].attempt + 1 \in 1..MaxAttempts
    BY <1>2, OrchestrationAssumption DEF Poller, OrchestrationAssumption
  <2>2. PICK n \in 1..MaxAttempts : n = poller[b].attempt + 1
    BY <2>1
  <2>3. poller' = [poller EXCEPT ![b] = [at |-> "poll", attempt |-> n, seen |-> @.seen]]
    BY <1>2, <2>2 DEF Poller
  <2> QED
    BY <2>3 DEF Poller
<1> QED
  BY <1>1, <1>2 DEF RetryOrGiveUp

\* Types, one action at a time.
LEMMA TypePreserved ==
  ASSUME TypeOK, HandlersHold, [Next]_vars
  PROVE  TypeOK'
<1> USE OrchestrationAssumption DEF TypeOK, OrchestrationAssumption, db
<1>1. CASE UNCHANGED vars
  BY <1>1 DEF vars
<1>2. ASSUME NEW r \in Requests, PostStep(r)
      PROVE  TypeOK'
  <2> USE DEF At, Works, Fails, Unanswered, Holding, Answers, Save
  <2>1. CASE Arrive(r) \/ SavePassenger(r)
    BY <2>1 DEF Arrive, SavePassenger
  <2>2. CASE Reserve(r)
    BY <2>2 DEF Reserve
  <2>3. CASE Submit(r)
    BY <2>3 DEF Submit
  <2>4. CASE SaveBooking(r)
    <3>1. poller' \in [Requests -> Poller]
      BY <2>4, PollerMoves DEF SaveBooking, PollerPlaces
    <3>2. rows' \in [Requests -> Statuses \cup {None}]
      BY <2>4 DEF SaveBooking, Statuses
    <3> QED
      BY <2>4, <3>1, <3>2 DEF SaveBooking
  <2>5. CASE Undo(r)
    BY <2>5 DEF Undo
  <2>6. CASE Link(r)
    BY <2>6 DEF Link
  <2> QED
    BY <1>2, <2>1, <2>2, <2>3, <2>4, <2>5, <2>6 DEF PostStep
<1>3. ASSUME NEW b \in Requests, PollerStep(b)
      PROVE  TypeOK'
  <2> USE DEF Works, Fails, Unanswered, Save, Statuses
  <2>2. CASE Poll(b)
    <3>1. poller' \in [Requests -> Poller]
      BY <2>2, PollerSees, PollerRetries DEF Poll, Observable, PollerPlaces
    <3> QED
      BY <2>2, <3>1 DEF Poll
  <2>3. CASE PollWrite(b)
    <3>1. poller' \in [Requests -> Poller]
      BY <2>3, PollerMoves, PollerRetries DEF PollWrite, PollerPlaces
    <3> QED
      BY <2>3, <3>1 DEF PollWrite
  <2>4. CASE PollRelease(b)
    <3>1. poller' \in [Requests -> Poller]
      BY <2>4, PollerMoves, PollerRetries DEF PollRelease, PollerPlaces
    <3> QED
      BY <2>4, <3>1 DEF PollRelease
  <2>5. CASE GiveUp(b)
    <3>1. poller' \in [Requests -> Poller]
      BY <2>5, PollerMoves DEF GiveUp, PollerPlaces
    <3> QED
      BY <2>5, <3>1 DEF GiveUp
  <2>6. CASE Overwrite(b)
    <3>1. poller' \in [Requests -> Poller]
      BY <2>6, PollerMoves DEF Overwrite, PollerPlaces
    <3> QED
      BY <2>6, <3>1 DEF Overwrite
  <2> QED
    BY <1>3, <2>2, <2>3, <2>4, <2>5, <2>6 DEF PollerStep
<1>4. ASSUME NEW b \in Requests, Finalize(b)
      PROVE  TypeOK'
  BY <1>4 DEF Finalize, Works
<1>5. ASSUME NEW c \in Clients,
             (\E b \in Requests : Read(c, b)) \/ QueryChain(c) \/ Settle(c) \/ Cancel(c)
      PROVE  TypeOK'
  <2> USE DEF Works, Fails, Idle, Statuses, Handler
  <2>1. ASSUME NEW b \in Requests, Read(c, b)
        PROVE  TypeOK'
    <3>1. handler' \in [Clients -> Handler]
      BY <2>1 DEF Read, Go
    <3> QED
      BY <2>1, <3>1 DEF Read
  <2>2. CASE QueryChain(c)
    <3>1. handler' \in [Clients -> Handler]
      BY <2>2 DEF QueryChain, Observable
    <3> QED
      BY <2>2, <3>1 DEF QueryChain
  <2>3. CASE Settle(c)
    BY <2>3 DEF Settle, Save
  <2>4. CASE Cancel(c)
    <3>1. handler[c].booking \in Requests
      BY <2>4 DEF Cancel, HandlersHold
    <3> QED
      BY <2>4, <3>1 DEF Cancel, Save
  <2> QED
    BY <1>5, <2>1, <2>2, <2>3, <2>4
<1>6. CASE Crash
  <2>1. poller' \in [Requests -> Poller]
    BY <1>6 DEF Crash, Poller
  <2>2. handler' \in [Clients -> Handler]
    BY <1>6 DEF Crash, Idle, Handler
  <2> QED
    BY <1>6, <2>1, <2>2 DEF Crash, Fails, Answers
<1> QED
  BY <1>1, <1>2, <1>3, <1>4, <1>5, <1>6 DEF Next

-----------------------------------------------------------------------------
\* A booking is never deleted, and a transaction's outcome is final.
LEMMA RowsStay ==
  ASSUME TypeOK, HandlersHold, [Next]_vars, NEW b \in Requests, rows[b] # None
  PROVE  rows'[b] # None
<1> USE OrchestrationAssumption DEF OrchestrationAssumption, Statuses, Save, db
<1>1. CASE UNCHANGED rows
  BY <1>1
<1>2. ASSUME NEW r \in Requests, SaveBooking(r) \/ PollWrite(r) \/ Overwrite(r)
      PROVE  rows'[b] # None
  BY <1>2 DEF TypeOK, SaveBooking, PollWrite, Overwrite
<1>3. ASSUME NEW c \in Clients, Settle(c) \/ Cancel(c)
      PROVE  rows'[b] # None
  BY <1>3 DEF TypeOK, Settle, Cancel
<1> QED
  BY <1>1, <1>2, <1>3
     DEF Next, vars, PostStep, PollerStep, Arrive, Reserve, SavePassenger, Submit, Undo,
         Link, Poll, PollRelease, GiveUp, Finalize, Read, QueryChain, Crash

\* What the chain has decided of a transaction stays decided.
LEMMA OutcomesStay ==
  ASSUME TypeOK, [Next]_vars, NEW b \in Requests, tx[b] \in {"success", "failed"},
         PostsHold
  PROVE  tx'[b] = tx[b]
<1>1. CASE UNCHANGED tx
  BY <1>1
<1>2. ASSUME NEW r \in Requests, Submit(r) \/ Finalize(r)
      PROVE  tx'[b] = tx[b]
  BY <1>2 DEF TypeOK, PostsHold, Submit, Finalize
<1> QED
  BY <1>1, <1>2
     DEF Next, vars, db, PostStep, PollerStep, Arrive, Reserve, SavePassenger, SaveBooking,
         Undo, Link, Poll, PollWrite, PollRelease, GiveUp, Overwrite, Read, QueryChain,
         Settle, Cancel, Crash

\* Only its own request gives a booking a row, a poller and a transaction.
LEMMA PostsPreserved ==
  ASSUME TypeOK, PostsHold, PollersHold, HandlersHold, [Next]_vars
  PROVE  PostsHold'
<1> USE DEF TypeOK, PostsHold, PollersHold
<1>1. CASE UNCHANGED <<rows, poller, post, tx>>
  BY <1>1
<1>2. ASSUME NEW r \in Requests, PostStep(r)
      PROVE  PostsHold'
  BY <1>2 DEF PostStep, Arrive, Reserve, SavePassenger, Submit, SaveBooking, Undo, Link, At,
              Save, db
<1>3. ASSUME NEW b \in Requests, PollerStep(b)
      PROVE  PostsHold'
  <2>1. UNCHANGED <<post, tx>> /\ poller[b].at # "off" /\ rows[b] # None
    BY <1>3 DEF PollerStep, Poll, PollWrite, PollRelease, GiveUp, Overwrite
  <2>2. \A r \in Requests : r # b => rows'[r] = rows[r] /\ poller'[r] = poller[r]
    BY <1>3 DEF PollerStep, Poll, PollWrite, PollRelease, GiveUp, Overwrite,
                RetryOrGiveUp, Save, db
  <2> QED
    BY <2>1, <2>2
<1>4. ASSUME NEW b \in Requests, Finalize(b)
      PROVE  PostsHold'
  BY <1>4 DEF Finalize, db
<1>5. ASSUME NEW c \in Clients, Settle(c) \/ Cancel(c)
      PROVE  PostsHold'
  BY <1>5 DEF Settle, Cancel, Save, HandlersHold
<1>6. CASE Crash
  BY <1>6 DEF Crash, db, Answers
<1> QED
  BY <1>1, <1>2, <1>3, <1>4, <1>5, <1>6 DEF Next, vars, Read, QueryChain, db

\* Rows of other bookings' handlers do not bring a booking back to submitted.
LEMMA PollersPreserved ==
  ASSUME TypeOK, PostsHold, PollersHold, HandlersHold, [Next]_vars
  PROVE  PollersHold'
<1> USE DEF TypeOK, PollersHold
<1>1. CASE UNCHANGED <<rows, poller, tx>>
  BY <1>1
<1>2. ASSUME NEW r \in Requests, Submit(r) \/ SaveBooking(r)
      PROVE  PollersHold'
  BY <1>2, OrchestrationAssumption
     DEF Submit, SaveBooking, At, Save, db, PostsHold, OrchestrationAssumption, Statuses, Poller
<1>3. ASSUME NEW b \in Requests, PollerStep(b)
      PROVE  PollersHold'
  <2>1. UNCHANGED <<post, tx>> /\ poller[b].at # "off" /\ rows[b] # None
    BY <1>3 DEF PollerStep, Poll, PollWrite, PollRelease, GiveUp, Overwrite
  <2>2. \A r \in Requests : r # b => rows'[r] = rows[r] /\ poller'[r] = poller[r]
    BY <1>3 DEF PollerStep, Poll, PollWrite, PollRelease, GiveUp, Overwrite,
                RetryOrGiveUp, Save, db
  <2>3. rows'[b] # None
    BY <2>1, RowsStay, <1>3 DEF Next
  <2>4. CASE Poll(b)
    BY <2>1, <2>2, <2>3, <2>4 DEF Poll, RetryOrGiveUp, Observable, Poller
  <2>5. CASE PollWrite(b)
    BY <2>1, <2>2, <2>3, <2>5 DEF PollWrite, RetryOrGiveUp, Poller, Save
  <2>6. CASE PollRelease(b)
    BY <2>1, <2>2, <2>3, <2>6 DEF PollRelease, RetryOrGiveUp, Poller
  <2>7. CASE GiveUp(b)
    BY <2>1, <2>2, <2>3, <2>7 DEF GiveUp, Poller, db
  <2>8. CASE Overwrite(b)
    BY <2>1, <2>2, <2>3, <2>8 DEF Overwrite, Poller, Save
  <2> QED
    BY <1>3, <2>4, <2>5, <2>6, <2>7, <2>8 DEF PollerStep
<1>4. ASSUME NEW b \in Requests, Finalize(b)
      PROVE  PollersHold'
  BY <1>4, OrchestrationAssumption DEF Finalize, db, Poller, OrchestrationAssumption
<1>5. ASSUME NEW c \in Clients, Settle(c) \/ Cancel(c)
      PROVE  PollersHold'
  BY <1>5, OrchestrationAssumption
     DEF Settle, Cancel, Save, HandlersHold, OrchestrationAssumption, Statuses
<1>6. CASE Crash
  BY <1>6 DEF Crash, db, Poller
<1> QED
  BY <1>1, <1>2, <1>3, <1>4, <1>5, <1>6
     DEF Next, vars, db, PostStep, Arrive, Reserve, SavePassenger, Undo, Link, Read,
         QueryChain

\* A request of a client keeps the booking it read and the outcome it saw.
LEMMA HandlersPreserved ==
  ASSUME TypeOK, PostsHold, HandlersHold, [Next]_vars
  PROVE  HandlersHold'
<1> USE DEF TypeOK, HandlersHold
<1>1. SUFFICES ASSUME NEW d \in Clients, handler'[d].at # "idle"
               PROVE  /\ handler'[d].booking \in Requests
                      /\ rows'[handler'[d].booking] # None
                      /\ handler'[d].at = "settle" =>
                            /\ handler'[d].seen # None
                            /\ tx'[handler'[d].booking] = handler'[d].seen
  BY DEF HandlersHold
<1>2. CASE handler'[d] = handler[d]
  BY <1>1, <1>2, RowsStay, OutcomesStay DEF Handler
<1>3. ASSUME NEW b \in Requests, Read(d, b)
      PROVE  handler'[d].booking = b /\ rows'[b] # None /\ handler'[d].at # "settle"
  BY <1>3 DEF Read, Go, db
<1>4. ASSUME QueryChain(d), handler'[d] # handler[d]
      PROVE  /\ handler'[d].booking = handler[d].booking
             /\ rows'[handler[d].booking] # None /\ handler'[d].seen # None
             /\ tx'[handler[d].booking] = handler'[d].seen
  BY <1>1, <1>4, OrchestrationAssumption
     DEF QueryChain, db, Idle, Observable, Handler, OrchestrationAssumption, Statuses
<1>5. \/ handler'[d] = handler[d] \/ handler'[d] = Idle
      \/ QueryChain(d) \/ \E b \in Requests : Read(d, b)
  <2> DEFINE Same == handler'[d] = handler[d]
  <2>1. ASSUME UNCHANGED handler PROVE Same
    BY <2>1
  <2>2. ASSUME NEW r \in Requests, PostStep(r) PROVE Same
    BY <2>2 DEF PostStep, Arrive, Reserve, SavePassenger, Submit, SaveBooking, Undo, Link
  <2>3. ASSUME NEW r \in Requests, PollerStep(r) \/ Finalize(r) PROVE Same
    BY <2>3 DEF PollerStep, Poll, PollWrite, PollRelease, GiveUp, Overwrite, Finalize
  <2>4. ASSUME NEW c \in Clients, c # d,
               (\E b \in Requests : Read(c, b)) \/ QueryChain(c) \/ Settle(c) \/ Cancel(c)
        PROVE  Same
    BY <2>4 DEF Read, Go, QueryChain, Settle, Cancel
  <2>5. CASE Settle(d) \/ Cancel(d) \/ Crash
    BY <2>5 DEF Settle, Cancel, Crash
  <2> QED
    BY <2>1, <2>2, <2>3, <2>4, <2>5 DEF Next, vars
<1> QED
  BY <1>1, <1>2, <1>3, <1>4, <1>5 DEF Idle, QueryChain

\* A key's booking is set once the booking is saved.
LEMMA LinksPreserved ==
  ASSUME TypeOK, HandlersHold, LinksHold, [Next]_vars
  PROVE  LinksHold'
<1> USE OrchestrationAssumption DEF TypeOK, LinksHold, OrchestrationAssumption
<1>1. CASE UNCHANGED <<post, resource>>
  BY <1>1, RowsStay
<1>2. ASSUME NEW r \in Requests, Arrive(r) \/ Reserve(r) \/ SavePassenger(r) \/ Submit(r) \/ Undo(r)
      PROVE  LinksHold'
  BY <1>2 DEF Arrive, Reserve, SavePassenger, Submit, Undo, At, db
<1>3. ASSUME NEW r \in Requests, SaveBooking(r)
      PROVE  LinksHold'
  BY <1>3 DEF SaveBooking, At, Save, Statuses
<1>4. ASSUME NEW r \in Requests, Link(r)
      PROVE  LinksHold'
  BY <1>4 DEF Link, At
<1>5. CASE Crash
  BY <1>5 DEF Crash, db, Answers
<1> QED
  BY <1>1, <1>2, <1>3, <1>4, <1>5
     DEF Next, vars, db, PostStep, PollerStep, Poll, PollWrite, PollRelease, GiveUp,
         Overwrite, Finalize, Read, QueryChain, Settle, Cancel

\* Who writes a status writes the outcome it saw, or gave up.
LEMMA OutcomePreserved ==
  ASSUME TypeOK, PostsHold, PollersHold, HandlersHold, OutcomeAgrees, [Next]_vars
  PROVE  OutcomeAgrees'
<1> USE DEF TypeOK, OutcomeAgrees
<1>1. CASE UNCHANGED <<rows, poller, tx>>
  BY <1>1
<1>2. ASSUME NEW r \in Requests, Submit(r) \/ SaveBooking(r)
      PROVE  OutcomeAgrees'
  BY <1>2, OrchestrationAssumption
     DEF Submit, SaveBooking, At, Save, db, PostsHold, OrchestrationAssumption, Statuses, Poller
<1>3. ASSUME NEW b \in Requests, PollerStep(b)
      PROVE  OutcomeAgrees'
  <2>1. UNCHANGED tx /\ poller[b].at # "done"
    BY <1>3 DEF PollerStep, Poll, PollWrite, PollRelease, GiveUp, Overwrite
  <2>2. \A r \in Requests : r # b => rows'[r] = rows[r] /\ poller'[r] = poller[r]
    BY <1>3 DEF PollerStep, Poll, PollWrite, PollRelease, GiveUp, Overwrite,
                RetryOrGiveUp, Save, db
  <2>3. CASE UNCHANGED rows
    BY <2>1, <2>2, <2>3
  <2>4. CASE PollWrite(b)
    BY <2>1, <2>2, <2>4, OrchestrationAssumption
       DEF PollWrite, Poller, Save, PollersHold, OrchestrationAssumption, Statuses
  <2>5. CASE Overwrite(b)
    BY <2>1, <2>2, <2>5 DEF Overwrite, Poller, Save
  <2> QED
    BY <1>3, <2>3, <2>4, <2>5 DEF PollerStep, Poll, PollRelease, GiveUp, db
<1>4. ASSUME NEW b \in Requests, Finalize(b)
      PROVE  OutcomeAgrees'
  BY <1>4 DEF Finalize, db
<1>5. ASSUME NEW c \in Clients, Settle(c) \/ Cancel(c)
      PROVE  OutcomeAgrees'
  BY <1>5 DEF Settle, Cancel, Save, HandlersHold, Handler
<1>6. CASE Crash
  BY <1>6 DEF Crash, db, Poller
<1> QED
  BY <1>1, <1>2, <1>3, <1>4, <1>5, <1>6
     DEF Next, vars, db, PostStep, Arrive, Reserve, SavePassenger, Undo, Link, Read,
         QueryChain

-----------------------------------------------------------------------------
\* The size of a set that loses members, and of one that may gain one.
LEMMA NoMore ==
  ASSUME NEW S, NEW T, IsFiniteSet(S), T \subseteq S
  PROVE  /\ IsFiniteSet(T) /\ Cardinality(S) \in Nat /\ Cardinality(T) \in Nat
         /\ Cardinality(T) <= Cardinality(S)
BY FS_Subset, FS_CardinalityType

\* One element more adds at most one to a count.
LEMMA OneMore ==
  ASSUME NEW S, NEW T, NEW x, IsFiniteSet(S), T \subseteq S \cup {x}
  PROVE  /\ IsFiniteSet(T) /\ Cardinality(S) \in Nat /\ Cardinality(T) \in Nat
         /\ Cardinality(T) <= Cardinality(S) + 1
<1>1. /\ IsFiniteSet(S \cup {x}) /\ Cardinality(S) \in Nat
      /\ Cardinality(S \cup {x}) \in Nat /\ Cardinality(S \cup {x}) <= Cardinality(S) + 1
  <2>1. Cardinality(S) \in Nat
    BY FS_CardinalityType
  <2>2. /\ IsFiniteSet(S \cup {x})
        /\ Cardinality(S \cup {x}) = IF x \in S THEN Cardinality(S) ELSE Cardinality(S) + 1
    BY FS_AddElement
  <2> QED  BY <2>1, <2>2
<1>2. /\ IsFiniteSet(T) /\ Cardinality(T) \in Nat
      /\ Cardinality(T) <= Cardinality(S \cup {x})
  BY <1>1, NoMore
<1> QED
  BY <1>1, <1>2

\* An element taken out of a finite set makes its count one less.
LEMMA OneLess ==
  ASSUME NEW S, NEW T, NEW x \in S, IsFiniteSet(S), T \subseteq S \ {x}
  PROVE  /\ IsFiniteSet(T) /\ Cardinality(S) \in Nat /\ Cardinality(T) \in Nat
         /\ Cardinality(T) + 1 <= Cardinality(S)
<1>1. /\ IsFiniteSet(S \ {x}) /\ Cardinality(S) \in Nat
      /\ Cardinality(S \ {x}) \in Nat /\ Cardinality(S \ {x}) = Cardinality(S) - 1
  BY FS_RemoveElement, FS_CardinalityType
<1> QED
  BY <1>1, NoMore

\* Only the request that saves it makes a booking that is owed a seat.
LEMMA OwedOnlySaved ==
  ASSUME TypeOK, PostsHold, PollersHold, HandlersHold, [Next]_vars,
         NEW b \in Requests, b \in Owed'
  PROVE  b \in Owed \/ SaveBooking(b)
<1> USE OrchestrationAssumption DEF OrchestrationAssumption, Owed, TypeOK, Poller
<1>1. rows'[b] # None /\ ~(poller'[b].at = "done" /\ tx'[b] = "failed")
  OBVIOUS
<1>2. rows[b] # None \/ SaveBooking(b)
  <2>1. CASE UNCHANGED rows
    BY <1>1, <2>1
  <2>2. ASSUME NEW r \in Requests, SaveBooking(r) \/ PollWrite(r) \/ Overwrite(r)
        PROVE  rows[b] # None \/ SaveBooking(b)
    BY <1>1, <2>2 DEF SaveBooking, PollWrite, Overwrite, Save, PollersHold
  <2>3. ASSUME NEW c \in Clients, Settle(c) \/ Cancel(c)
        PROVE  rows[b] # None
    BY <1>1, <2>3 DEF Settle, Cancel, Save, HandlersHold
  <2> QED
    BY <2>1, <2>2, <2>3
       DEF Next, vars, db, PostStep, PollerStep, Arrive, Reserve, SavePassenger, Submit,
           Undo, Link, Poll, PollRelease, GiveUp, Finalize, Read, QueryChain, Crash
<1>3. poller[b].at = "done" => poller'[b] = poller[b] \/ SaveBooking(b)
  <2>1. ASSUME NEW r \in Requests, PollerStep(r), poller[b].at = "done"
        PROVE  poller'[b] = poller[b]
    BY <2>1 DEF PollerStep, Poll, PollWrite, PollRelease, RetryOrGiveUp, GiveUp, Overwrite
  <2>2. ASSUME NEW r \in Requests, SaveBooking(r)
        PROVE  poller'[b] = poller[b] \/ SaveBooking(b)
    BY <2>2 DEF SaveBooking
  <2>3. CASE Crash
    BY <2>3 DEF Crash
  <2> QED
    BY <2>1, <2>2, <2>3
       DEF Next, vars, PostStep, Arrive, Reserve, SavePassenger, Submit, Undo, Link,
           Finalize, Read, QueryChain, Settle, Cancel
<1>4. tx[b] = "failed" => tx'[b] = "failed"
  BY OutcomesStay
<1> QED
  BY <1>1, <1>2, <1>3, <1>4

\* Where seats are taken, given back, reserved and owed.
LEMMA SeatsPreserved ==
  ASSUME IInv, [Next]_vars
  PROVE  SeatsAddUp'
<1> USE DEF SeatsAddUp
<1>0. /\ TypeOK /\ PostsHold /\ PollersHold /\ HandlersHold /\ SeatsAddUp
      /\ Capacity \in Nat
  BY OrchestrationAssumption DEF IInv, OrchestrationAssumption
<1>1. Owed' \subseteq Owed \cup {b \in Requests : SaveBooking(b)}
  BY <1>0, OwedOnlySaved DEF Owed
<1>2. ASSUME Owed' \subseteq Owed, Reserved' \subseteq Reserved, UNCHANGED seats,
             unanswered' \in Nat, unanswered' >= unanswered
      PROVE  SeatsAddUp'
  BY <1>0, <1>2, NoMore DEF TypeOK
<1>3. ASSUME NEW r \in Requests, Reserve(r)
      PROVE  SeatsAddUp'
  <2>1. Owed' \subseteq Owed
    BY <1>0, <1>3 DEF Owed, Reserve, TypeOK
  <2>2. CASE seats' = seats - 1 /\ At(r, "passenger") /\ Works
    <3>1. Reserved' \subseteq Reserved \cup {r}
      BY <1>0, <2>2 DEF Reserved, At, TypeOK
    <3> QED
      <4>1. /\ IsFiniteSet(Reserved') /\ IsFiniteSet(Owed')
            /\ Cardinality(Reserved) \in Nat /\ Cardinality(Reserved') \in Nat
            /\ Cardinality(Owed) \in Nat /\ Cardinality(Owed') \in Nat
            /\ Cardinality(Reserved') <= Cardinality(Reserved) + 1
            /\ Cardinality(Owed') <= Cardinality(Owed)
        BY <1>0, <2>1, <3>1, NoMore, OneMore
      <4> QED
        BY <1>0, <4>1, <2>2 DEF TypeOK, Works
  <2>3. CASE At(r, "refused") /\ seats' \in {seats, seats - 1} /\ unanswered' >= unanswered
    <3>1. Reserved' \subseteq Reserved
      BY <1>0, <2>3 DEF Reserved, At, TypeOK, Holding
    <3>2. unanswered' \in Nat
      BY <1>0, <1>3 DEF Reserve, TypeOK, Works, Fails, Unanswered
    <3> QED
      BY <1>0, <2>1, <2>3, <3>1, <3>2, NoMore DEF TypeOK
  <2> QED
    BY <1>0, <1>3, <2>2, <2>3 DEF Reserve, TypeOK, Works, Fails, Unanswered
<1>4. ASSUME NEW r \in Requests, SaveBooking(r)
      PROVE  SeatsAddUp'
  <2>1. r \in Reserved /\ UNCHANGED seats /\ Owed' \subseteq Owed \cup {r}
    BY <1>0, <1>1, <1>4 DEF Reserved, Holding, SaveBooking, At, TypeOK
  <2>2. CASE At(r, "link") /\ Works
    <3>1. Reserved' \subseteq Reserved \ {r}
      BY <1>0, <2>2 DEF Reserved, At, TypeOK, Holding
    <3> QED
      <4>1. /\ IsFiniteSet(Reserved') /\ IsFiniteSet(Owed')
            /\ Cardinality(Reserved) \in Nat /\ Cardinality(Reserved') \in Nat
            /\ Cardinality(Owed) \in Nat /\ Cardinality(Owed') \in Nat
            /\ Cardinality(Reserved') + 1 <= Cardinality(Reserved)
            /\ Cardinality(Owed') <= Cardinality(Owed) + 1
        BY <1>0, <2>1, <3>1, OneLess, OneMore
      <4> QED
        BY <1>0, <4>1, <2>1, <2>2 DEF TypeOK, Works
  <2>3. CASE At(r, "undo") /\ Fails /\ UNCHANGED <<rows, poller>>
    <3>1. Reserved' \subseteq Reserved /\ Owed' \subseteq Owed
      BY <1>0, <1>4, <2>1, <2>3 DEF Reserved, Owed, At, TypeOK, Holding, SaveBooking
    <3> QED
      BY <1>0, <1>2, <2>1, <2>3, <3>1 DEF TypeOK, Fails
  <2>4. CASE At(r, "undo") /\ Unanswered
    <3>1. Reserved' \subseteq Reserved
      BY <1>0, <2>1, <2>4 DEF Reserved, At, TypeOK
    <3> QED
      <4>1. /\ IsFiniteSet(Reserved') /\ IsFiniteSet(Owed')
            /\ Cardinality(Reserved) \in Nat /\ Cardinality(Reserved') \in Nat
            /\ Cardinality(Owed) \in Nat /\ Cardinality(Owed') \in Nat
            /\ Cardinality(Reserved') <= Cardinality(Reserved)
            /\ Cardinality(Owed') <= Cardinality(Owed) + 1
        BY <1>0, <2>1, <3>1, NoMore, OneMore
      <4> QED
        BY <1>0, <4>1, <2>1, <2>4 DEF TypeOK, Unanswered
  <2> QED
    BY <1>4, <2>2, <2>3, <2>4 DEF SaveBooking
<1>5. ASSUME NEW r \in Requests, Undo(r)
      PROVE  SeatsAddUp'
  <2>1. Owed' \subseteq Owed
    BY <1>5 DEF Undo, Owed
  <2>2. r \in Reserved /\ Reserved' \subseteq Reserved \ {r}
    BY <1>0, <1>5 DEF Undo, Reserved, Holding, At, TypeOK
  <2>3. /\ seats' \in {seats, seats + 1} /\ unanswered' >= unanswered
        /\ seats' \in Nat /\ unanswered' \in Nat
    BY <1>0, <1>5 DEF Undo, TypeOK, Works, Fails, Unanswered
  <2> QED
    <3>1. /\ IsFiniteSet(Reserved') /\ IsFiniteSet(Owed')
          /\ Cardinality(Reserved) \in Nat /\ Cardinality(Reserved') \in Nat
          /\ Cardinality(Owed) \in Nat /\ Cardinality(Owed') \in Nat
          /\ Cardinality(Reserved') + 1 <= Cardinality(Reserved)
          /\ Cardinality(Owed') <= Cardinality(Owed)
      BY <1>0, <2>1, <2>2, NoMore, OneLess
    <3> QED
      BY <1>0, <3>1, <2>3 DEF TypeOK
<1>6. ASSUME NEW b \in Requests, PollRelease(b)
      PROVE  SeatsAddUp'
  <2>1. Reserved' \subseteq Reserved /\ Owed' \subseteq Owed
    <3>1. UNCHANGED post
      BY <1>6 DEF PollRelease
    <3>2. ~ \E r \in Requests : SaveBooking(r)
      BY <1>0, <1>6, <3>1 DEF PollRelease, SaveBooking, At, TypeOK
    <3> QED
      BY <1>1, <3>1, <3>2 DEF Reserved
  <2>2. CASE UNCHANGED seats /\ Fails
    BY <1>0, <1>2, <2>1, <2>2 DEF Fails, TypeOK
  <2>3. CASE seats' = seats + 1 /\ Unanswered
    BY <1>0, <2>1, <2>3, NoMore DEF Unanswered, TypeOK
  <2>4. CASE seats' = seats + 1 /\ Works /\ poller' = [poller EXCEPT ![b].at = "done"]
    <3>1. b \in Owed /\ b \notin Owed'
      BY <1>0, <1>6, <2>4, OrchestrationAssumption
         DEF PollRelease, Owed, TypeOK, PollersHold, Poller, OrchestrationAssumption, Statuses
    <3>2. /\ IsFiniteSet(Reserved') /\ IsFiniteSet(Owed')
          /\ Cardinality(Reserved) \in Nat /\ Cardinality(Reserved') \in Nat
          /\ Cardinality(Owed) \in Nat /\ Cardinality(Owed') \in Nat
          /\ Cardinality(Reserved') <= Cardinality(Reserved)
          /\ Cardinality(Owed') + 1 <= Cardinality(Owed)
      <4>1. Owed' \subseteq Owed \ {b}
        BY <2>1, <3>1
      <4> QED  BY <1>0, <2>1, <3>1, <4>1, NoMore, OneLess
    <3> QED
      BY <1>0, <2>4, <3>2 DEF Works, TypeOK
  <2> QED
    BY <1>6, <2>2, <2>3, <2>4 DEF PollRelease
<1>7. CASE ~ \E r \in Requests : Reserve(r) \/ SaveBooking(r) \/ Undo(r) \/ PollRelease(r)
  <2>1. Owed' \subseteq Owed
    BY <1>1, <1>7
  <2>2. Reserved' \subseteq Reserved
    <3>1. ASSUME NEW r \in Requests, Arrive(r) \/ SavePassenger(r) \/ Submit(r) \/ Link(r)
          PROVE  Reserved' \subseteq Reserved
      <4>1. ASSUME NEW place, At(r, place), place \in Holding => post[r] \in Holding
            PROVE  Reserved' \subseteq Reserved
        BY <1>0, <4>1 DEF Reserved, At, TypeOK
      <4> QED
        BY <3>1, <4>1 DEF Arrive, SavePassenger, Submit, Link, Holding
    <3>2. CASE UNCHANGED post
      BY <3>2 DEF Reserved
    <3>3. CASE Crash
      BY <1>0, <3>3 DEF Crash, Reserved, Holding, Answers, TypeOK
    <3>4. ASSUME NEW r \in Requests, PollerStep(r) \/ Finalize(r)
          PROVE  UNCHANGED post
      BY <3>4 DEF PollerStep, Poll, PollWrite, PollRelease, GiveUp, Overwrite, Finalize
    <3>5. ASSUME NEW c \in Clients,
                 (\E b \in Requests : Read(c, b)) \/ QueryChain(c) \/ Settle(c) \/ Cancel(c)
          PROVE  UNCHANGED post
      BY <3>5 DEF Read, QueryChain, Settle, Cancel
    <3>6. UNCHANGED vars => UNCHANGED post
      BY DEF vars
    <3> QED
      BY <1>7, <3>1, <3>2, <3>3, <3>4, <3>5, <3>6 DEF Next, PostStep
  <2>3. UNCHANGED seats
    BY <1>7
       DEF Next, vars, db, PostStep, PollerStep, Arrive, SavePassenger, Submit, Link, Poll,
           PollWrite, GiveUp, Overwrite, Finalize, Read, QueryChain, Settle, Cancel, Crash
  <2>4. Works \/ Fails \/ Unanswered
    BY <1>7
       DEF Works, Next, vars, PostStep, PollerStep, Arrive, SavePassenger, Submit, Link, Poll,
           PollWrite, GiveUp, Overwrite, Finalize, Read, QueryChain, Settle, Cancel, Crash
  <2>5. unanswered' \in Nat /\ unanswered' >= unanswered
    BY <1>0, <2>4 DEF TypeOK, Works, Fails, Unanswered
  <2> QED
    BY <1>2, <2>1, <2>2, <2>3, <2>5
<1> QED
  BY <1>3, <1>4, <1>5, <1>6, <1>7

-----------------------------------------------------------------------------
\* The invariant is inductive: every step preserves each of its parts.
LEMMA Inductive == IInv /\ [Next]_vars => IInv'
BY TypePreserved, PostsPreserved, PollersPreserved, HandlersPreserved, LinksPreserved,
   OutcomePreserved, SeatsPreserved DEF IInv

\* The invariant holds throughout.
LEMMA InvariantHolds == Spec => []IInv
BY InitHolds, Inductive, PTL DEF Spec

\* Every variable keeps the shape the columns and the handlers' locals have.
THEOREM TypeCorrect == Spec => []TypeOK
<1>1. IInv => TypeOK
  BY DEF IInv
<1> QED
  BY <1>1, InvariantHolds, PTL

\* The update that takes a seat, the catch block and the poller that give one
\* back never oversell the flight, but for calls that committed unanswered.
THEOREM FlightNotOversold == Spec => []NeverOversold
<1>1. IInv => NeverOversold
  <2> SUFFICES ASSUME IInv PROVE NeverOversold
    OBVIOUS
  <2>1. /\ TypeOK /\ PollersHold /\ OutcomeAgrees /\ SeatsAddUp /\ Capacity \in Nat
    BY OrchestrationAssumption DEF IInv, OrchestrationAssumption
  <2>2. Live \subseteq Owed
    BY <2>1, OrchestrationAssumption
       DEF Live, Owed, PollersHold, OutcomeAgrees, OrchestrationAssumption, Statuses
  <2>3. /\ Cardinality(Live) \in Nat /\ Cardinality(Owed) \in Nat
        /\ Cardinality(Reserved) \in Nat /\ Cardinality(Live) <= Cardinality(Owed)
    BY <2>1, <2>2, NoMore DEF SeatsAddUp
  <2> QED
    BY <2>1, <2>3 DEF TypeOK, SeatsAddUp, NeverOversold, Reserved, Live
<1> QED
  BY <1>1, InvariantHolds, PTL

\* The poller and the two routes agree with the chain in what they write.
THEOREM StatusesAgreeWithChain == Spec => []OutcomeAgrees
<1>1. IInv => OutcomeAgrees
  BY DEF IInv
<1> QED
  BY <1>1, InvariantHolds, PTL

\* A retry of an answered request is answered with a booking of its key.
THEOREM RetriesFindTheirBooking == Spec => RetryFindsBooking
<1>1. IInv /\ [Next]_vars =>
        [\A r \in Requests : post[r] = "new" /\ post'[r] # "new" =>
          IF \E o \in Requests : KeyOf[o] = KeyOf[r] /\ post[o] = "created"
          THEN /\ post'[r] = "repeated"
               /\ rows[resource[KeyOf[r]]] # None
               /\ KeyOf[resource[KeyOf[r]]] = KeyOf[r]
          ELSE TRUE]_vars
  <2> SUFFICES ASSUME IInv, Next, NEW r \in Requests, post[r] = "new", post'[r] # "new",
                      NEW o \in Requests, KeyOf[o] = KeyOf[r], post[o] = "created"
               PROVE  /\ post'[r] = "repeated"
                      /\ rows[resource[KeyOf[r]]] # None
                      /\ KeyOf[resource[KeyOf[r]]] = KeyOf[r]
    OBVIOUS
  <2>1. KeyOf[r] \in Keys /\ resource[KeyOf[r]] # None
    BY OrchestrationAssumption DEF IInv, LinksHold, OrchestrationAssumption
  <2>2. Arrive(r)
    <3> USE DEF IInv, TypeOK, At
    <3>1. ~Crash
      BY DEF Crash
    <3>2. ~ \E q \in Requests : PollerStep(q) \/ Finalize(q)
      BY DEF PollerStep, Poll, PollWrite, PollRelease, GiveUp, Overwrite, Finalize
    <3>3. ~ \E c \in Clients :
              (\E b \in Requests : Read(c, b)) \/ QueryChain(c) \/ Settle(c) \/ Cancel(c)
      BY DEF Read, QueryChain, Settle, Cancel
    <3>4. PICK q \in Requests : PostStep(q)
      BY <3>1, <3>2, <3>3 DEF Next
    <3>5. CASE q # r
      BY <3>4, <3>5
         DEF PostStep, Arrive, Reserve, SavePassenger, Submit, SaveBooking, Undo, Link
    <3>6. CASE q = r
      BY <3>4, <3>6 DEF PostStep, Reserve, SavePassenger, Submit, SaveBooking, Undo, Link
    <3> QED
      BY <3>5, <3>6
  <2> QED
    BY <2>1, <2>2 DEF Arrive, At, IInv, TypeOK, LinksHold
<1> QED
  BY <1>1, InvariantHolds, PTL DEF Spec, RetryFindsBooking
=============================================================================
