------------------------- MODULE BookingOrchestration -------------------------
(***************************************************************************)
(* How the backend books a seat (packages/backend): POST /bookings with    *)
(* its Idempotency-Key, the poller createBooking starts for the submitted  *)
(* transaction, and the two handlers that write a booking's status later,  *)
(* GET /:id/transaction-status and POST /:id/cancel.  Between two awaits   *)
(* anything else may run, so an action is what happens from one await to   *)
(* the next; a booking is identified with the request that made it.        *)
(*                                                                         *)
(* One flight is modelled, since a request touches one flight's row, and   *)
(* the requests of one key carry the same payload (another is refused).    *)
(* save() writes a loaded booking back without comparing versions.  A      *)
(* database call may fail, its effect lost ("fails") or only its answer    *)
(* ("unanswered"), and the process may crash; nothing is resumed after it. *)
(***************************************************************************)
EXTENDS Naturals, FiniteSets

CONSTANTS
    Requests,      \* POST requests; a client's retry is another request
    Keys,          \* Idempotency-Key values
    KeyOf,         \* the key of each request
    Clients,       \* requests for a booking's status or its cancellation
    Capacity,      \* seats the flight starts with
    MaxAttempts,   \* maxAttempts of the poller's withRetries
    MaxFaults,     \* bound: failed or unanswered calls and crashes
    MaxRefunds,    \* bound: successful cancellations of a booking
    None

Statuses == {"onchain_submitted", "confirmed", "failed", "refunded"}

ASSUME OrchestrationAssumption ==
    /\ KeyOf \in [Requests -> Keys]
    /\ Capacity \in Nat /\ MaxFaults \in Nat /\ MaxRefunds \in Nat
    /\ MaxAttempts \in Nat \ {0}
    /\ None \notin Requests \cup Statuses \cup {"success"}

VARIABLES
    seats,      \* the flight row's seatsAvailable
    resource,   \* idempotency_keys: resourceId by key
    rows,       \* bookings: status by booking
    tx,         \* the booking's transaction on the chain
    post,       \* where a POST request is, or what it was answered
    poller,     \* the poller of a booking
    handler,    \* a client's status or cancel request
    refunds,    \* cancellations answered with success, by booking
    faults,     \* failures so far
    unanswered  \* those whose database call had committed

db == <<seats, resource, rows>>
vars == <<db, tx, post, poller, handler, refunds, faults, unanswered>>

Holding == {"passenger", "submit", "save", "undo"}
Answers == {"created", "repeated", "refused"}

Idle == [at |-> "idle", booking |-> None, status |-> None, seen |-> None]

Poller ==
    [at : {"off", "poll", "write", "release", "giveup", "overwrite", "done", "dead"},
     attempt : 1..MaxAttempts, seen : {"success", "failed", None}]
Handler ==
    [at : {"idle", "query", "settle", "refund"}, booking : Requests \cup {None},
     status : Statuses \cup {None}, seen : {"success", "failed", None}]

TypeOK ==
    /\ seats \in Nat
    /\ resource \in [Keys -> Requests \cup {None}]
    /\ rows \in [Requests -> Statuses \cup {None}]
    /\ tx \in [Requests -> {"none", "sent", "success", "failed"}]
    /\ post \in [Requests -> {"new", "reserve", "link", "dead"} \cup Holding \cup Answers]
    /\ poller \in [Requests -> Poller]
    /\ handler \in [Clients -> Handler]
    /\ refunds \in [Requests -> Nat]
    /\ faults \in Nat /\ unanswered \in Nat

Init ==
    /\ seats = Capacity
    /\ resource = [k \in Keys |-> None]
    /\ rows = [r \in Requests |-> None]
    /\ tx = [r \in Requests |-> "none"]
    /\ post = [r \in Requests |-> "new"]
    /\ poller = [r \in Requests |-> [at |-> "off", attempt |-> 1, seen |-> None]]
    /\ handler = [c \in Clients |-> Idle]
    /\ refunds = [r \in Requests |-> 0]
    /\ faults = 0 /\ unanswered = 0

(***************************************************************************)
(* Failures.                                                               *)
(***************************************************************************)

Works == UNCHANGED <<faults, unanswered>>
Fails == faults < MaxFaults /\ faults' = faults + 1 /\ UNCHANGED unanswered
Unanswered == faults < MaxFaults /\ faults' = faults + 1 /\ unanswered' = unanswered + 1

At(r, place) == post' = [post EXCEPT ![r] = place]
Save(b, status) == rows' = [rows EXCEPT ![b] = status]

\* What getTransactionStatus may answer: the transaction's outcome, or
\* "pending" or "not_found" (None), also because the node could not be asked.
Observable(b) == {None} \cup ({tx[b]} \cap {"success", "failed"})

(***************************************************************************)
(* POST /bookings and createBooking.                                       *)
(***************************************************************************)

\* Mutant: a key that has a booking is not looked at.
ArriveAgain(r) ==
    /\ post[r] = "new"
    /\ At(r, "reserve")
    /\ Works
    /\ UNCHANGED <<db, tx, poller, handler, refunds>>

\* getOrCreateIdempotencyKey and the lookup of the booking the key has.
Arrive(r) ==
    /\ post[r] = "new"
    /\ At(r, IF resource[KeyOf[r]] = None THEN "reserve" ELSE "repeated")
    /\ Works
    /\ UNCHANGED <<db, tx, poller, handler, refunds>>

\* Mutant: the update does not require a seat.
ReserveUnchecked(r) ==
    /\ post[r] = "reserve"
    /\ seats' = seats - 1 /\ At(r, "passenger") /\ Works
    /\ UNCHANGED <<resource, rows, tx, poller, handler, refunds>>

\* The read of the flight, and the update that requires seatsAvailable > 0.
Reserve(r) ==
    /\ post[r] = "reserve"
    /\ IF seats > 0
       THEN \/ seats' = seats - 1 /\ At(r, "passenger") /\ Works
            \/ UNCHANGED seats /\ At(r, "refused") /\ Fails
            \/ seats' = seats - 1 /\ At(r, "refused") /\ Unanswered
       ELSE UNCHANGED seats /\ At(r, "refused") /\ Works
    /\ UNCHANGED <<resource, rows, tx, poller, handler, refunds>>

\* Outside the try block: a failure keeps the seat.
SavePassenger(r) ==
    /\ post[r] = "passenger"
    /\ \/ At(r, "submit") /\ Works
       \/ At(r, "refused") /\ Fails
    /\ UNCHANGED <<db, tx, poller, handler, refunds>>

\* signAndSubmitCreateBooking: sent, refused by the simulation or the node, or
\* sent without an answer.
Submit(r) ==
    /\ post[r] = "submit"
    /\ \/ tx' = [tx EXCEPT ![r] = "sent"] /\ At(r, "save") /\ Works
       \/ UNCHANGED tx /\ At(r, "undo") /\ Works
       \/ tx' = [tx EXCEPT ![r] = "sent"] /\ At(r, "undo") /\ Fails
    /\ UNCHANGED <<db, poller, handler, refunds>>

\* The booking is saved and its poller started.
SaveBooking(r) ==
    /\ post[r] = "save"
    /\ \/ /\ Save(r, "onchain_submitted") /\ At(r, "link") /\ Works
          /\ poller' = [poller EXCEPT ![r].at = "poll"]
       \/ At(r, "undo") /\ Fails /\ UNCHANGED <<rows, poller>>
       \/ Save(r, "onchain_submitted") /\ At(r, "undo") /\ Unanswered /\ UNCHANGED poller
    /\ UNCHANGED <<seats, resource, tx, handler, refunds>>

\* The catch block of createBooking.
Undo(r) ==
    /\ post[r] = "undo"
    /\ At(r, "refused")
    /\ \/ seats' = seats + 1 /\ Works
       \/ UNCHANGED seats /\ Fails
       \/ seats' = seats + 1 /\ Unanswered
    /\ UNCHANGED <<resource, rows, tx, poller, handler, refunds>>

\* The route's catch block answers 409 to a request whose booking exists.
Link(r) ==
    /\ post[r] = "link"
    /\ \/ resource' = [resource EXCEPT ![KeyOf[r]] = r] /\ At(r, "created") /\ Works
       \/ UNCHANGED resource /\ At(r, "refused") /\ Fails
       \/ resource' = [resource EXCEPT ![KeyOf[r]] = r] /\ At(r, "refused") /\ Unanswered
    /\ UNCHANGED <<seats, rows, tx, poller, handler, refunds>>

(***************************************************************************)
(* pollTransactionStatus.                                                  *)
(***************************************************************************)

\* A database error is retried from the first call when it looks transient and
\* attempts are left.
RetryOrGiveUp(b) ==
    \/ /\ poller[b].attempt < MaxAttempts
       /\ poller' = [poller EXCEPT ![b].at = "poll", ![b].attempt = @ + 1]
    \/ poller' = [poller EXCEPT ![b].at = "giveup"]

\* An outcome is final for the poller; "still pending" and "not found yet" are
\* thrown, and withRetries retries only what isTransientError recognizes.
Poll(b) ==
    /\ poller[b].at = "poll"
    /\ \/ /\ \E outcome \in Observable(b) :
                poller' = [poller EXCEPT ![b].seen = outcome,
                                         ![b].at = IF outcome = None THEN "giveup" ELSE "write"]
          /\ Works
       \/ Fails /\ RetryOrGiveUp(b)
    /\ UNCHANGED <<db, tx, post, handler, refunds>>

PollWrite(b) ==
    LET failed == poller[b].seen = "failed"
    IN  /\ poller[b].at = "write"
        /\ \/ /\ Save(b, IF failed THEN "failed" ELSE "confirmed") /\ Works
              /\ poller' = [poller EXCEPT ![b].at = IF failed THEN "release" ELSE "done"]
           \/ UNCHANGED rows /\ Fails /\ RetryOrGiveUp(b)
           \/ /\ Save(b, IF failed THEN "failed" ELSE "confirmed") /\ Unanswered
              /\ RetryOrGiveUp(b)
        /\ UNCHANGED <<seats, resource, tx, post, handler, refunds>>

\* Mutant: the seat is given back and the poll tried again.
PollReleaseAgain(b) ==
    /\ poller[b].at = "release"
    /\ seats' = seats + 1
    /\ Works
    /\ RetryOrGiveUp(b)
    /\ UNCHANGED <<resource, rows, tx, post, handler, refunds>>

PollRelease(b) ==
    /\ poller[b].at = "release"
    /\ \/ /\ seats' = seats + 1 /\ Works
          /\ poller' = [poller EXCEPT ![b].at = "done"]
       \/ UNCHANGED seats /\ Fails /\ RetryOrGiveUp(b)
       \/ seats' = seats + 1 /\ Unanswered /\ RetryOrGiveUp(b)
    /\ UNCHANGED <<resource, rows, tx, post, handler, refunds>>

\* Mutant: only a poll that used its attempts is given up on.
GiveUpAtMax(b) ==
    /\ poller[b].at = "giveup"
    /\ poller[b].attempt = MaxAttempts
    /\ poller' = [poller EXCEPT ![b].at =
                     IF rows[b] = "onchain_submitted" THEN "overwrite" ELSE "done"]
    /\ Works
    /\ UNCHANGED <<db, tx, post, handler, refunds>>

\* The catch block reads the booking ...
GiveUp(b) ==
    /\ poller[b].at = "giveup"
    /\ \/ /\ poller' = [poller EXCEPT ![b].at =
                           IF rows[b] = "onchain_submitted" THEN "overwrite" ELSE "done"]
          /\ Works
       \/ poller' = [poller EXCEPT ![b].at = "dead"] /\ Fails
    /\ UNCHANGED <<db, tx, post, handler, refunds>>

\* ... and writes it back as failed, keeping the seat.
Overwrite(b) ==
    /\ poller[b].at = "overwrite"
    /\ \/ /\ Save(b, "failed") /\ Works
          /\ poller' = [poller EXCEPT ![b].at = "done"]
       \/ UNCHANGED rows /\ Fails /\ poller' = [poller EXCEPT ![b].at = "dead"]
       \/ /\ Save(b, "failed") /\ Unanswered
          /\ poller' = [poller EXCEPT ![b].at = "done"]
    /\ UNCHANGED <<seats, resource, tx, post, handler, refunds>>

PollerStep(b) == Poll(b) \/ PollWrite(b) \/ PollRelease(b) \/ GiveUp(b) \/ Overwrite(b)

(***************************************************************************)
(* GET /:id/transaction-status and POST /:id/cancel.  A failure there ends *)
(* the request; one that had committed is the same as an answer.           *)
(***************************************************************************)

Go(c, place, b, seen) ==
    handler' = [handler EXCEPT ![c] =
                   [at |-> place, booking |-> b, status |-> rows[b], seen |-> seen]]

\* The booking is read, to be queried or to be cancelled: a refunded one is
\* refused, and whether the fare rules allow it is not modelled.
Read(c, b) ==
    /\ handler[c].at = "idle"
    /\ rows[b] # None
    /\ \/ Go(c, "query", b, None)
       \/ rows[b] # "refunded" /\ refunds[b] < MaxRefunds /\ Go(c, "refund", b, None)
    /\ Works
    /\ UNCHANGED <<db, tx, post, poller, refunds>>

\* Mutant: what is not found is taken for failed.
QueryChainLost(c) ==
    LET b == handler[c].booking
    IN  /\ handler[c].at = "query"
        /\ \E outcome \in Observable(b) :
              LET seen == IF outcome = "success" THEN "success" ELSE "failed"
              IN  handler' = [handler EXCEPT ![c].at = "settle", ![c].seen = seen]
        /\ Works
        /\ UNCHANGED <<db, tx, post, poller, refunds>>

\* The chain's answer is compared with the status that was read before it.
QueryChain(c) ==
    LET b == handler[c].booking
    IN  /\ handler[c].at = "query"
        /\ \E outcome \in Observable(b) :
              IF \/ outcome = "success" /\ handler[c].status # "confirmed"
                 \/ outcome = "failed" /\ handler[c].status # "failed"
              THEN handler' = [handler EXCEPT ![c].at = "settle", ![c].seen = outcome]
              ELSE handler' = [handler EXCEPT ![c] = Idle]
        /\ Works
        /\ UNCHANGED <<db, tx, post, poller, refunds>>

Settle(c) ==
    /\ handler[c].at = "settle"
    /\ \/ Save(handler[c].booking,
               IF handler[c].seen = "success" THEN "confirmed" ELSE "failed") /\ Works
       \/ UNCHANGED rows /\ Fails
    /\ handler' = [handler EXCEPT ![c] = Idle]
    /\ UNCHANGED <<seats, resource, tx, post, poller, refunds>>

\* The end of processCancellation: the seat is not given back.
Cancel(c) ==
    LET b == handler[c].booking
    IN  /\ handler[c].at = "refund"
        /\ \/ /\ Save(b, "refunded") /\ Works
              /\ refunds' = [refunds EXCEPT ![b] = @ + 1]
           \/ UNCHANGED <<rows, refunds>> /\ Fails
        /\ handler' = [handler EXCEPT ![c] = Idle]
        /\ UNCHANGED <<seats, resource, tx, post, poller>>

(***************************************************************************)
(* The chain, and the process.                                             *)
(***************************************************************************)

\* A submitted transaction is applied or fails, or never gets into a ledger.
Finalize(b) ==
    /\ tx[b] = "sent"
    /\ \E outcome \in {"success", "failed"} : tx' = [tx EXCEPT ![b] = outcome]
    /\ Works
    /\ UNCHANGED <<db, post, poller, handler, refunds>>

\* The process ends and is started again: what was running is gone.
Crash ==
    /\ Fails
    /\ post' = [r \in Requests |->
          IF post[r] \in {"new", "dead"} \cup Answers THEN post[r] ELSE "dead"]
    /\ poller' = [r \in Requests |->
          IF poller[r].at \in {"off", "done"} THEN poller[r]
                                              ELSE [poller[r] EXCEPT !.at = "dead"]]
    /\ handler' = [c \in Clients |-> Idle]
    /\ UNCHANGED <<db, tx, refunds>>

PostStep(r) ==
    \/ Arrive(r) \/ Reserve(r) \/ SavePassenger(r) \/ Submit(r)
    \/ SaveBooking(r) \/ Undo(r) \/ Link(r)

Next ==
    \/ \E r \in Requests : PostStep(r) \/ PollerStep(r) \/ Finalize(r)
    \/ \E c \in Clients :
          (\E b \in Requests : Read(c, b)) \/ QueryChain(c) \/ Settle(c) \/ Cancel(c)
    \/ Crash

\* The event loop runs a poller until it ends; nothing makes clients ask or
\* the chain decide.
Fairness == \A r \in Requests : WF_vars(PollerStep(r))

Spec == Init /\ [][Next]_vars /\ Fairness

(***************************************************************************)
(* Properties.                                                             *)
(***************************************************************************)

\* The flight is not oversold: the seats on offer, those held by requests under
\* way and those of live bookings never exceed its capacity, whatever fails,
\* crashes or races.  Only a committed database call whose answer was lost,
\* which is undone or done again, can oversell a seat, and at most one each.
NeverOversold ==
    seats + Cardinality({r \in Requests : post[r] \in Holding})
          + Cardinality({b \in Requests : rows[b] \in {"onchain_submitted", "confirmed"}})
        <= Capacity + unanswered

\* The status agrees with the chain although three handlers write it from
\* copies read earlier: confirmed only what succeeded, failed only what failed
\* or what the poller gave up on.
OutcomeAgrees ==
    \A b \in Requests :
        /\ rows[b] = "confirmed" => tx[b] = "success"
        /\ rows[b] = "failed" => tx[b] = "failed" \/ poller[b].at = "done"

\* Once a request was answered with its booking, no request with its key books
\* another seat: the key leads to a booking made for it.
RetryFindsBooking ==
    [][\A r \in Requests : post[r] = "new" /\ post'[r] # "new" =>
          IF \E o \in Requests : KeyOf[o] = KeyOf[r] /\ post[o] = "created"
          THEN /\ post'[r] = "repeated"
               /\ rows[resource[KeyOf[r]]] # None
               /\ KeyOf[resource[KeyOf[r]]] = KeyOf[r]
          ELSE TRUE]_vars

\* As long as its poller lives, a submitted booking does not stay submitted,
\* also when the chain never decides.
Settles ==
    \A b \in Requests : rows[b] = "onchain_submitted" ~>
        rows[b] # "onchain_submitted" \/ poller[b].at \in {"off", "dead"}

\* "Booking has already been refunded": a booking is cancelled with a refund
\* once.
RefundedOnce == \A b \in Requests : refunds[b] <= 1
=============================================================================
