----------------------------- MODULE Idempotency -----------------------------
(***************************************************************************)
(* IdempotencyStore.executeOnce (packages/backend): concurrent callers     *)
(* with a key share one stored record and, within a server process, one    *)
(* execution in flight.  A caller acts on the record as the database       *)
(* answered it, and other callers run while that answer is under way.  A   *)
(* resource is named by the caller whose execution made it.                *)
(***************************************************************************)
EXTENDS Naturals, FiniteSets, NoValue

CONSTANTS
    Callers, Keys, Payloads, Processes,
    KeyOf, PayloadOf, ProcessOf,   \* of each caller
    AllOutcomes    \* if FALSE, executions return a resource and nothing fails

Record == [requestHash : Payloads, resourceId : Callers \cup {None}]

ASSUME IdempotencyAssumption ==
    /\ KeyOf \in [Callers -> Keys]
    /\ PayloadOf \in [Callers -> Payloads]
    /\ ProcessOf \in [Callers -> Processes]
    /\ AllOutcomes \in BOOLEAN
    /\ None \notin Callers \cup Record

VARIABLES
    record,    \* idempotency_keys, by key
    inFlight,  \* inFlightLocks of each process: whose execution, by key
    at,        \* where a caller is
    copy,      \* the record a caller was answered
    joined,    \* whose execution a caller awaits
    result     \* whose execution's result a caller was given

vars == <<record, inFlight, at, copy, joined, result>>

Executing == {"execute", "save"}
Ended == {"executed", "cached", "conflict", "failed"}

TypeOK ==
    /\ record \in [Keys -> Record \cup {None}]
    /\ inFlight \in [Processes \X Keys -> Callers \cup {None}]
    /\ at \in [Callers -> {"find", "insert", "refind", "check", "join"} \cup Executing \cup Ended]
    /\ copy \in [Callers -> Record \cup {None}]
    /\ joined \in [Callers -> Callers \cup {None}]
    /\ result \in [Callers -> Callers \cup {None}]

Init ==
    /\ record = [k \in Keys |-> None]
    /\ inFlight = [l \in Processes \X Keys |-> None]
    /\ at = [c \in Callers |-> "find"]
    /\ copy = [c \in Callers |-> None]
    /\ joined = [c \in Callers |-> None]
    /\ result = [c \in Callers |-> None]

At(c, place) == at' = [at EXCEPT ![c] = place]
Give(c, r) == result' = [result EXCEPT ![c] = r]
Lock(c) == <<ProcessOf[c], KeyOf[c]>>

\* getOrCreate: the read, the insert the unique index may refuse, and the read
\* that follows a refusal.
Find(c) ==
    /\ at[c] \in {"find", "refind"}
    /\ IF record[KeyOf[c]] = None
       THEN At(c, "insert") /\ UNCHANGED copy
       ELSE At(c, "check") /\ copy' = [copy EXCEPT ![c] = record[KeyOf[c]]]
    /\ UNCHANGED <<record, inFlight, joined, result>>

Insert(c) ==
    LET created == [requestHash |-> PayloadOf[c], resourceId |-> None]
    IN  /\ at[c] = "insert"
        /\ IF record[KeyOf[c]] = None
           THEN /\ record' = [record EXCEPT ![KeyOf[c]] = created]
                /\ copy' = [copy EXCEPT ![c] = created]
                /\ At(c, "check")
           ELSE At(c, "refind") /\ UNCHANGED <<record, copy>>
        /\ UNCHANGED <<inFlight, joined, result>>

Conflict(c) ==
    /\ at[c] = "check"
    /\ copy[c].requestHash # PayloadOf[c]
    /\ At(c, "conflict")
    /\ UNCHANGED <<record, inFlight, copy, joined, result>>

\* Another caller of this process is executing: its promise is awaited.
Join(c) ==
    /\ at[c] = "check"
    /\ copy[c].requestHash = PayloadOf[c]
    /\ inFlight[Lock(c)] # None
    /\ joined' = [joined EXCEPT ![c] = inFlight[Lock(c)]]
    /\ At(c, "join")
    /\ UNCHANGED <<record, inFlight, copy, result>>

\* Mutant: the record is returned instead of its resource.
CachedRecord(c) ==
    /\ at[c] = "check"
    /\ copy[c].requestHash = PayloadOf[c]
    /\ inFlight[Lock(c)] = None
    /\ copy[c].resourceId # None
    /\ At(c, "cached") /\ Give(c, copy[c])
    /\ UNCHANGED <<record, inFlight, copy, joined>>

Cached(c) ==
    /\ at[c] = "check"
    /\ copy[c].requestHash = PayloadOf[c]
    /\ inFlight[Lock(c)] = None
    /\ copy[c].resourceId # None
    /\ At(c, "cached") /\ Give(c, copy[c].resourceId)
    /\ UNCHANGED <<record, inFlight, copy, joined>>

\* Mutant: the promise is kept only after the first await of the execution.
StartUnlocked(c) ==
    /\ at[c] = "check"
    /\ copy[c].requestHash = PayloadOf[c]
    /\ inFlight[Lock(c)] = None
    /\ copy[c].resourceId = None
    /\ At(c, "execute")
    /\ UNCHANGED <<record, inFlight, copy, joined, result>>

\* From the check of the map to its update nothing else of the process runs.
Start(c) ==
    /\ at[c] = "check"
    /\ copy[c].requestHash = PayloadOf[c]
    /\ inFlight[Lock(c)] = None
    /\ copy[c].resourceId = None
    /\ inFlight' = [inFlight EXCEPT ![Lock(c)] = c]
    /\ At(c, "execute")
    /\ UNCHANGED <<record, copy, joined, result>>

Unlock(c) == inFlight' = [inFlight EXCEPT ![Lock(c)] = None]

\* execute() ends with a resource, without one, or throws.
Execute(c) ==
    /\ at[c] = "execute"
    /\ \/ At(c, "save") /\ UNCHANGED <<inFlight, result>>
       \/ AllOutcomes /\ At(c, "executed") /\ Give(c, c) /\ Unlock(c)
       \/ AllOutcomes /\ At(c, "failed") /\ Unlock(c) /\ UNCHANGED result
    /\ UNCHANGED <<record, copy, joined>>

\* The record is saved with the resource; if that fails the caller gets the
\* error although the execution is done.
Save(c) ==
    /\ at[c] = "save"
    /\ \/ /\ record' = [record EXCEPT ![KeyOf[c]].resourceId = c]
          /\ At(c, "executed") /\ Give(c, c)
       \/ AllOutcomes /\ At(c, "failed") /\ UNCHANGED <<record, result>>
    /\ Unlock(c)
    /\ UNCHANGED <<copy, joined>>

\* Mutant: a joined execution that failed is answered like one that did not.
AwaitedIgnoringFailure(c) ==
    /\ at[c] = "join"
    /\ at[joined[c]] \in {"executed", "failed"}
    /\ At(c, "cached") /\ Give(c, joined[c])
    /\ UNCHANGED <<record, inFlight, copy, joined>>

Awaited(c) ==
    /\ at[c] = "join"
    /\ \/ at[joined[c]] = "executed" /\ At(c, "cached") /\ Give(c, joined[c])
       \/ at[joined[c]] = "failed" /\ At(c, "failed") /\ UNCHANGED result
    /\ UNCHANGED <<record, inFlight, copy, joined>>

Next == \E c \in Callers :
    \/ Find(c) \/ Insert(c) \/ Conflict(c) \/ Join(c) \/ Cached(c)
    \/ Start(c) \/ Execute(c) \/ Save(c) \/ Awaited(c)

Spec == Init /\ [][Next]_vars

(***************************************************************************)
(* Properties.                                                             *)
(***************************************************************************)

\* Within a process a key has one execution at a time, the one its callers
\* would await, however their database answers interleave.
OneInFlight ==
    \A c \in Callers : at[c] \in Executing =>
        /\ inFlight[Lock(c)] = c
        /\ \A d \in Callers : at[d] \in Executing /\ Lock(d) = Lock(c) => d = c

\* A result a caller is given is that of an execution of its own operation that
\* succeeded, also when it was joined, and whoever saved last.
AnswersAreResults ==
    \A c \in Callers : result[c] # None =>
        /\ at[result[c]] = "executed"
        /\ KeyOf[result[c]] = KeyOf[c]
        /\ PayloadOf[result[c]] = PayloadOf[c]

\* "Operation must be executed EXACTLY ONCE" (idempotency.concurrency.test.ts),
\* of concurrent callers whose executions return a resource and nothing fails.
ExecutedOnce ==
    \A c, d \in Callers :
        /\ KeyOf[c] = KeyOf[d] /\ ~AllOutcomes
        /\ at[c] \in Executing \cup {"executed"} /\ at[d] \in Executing \cup {"executed"}
        => c = d
=============================================================================
