---------------------------- MODULE LoyaltyQueue ----------------------------
(***************************************************************************)
(* The queue of loyalty jobs and the dead letters (packages/backend,       *)
(* loyaltyQueue and deadLetterQueue), as lists in Redis that the polling   *)
(* loops of several servers share.  A popped job is in one server's memory *)
(* only; a command to Redis may fail and a server may stop at any await.   *)
(***************************************************************************)
EXTENDS Naturals, Sequences, FiniteSets, SequencesExt, NoValue

CONSTANTS
    Jobs, Servers,
    Unhandled,      \* jobs of a type no handler is registered for
    MaxRetries,     \* MAX_RETRIES
    MaxDeadLetters, \* MAX_DEAD_LETTER_ENTRIES
    MaxLosses       \* bound: failed commands and stopped servers

\* What the parameters must satisfy.
QueueAssumption ==
    /\ Unhandled \subseteq Jobs /\ None \notin Jobs
    /\ MaxRetries \in Nat \ {0} /\ MaxDeadLetters \in Nat \ {0} /\ MaxLosses \in Nat

VARIABLES
    queue,        \* traqora:loyalty:jobs
    deadLetters,  \* traqora:jobs:dead-letter, the last first
    running,      \* the job a server's loop has popped
    attempts,     \* attempts, of each job
    enqueued, handled, removed,   \* jobs taken on, done, taken off the dead letters
    dropped,      \* jobs without a handler, and dead letters trimmed away
    losses        \* failures, counted for MaxLosses

queueVars == <<queue, deadLetters, running, attempts, enqueued, handled, removed, dropped, losses>>

QueueTypeOK ==
    /\ queue \in Seq(Jobs) /\ deadLetters \in Seq(Jobs)
    /\ Len(deadLetters) <= MaxDeadLetters
    /\ running \in [Servers -> Jobs \cup {None}]
    /\ attempts \in [Jobs -> 0..MaxRetries]
    /\ enqueued \subseteq Jobs /\ handled \subseteq enqueued
    /\ removed \subseteq enqueued /\ dropped \subseteq enqueued
    /\ losses \in 0..MaxLosses

QueueInit ==
    /\ queue = <<>> /\ deadLetters = <<>>
    /\ running = [s \in Servers |-> None]
    /\ attempts = [j \in Jobs |-> 0]
    /\ enqueued = {} /\ handled = {} /\ removed = {} /\ dropped = {}
    /\ losses = 0

Enqueue(j) ==
    /\ j \notin enqueued
    /\ queue' = Append(queue, j) /\ enqueued' = enqueued \cup {j}
    /\ UNCHANGED <<deadLetters, running, attempts, handled, removed, dropped, losses>>

\* startProcessing: the loop pops the next job ...
Pop(s) ==
    /\ running[s] = None /\ queue # <<>>
    /\ running' = [running EXCEPT ![s] = Head(queue)]
    /\ queue' = Tail(queue)
    /\ UNCHANGED <<deadLetters, attempts, enqueued, handled, removed, dropped, losses>>

\* ... which is done, or logged when nothing handles it.
JobDone(s) ==
    /\ running[s] # None
    /\ IF running[s] \in Unhandled
       THEN dropped' = dropped \cup {running[s]} /\ UNCHANGED handled
       ELSE handled' = handled \cup {running[s]} /\ UNCHANGED dropped
    /\ running' = [running EXCEPT ![s] = None]
    /\ UNCHANGED <<queue, deadLetters, attempts, enqueued, removed, losses>>

\* DeadLetterQueue.add pushes and trims in one transaction.
Bury(j) ==
    LET letters == <<j>> \o deadLetters
        kept == SubSeq(letters, 1, IF Len(letters) < MaxDeadLetters THEN Len(letters)
                                                                    ELSE MaxDeadLetters)
    IN /\ deadLetters' = kept
       /\ dropped' = dropped \cup (ToSet(letters) \ ToSet(kept))

\* Mutant: a job is given up after its last attempt and not kept.
JobFailsSilently(s) ==
    /\ running[s] # None /\ running[s] \notin Unhandled
    /\ attempts' = [attempts EXCEPT ![running[s]] = @ + 1]
    /\ IF attempts[running[s]] + 1 < MaxRetries
       THEN queue' = Append(queue, running[s])
       ELSE UNCHANGED queue
    /\ running' = [running EXCEPT ![s] = None]
    /\ UNCHANGED <<deadLetters, dropped, enqueued, handled, removed, losses>>

\* ... or fails: it goes to the end of the queue, or to the dead letters.
JobFails(s) ==
    /\ running[s] # None /\ running[s] \notin Unhandled
    /\ attempts' = [attempts EXCEPT ![running[s]] = @ + 1]
    /\ IF attempts[running[s]] + 1 < MaxRetries
       THEN queue' = Append(queue, running[s]) /\ UNCHANGED <<deadLetters, dropped>>
       ELSE Bury(running[s]) /\ UNCHANGED queue
    /\ running' = [running EXCEPT ![s] = None]
    /\ UNCHANGED <<enqueued, handled, removed, losses>>

\* The server stops, or the command that would keep the failed job fails: the
\* job is in no list any more, whether or not it was done.
JobLost(s) ==
    /\ running[s] # None /\ losses < MaxLosses
    /\ losses' = losses + 1
    /\ running' = [running EXCEPT ![s] = None]
    /\ UNCHANGED <<queue, deadLetters, attempts, enqueued, handled, removed, dropped>>

\* DeadLetterQueue.remove, by id: one entry that has it.
RemoveDeadLetter(j) ==
    /\ \E i \in 1..Len(deadLetters) :
        deadLetters[i] = j /\ deadLetters' = RemoveAt(deadLetters, i)
    /\ removed' = removed \cup {j}
    /\ UNCHANGED <<queue, running, attempts, enqueued, handled, dropped, losses>>

QueueNext ==
    \/ \E j \in Jobs : Enqueue(j) \/ RemoveDeadLetter(j)
    \/ \E s \in Servers : Pop(s) \/ JobDone(s) \/ JobFails(s) \/ JobLost(s)

QueueSpec == QueueInit /\ [][QueueNext]_queueVars

InList(j) == Contains(queue, j) \/ Contains(deadLetters, j) \/ \E s \in Servers : running[s] = j

\* A job that was taken on is done, kept in one of the lists, in a server's
\* hands or was dropped on purpose; the only others are those lost with a server
\* or a failed command, one each.
JobsAccounted ==
    /\ Cardinality({j \in enqueued : ~InList(j) /\ j \notin handled \cup removed \cup dropped})
          <= losses
    /\ \A j \in enqueued : InList(j) => j \notin handled \cup removed \cup dropped
=============================================================================
