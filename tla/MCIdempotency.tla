---------------------------- MODULE MCIdempotency ----------------------------
\* Four callers of one key: two in one process, one in another, and one with
\* another payload.
EXTENDS Idempotency, TLC

CONSTANTS a, b, c, d, k, x, y, p, q

MCCallers == {a, b, c, d}
MCKeyOf == [i \in MCCallers |-> k]
MCPayloadOf == [i \in MCCallers |-> IF i = d THEN y ELSE x]
MCProcessOf == [i \in MCCallers |-> IF i = c THEN q ELSE p]

\* Two callers with one payload in one process.
MCTwo == {a, b}
MCTwoKeyOf == [i \in MCTwo |-> k]
MCTwoPayloadOf == [i \in MCTwo |-> x]
MCTwoProcessOf == [i \in MCTwo |-> p]
=============================================================================
