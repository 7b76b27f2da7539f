------------------------ MODULE MCBookingOrchestration ------------------------
\* A request and its retry, or duplicate, with the same key.
EXTENDS BookingOrchestration, TLC

CONSTANTS r1, r2, k

MCRequests == {r1, r2}
MCKeys == {k}
MCKeyOf == r1 :> k @@ r2 :> k
=============================================================================
