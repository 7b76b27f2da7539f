------------------------------- MODULE MCServer -------------------------------
\* The server with the callers of MCIdempotency.
EXTENDS Server, MCIdempotency
=============================================================================
