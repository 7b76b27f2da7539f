------------------------------ MODULE MCDisputes ------------------------------
\* The idempotency keys are alike.  Parties of a jury's case are different or
\* the same, and the first arbiters may be parties.
EXTENDS Disputes

CONSTANTS a, b, x, y

MCBookingIds == 1..2
MCAmounts == {-1, 0, 1, 2}
MCCases == {<<a, b>>, <<a, a>>}
MCFirstArbiters == <<x, y>>
Symmetric == Permutations(Keys)
=============================================================================
