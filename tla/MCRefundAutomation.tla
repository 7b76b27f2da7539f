-------------------------- MODULE MCRefundAutomation --------------------------
(***************************************************************************)
(* RefundAutomation on small instances.                                    *)
(***************************************************************************)
EXTENDS RefundAutomation, TLC

MCPrices == {2}
MCBps == {0, 5000, 10000}
MCDepartures == {3}
MCAmounts == {1}
MCBookingIds == 1..MaxBookings
Symmetric == Permutations(Names) \cup Permutations(Accounts)
=============================================================================
