--------------------------- MODULE MCBookingEscrow ---------------------------
(***************************************************************************)
(* BookingEscrow on small instances.                                       *)
(***************************************************************************)
EXTENDS BookingEscrow, TLC

MCPrices == {-1, 0, 3}
MCBps == {0, 5000, 20000}
MCDepartures == {2}
Symmetric == Permutations(Accounts)
=============================================================================
