---------------------------- MODULE BookingParties ----------------------------
(***************************************************************************)
(* The addresses that call the contracts about bookings.                   *)
(***************************************************************************)
CONSTANT Accounts   \* passengers and airlines
=============================================================================
