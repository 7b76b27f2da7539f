-------------------------------- MODULE Sums --------------------------------
(***************************************************************************)
(* Totals over the numbered records the contracts keep.  Bookings are      *)
(* numbered 1, 2, ... by next_id, so a total over all of them is the last  *)
(* value of a running sum.  The running sum is a recursive function, which *)
(* TLC evaluates and SumsProofs proves facts about.                        *)
(***************************************************************************)
EXTENDS Integers

\* The function of 0, f[1], f[1] + f[2], ... up to f[1] + ... + f[n].
Running(f, n) ==
    LET running[k \in 0..n] == IF k = 0 THEN 0 ELSE running[k - 1] + f[k]
    IN  running

\* f[1] + ... + f[n]
SumTo(f, n) == Running(f, n)[n]
=============================================================================
