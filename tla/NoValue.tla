-------------------------------- MODULE NoValue --------------------------------
(***************************************************************************)
(* What stands for "nothing stored": Rust's Option None, a null column.    *)
(***************************************************************************)
CONSTANT None
=============================================================================
