-------------------------------- MODULE Parties --------------------------------
(***************************************************************************)
(* The addresses that call a role-checked contract.                        *)
(***************************************************************************)
EXTENDS NoValue

CONSTANT Users   \* owners, admins, operators and others

ASSUME PartiesAssumption == None \notin Users
=============================================================================
