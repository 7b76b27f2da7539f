---------------------------- MODULE AccessControl ----------------------------
(***************************************************************************)
(* The roles every role-checked contract keeps (contracts/packages/shared/ *)
(* access): one owner, and Admin and Operator flags per address.  Each     *)
(* contract that links the crate has its own copy of this state.           *)
(***************************************************************************)
EXTENDS Naturals

CONSTANTS
    Addresses,   \* addresses that may hold a role
    NoOwner      \* the owner slot of a contract that is not initialized

VARIABLES
    owner,       \* DataKey::Owner
    roles        \* the DataKey::Role entries that are present

Roles == {"Admin", "Operator"}

TypeOK ==
    /\ owner \in Addresses \cup {NoOwner}
    /\ roles \subseteq Addresses \X Roles

Init == owner = NoOwner /\ roles = {}

\* Also init_upgrade_owner.
InitOwner(a) ==
    /\ owner = NoOwner
    /\ owner' = a
    /\ UNCHANGED roles

\* The owner has every role, and an Admin is an Operator too.
HasRole(a, role) ==
    \/ a = owner
    \/ role \in Roles /\ <<a, "Admin">> \in roles
    \/ <<a, role>> \in roles

SetRole(caller, target, role, enabled) ==
    /\ caller = owner
    /\ roles' = IF enabled THEN roles \cup {<<target, role>>}
                           ELSE roles \ {<<target, role>>}
    /\ UNCHANGED owner

TransferOwnership(caller, new_owner) ==
    /\ caller = owner
    /\ owner' = new_owner
    /\ UNCHANGED roles

\* set_role and transfer_ownership as a contract exposes them.
Manage ==
    \E caller, target \in Addresses :
        \/ \E role \in Roles, enabled \in BOOLEAN : SetRole(caller, target, role, enabled)
        \/ TransferOwnership(caller, target)
=============================================================================
