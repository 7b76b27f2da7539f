-------------------------------- MODULE Proxy --------------------------------
(***************************************************************************)
(* The upgrade proxy (contracts/packages/proxy): its signers agree on the  *)
(* implementation it runs, its admins pause it, migrate its storage and    *)
(* may exchange the signers.  It is initialized.  Proposals never expire.  *)
(***************************************************************************)
EXTENDS Parties, Naturals, SequencesExt

CONSTANTS
    Councils,          \* the [signers, threshold] pairs it may be given
    Implementations,   \* code hashes
    Versions,          \* storage versions proposals may name (a u32)
    MaxUpgrades        \* bound: proposals

\* What the parameters must satisfy.
ProxyAssumption ==
    /\ \A c \in Councils : c.signers \in Seq(Users) /\ c.threshold \in 1..Len(c.signers)
    /\ Versions \subseteq Nat
    /\ MaxUpgrades \in Nat
    /\ None \notin Versions

VARIABLES
    proxy_owner, proxy_roles,   \* the contract's AccessControl state
    config,         \* ProxyConfig
    council,        \* MultisigConfig
    upgrades,       \* UpgradeProposal, in order of proposal_id
    migrations      \* StorageMigration.completed, by versions; absent when not stored

Held == INSTANCE AccessControl
           WITH owner <- proxy_owner, roles <- proxy_roles, Addresses <- Users,
                NoOwner <- None

proxyVars == <<proxy_owner, proxy_roles, config, council, upgrades, migrations>>

Config == [admin : Users, implementation : Implementations, state : {"Active", "Paused"},
           version : Nat, storage_version : Nat]

UpgradeProposal == [implementation : Implementations, storage_version : Versions \cup {None},
                    approvals : SUBSET Users, executed : BOOLEAN]

ProxyTypeOK ==
    /\ Held!TypeOK
    /\ config \in Config
    /\ council \in Councils
    /\ upgrades \in Seq(UpgradeProposal)
    /\ DOMAIN migrations \subseteq Nat \X Nat
    /\ \A m \in DOMAIN migrations : migrations[m] \in BOOLEAN

ProxyInit ==
    /\ proxy_owner \in Users /\ proxy_roles = {}
    /\ council \in Councils
    /\ \E i \in Implementations :
          config = [admin |-> proxy_owner, implementation |-> i, state |-> "Active",
                    version |-> 1, storage_version |-> 1]
    /\ upgrades = <<>>
    /\ migrations = <<>>

IsCouncilSigner(a) == a \in ToSet(council.signers)

ProposeUpgrade(proposer, implementation, storage_version) ==
    /\ IsCouncilSigner(proposer)
    /\ Len(upgrades) < MaxUpgrades
    /\ upgrades' = Append(upgrades,
          [implementation |-> implementation, storage_version |-> storage_version,
           approvals |-> {proposer}, executed |-> FALSE])
    /\ UNCHANGED <<proxy_owner, proxy_roles, config, council, migrations>>

\* has_approved makes the list of approvals a set, and is one with it.
ApproveUpgrade(signer, id) ==
    /\ IsCouncilSigner(signer)
    /\ ~upgrades[id].executed
    /\ signer \notin upgrades[id].approvals
    /\ upgrades' = [upgrades EXCEPT ![id].approvals = @ \cup {signer}]
    /\ UNCHANGED <<proxy_owner, proxy_roles, config, council, migrations>>

\* The migrations once m is stored as not completed.
Reopened(m) ==
    [x \in DOMAIN migrations \cup {m} |-> IF x = m THEN FALSE ELSE migrations[x]]

\* Mutant: the approvals are not counted.
UpgradeToUnagreed(executor, id) ==
    LET plan == upgrades[id]
    IN  /\ IsCouncilSigner(executor)
        /\ ~plan.executed
        /\ config' = [config EXCEPT !.implementation = plan.implementation, !.version = @ + 1,
                         !.storage_version = IF plan.storage_version = None THEN @
                                                                   ELSE plan.storage_version,
                         !.state = "Active"]
        /\ migrations' = IF plan.storage_version = None THEN migrations
                         ELSE Reopened(<<config.storage_version, plan.storage_version>>)
        /\ upgrades' = [upgrades EXCEPT ![id].executed = TRUE]
        /\ UNCHANGED <<proxy_owner, proxy_roles, council>>

\* Also ends a pause, and opens the migration between two versions again.
UpgradeTo(executor, id) ==
    LET plan == upgrades[id]
    IN  /\ IsCouncilSigner(executor)
        /\ ~plan.executed
        /\ Cardinality(plan.approvals) >= council.threshold
        /\ config' = [config EXCEPT !.implementation = plan.implementation, !.version = @ + 1,
                         !.storage_version = IF plan.storage_version = None THEN @
                                                                   ELSE plan.storage_version,
                         !.state = "Active"]
        /\ migrations' = IF plan.storage_version = None THEN migrations
                         ELSE Reopened(<<config.storage_version, plan.storage_version>>)
        /\ upgrades' = [upgrades EXCEPT ![id].executed = TRUE]
        /\ UNCHANGED <<proxy_owner, proxy_roles, council>>

\* pause_contract and unpause_contract.
SetState(admin, state) ==
    /\ Held!HasRole(admin, "Admin")
    /\ config' = [config EXCEPT !.state = state]
    /\ UNCHANGED <<proxy_owner, proxy_roles, council, upgrades, migrations>>

MigrateStorage(migrator, m) ==
    /\ Held!HasRole(migrator, "Admin")
    /\ config.state = "Paused"
    /\ ~migrations[m]
    /\ migrations' = [migrations EXCEPT ![m] = TRUE]
    /\ UNCHANGED <<proxy_owner, proxy_roles, config, council, upgrades>>

\* The approvals proposals already have are kept.
UpdateMultisig(admin, new) ==
    /\ Held!HasRole(admin, "Admin")
    /\ council' = new
    /\ UNCHANGED <<proxy_owner, proxy_roles, config, upgrades, migrations>>

SetRole(caller, target, role, enabled) ==
    /\ Held!SetRole(caller, target, role, enabled)
    /\ UNCHANGED <<config, council, upgrades, migrations>>

\* The admin field follows the owner.
TransferOwnership(caller, new_owner) ==
    /\ Held!TransferOwnership(caller, new_owner)
    /\ config' = [config EXCEPT !.admin = new_owner]
    /\ UNCHANGED <<council, upgrades, migrations>>

ProxyNext ==
    \E u \in Users :
        \/ \E i \in Implementations, v \in Versions \cup {None} : ProposeUpgrade(u, i, v)
        \/ \E id \in 1..Len(upgrades) : ApproveUpgrade(u, id) \/ UpgradeTo(u, id)
        \/ \E s \in {"Active", "Paused"} : SetState(u, s)
        \/ \E m \in DOMAIN migrations : MigrateStorage(u, m)
        \/ \E c \in Councils : UpdateMultisig(u, c)
        \/ \E t \in Users, r \in Held!Roles, e \in BOOLEAN : SetRole(u, t, r, e)
        \/ \E t \in Users : TransferOwnership(u, t)

ProxySpec == ProxyInit /\ [][ProxyNext]_proxyVars

(***************************************************************************)
(* Properties.                                                             *)
(***************************************************************************)

\* Each version stands for one proposal, executed once; the storage version was
\* reached by a migration that is recorded, and the two places that name the
\* owner agree.
VersionsAreProposals ==
    LET done == {id \in 1..Len(upgrades) : upgrades[id].executed}
        agreed == {upgrades[id].implementation : id \in done}
    IN  /\ config.version = 1 + Cardinality(done)
        /\ config.version > 1 => config.implementation \in agreed
        /\ config.storage_version # 1 =>
              \E m \in DOMAIN migrations : m[2] = config.storage_version
        /\ config.admin = proxy_owner

\* What the contract runs, the part an upgrade may change.
WhatRuns == <<config.implementation, config.version, config.storage_version>>

\* The step executes a proposal that as many different addresses have approved
\* as the council in force asks for, and runs what it names.
ExecutesAgreed ==
    \E id \in DOMAIN upgrades :
        /\ ~upgrades[id].executed /\ upgrades'[id].executed
        /\ Cardinality(upgrades[id].approvals) >= council.threshold
        /\ config'.implementation = upgrades[id].implementation
        /\ config'.storage_version \in {config.storage_version, upgrades[id].storage_version}

\* Proposals stay; those that are executed never change, and the others only
\* get approvals, of addresses that are in the council as they approve.
ApprovedBySigners ==
    /\ DOMAIN upgrades \subseteq DOMAIN upgrades'
    /\ \A id \in DOMAIN upgrades :
          /\ upgrades[id].executed => upgrades'[id] = upgrades[id]
          /\ upgrades'[id].implementation = upgrades[id].implementation
          /\ upgrades'[id].storage_version = upgrades[id].storage_version
          /\ upgrades[id].approvals \subseteq upgrades'[id].approvals
    /\ \A id \in DOMAIN upgrades' : \A a \in upgrades'[id].approvals :
          IsCouncilSigner(a) \/ (id \in DOMAIN upgrades /\ a \in upgrades[id].approvals)

\* The proxy runs what was agreed on and nothing else, whoever becomes owner,
\* admin or signer on the way: it changes only by executing a proposal, once,
\* that enough addresses approved while each of them was a signer.
RunsWhatWasAgreed ==
    /\ []VersionsAreProposals
    /\ [][WhatRuns' # WhatRuns => ExecutesAgreed]_proxyVars
    /\ [][ApprovedBySigners]_proxyVars
=============================================================================
