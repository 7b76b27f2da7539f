---------------------------- MODULE UpgradeTimelock ----------------------------
(***************************************************************************)
(* The upgrade contract (contracts/packages/upgrade): an admin schedules   *)
(* an upgrade, which may be executed when the timelock has passed; the     *)
(* owner sets the timelock and may cancel.  The duration is read when the  *)
(* upgrade is executed, not kept with it.                                  *)
(***************************************************************************)
EXTENDS Parties, Clock

CONSTANTS
    Hashes,           \* wasm hashes
    DefaultTimelock,  \* 172800 in the code
    Durations         \* durations the owner may set (a u64)

\* What the parameters must satisfy.
TimelockAssumption ==
    /\ DefaultTimelock \in Nat \ {0}
    /\ Durations \subseteq Nat

VARIABLES
    owner, roles,   \* the contract's AccessControl state
    timelock,       \* get_timelock_duration
    upgrade,        \* the ScheduledUpgrade, or None
    announced       \* the timelock when it was scheduled, 0 once the owner set another

Access == INSTANCE AccessControl WITH Addresses <- Users, NoOwner <- None

timelockVars == <<now, owner, roles, timelock, upgrade, announced>>

TimelockTypeOK ==
    /\ Access!TypeOK
    /\ now \in Nat /\ timelock \in Nat \ {0} /\ announced \in Nat
    /\ upgrade \in [hash : Hashes, scheduled_at : Nat, executed : BOOLEAN] \cup {None}

TimelockInit ==
    /\ owner \in Users /\ roles = {}
    /\ now = 0
    /\ timelock = DefaultTimelock
    /\ upgrade = None
    /\ announced = 0

\* Mutant: a pending upgrade is replaced.
ScheduleOver(admin, hash) ==
    /\ Access!HasRole(admin, "Admin")
    /\ upgrade' = [hash |-> hash, scheduled_at |-> now, executed |-> FALSE]
    /\ announced' = timelock
    /\ UNCHANGED <<now, owner, roles, timelock>>

ScheduleUpgrade(admin, hash) ==
    /\ Access!HasRole(admin, "Admin")
    /\ upgrade # None => upgrade.executed
    /\ upgrade' = [hash |-> hash, scheduled_at |-> now, executed |-> FALSE]
    /\ announced' = timelock
    /\ UNCHANGED <<now, owner, roles, timelock>>

ExecuteUpgrade(admin) ==
    /\ Access!HasRole(admin, "Admin")
    /\ upgrade # None /\ ~upgrade.executed
    /\ now - upgrade.scheduled_at >= timelock
    /\ upgrade' = [upgrade EXCEPT !.executed = TRUE]
    /\ UNCHANGED <<now, owner, roles, timelock, announced>>

\* Mutant: the duration may be zero.
SetTimelockAny(caller, duration) ==
    /\ caller = owner
    /\ timelock' = duration /\ announced' = 0
    /\ UNCHANGED <<now, owner, roles, upgrade>>

SetTimelockDuration(caller, duration) ==
    /\ caller = owner
    /\ duration > 0
    /\ timelock' = duration /\ announced' = 0
    /\ UNCHANGED <<now, owner, roles, upgrade>>

CancelUpgrade(caller) ==
    /\ caller = owner
    /\ upgrade # None /\ ~upgrade.executed
    /\ upgrade' = None
    /\ UNCHANGED <<now, owner, roles, timelock, announced>>

TimelockNext ==
    \/ \E u \in Users :
          \/ \E h \in Hashes : ScheduleUpgrade(u, h)
          \/ ExecuteUpgrade(u)
          \/ \E d \in Durations : SetTimelockDuration(u, d)
          \/ CancelUpgrade(u)
    \/ Access!Manage /\ UNCHANGED <<now, timelock, upgrade, announced>>
    \/ Tick /\ UNCHANGED <<owner, roles, timelock, upgrade, announced>>

TimelockSpec == TimelockInit /\ [][TimelockNext]_timelockVars

(***************************************************************************)
(* Properties.                                                             *)
(***************************************************************************)

\* What may take effect is what was announced, and not sooner: a pending
\* upgrade is only cancelled or executed, never exchanged, and it is executed
\* after the wait that was in force when it was scheduled unless the owner has
\* set another one since, and exactly once.
UpgradeAsScheduled ==
    [][/\ upgrade # None /\ ~upgrade.executed =>
             upgrade' \in {None, upgrade, [upgrade EXCEPT !.executed = TRUE]}
       /\ upgrade' # upgrade /\ upgrade' # None /\ upgrade'.executed =>
             /\ upgrade # None /\ ~upgrade.executed
             /\ upgrade.scheduled_at + announced <= now]_timelockVars
=============================================================================
