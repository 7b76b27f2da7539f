------------------------------ MODULE SeatLocks ------------------------------
(***************************************************************************)
(* The seat locks and group holds of one flight, in a server's memory      *)
(* (packages/backend, seatAvailabilityService).  A call runs alone up to   *)
(* its await of the database.  The seat of a booking is written to a field *)
(* its table has no column for, so no seat is ever read as occupied and    *)
(* selectSeat leaves no trace here.                                        *)
(***************************************************************************)
EXTENDS Naturals, FiniteSets, NoValue

CONSTANTS
    Seats, Groups, Bookings,
    SeatCallers,  \* the ids calls on a single seat are made for, see Ids
    Duration,     \* SEAT_LOCK_DURATION_MS, in steps of the clock
    MaxClock      \* bound: the clock

VARIABLES
    clock,     \* the current date
    locks,     \* seatLocks, by seat
    holds,     \* groupSeatHolds, by group
    locking,   \* lockSeat calls awaiting the database: seat, by booking named
    lost       \* (history) of a group's hold, the seats a call on one seat took

seatVars == <<clock, locks, holds, locking, lost>>

\* bookingId is a booking's id, a group's id when a caller gives one, or
\* `group:` and a group's id when a hold wrote it.
Ids == Groups \cup Bookings
Named(id) == <<"booking", id>>
ForGroup(g) == <<"group", g>>

SeatLock == [owner : {"booking", "group"} \X Ids, expiresAt : Nat]
GroupSeatHold == [seats : SUBSET Seats, expiresAt : Nat]

\* What the parameters must satisfy.
SeatAssumption ==
    /\ Duration \in Nat /\ MaxClock \in Nat
    /\ Groups \cap Bookings = {} /\ SeatCallers \subseteq Ids
    /\ None \notin Seats \cup SeatLock \cup GroupSeatHold

SeatTypeOK ==
    /\ clock \in Nat
    /\ locks \in [Seats -> SeatLock \cup {None}]
    /\ holds \in [Groups -> GroupSeatHold \cup {None}]
    /\ locking \in [SeatCallers -> Seats \cup {None}]
    /\ lost \in [Groups -> SUBSET Seats]

SeatInit ==
    /\ clock = 0
    /\ locks = [s \in Seats |-> None]
    /\ holds = [g \in Groups |-> None]
    /\ locking = [id \in SeatCallers |-> None]
    /\ lost = [g \in Groups |-> {}]

\* getSeatLock: an expired lock is no lock.
SeatLockOf(s) == IF locks[s] # None /\ locks[s].expiresAt < clock THEN None ELSE locks[s]
OwnedBy(s, id) == SeatLockOf(s) # None /\ SeatLockOf(s).owner \in {Named(id), ForGroup(id)}
Available == {s \in Seats : SeatLockOf(s) = None}
HasHold(g) == holds[g] # None /\ holds[g].expiresAt >= clock

\* The map is computed and the seats are taken after the last answer of the
\* database, so in one step.  No caller prefers a seat.  A hold the group
\* already has (two invitations at once) is replaced, its locks left behind.
HoldSeatsForGroup(g, seatCount) ==
    /\ seatCount > 0 /\ seatCount <= Cardinality(Available)
    /\ \E seats \in SUBSET Available :
        /\ Cardinality(seats) = seatCount
        /\ holds' = [holds EXCEPT ![g] = [seats |-> seats, expiresAt |-> clock + Duration]]
        /\ locks' = [s \in Seats |-> IF s \in seats
               THEN [owner |-> ForGroup(g), expiresAt |-> clock + Duration] ELSE locks[s]]
    /\ lost' = [lost EXCEPT ![g] = {}]
    /\ UNCHANGED <<clock, locking>>

\* Mutant: the locks are deleted and the hold is kept.
ReleaseLocksOnly(g) ==
    /\ holds[g] # None
    /\ locks' = [s \in Seats |-> IF /\ s \in holds[g].seats /\ locks[s] # None
                                    /\ locks[s].owner = ForGroup(g)
                                 THEN None ELSE locks[s]]
    /\ UNCHANGED <<clock, locking, holds, lost>>

\* updateGroupSeatHold is this and then a new hold.
ReleaseGroupSeatHold(g) ==
    /\ holds[g] # None
    /\ locks' = [s \in Seats |-> IF /\ s \in holds[g].seats /\ locks[s] # None
                                    /\ locks[s].owner = ForGroup(g)
                                 THEN None ELSE locks[s]]
    /\ holds' = [holds EXCEPT ![g] = None]
    /\ lost' = [lost EXCEPT ![g] = {}]
    /\ UNCHANGED <<clock, locking>>

\* lockSeat looks at the lock, then awaits the database ...
LockSeat(id, s) ==
    /\ locking[id] = None
    /\ s \in Available \/ OwnedBy(s, id)
    /\ locking' = [locking EXCEPT ![id] = s]
    /\ UNCHANGED <<clock, locks, holds, lost>>

TakenFrom(s) == [g \in Groups |->
    IF HasHold(g) /\ s \in holds[g].seats THEN lost[g] \cup {s} ELSE lost[g]]

\* ... and then sets it, whatever it has become.
LockSeatAnswered(id) ==
    /\ locking[id] # None
    /\ locks' = [locks EXCEPT ![locking[id]] =
           [owner |-> Named(id), expiresAt |-> clock + Duration]]
    /\ lost' = TakenFrom(locking[id])
    /\ locking' = [locking EXCEPT ![id] = None]
    /\ UNCHANGED <<clock, holds>>

\* The owner may be a group whose id the caller names: its hold is left as it is.
ReleaseSeatLock(id, s) ==
    /\ OwnedBy(s, id)
    /\ locks' = [locks EXCEPT ![s] = None]
    /\ lost' = TakenFrom(s)
    /\ UNCHANGED <<clock, holds, locking>>

CleanupExpiredLocks ==
    /\ locks' = [s \in Seats |-> SeatLockOf(s)]
    /\ holds' = [g \in Groups |-> IF HasHold(g) THEN holds[g] ELSE None]
    /\ lost' = [g \in Groups |-> IF HasHold(g) THEN lost[g] ELSE {}]
    /\ UNCHANGED <<clock, locking>>

\* clearAllLocksAndHolds; a restart of the server does the same.
ClearAllLocksAndHolds ==
    /\ locks' = [s \in Seats |-> None]
    /\ holds' = [g \in Groups |-> None]
    /\ lost' = [g \in Groups |-> {}]
    /\ UNCHANGED <<clock, locking>>

ClockTicks ==
    /\ clock < MaxClock
    /\ clock' = clock + 1
    /\ UNCHANGED <<locks, holds, locking, lost>>

SeatNext ==
    \/ \E g \in Groups, n \in 1..Cardinality(Seats) : HoldSeatsForGroup(g, n)
    \/ \E g \in Groups : ReleaseGroupSeatHold(g)
    \/ \E id \in SeatCallers, s \in Seats : LockSeat(id, s) \/ ReleaseSeatLock(id, s)
    \/ \E id \in SeatCallers : LockSeatAnswered(id)
    \/ CleanupExpiredLocks
    \/ ClearAllLocksAndHolds
    \/ ClockTicks

SeatSpec == SeatInit /\ [][SeatNext]_seatVars

\* Two groups are never promised the same seat by holds in force, through
\* holds, updates, expiries and cleanups in any order, except where a call on a
\* single seat has taken that seat from one of them.
HoldsAreDisjoint ==
    \A g, h \in Groups :
        g # h /\ HasHold(g) /\ HasHold(h) =>
            holds[g].seats \cap holds[h].seats \subseteq lost[g] \cup lost[h]
=============================================================================
