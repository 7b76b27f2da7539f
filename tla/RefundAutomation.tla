--------------------------- MODULE RefundAutomation ---------------------------
(***************************************************************************)
(* The refund automation contract (contracts/packages/refund_automation):  *)
(* it cancels a booking with the refund its lead time earns, by calling    *)
(* settle_cancellation on the booking contract, and files requests with    *)
(* the refund contract.  This module composes the three contracts; the     *)
(* parties may also call the other two directly.  The contract's disputes  *)
(* touch none of this state and are in RefundDisputes.  As in Refund, the  *)
(* operator's entrypoints are taken to be called by an operator.           *)
(***************************************************************************)
EXTENDS BookingEscrow, Refund

CONSTANTS
    Names,           \* booking names the automation uses (a Symbol)
    FullWindow,      \* FULL_REFUND_WINDOW_SECS
    PartialWindow,   \* PARTIAL_REFUND_WINDOW_SECS
    MaxRefundBatch   \* bound: names in one process_batch_refunds call

VARIABLES
    booking_map,     \* DataKey::BookingMap, by name
    cancelled,       \* the names whose DataKey::Cancelled is set
    results          \* the CancellationResult returned for a cancelled name

automationVars == <<booking_map, cancelled, results>>

\* The refund contract is given the booking contract's ids.
ASSUME AutomationAssumption ==
    /\ BookingIds = 1..MaxBookings
    /\ MaxRefundBatch \in Nat
    /\ FullWindow \in Nat /\ PartialWindow \in Nat
    /\ {0, 5000, 10000} \subseteq Bps
    /\ None \notin Nat

AutomationTypeOK ==
    /\ TypeOK
    /\ RefundTypeOK
    /\ booking_map \in [Names -> BookingIds \cup {None}]
    /\ cancelled \subseteq Names
    /\ results \in [Names -> [tier : {"full", "partial", "no_refund"},
                              passenger_refund : Nat, airline_amount : Nat] \cup {None}]

AutomationInit ==
    /\ Init
    /\ RefundInit
    /\ booking_map = [n \in Names |-> None]
    /\ cancelled = {}
    /\ results = [n \in Names |-> None]

\* The numeric id is not checked, and two names may be given the same one.
RegisterBooking(name, id) ==
    /\ Idle
    /\ booking_map[name] = None
    /\ booking_map' = [booking_map EXCEPT ![name] = id]
    /\ UNCHANGED <<vars, refundVars, cancelled, results>>

Until(departure_time) == IF departure_time > now THEN departure_time - now ELSE 0

Tier(departure_time) ==
    CASE Until(departure_time) > FullWindow -> "full"
      [] Until(departure_time) \in PartialWindow..FullWindow -> "partial"
      [] OTHER -> "no_refund"

RefundBps(tier) ==
    CASE tier = "full" -> 10000
      [] tier = "partial" -> 5000
      [] tier = "no_refund" -> 0

\* Mutant: a booking that is already closed counts as settled.
SettlementOfClosed(name, caller) ==
    LET id == booking_map[name]
        tier == Tier(bookings[id].departure_time)
        refund == PassengerShare(bookings[id].amount_escrowed, RefundBps(tier))
    IN  /\ id \in Ids /\ Idle
        /\ IF Open(id) THEN SettleCancellation(id, caller, RefundBps(tier))
                       ELSE UNCHANGED vars
        /\ cancelled' = cancelled \cup {name}
        /\ results' = [results EXCEPT ![name] =
              [tier |-> tier, passenger_refund |-> refund,
               airline_amount |-> bookings[id].amount_escrowed - refund]]
        /\ UNCHANGED booking_map

\* What both cancelling entrypoints do: settle the booking's escrow by its
\* tier, mark the name and report the two parts.
Settlement(name, caller) ==
    LET id == booking_map[name]
        tier == Tier(bookings[id].departure_time)
        refund == PassengerShare(bookings[id].amount_escrowed, RefundBps(tier))
    IN  /\ id \in Ids
        /\ SettleCancellation(id, caller, RefundBps(tier))
        /\ cancelled' = cancelled \cup {name}
        /\ results' = [results EXCEPT ![name] =
              [tier |-> tier, passenger_refund |-> refund,
               airline_amount |-> bookings[id].amount_escrowed - refund]]
        /\ UNCHANGED booking_map

CancelBooking(name, caller) ==
    /\ name \notin cancelled
    /\ Settlement(name, caller)
    /\ UNCHANGED refundVars

\* With a refund due it also files a request for what was just paid out of the
\* escrow.
AutomateRefund(name, caller) ==
    LET id == booking_map[name]
        bps == RefundBps(Tier(bookings[id].departure_time))
    IN  /\ Settlement(name, caller)
        /\ IF bps > 0
           THEN RequestRefund(bookings[id].passenger, id,
                    PassengerShare(bookings[id].amount_escrowed, bps))
           ELSE UNCHANGED refundVars

\* Mutant: the request is announced and left pending.
BatchRequestPending(name) ==
    [booking_id |-> booking_map[name], passenger |-> bookings[booking_map[name]].passenger,
     amount |-> 0, status |-> "pending"]

\* Mutant: the request carries the booking's name.
BatchRequestByName(name) ==
    [booking_id |-> name, passenger |-> bookings[booking_map[name]].passenger,
     amount |-> 0, status |-> "approved"]

\* What a batch files for a cancelled name: a request for 0, approved at once.
BatchRequest(name) ==
    [booking_id |-> booking_map[name], passenger |-> bookings[booking_map[name]].passenger,
     amount |-> 0, status |-> "approved"]

\* A name that is not cancelled is skipped and leaves no trace, so a call is
\* given by the names it does not skip.
ProcessBatchRefunds(names) ==
    LET first == Len(requests)
    IN  /\ Idle
        /\ \A k \in 1..Len(names) : names[k] \in cancelled
        /\ first + Len(names) <= MaxRequests
        /\ Len(settled) + Len(names) <= MaxSettled
        /\ requests' = requests \o [k \in 1..Len(names) |-> BatchRequest(names[k])]
        /\ settled' = settled \o [k \in 1..Len(names) |->
              [booking_id |-> booking_map[names[k]], amount |-> 0, by |-> first + k]]
        /\ UNCHANGED <<vars, total_refunded, idempotency, policies, automationVars>>

AutomationNext ==
    \/ Next /\ UNCHANGED <<refundVars, automationVars>>
    \/ Idle /\ RefundNext /\ UNCHANGED <<vars, automationVars>>
    \/ \E n \in Names :
          \/ \E id \in BookingIds : RegisterBooking(n, id)
          \/ \E caller \in Accounts : CancelBooking(n, caller) \/ AutomateRefund(n, caller)
    \/ \E k \in 1..MaxRefundBatch : \E names \in [1..k -> Names] : ProcessBatchRefunds(names)

AutomationSpec ==
    AutomationInit /\ [][AutomationNext]_<<vars, refundVars, automationVars>>

(***************************************************************************)
(* Properties.                                                             *)
(***************************************************************************)

\* What the automation believes is what the booking contract did: a name it
\* marks as cancelled belongs to a booking that was cancelled, by it and not by
\* another name registered for the same booking, and the refund and the airline
\* part it returned are what left the escrow.
CancelledMeansSettled ==
    \A n \in cancelled :
        LET id == booking_map[n]
        IN  /\ id \in Ids
            /\ bookings[id].status = "cancelled"
            /\ results[n].passenger_refund = flow[id].to_passenger
            /\ results[n].airline_amount = flow[id].to_airline
            /\ \A m \in cancelled : booking_map[m] = id => m = n

\* The refund contract's books stay right when the automation writes to it in
\* the same transactions.
BooksStayRight == TotalsAddUp /\ AnnouncedOnce

\* "Refund amount bounds (never exceeds original price)": what a passenger got
\* out of the escrow and what the backend was told to transfer for a booking do
\* not exceed its price together.  Here every request is one the automation
\* filed for itself, so a passenger asking for more is not what breaks it.
NeverRefundsMoreThanPrice ==
    \A id \in Ids :
        flow[id].to_passenger + total_refunded[id] <= bookings[id].price
=============================================================================
