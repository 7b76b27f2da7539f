-------------------------------- MODULE Refund --------------------------------
(***************************************************************************)
(* The refund contract (contracts/packages/refund): requests an operator   *)
(* approves or rejects, partial refunds guarded by an idempotency key, and *)
(* a total per booking.  It moves no tokens: its approved and partial      *)
(* events tell the backend what to transfer, and "settled" lists them.     *)
(* It does not know the bookings: ids, amounts and passengers are whatever *)
(* the caller says.  Which addresses are operators is AccessControl's      *)
(* state; the operator's entrypoints are taken to be called by one.        *)
(***************************************************************************)
EXTENDS BookingParties, Sums, Sequences, FiniteSets

CONSTANTS
    BookingIds,    \* booking ids callers name
    Amounts,       \* amounts callers name (an i128)
    Keys,          \* idempotency keys
    Windows,       \* policy windows, in ledger time
    Percentages,   \* policy percentages, in basis points (a u32)
    NoPolicy,      \* the policy of an airline that has set none
    MaxSettled,    \* bound: approvals and partial refunds
    MaxRequests    \* bound: refund requests

ASSUME RefundAssumption ==
    /\ Amounts \subseteq Int
    /\ Windows \subseteq Nat
    /\ Percentages \subseteq Nat
    /\ \A k \in Keys : k \notin Nat   \* keys are not request ids
    /\ MaxSettled \in Nat
    /\ MaxRequests \in Nat

VARIABLES
    requests,        \* RefundRequest, in order of request_id
    total_refunded,  \* get_total_refunded, by booking id
    idempotency,     \* the (booking id, key) pairs that are set
    policies,        \* RefundPolicy by airline
    settled          \* the (refund, approved) and (refund, partial) events

refundVars == <<requests, total_refunded, idempotency, policies, settled>>

Policy == [cancellation_window : Windows, full : Percentages,
           partial : Percentages, no_refund_window : Windows]

Request == [booking_id : BookingIds, passenger : Accounts, amount : Int,
            status : {"pending", "approved", "rejected"}]

\* "by" is the request's id or the idempotency key.
Announcement == [booking_id : BookingIds, amount : Nat, by : Nat \cup Keys]

RefundTypeOK ==
    /\ requests \in Seq(Request)
    /\ total_refunded \in [BookingIds -> Nat]
    /\ idempotency \subseteq BookingIds \X Keys
    /\ policies \in [Accounts -> Policy \cup {NoPolicy}]
    /\ settled \in Seq(Announcement)

RefundInit ==
    /\ requests = <<>>
    /\ total_refunded = [b \in BookingIds |-> 0]
    /\ idempotency = {}
    /\ policies = [a \in Accounts |-> NoPolicy]
    /\ settled = <<>>

\* Mutant: without the overflow assertion.
SettleUnchecked(booking_id, amount, by) ==
    /\ Len(settled) < MaxSettled
    /\ total_refunded' = [total_refunded EXCEPT ![booking_id] = @ + amount]
    /\ settled' = Append(settled, [booking_id |-> booking_id, amount |-> amount, by |-> by])

\* Adds to a booking's total; a negative amount fails the overflow assertion.
Settle(booking_id, amount, by) ==
    /\ amount >= 0
    /\ Len(settled) < MaxSettled
    /\ total_refunded' = [total_refunded EXCEPT ![booking_id] = @ + amount]
    /\ settled' = Append(settled, [booking_id |-> booking_id, amount |-> amount, by |-> by])

SetRefundPolicy(airline, policy) ==
    /\ policies' = [policies EXCEPT ![airline] = policy]
    /\ UNCHANGED <<requests, total_refunded, idempotency, settled>>

RequestRefund(passenger, booking_id, amount) ==
    /\ Len(requests) < MaxRequests
    /\ requests' = Append(requests, [booking_id |-> booking_id, passenger |-> passenger,
                                     amount |-> amount, status |-> "pending"])
    /\ UNCHANGED <<total_refunded, idempotency, policies, settled>>

\* Mutant: the status is not looked at.
ProcessRefundAgain(request_id) ==
    /\ requests' = [requests EXCEPT ![request_id].status = "approved"]
    /\ Settle(requests[request_id].booking_id, requests[request_id].amount, request_id)
    /\ UNCHANGED <<idempotency, policies>>

ProcessRefund(request_id) ==
    /\ requests[request_id].status = "pending"
    /\ requests' = [requests EXCEPT ![request_id].status = "approved"]
    /\ Settle(requests[request_id].booking_id, requests[request_id].amount, request_id)
    /\ UNCHANGED <<idempotency, policies>>

\* Mutant: the total grows by what was requested, not by what was approved.
ApproveRefundRequested(request_id, approved_amount) ==
    LET request == requests[request_id]
    IN  /\ approved_amount > 0
        /\ request.status = "pending"
        /\ requests' = [requests EXCEPT ![request_id].status = "approved"]
        /\ request.amount >= 0 /\ Len(settled) < MaxSettled
        /\ total_refunded' = [total_refunded EXCEPT ![request.booking_id] = @ + request.amount]
        /\ settled' = Append(settled, [booking_id |-> request.booking_id,
                                       amount |-> approved_amount, by |-> request_id])
        /\ UNCHANGED <<idempotency, policies>>

ApproveRefund(request_id, approved_amount) ==
    /\ approved_amount > 0
    /\ requests[request_id].status = "pending"
    /\ requests' = [requests EXCEPT ![request_id].status = "approved"]
    /\ Settle(requests[request_id].booking_id, approved_amount, request_id)
    /\ UNCHANGED <<idempotency, policies>>

\* Mutant: an approved request can still be rejected.
RejectRefundApproved(request_id) ==
    /\ requests[request_id].status # "rejected"
    /\ requests' = [requests EXCEPT ![request_id].status = "rejected"]
    /\ UNCHANGED <<total_refunded, idempotency, policies, settled>>

RejectRefund(request_id) ==
    /\ requests[request_id].status = "pending"
    /\ requests' = [requests EXCEPT ![request_id].status = "rejected"]
    /\ UNCHANGED <<total_refunded, idempotency, policies, settled>>

\* A key that was processed is answered with the total and changes nothing.
ProcessPartialRefund(booking_id, amount, key) ==
    /\ amount > 0
    /\ <<booking_id, key>> \notin idempotency
    /\ Settle(booking_id, amount, key)
    /\ idempotency' = idempotency \cup {<<booking_id, key>>}
    /\ UNCHANGED <<requests, policies>>

RefundNext ==
    \/ \E a \in Accounts, policy \in Policy : SetRefundPolicy(a, policy)
    \/ \E p \in Accounts, b \in BookingIds, x \in Amounts : RequestRefund(p, b, x)
    \/ \E r \in 1..Len(requests) :
          \/ ProcessRefund(r)
          \/ \E x \in Amounts : ApproveRefund(r, x)
          \/ RejectRefund(r)
    \/ \E b \in BookingIds, x \in Amounts, k \in Keys : ProcessPartialRefund(b, x, k)

RefundSpec == RefundInit /\ [][RefundNext]_refundVars

\* calculate_refund, at the given ledger time.
CalculateRefund(policy, original_price, departure_time, time) ==
    LET time_until_departure == IF departure_time > time THEN departure_time - time ELSE 0
    IN  CASE time_until_departure >= policy.cancellation_window ->
                (original_price * policy.full) \div 10000
          [] time_until_departure < policy.cancellation_window
             /\ time_until_departure >= policy.no_refund_window ->
                (original_price * policy.partial) \div 10000
          [] OTHER -> 0

(***************************************************************************)
(* Properties.                                                             *)
(***************************************************************************)

\* The total kept for a booking is the sum of what its approvals and partial
\* refunds were announced with, in whatever order the request flow and the
\* keyed flow are mixed.
TotalsAddUp ==
    \A b \in BookingIds :
        total_refunded[b] =
            SumTo([i \in 1..Len(settled) |->
                      IF settled[i].booking_id = b THEN settled[i].amount ELSE 0],
                  Len(settled))

\* No refund is announced twice: a request is announced once if it is approved
\* and never otherwise, and a key once per booking and only when it is set.
AnnouncedOnce ==
    /\ \A i, j \in 1..Len(settled) :
          /\ settled[i].booking_id = settled[j].booking_id
          /\ settled[i].by = settled[j].by
          => i = j
    /\ \A r \in 1..Len(requests) :
          requests[r].status = "approved" <=>
              \E i \in 1..Len(settled) :
                  settled[i].by = r /\ settled[i].booking_id = requests[r].booking_id
    /\ \A b \in BookingIds, k \in Keys :
          <<b, k>> \in idempotency <=>
              \E i \in 1..Len(settled) : settled[i].by = k /\ settled[i].booking_id = b

\* A decision is final: no later call changes a request that was approved or
\* rejected, and no call takes back what a booking's total already holds.
DecisionsAreFinal ==
    [][/\ \A r \in 1..Len(requests) :
             requests[r].status # "pending" => requests'[r] = requests[r]
       /\ \A b \in BookingIds : total_refunded'[b] >= total_refunded[b]]_refundVars
=============================================================================
