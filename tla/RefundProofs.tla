----------------------------- MODULE RefundProofs -----------------------------
(***************************************************************************)
(* The books of the refund contract for any bookings, requests, keys and   *)
(* amounts: what it has announced for transfer and what it remembers of it *)
(* are the same, whatever order operators call it in.                      *)
(***************************************************************************)
EXTENDS Refund, SumsProofs

\* A settlement that names a request is of that request and its booking.
RequestsSettled ==
    \A i \in 1..Len(settled) : settled[i].by \in Nat =>
        /\ settled[i].by \in 1..Len(requests)
        /\ settled[i].booking_id = requests[settled[i].by].booking_id

\* AnnouncedOnce, in parts: no two settlements are of one booking and one source,
\* and requests and keys are settled exactly when they are marked.
SettledOnce ==
    \A i, j \in 1..Len(settled) :
        settled[i].booking_id = settled[j].booking_id /\ settled[i].by = settled[j].by
        => i = j

IsSettled(booking_id, by) ==
    \E i \in 1..Len(settled) : settled[i].by = by /\ settled[i].booking_id = booking_id

RequestsMarked ==
    \A r \in 1..Len(requests) :
        requests[r].status = "approved" <=> IsSettled(requests[r].booking_id, r)

KeysMarked ==
    \A b \in BookingIds, k \in Keys : <<b, k>> \in idempotency <=> IsSettled(b, k)

Books == SettledOnce /\ RequestsMarked /\ KeysMarked /\ RequestsSettled

BooksInv == RefundTypeOK /\ TotalsAddUp /\ Books

\* What a booking was settled with by each settlement.
Shares(b) == [i \in 1..Len(settled) |->
                 IF settled[i].booking_id = b THEN settled[i].amount ELSE 0]

\* The named parts together are AnnouncedOnce.
LEMMA BooksAreAnnouncements == Books => AnnouncedOnce
BY DEF Books, AnnouncedOnce, SettledOnce, RequestsMarked, KeysMarked, IsSettled

\* A contract that has not been called owes and remembers nothing.
LEMMA RefundInitHolds == RefundInit => BooksInv
<1> SUFFICES ASSUME RefundInit PROVE BooksInv
  OBVIOUS
<1>1. Len(settled) = 0 /\ Len(requests) = 0
  BY DEF RefundInit
<1>2. RefundTypeOK
  BY DEF RefundInit, RefundTypeOK
<1>3. TotalsAddUp
  BY <1>1, SumToType DEF RefundInit, TotalsAddUp
<1>4. Books
  BY <1>1 DEF RefundInit, Books, SettledOnce, RequestsMarked, KeysMarked, RequestsSettled, IsSettled
<1> QED
  BY <1>2, <1>3, <1>4 DEF BooksInv

\* Every settlement adds its amount to the total of its booking and to no other,
\* and to the list what it is and whose.
LEMMA SettleAdds ==
  ASSUME RefundTypeOK, TotalsAddUp, NEW b \in BookingIds, NEW amount \in Int,
         NEW by \in Nat \cup Keys, Settle(b, amount, by)
  PROVE  /\ total_refunded' \in [BookingIds -> Nat]
         /\ settled' \in Seq(Announcement)
         /\ TotalsAddUp'
         /\ Len(settled') = Len(settled) + 1
         /\ \A i \in 1..Len(settled) : settled'[i] = settled[i]
         /\ settled'[Len(settled')] = [booking_id |-> b, amount |-> amount, by |-> by]
<1> DEFINE n == Len(settled)
           s == [booking_id |-> b, amount |-> amount, by |-> by]
<1>1. amount \in Nat /\ s \in Announcement /\ n \in Nat
  BY DEF Settle, Announcement, RefundTypeOK
<1>2. settled' = Append(settled, s) /\ total_refunded' = [total_refunded EXCEPT ![b] = @ + amount]
  BY DEF Settle
<1>3. /\ settled' \in Seq(Announcement)
      /\ Len(settled') = n + 1
      /\ \A i \in 1..n : settled'[i] = settled[i]
      /\ settled'[n + 1] = s
  BY <1>1, <1>2 DEF RefundTypeOK
<1>4. total_refunded' \in [BookingIds -> Nat]
  BY <1>1, <1>2 DEF RefundTypeOK
<1>5. ASSUME NEW c \in BookingIds
      PROVE  total_refunded'[c] = SumTo(Shares(c)', n + 1)
  <2> DEFINE f == Shares(c)
             e == Shares(c)'
             added == IF c = b THEN amount ELSE 0
  <2>1. \A i \in 1..n : settled[i] \in Announcement
    BY <1>1 DEF RefundTypeOK
  <2>2. \A i \in 1..n : f[i] \in Int /\ e[i] = f[i]
    BY <1>1, <1>3, <2>1 DEF Shares, Announcement
  <2>3. e[n + 1] = added
    BY <1>1, <1>3 DEF Shares
  <2>4. added \in Int
    BY <1>1
  <2>5. SumTo(f, n) = total_refunded[c]
    BY DEF TotalsAddUp, Shares
  <2> HIDE DEF f, e, n, added
  <2>6. SumTo(e, n + 1) = total_refunded[c] + added
    BY <1>1, <2>2, <2>3, <2>4, <2>5, SumToExtend
  <2>7. total_refunded'[c] = total_refunded[c] + added
    BY <1>2 DEF RefundTypeOK, added
  <2> QED
    BY <2>6, <2>7 DEF e
<1>6. TotalsAddUp'
  BY <1>3, <1>5 DEF TotalsAddUp, Shares
<1> QED
  BY <1>3, <1>4, <1>6

\* A settlement of a source that had none marks that source and no other, and is
\* its only one.
LEMMA SettleMarks ==
  ASSUME NEW n \in Nat, Len(settled) = n, Len(settled') = n + 1,
         \A i \in 1..n : settled'[i] = settled[i],
         NEW b, NEW amount, NEW by,
         settled'[n + 1] = [booking_id |-> b, amount |-> amount, by |-> by],
         ~ IsSettled(b, by), SettledOnce
  PROVE  /\ SettledOnce'
         /\ \A c, d : IsSettled(c, d)' <=> IsSettled(c, d) \/ (c = b /\ d = by)
<1>1. settled'[n + 1].booking_id = b /\ settled'[n + 1].by = by
  OBVIOUS
<1>2. \A i \in 1..(n + 1) : i \in 1..n \/ i = n + 1
  OBVIOUS
<1>3. 1..n \subseteq 1..(n + 1) /\ n + 1 \in 1..(n + 1)
  OBVIOUS
<1>4. SettledOnce'
  <2> SUFFICES ASSUME NEW i \in 1..(n + 1), NEW j \in 1..(n + 1),
                      settled'[i].booking_id = settled'[j].booking_id,
                      settled'[i].by = settled'[j].by
               PROVE  i = j
    BY DEF SettledOnce
  <2>1. CASE i \in 1..n /\ j \in 1..n
    BY <2>1 DEF SettledOnce
  <2>2. CASE i = n + 1 /\ j \in 1..n
    BY <1>1, <2>2 DEF IsSettled
  <2>3. CASE i \in 1..n /\ j = n + 1
    BY <1>1, <2>3 DEF IsSettled
  <2> QED  BY <1>2, <2>1, <2>2, <2>3
<1>5. ASSUME NEW c, NEW d
      PROVE  IsSettled(c, d)' <=> IsSettled(c, d) \/ (c = b /\ d = by)
  <2>1. IsSettled(c, d)' <=> \E i \in 1..(n + 1) : settled'[i].by = d /\ settled'[i].booking_id = c
    BY DEF IsSettled
  <2>2. IsSettled(c, d) <=> \E i \in 1..n : settled'[i].by = d /\ settled'[i].booking_id = c
    BY DEF IsSettled
  <2> QED  BY <1>1, <1>2, <1>3, <2>1, <2>2
<1> QED  BY <1>4, <1>5

-----------------------------------------------------------------------------
(***************************************************************************)
(* One lemma per kind of step.                                             *)
(***************************************************************************)

\* A request is stored as pending, under a number nothing is settled by.
LEMMA RequestHolds ==
  ASSUME BooksInv, NEW p \in Accounts, NEW b \in BookingIds, NEW amount \in Int,
         RequestRefund(p, b, amount)
  PROVE  BooksInv'
<1> DEFINE r == [booking_id |-> b, passenger |-> p, amount |-> amount, status |-> "pending"]
           n == Len(requests)
<1> USE DEF BooksInv, RefundTypeOK
<1>1. r \in Request /\ n \in Nat
  BY DEF Request
<1>2. requests' = Append(requests, r) /\ settled' = settled
  BY DEF RequestRefund
<1>3. /\ requests' \in Seq(Request)
      /\ Len(requests') = n + 1
      /\ \A i \in 1..n : requests'[i] = requests[i]
      /\ requests'[n + 1] = r
  BY <1>1, <1>2
<1>4. RefundTypeOK' /\ TotalsAddUp'
  <2>1. UNCHANGED <<policies, total_refunded, idempotency, settled>>
    BY DEF RequestRefund
  <2>2. RefundTypeOK'
    BY <1>3, <2>1
  <2>3. TotalsAddUp'
    BY <2>1 DEF TotalsAddUp
  <2> QED  BY <2>2, <2>3
<1>5. RequestsSettled'
  BY <1>1, <1>2, <1>3 DEF Books, RequestsSettled
<1>6. SettledOnce' /\ KeysMarked'
  <2>1. SettledOnce /\ KeysMarked /\ UNCHANGED <<settled, idempotency>>
    BY DEF RequestRefund, Books
  <2>2. SettledOnce'
    BY <2>1 DEF SettledOnce
  <2>3. KeysMarked'
    <3>1. \A c, l : IsSettled(c, l)' <=> IsSettled(c, l)
      BY <2>1 DEF IsSettled
    <3> QED  BY <2>1, <3>1 DEF KeysMarked
  <2> QED  BY <2>2, <2>3
<1>7. RequestsMarked'
  <2> SUFFICES ASSUME NEW i \in 1..(n + 1)
               PROVE  requests'[i].status = "approved" <=> IsSettled(requests[i].booking_id, i)'
    BY <1>3 DEF RequestsMarked
  <2>1. CASE i = n + 1
    <3>1. ~ IsSettled(requests[i].booking_id, i)'
      BY <1>1, <1>2, <2>1 DEF Books, RequestsSettled, IsSettled
    <3>2. requests'[i].status # "approved"
      BY <1>3, <2>1
    <3> QED  BY <3>1, <3>2
  <2>2. CASE i \in 1..n
    BY <1>2, <1>3, <2>2 DEF Books, RequestsMarked, IsSettled
  <2> QED  BY <1>1, <2>1, <2>2
<1> QED
  BY <1>4, <1>5, <1>6, <1>7 DEF Books

\* ProcessRefund and ApproveRefund, which differ in the amount: a pending request
\* has not been settled, so its settlement is the first.
LEMMA ApprovalHolds ==
  ASSUME BooksInv, NEW r \in 1..Len(requests), NEW amount \in Int,
         requests[r].status = "pending",
         requests' = [requests EXCEPT ![r].status = "approved"],
         Settle(requests[r].booking_id, amount, r),
         UNCHANGED <<idempotency, policies>>
  PROVE  BooksInv'
<1> DEFINE b == requests[r].booking_id
           n == Len(settled)
<1> USE DEF BooksInv
<1>1. requests[r] \in Request /\ b \in BookingIds /\ r \in Nat
  <2>1. requests[r] \in Request
    BY DEF RefundTypeOK
  <2> QED  BY <2>1 DEF Request
<1>2. /\ requests' \in Seq(Request)
      /\ Len(requests') = Len(requests)
      /\ \A i \in 1..Len(requests) :
            /\ requests'[i].booking_id = requests[i].booking_id
            /\ requests'[i].status = IF i = r THEN "approved" ELSE requests[i].status
  <2>1. requests' = [requests EXCEPT ![r] = [requests[r] EXCEPT !.status = "approved"]]
    OBVIOUS
  <2>2. [requests[r] EXCEPT !.status = "approved"] \in Request
    BY <1>1 DEF Request
  <2>3. requests' \in Seq(Request) /\ Len(requests') = Len(requests)
    BY <2>1, <2>2 DEF RefundTypeOK
  <2>4. ASSUME NEW i \in 1..Len(requests)
        PROVE  /\ requests'[i].booking_id = requests[i].booking_id
               /\ requests'[i].status = IF i = r THEN "approved" ELSE requests[i].status
    BY <1>1, <2>1 DEF RefundTypeOK, Request
  <2> QED  BY <2>3, <2>4
<1>3. /\ total_refunded' \in [BookingIds -> Nat]
      /\ settled' \in Seq(Announcement)
      /\ TotalsAddUp'
      /\ Len(settled') = n + 1
      /\ \A i \in 1..n : settled'[i] = settled[i]
      /\ settled'[n + 1] = [booking_id |-> b, amount |-> amount, by |-> r]
  BY <1>1, SettleAdds
<1>4. n \in Nat /\ ~ IsSettled(b, r)
  BY DEF RefundTypeOK, Books, RequestsMarked
<1>5. RefundTypeOK'
  BY <1>2, <1>3 DEF RefundTypeOK
<1>6. /\ SettledOnce'
      /\ \A c, d : IsSettled(c, d)' <=> IsSettled(c, d) \/ (c = b /\ d = r)
  <2> HIDE DEF b, n
  <2> QED  BY <1>3, <1>4, SettleMarks DEF Books, n
<1>7. RequestsSettled'
  <2> SUFFICES ASSUME NEW i \in 1..(n + 1), settled'[i].by \in Nat
               PROVE  /\ settled'[i].by \in 1..Len(requests)
                      /\ settled'[i].booking_id = requests[settled'[i].by].booking_id
    BY <1>2, <1>3 DEF RequestsSettled
  <2>1. CASE i = n + 1
    BY <1>3, <2>1
  <2>2. CASE i \in 1..n
    BY <1>3, <2>2 DEF Books, RequestsSettled
  <2> QED  BY <1>4, <2>1, <2>2
<1>8. RequestsMarked'
  <2>1. ASSUME NEW i \in 1..Len(requests)
        PROVE  requests'[i].status = "approved" <=> IsSettled(requests[i].booking_id, i)'
    <3>1. requests[i].status = "approved" <=> IsSettled(requests[i].booking_id, i)
      BY DEF Books, RequestsMarked
    <3> DEFINE c == requests[i].booking_id
               d == requests'[i].booking_id
    <3>2. c = d /\ (requests'[i].status = "approved" <=> IsSettled(c, i) \/ i = r)
      BY <1>2, <3>1
    <3>3. \A e : IsSettled(e, i)' <=> IsSettled(e, i) \/ (e = b /\ i = r)
      BY <1>6
    <3>4. IsSettled(requests[i].booking_id, i)' <=> IsSettled(d, i) \/ (d = b /\ i = r)
      BY <3>3 DEF IsSettled
    <3> QED  BY <3>2, <3>4
  <2> QED  BY <1>2, <2>1 DEF RequestsMarked
<1>9. KeysMarked'
  <2>1. \A k \in Keys : k # r
    BY <1>1, RefundAssumption DEF RefundAssumption
  <2> QED
    BY <1>6, <2>1 DEF Books, KeysMarked
<1> QED
  BY <1>3, <1>5, <1>6, <1>7, <1>8, <1>9 DEF Books

\* A request that is not approved may be rejected: nothing is settled by it.
LEMMA RejectHolds ==
  ASSUME BooksInv, NEW r \in 1..Len(requests), RejectRefund(r)
  PROVE  BooksInv'
<1> USE DEF BooksInv, RejectRefund
<1>1. requests[r] \in Request
  BY DEF RefundTypeOK
<1>2. requests' = [requests EXCEPT ![r] = [requests[r] EXCEPT !.status = "rejected"]]
  OBVIOUS
<1>3. requests' \in Seq(Request) /\ Len(requests') = Len(requests)
  <2>1. [requests[r] EXCEPT !.status = "rejected"] \in Request
    BY <1>1 DEF Request
  <2> QED  BY <1>2, <2>1 DEF RefundTypeOK
<1>4. ASSUME NEW i \in 1..Len(requests)
      PROVE  /\ requests'[i].booking_id = requests[i].booking_id
             /\ requests'[i].status = "approved" <=> requests[i].status = "approved"
  BY <1>1, <1>2 DEF RefundTypeOK, Request
<1>5. RefundTypeOK' /\ TotalsAddUp'
  BY <1>3 DEF RefundTypeOK, TotalsAddUp
<1>6. SettledOnce' /\ KeysMarked' /\ RequestsSettled'
  BY <1>3, <1>4 DEF Books, SettledOnce, KeysMarked, IsSettled, RequestsSettled
<1>7. RequestsMarked'
  BY <1>3, <1>4 DEF Books, RequestsMarked, IsSettled
<1> QED
  BY <1>5, <1>6, <1>7 DEF Books

\* A key that is not set has settled nothing for its booking.
LEMMA PartialHolds ==
  ASSUME BooksInv, NEW b \in BookingIds, NEW amount \in Amounts, NEW k \in Keys,
         ProcessPartialRefund(b, amount, k)
  PROVE  BooksInv'
<1> DEFINE n == Len(settled)
<1> USE DEF BooksInv, ProcessPartialRefund
<1>1. amount \in Int /\ k \notin Nat
  BY RefundAssumption DEF RefundAssumption
<1>2. /\ total_refunded' \in [BookingIds -> Nat]
      /\ settled' \in Seq(Announcement)
      /\ TotalsAddUp'
      /\ Len(settled') = n + 1
      /\ \A i \in 1..n : settled'[i] = settled[i]
      /\ settled'[n + 1] = [booking_id |-> b, amount |-> amount, by |-> k]
  BY <1>1, SettleAdds
<1>3. n \in Nat /\ ~ IsSettled(b, k)
  BY DEF RefundTypeOK, Books, KeysMarked
<1>4. RefundTypeOK'
  BY <1>2 DEF RefundTypeOK
<1>5. /\ SettledOnce'
      /\ \A c, d : IsSettled(c, d)' <=> IsSettled(c, d) \/ (c = b /\ d = k)
  <2> HIDE DEF n
  <2> QED  BY <1>2, <1>3, SettleMarks DEF Books, n
<1>6. RequestsSettled'
  <2> SUFFICES ASSUME NEW i \in 1..(n + 1), settled'[i].by \in Nat
               PROVE  /\ settled'[i].by \in 1..Len(requests)
                      /\ settled'[i].booking_id = requests[settled'[i].by].booking_id
    BY <1>2 DEF RequestsSettled
  <2>1. i # n + 1
    BY <1>1, <1>2
  <2>2. i \in 1..n
    BY <1>3, <2>1
  <2> QED  BY <1>2, <2>2 DEF Books, RequestsSettled
<1>7. RequestsMarked'
  <2>1. ASSUME NEW i \in 1..Len(requests)
        PROVE  IsSettled(requests[i].booking_id, i)' <=> IsSettled(requests[i].booking_id, i)
    <3>1. i # k
      BY <1>1
    <3>2. \A c : IsSettled(c, i)' <=> IsSettled(c, i)
      BY <1>5, <3>1
    <3> QED  BY <3>2 DEF IsSettled
  <2> QED  BY <2>1 DEF Books, RequestsMarked
<1>8. KeysMarked'
  BY <1>5 DEF Books, KeysMarked
<1> QED
  BY <1>2, <1>4, <1>5, <1>6, <1>7, <1>8 DEF Books

\* One step per entrypoint.
LEMMA RefundStepHolds ==
  ASSUME BooksInv, [RefundNext]_refundVars
  PROVE  BooksInv'
<1>1. ASSUME UNCHANGED <<requests, total_refunded, idempotency, settled>>,
             policies' \in [Accounts -> Policy \cup {NoPolicy}]
      PROVE  BooksInv'
  <2>1. RefundTypeOK'
    BY <1>1 DEF BooksInv, RefundTypeOK
  <2>2. TotalsAddUp'
    BY <1>1 DEF BooksInv, TotalsAddUp
  <2>3. SettledOnce' /\ RequestsSettled'
    BY <1>1 DEF BooksInv, Books, SettledOnce, RequestsSettled
  <2>4. RequestsMarked' /\ KeysMarked'
    <3>1. \A c, l : IsSettled(c, l)' <=> IsSettled(c, l)
      BY <1>1 DEF IsSettled
    <3>2. RequestsMarked'
      BY <1>1, <3>1 DEF BooksInv, Books, RequestsMarked
    <3>3. KeysMarked'
      BY <1>1, <3>1 DEF BooksInv, Books, KeysMarked
    <3> QED  BY <3>2, <3>3
  <2> QED
    BY <2>1, <2>2, <2>3, <2>4 DEF BooksInv, Books
<1>2. CASE UNCHANGED refundVars
  BY <1>1, <1>2 DEF refundVars, BooksInv, RefundTypeOK
<1>3. ASSUME NEW a \in Accounts, NEW policy \in Policy, SetRefundPolicy(a, policy)
      PROVE  BooksInv'
  BY <1>1, <1>3 DEF SetRefundPolicy, BooksInv, RefundTypeOK
<1>4. ASSUME NEW r \in 1..Len(requests), ProcessRefund(r)
      PROVE  BooksInv'
  <2>1. requests[r] \in Request
    BY DEF BooksInv, RefundTypeOK
  <2>2. requests[r].amount \in Int
    BY <2>1 DEF Request
  <2> QED
    BY <1>4, <2>2, ApprovalHolds DEF ProcessRefund
<1>5. ASSUME NEW r \in 1..Len(requests), NEW x \in Amounts, ApproveRefund(r, x)
      PROVE  BooksInv'
  BY <1>5, ApprovalHolds, RefundAssumption DEF ApproveRefund, RefundAssumption
<1> QED
  BY <1>2, <1>3, <1>4, <1>5, RequestHolds, RejectHolds, PartialHolds, RefundAssumption
     DEF RefundNext, RefundAssumption

-----------------------------------------------------------------------------
\* The invariant holds throughout.
THEOREM RefundInductive == RefundSpec => []BooksInv
BY RefundInitHolds, RefundStepHolds, PTL DEF RefundSpec

\* The stored requests, totals, keys and policies are what the declarations say.
THEOREM RefundTypeCorrect == RefundSpec => []RefundTypeOK
BY RefundInductive, PTL DEF BooksInv

\* A booking's total is the sum of what was announced for it, by approvals and
\* partial refunds in any order.
THEOREM TotalsAddUpAlways == RefundSpec => []TotalsAddUp
BY RefundInductive, PTL DEF BooksInv

\* No request and no key is announced for transfer twice, and each is announced
\* exactly when it is marked.
THEOREM AnnouncedOnceAlways == RefundSpec => []AnnouncedOnce
BY RefundInductive, BooksAreAnnouncements, PTL DEF BooksInv

\* A decided request never changes, and no total ever shrinks.
THEOREM DecisionsAreFinalAlways == RefundSpec => DecisionsAreFinal
<1> DEFINE Decided ==
      /\ \A r \in 1..Len(requests) :
             requests[r].status # "pending" => requests'[r] = requests[r]
      /\ \A b \in BookingIds : total_refunded'[b] >= total_refunded[b]
<1>1. ASSUME BooksInv, [RefundNext]_refundVars
      PROVE  [Decided]_refundVars
  <2> USE DEF BooksInv, RefundTypeOK
  <2>1. ASSUME NEW b \in BookingIds, NEW amount \in Int, NEW by, Settle(b, amount, by)
        PROVE  \A c \in BookingIds : total_refunded'[c] >= total_refunded[c]
    BY <1>1, <2>1 DEF Settle
  <2>2. \A r \in 1..Len(requests) : requests[r].booking_id \in BookingIds
                                   /\ requests[r].amount \in Int
    <3> SUFFICES ASSUME NEW r \in 1..Len(requests)
                 PROVE  requests[r].booking_id \in BookingIds /\ requests[r].amount \in Int
      OBVIOUS
    <3>1. requests[r] \in Request
      BY <1>1
    <3> QED  BY <3>1 DEF Request
  <2>3. CASE UNCHANGED <<requests, total_refunded>>
    BY <1>1, <2>3
  <2>4. ASSUME NEW p \in Accounts, NEW b \in BookingIds, NEW x \in Amounts,
               RequestRefund(p, b, x)
        PROVE  Decided
    BY <1>1, <2>4 DEF RequestRefund
  <2>5. ASSUME NEW r \in 1..Len(requests), requests[r].status = "pending",
               \E d : requests' = [requests EXCEPT ![r].status = d],
               \A b \in BookingIds : total_refunded'[b] >= total_refunded[b]
        PROVE  Decided
    BY <1>1, <2>5
  <2>6. ASSUME NEW r \in 1..Len(requests), ProcessRefund(r)
        PROVE  Decided
    BY <2>1, <2>2, <2>5, <2>6 DEF ProcessRefund
  <2>7. ASSUME NEW r \in 1..Len(requests), NEW x \in Amounts, ApproveRefund(r, x)
        PROVE  Decided
    BY <2>1, <2>2, <2>5, <2>7, RefundAssumption DEF ApproveRefund, RefundAssumption
  <2>8. ASSUME NEW r \in 1..Len(requests), RejectRefund(r)
        PROVE  Decided
    BY <1>1, <2>5, <2>8 DEF RejectRefund
  <2>9. ASSUME NEW b \in BookingIds, NEW x \in Amounts, NEW k \in Keys,
               ProcessPartialRefund(b, x, k)
        PROVE  Decided
    BY <1>1, <2>1, <2>9, RefundAssumption DEF ProcessPartialRefund, RefundAssumption
  <2> QED
    BY <1>1, <2>3, <2>4, <2>6, <2>7, <2>8, <2>9 DEF RefundNext, SetRefundPolicy, refundVars
<1> QED
  BY RefundInductive, <1>1, PTL DEF RefundSpec, DecisionsAreFinal
=============================================================================
