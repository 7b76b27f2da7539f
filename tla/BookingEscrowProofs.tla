------------------------- MODULE BookingEscrowProofs -------------------------
(***************************************************************************)
(* Proofs about the booking contract, for any accounts, prices, departure  *)
(* times and number of bookings.                                           *)
(***************************************************************************)
EXTENDS BookingEscrow, SumsProofs, SequenceTheorems, TLAPS

\* A share of at most 10000 basis points is part of the escrow.
LEMMA ShareBound ==
    ASSUME NEW e \in Nat, NEW b \in Nat, b <= 10000
    PROVE  PassengerShare(e, b) \in Nat /\ PassengerShare(e, b) <= e
<1> DEFINE x == e * b
<1>1. x \in Nat /\ x <= e * 10000
  OBVIOUS
<1> HIDE DEF x
<1>2. (x \div 10000) \in Nat /\ (x \div 10000) <= e
  BY <1>1
<1> QED  BY <1>2 DEF PassengerShare, x

Ledger == Conserved /\ Solvent

\* The effect of PayOut on the bookings, the balances and the two money
\* invariants, whichever entrypoint it is part of.
LEMMA PayOutLedger ==
    ASSUME TypeOK, Ledger, NEW id \in Ids, NEW p \in Nat, NEW a \in Nat,
           p + a = bookings[id].amount_escrowed,
           NEW st \in {"completed", "cancelled", "refunded"},
           PayOut(id, p, a, st), next_id' = next_id
    PROVE  /\ bookings' \in [Ids -> Booking]
           /\ flow' \in [Ids -> Flow]
           /\ balance' \in [Accounts \cup {Escrow} -> Nat]
           /\ Ledger'
           /\ balance'[Escrow] = balance[Escrow] - p - a
           /\ bookings'[id].status = st
           /\ \A i \in Ids : i # id => bookings'[i] = bookings[i] /\ flow'[i] = flow[i]
           /\ \A i \in Ids : /\ bookings'[i].passenger = bookings[i].passenger
                              /\ bookings'[i].price = bookings[i].price
                              /\ flow'[i].paid = flow[i].paid
<1> DEFINE pa == bookings[id].passenger
           al == bookings[id].airline
<1>0. /\ bookings \in [Ids -> Booking] /\ flow \in [Ids -> Flow] /\ Ids' = Ids
      /\ next_id - 1 \in Nat /\ Ids = 1..(next_id - 1) /\ Ids' = 1..(next_id - 1)
  BY DEF TypeOK, Ids
<1>1. /\ bookings[id] \in Booking /\ flow[id] \in Flow
      /\ pa \in Accounts /\ al \in Accounts /\ pa # Escrow /\ al # Escrow
      /\ balance[Escrow] \in Nat
  <2>1. bookings[id] \in Booking /\ flow[id] \in Flow
    BY <1>0
  <2>2. pa \in Accounts /\ al \in Accounts
    BY <2>1 DEF Booking
  <2> QED  BY <2>1, <2>2, AccountsAssumption DEF TypeOK
<1>2. bookings' \in [Ids -> Booking]
  BY <1>0, <1>1 DEF PayOut, Booking, Statuses
<1>3. flow' \in [Ids -> Flow]
  <2> DEFINE f1 == [flow EXCEPT ![id].to_passenger = @ + p]
             f2 == [f1 EXCEPT ![id].to_airline = @ + a]
  <2>1. f1 \in [Ids -> Flow]
    <3>1. flow[id].to_passenger + p \in Nat
      BY <1>1 DEF Flow
    <3>2. [flow[id] EXCEPT !.to_passenger = @ + p] \in Flow
      BY <1>1, <3>1 DEF Flow
    <3> QED  BY <1>0, <3>2
  <2>2. f1[id] \in Flow
    BY <2>1
  <2>3. flow' = f2
    BY DEF PayOut
  <2> HIDE DEF f1
  <2>4. f2 \in [Ids -> Flow]
    BY <2>1, <2>2 DEF Flow
  <2> QED  BY <2>3, <2>4
<1>4. /\ balance' \in [Accounts \cup {Escrow} -> Nat]
      /\ balance'[Escrow] = balance[Escrow] - p - a
  <2> DEFINE b1 == [balance EXCEPT ![Escrow] = @ - (p + a)]
             b2 == [b1 EXCEPT ![pa] = @ + p]
             b3 == [b2 EXCEPT ![al] = @ + a]
  <2>1. balance' = b3
    BY DEF PayOut, Debit, Credit
  <2>2. balance[Escrow] >= p + a /\ balance \in [Accounts \cup {Escrow} -> Nat]
    BY DEF PayOut, TypeOK
  <2>3. b1 \in [Accounts \cup {Escrow} -> Nat] /\ b1[Escrow] = balance[Escrow] - p - a
    BY <2>2, <1>1
  <2> HIDE DEF b1
  <2>4. b2 \in [Accounts \cup {Escrow} -> Nat] /\ b2[Escrow] = b1[Escrow]
    BY <2>3, <1>1
  <2> HIDE DEF b2
  <2>5. b3 \in [Accounts \cup {Escrow} -> Nat] /\ b3[Escrow] = b2[Escrow]
    BY <2>4, <1>1
  <2> QED  BY <2>1, <2>3, <2>4, <2>5
<1>5. \A i \in Ids : i # id => bookings'[i] = bookings[i] /\ flow'[i] = flow[i]
  BY <1>0 DEF PayOut
<1>6. /\ bookings'[id].amount_escrowed = 0 /\ bookings'[id].status = st
      /\ bookings'[id].passenger = bookings[id].passenger
      /\ bookings'[id].price = bookings[id].price
      /\ flow'[id].paid = flow[id].paid
      /\ flow'[id].to_passenger = flow[id].to_passenger + p
      /\ flow'[id].to_airline = flow[id].to_airline + a
  BY <1>0, <1>1 DEF PayOut, Booking, Flow
<1>7. Conserved'
  <2> SUFFICES ASSUME NEW i \in Ids
               PROVE  /\ flow'[i].paid = bookings'[i].amount_escrowed
                               + flow'[i].to_passenger + flow'[i].to_airline
                      /\ bookings'[i].amount_escrowed =
                            IF bookings'[i].status = "confirmed"
                            THEN bookings'[i].price ELSE 0
                      /\ bookings'[i].status \in {"confirmed", "pending"} =>
                            flow'[i].to_passenger = 0 /\ flow'[i].to_airline = 0
    BY <1>0 DEF Conserved, Open
  <2>1. CASE i = id
    BY <2>1, <1>1, <1>6 DEF Ledger, Conserved, Open, Flow, Booking
  <2>2. CASE i # id
    BY <2>2, <1>5 DEF Ledger, Conserved, Open
  <2> QED  BY <2>1, <2>2
<1>8. Solvent'
  <2>1. \A k \in 1..(next_id - 1) : Escrowed[k] \in Int /\ Escrowed'[k] \in Int
    BY <1>0, <1>2 DEF Escrowed, Booking
  <2>2. \A k \in 1..(next_id - 1) : k # id => Escrowed'[k] = Escrowed[k]
    BY <1>0, <1>5 DEF Escrowed
  <2>3. SumTo(Escrowed', next_id - 1)
          = SumTo(Escrowed, next_id - 1) - Escrowed[id] + Escrowed'[id]
    BY <2>1, <2>2, <1>0, SumToUpdate
  <2>4. Escrowed[id] = p + a /\ Escrowed'[id] = 0
    BY <1>0, <1>6 DEF Escrowed
  <2> QED  BY <2>3, <2>4, <1>4, <1>1 DEF Ledger, Solvent
<1> QED  BY <1>2, <1>3, <1>4, <1>5, <1>6, <1>7, <1>8 DEF Ledger

-----------------------------------------------------------------------------
(***************************************************************************)
(* The inductive invariant.  Conserved makes Solvent inductive: a payout   *)
(* takes out of the contract exactly the summand it clears.  Solvent in    *)
(* turn covers every payout.  BatchReport needs both.                      *)
(***************************************************************************)
IInv == TypeOK /\ Ledger /\ BatchReport /\ ReceiptsProvePayment

\* The contract starts with no bookings and no escrow, which adds up.
LEMMA InitIInv == Init => IInv
<1> SUFFICES ASSUME Init PROVE IInv
  OBVIOUS
<1>1. Ids = {} /\ next_id - 1 = 0
  BY DEF Init, Ids
<1>2. TypeOK
  <2>1. bookings \in [Ids -> Booking] /\ flow \in [Ids -> Flow]
    BY <1>1 DEF Init
  <2>2. balance \in [Accounts \cup {Escrow} -> Nat]
    BY NumbersAssumption DEF Init
  <2>3. receipts \in [ReceiptContracts -> Seq(Receipt)]
    BY DEF Init
  <2> QED  BY <2>1, <2>2, <2>3 DEF Init, TypeOK
<1>3. Conserved
  BY <1>1 DEF Conserved
<1>4. Solvent
  BY <1>1, SumToType DEF Init, Solvent
<1>5. BatchReport
  BY DEF Init, BatchReport
<1>6. ReceiptsProvePayment
  BY DEF Init, ReceiptsProvePayment
<1> QED  BY <1>2, <1>3, <1>4, <1>5, <1>6 DEF IInv, Ledger

\* A step that mints no receipt, keeps who booked, what it cost and what was
\* paid for it, and returns no booking to pending.
LEMMA ReceiptsKept ==
    ASSUME ReceiptsProvePayment, receipts' = receipts, Ids \subseteq Ids',
           \A i \in Ids : /\ bookings'[i].passenger = bookings[i].passenger
                          /\ bookings'[i].price = bookings[i].price
                          /\ flow'[i].paid = flow[i].paid,
           \A i \in Ids : bookings[i].status # "pending" => bookings'[i].status # "pending"
    PROVE  ReceiptsProvePayment'
<1> SUFFICES ASSUME NEW c \in ReceiptContracts, NEW k \in 1..Len(receipts[c])
             PROVE  LET r == receipts[c][k]
                    IN  /\ r.booking_id \in Ids'
                        /\ bookings'[r.booking_id].status # "pending"
                        /\ r.to = bookings'[r.booking_id].passenger
                        /\ flow'[r.booking_id].paid = bookings'[r.booking_id].price
                        /\ \A d \in ReceiptContracts : \A l \in 1..Len(receipts[d]) :
                              receipts[d][l].booking_id = r.booking_id => d = c /\ l = k
  BY DEF ReceiptsProvePayment
<1> DEFINE id == receipts[c][k].booking_id
<1>1. /\ id \in Ids
      /\ bookings[id].status # "pending"
      /\ receipts[c][k].to = bookings[id].passenger
      /\ flow[id].paid = bookings[id].price
      /\ \A d \in ReceiptContracts : \A l \in 1..Len(receipts[d]) :
            receipts[d][l].booking_id = id => d = c /\ l = k
  BY DEF ReceiptsProvePayment
<1> HIDE DEF id
<1>2. /\ id \in Ids'
      /\ bookings'[id].status # "pending"
      /\ receipts[c][k].to = bookings'[id].passenger
      /\ flow'[id].paid = bookings'[id].price
  BY <1>1
<1> QED  BY <1>1, <1>2 DEF id

\* Any entrypoint that pays a booking out outside a batch.
LEMMA PayOutStep ==
    ASSUME IInv, Idle, NEW id \in Ids, NEW p \in Nat, NEW a \in Nat,
           p + a = bookings[id].amount_escrowed,
           NEW st \in {"completed", "cancelled", "refunded"},
           PayOut(id, p, a, st),
           UNCHANGED <<next_id, config, receipts, batch, now>>
    PROVE  IInv'
<1>1. /\ bookings' \in [Ids -> Booking]
      /\ flow' \in [Ids -> Flow]
      /\ balance' \in [Accounts \cup {Escrow} -> Nat]
      /\ Ledger'
      /\ bookings'[id].status = st
      /\ \A i \in Ids : i # id => bookings'[i] = bookings[i]
      /\ \A i \in Ids : /\ bookings'[i].passenger = bookings[i].passenger
                         /\ bookings'[i].price = bookings[i].price
                         /\ flow'[i].paid = flow[i].paid
  BY PayOutLedger DEF IInv
<1>2. Ids' = Ids
  BY DEF Ids
<1>3. TypeOK'
  BY <1>1, <1>2 DEF IInv, TypeOK, config
<1>4. BatchReport'
  BY DEF BatchReport, Idle
<1>5. \A i \in Ids : bookings[i].status # "pending" => bookings'[i].status # "pending"
  BY <1>1
<1>6. ReceiptsProvePayment'
  BY <1>1, <1>2, <1>5, ReceiptsKept DEF IInv
<1> QED  BY <1>1, <1>3, <1>4, <1>6 DEF IInv

\* A new booking holds nothing yet, so that no total changes.
LEMMA CreateBookingStep ==
    ASSUME IInv, NEW p \in Accounts, NEW a \in Accounts, NEW d \in Departures,
           NEW x \in Prices, CreateBooking(p, a, d, x)
    PROVE  IInv'
<1> DEFINE new == [passenger |-> p, airline |-> a, departure_time |-> d,
                   price |-> x, amount_escrowed |-> 0, status |-> "pending"]
           none == [paid |-> 0, to_passenger |-> 0, to_airline |-> 0]
<1>0. /\ next_id \in Nat \ {0} /\ next_id' = next_id + 1
      /\ Ids = 1..(next_id - 1) /\ Ids' = 1..next_id
      /\ Ids \subseteq Ids' /\ next_id \in Ids' /\ next_id \notin Ids
      /\ \A i \in Ids' : i # next_id => i \in Ids
      /\ bookings \in [Ids -> Booking] /\ flow \in [Ids -> Flow]
  BY DEF IInv, TypeOK, Ids, CreateBooking
<1>1. new \in Booking /\ none \in Flow
  BY NumbersAssumption DEF Booking, Flow, Statuses
<1>2. /\ bookings' = [i \in 1..next_id |-> IF i = next_id THEN new ELSE bookings[i]]
      /\ flow' = [i \in 1..next_id |-> IF i = next_id THEN none ELSE flow[i]]
  BY DEF CreateBooking
<1> HIDE DEF new, none
<1>3. bookings' \in [Ids' -> Booking] /\ flow' \in [Ids' -> Flow]
  BY <1>0, <1>1, <1>2
<1>4. /\ bookings'[next_id] = new /\ flow'[next_id] = none
      /\ \A i \in Ids : bookings'[i] = bookings[i] /\ flow'[i] = flow[i]
  BY <1>0, <1>2
<1>5. TypeOK'
  BY <1>0, <1>3 DEF IInv, TypeOK, CreateBooking, config
<1>6. Conserved'
  <2> SUFFICES ASSUME NEW i \in Ids'
               PROVE  /\ flow'[i].paid = bookings'[i].amount_escrowed
                               + flow'[i].to_passenger + flow'[i].to_airline
                      /\ bookings'[i].amount_escrowed =
                            IF bookings'[i].status = "confirmed"
                            THEN bookings'[i].price ELSE 0
                      /\ bookings'[i].status \in {"confirmed", "pending"} =>
                            flow'[i].to_passenger = 0 /\ flow'[i].to_airline = 0
    BY DEF Conserved, Open
  <2>1. CASE i = next_id
    BY <2>1, <1>4 DEF new, none
  <2>2. CASE i # next_id
    BY <2>2, <1>0, <1>4 DEF IInv, Ledger, Conserved, Open
  <2> QED  BY <2>1, <2>2
<1>7. Solvent'
  <2>1. \A k \in 1..(next_id - 1) : Escrowed[k] \in Int /\ Escrowed'[k] = Escrowed[k]
    BY <1>0, <1>4 DEF Escrowed, Booking
  <2>2. Escrowed'[(next_id - 1) + 1] = 0
    BY <1>0, <1>4 DEF Escrowed, new
  <2>3. SumTo(Escrowed', (next_id - 1) + 1) = SumTo(Escrowed, next_id - 1) + 0
    BY <2>1, <2>2, <1>0, SumToExtend
  <2>4. balance' = balance /\ next_id' - 1 = (next_id - 1) + 1
    BY <1>0 DEF CreateBooking
  <2>5. SumTo(Escrowed, next_id - 1) \in Int
    BY <2>1, <1>0, SumToType
  <2> QED  BY <2>3, <2>4, <2>5 DEF IInv, Ledger, Solvent
<1>8. BatchReport'
  BY DEF BatchReport, CreateBooking, Idle
<1>9. ReceiptsProvePayment'
  BY <1>0, <1>4, ReceiptsKept DEF IInv, CreateBooking
<1> QED  BY <1>5, <1>6, <1>7, <1>8, <1>9 DEF IInv, Ledger

\* A payment puts into the escrow what it takes from the passenger.
LEMMA PayForBookingStep ==
    ASSUME IInv, NEW id \in Ids, PayForBooking(id)
    PROVE  IInv'
<1> DEFINE x == bookings[id].price
           pa == bookings[id].passenger
<1>0. /\ bookings \in [Ids -> Booking] /\ flow \in [Ids -> Flow] /\ Ids' = Ids
      /\ next_id - 1 \in Nat /\ Ids = 1..(next_id - 1)
      /\ balance \in [Accounts \cup {Escrow} -> Nat]
  BY DEF IInv, TypeOK, Ids, PayForBooking
<1>1. /\ bookings[id] \in Booking /\ flow[id] \in Flow
      /\ bookings[id].status = "pending"
      /\ bookings[id].amount_escrowed = 0
      /\ pa \in Accounts /\ pa # Escrow
      /\ x \in Nat /\ x <= balance[pa]
  <2>1. bookings[id] \in Booking /\ flow[id] \in Flow
    BY <1>0
  <2>2. bookings[id].status = "pending" /\ 0 <= x /\ x <= balance[pa]
    BY DEF PayForBooking
  <2>3. pa \in Accounts /\ x \in Nat
    <3>1. pa \in Accounts /\ x \in Prices
      BY <2>1 DEF Booking
    <3>2. x \in Int
      BY <3>1, NumbersAssumption DEF NumbersAssumption
    <3> QED  BY <2>2, <3>1, <3>2
  <2>4. bookings[id].amount_escrowed = 0
    BY <2>2 DEF IInv, Ledger, Conserved, Open
  <2> QED  BY <2>1, <2>2, <2>3, <2>4, AccountsAssumption
<1>2. bookings' \in [Ids -> Booking]
  BY <1>0, <1>1 DEF PayForBooking, Booking, Statuses
<1>3. flow' \in [Ids -> Flow]
  <2>1. flow[id].paid + x \in Nat
    BY <1>1 DEF Flow
  <2>2. [flow[id] EXCEPT !.paid = @ + x] \in Flow
    BY <1>1, <2>1 DEF Flow
  <2> QED  BY <1>0, <2>2 DEF PayForBooking
<1>4. /\ balance' \in [Accounts \cup {Escrow} -> Nat]
      /\ balance'[Escrow] = balance[Escrow] + x
  <2> DEFINE b1 == [balance EXCEPT ![pa] = @ - x]
  <2>1. balance' = [b1 EXCEPT ![Escrow] = @ + x]
    BY DEF PayForBooking, Debit, Credit
  <2>2. b1 \in [Accounts \cup {Escrow} -> Nat] /\ b1[Escrow] = balance[Escrow]
    BY <1>0, <1>1
  <2> HIDE DEF b1
  <2> QED  BY <2>1, <2>2, <1>1
<1>5. \A i \in Ids : i # id => bookings'[i] = bookings[i] /\ flow'[i] = flow[i]
  BY <1>0 DEF PayForBooking
<1>6. /\ bookings'[id].amount_escrowed = x /\ bookings'[id].status = "confirmed"
      /\ bookings'[id].price = x /\ bookings'[id].passenger = pa
      /\ flow'[id].paid = flow[id].paid + x
      /\ flow'[id].to_passenger = flow[id].to_passenger
      /\ flow'[id].to_airline = flow[id].to_airline
  BY <1>0, <1>1 DEF PayForBooking, Booking, Flow
<1>7. Conserved'
  <2> SUFFICES ASSUME NEW i \in Ids
               PROVE  /\ flow'[i].paid = bookings'[i].amount_escrowed
                               + flow'[i].to_passenger + flow'[i].to_airline
                      /\ bookings'[i].amount_escrowed =
                            IF bookings'[i].status = "confirmed"
                            THEN bookings'[i].price ELSE 0
                      /\ bookings'[i].status \in {"confirmed", "pending"} =>
                            flow'[i].to_passenger = 0 /\ flow'[i].to_airline = 0
    BY <1>0 DEF Conserved, Open
  <2>1. CASE i = id
    BY <2>1, <1>1, <1>6 DEF IInv, Ledger, Conserved, Open, Flow, Booking
  <2>2. CASE i # id
    BY <2>2, <1>5 DEF IInv, Ledger, Conserved, Open
  <2> QED  BY <2>1, <2>2
<1>8. Solvent'
  <2>1. \A k \in 1..(next_id - 1) : Escrowed[k] \in Int /\ Escrowed'[k] \in Int
    BY <1>0, <1>2 DEF Escrowed, Booking
  <2>2. \A k \in 1..(next_id - 1) : k # id => Escrowed'[k] = Escrowed[k]
    BY <1>0, <1>5 DEF Escrowed
  <2>3. SumTo(Escrowed', next_id - 1)
          = SumTo(Escrowed, next_id - 1) - Escrowed[id] + Escrowed'[id]
    BY <2>1, <2>2, <1>0, SumToUpdate
  <2>4. Escrowed[id] = 0 /\ Escrowed'[id] = x
    BY <1>0, <1>1, <1>6 DEF Escrowed
  <2>5. balance[Escrow] \in Nat /\ next_id' = next_id
    BY <1>0 DEF PayForBooking
  <2> QED  BY <2>3, <2>4, <2>5, <1>4, <1>1 DEF IInv, Ledger, Solvent
<1>9. BatchReport'
  BY DEF BatchReport, PayForBooking, Idle
<1>10. receipts \in [ReceiptContracts -> Seq(Receipt)]
  BY DEF IInv, TypeOK
<1>11. [to |-> pa, booking_id |-> id] \in Receipt
  BY <1>0, <1>1 DEF Receipt
<1>12. receipts' = [c \in ReceiptContracts |->
         IF c = receipt_contract THEN Append(receipts[c], [to |-> pa, booking_id |-> id])
         ELSE receipts[c]]
  BY DEF PayForBooking, MintReceipt
<1>13. receipts' \in [ReceiptContracts -> Seq(Receipt)]
  BY <1>10, <1>11, <1>12
<1>14. TypeOK'
  BY <1>0, <1>2, <1>3, <1>4, <1>13 DEF IInv, TypeOK, PayForBooking, config
<1>15. bookings[id].status = "pending" => flow[id].paid = 0
  BY <1>1 DEF IInv, Ledger, Conserved, Open, Flow
<1>16. ReceiptsProvePayment'
  <2> SUFFICES ASSUME NEW c \in ReceiptContracts, NEW k \in 1..Len(receipts'[c])
               PROVE  /\ receipts'[c][k].booking_id \in Ids
                      /\ bookings'[receipts'[c][k].booking_id].status # "pending"
                      /\ receipts'[c][k].to = bookings'[receipts'[c][k].booking_id].passenger
                      /\ flow'[receipts'[c][k].booking_id].paid
                            = bookings'[receipts'[c][k].booking_id].price
                      /\ \A d \in ReceiptContracts : \A l \in 1..Len(receipts'[d]) :
                            receipts'[d][l].booking_id = receipts'[c][k].booking_id
                               => d = c /\ l = k
    BY <1>0 DEF ReceiptsProvePayment
  \* a receipt that was there before, or the one minted now
  <2> DEFINE Old(d, l) == l \in 1..Len(receipts[d]) /\ receipts'[d][l] = receipts[d][l]
             New(d, l) == /\ d = receipt_contract
                          /\ l = Len(receipts[d]) + 1
                          /\ receipts'[d][l] = [to |-> pa, booking_id |-> id]
  <2>1. ASSUME NEW d \in ReceiptContracts, NEW l \in 1..Len(receipts'[d])
        PROVE  Old(d, l) \/ New(d, l)
    <3>1. receipts[d] \in Seq(Receipt)
      BY <1>10
    <3>2. CASE d = receipt_contract
      <4>1. receipts'[d] = Append(receipts[d], [to |-> pa, booking_id |-> id])
        BY <1>12, <3>2
      <4> QED  BY <4>1, <3>1, <3>2
    <3>3. CASE d # receipt_contract
      BY <1>12, <3>3
    <3> QED  BY <3>2, <3>3
  <2>2. ASSUME NEW d \in ReceiptContracts, NEW l \in 1..Len(receipts[d])
        PROVE  /\ receipts[d][l].booking_id \in Ids
               /\ receipts[d][l].booking_id # id
    BY <1>1 DEF IInv, ReceiptsProvePayment
  <2>3. CASE Old(c, k)
    <3> DEFINE b == receipts[c][k].booking_id
    <3>1. /\ b \in Ids /\ b # id
          /\ bookings[b].status # "pending"
          /\ receipts[c][k].to = bookings[b].passenger
          /\ flow[b].paid = bookings[b].price
          /\ \A d \in ReceiptContracts : \A l \in 1..Len(receipts[d]) :
                receipts[d][l].booking_id = b => d = c /\ l = k
      BY <2>2, <2>3 DEF IInv, ReceiptsProvePayment
    <3>2. bookings'[b] = bookings[b] /\ flow'[b] = flow[b]
      BY <3>1, <1>5
    <3>3. ASSUME NEW d \in ReceiptContracts, NEW l \in 1..Len(receipts'[d]),
                 receipts'[d][l].booking_id = b
          PROVE  d = c /\ l = k
      <4>1. ~ New(d, l)
        BY <3>1, <3>3
      <4>2. l \in 1..Len(receipts[d]) /\ receipts[d][l].booking_id = b
        BY <4>1, <2>1, <3>3
      <4> QED  BY <4>2, <3>1
    <3> QED  BY <2>3, <3>1, <3>2, <3>3
  <2>4. CASE New(c, k)
    <3>1. receipts'[c][k].booking_id = id /\ receipts'[c][k].to = pa
      BY <2>4
    <3>2. flow'[id].paid = bookings'[id].price
      BY <1>1, <1>6, <1>15
    <3>3. ASSUME NEW d \in ReceiptContracts, NEW l \in 1..Len(receipts'[d]),
                 receipts'[d][l].booking_id = id
          PROVE  d = c /\ l = k
      <4>1. New(d, l)
        BY <2>1, <2>2, <3>3
      <4> QED  BY <4>1, <2>4
    <3> QED  BY <3>1, <3>2, <3>3, <1>6
  <2> QED  BY <2>1, <2>3, <2>4
<1> QED  BY <1>7, <1>8, <1>9, <1>14, <1>16 DEF IInv, Ledger

\* An element a batch completes pays out what the report adds for it.
LEMMA BatchCompleteStep ==
    ASSUME IInv, BatchComplete
    PROVE  IInv'
<1> DEFINE id == Head(batch.todo)
           x == bookings[id].amount_escrowed
<1>0. /\ batch \in Batch /\ id \in Ids /\ Ids' = Ids
      /\ Tail(batch.todo) \in Seq(Nat) /\ id \in Nat
  <2>1. batch # NoBatch
    BY DEF BatchComplete, NoBatch
  <2>2. batch \in Batch
    BY <2>1 DEF IInv, TypeOK
  <2>3. batch.todo \in Seq(Nat) /\ batch.todo # <<>>
    BY <2>2 DEF Batch, BatchComplete
  <2>4. id \in Ids /\ Ids' = Ids
    BY DEF BatchComplete, BatchAccepts, Ids
  <2> QED  BY <2>2, <2>3, <2>4
<1>1. /\ bookings \in [Ids -> Booking] /\ x \in Nat /\ balance[Escrow] \in Nat
      /\ bookings[id].status = "confirmed"
  BY <1>0 DEF IInv, TypeOK, Booking, BatchComplete, BatchAccepts, Releasable
<1>2. PayOut(id, 0, x, "completed") /\ next_id' = next_id
  BY DEF BatchComplete
<1>3. /\ bookings' \in [Ids -> Booking]
      /\ flow' \in [Ids -> Flow]
      /\ balance' \in [Accounts \cup {Escrow} -> Nat]
      /\ Ledger'
      /\ balance'[Escrow] = balance[Escrow] - 0 - x
      /\ bookings'[id].status = "completed"
      /\ \A i \in Ids : i # id => bookings'[i] = bookings[i]
      /\ \A i \in Ids : /\ bookings'[i].passenger = bookings[i].passenger
                         /\ bookings'[i].price = bookings[i].price
                         /\ flow'[i].paid = flow[i].paid
  <2>1. TypeOK /\ Ledger /\ id \in Ids /\ 0 \in Nat /\ x \in Nat
        /\ 0 + x = bookings[id].amount_escrowed
    BY <1>0, <1>1 DEF IInv
  <2>2. PayOut(id, 0, x, "completed") /\ next_id' = next_id
    BY <1>2
  <2> HIDE DEF id, x
  <2> QED  BY <2>1, <2>2, PayOutLedger
<1>4. \A i \in Ids : bookings[i].status # "pending" => bookings'[i].status # "pending"
  BY <1>3
<1>5. ReceiptsProvePayment'
  BY <1>0, <1>3, <1>4, ReceiptsKept DEF IInv, BatchComplete
<1>6. batch' = [batch EXCEPT !.todo = Tail(@), !.completed = Append(@, id),
                             !.total_released = @ + x]
  BY DEF BatchComplete
<1>7. /\ batch' \in Batch
      /\ batch'.before = batch.before
      /\ batch'.total_released = batch.total_released + x
      /\ batch'.completed = Append(batch.completed, id)
      /\ batch.completed \in Seq(Nat) /\ batch.total_released \in Nat /\ batch.before \in Nat
  <2>1. /\ batch.completed \in Seq(Nat) /\ batch.total_released \in Nat
        /\ batch.before \in Nat /\ batch.airline \in Accounts
    BY <1>0 DEF Batch
  <2>2. Append(batch.completed, id) \in Seq(Nat) /\ batch.total_released + x \in Nat
    BY <2>1, <1>0, <1>1
  <2>3. batch' = [airline |-> batch.airline, todo |-> Tail(batch.todo),
                  completed |-> Append(batch.completed, id),
                  total_released |-> batch.total_released + x, before |-> batch.before]
    BY <1>0, <1>6 DEF Batch
  <2> QED  BY <2>1, <2>2, <2>3, <1>0 DEF Batch
<1>8. TypeOK'
  BY <1>0, <1>3, <1>7 DEF IInv, TypeOK, BatchComplete, config
<1>9. BatchReport'
  <2> DEFINE done == batch.completed
  <2>1. batch # NoBatch
    BY DEF BatchComplete, NoBatch
  <2>2. /\ batch.before - balance[Escrow] = batch.total_released
        /\ \A i, j \in 1..Len(done) : done[i] = done[j] => i = j
        /\ \A i \in 1..Len(done) :
              done[i] \in Ids /\ bookings[done[i]].status = "completed"
    BY <2>1 DEF IInv, BatchReport
  <2>3. batch'.before - balance'[Escrow] = batch'.total_released
    BY <2>2, <1>1, <1>3, <1>7
  <2>4. \A i \in 1..Len(done) : done[i] # id
    BY <2>2, <1>1
  <2> DEFINE more == batch'.completed
  <2>5. /\ Len(more) = Len(done) + 1 /\ more[Len(done) + 1] = id
        /\ \A i \in 1..Len(done) : more[i] = done[i]
        /\ Len(done) \in Nat
    BY <1>7
  <2> HIDE DEF done, more
  <2>6. \A i, j \in 1..Len(more) : more[i] = more[j] => i = j
    BY <2>2, <2>4, <2>5
  <2>7. ASSUME NEW i \in 1..Len(more)
        PROVE  more[i] \in Ids /\ bookings'[more[i]].status = "completed"
    <3>1. CASE i = Len(done) + 1
      BY <3>1, <2>5, <1>0, <1>3
    <3>2. CASE i \in 1..Len(done)
      BY <3>2, <2>2, <2>4, <2>5, <1>3
    <3> QED  BY <3>1, <3>2, <2>5
  <2> QED  BY <2>3, <2>6, <2>7, <1>0 DEF BatchReport, more
<1> QED  BY <1>3, <1>5, <1>8, <1>9 DEF IInv

\* The call of a batch starts its report, its return ends it; no money moves.
LEMMA BatchOtherSteps ==
    ASSUME IInv,
           \/ \E a \in Accounts, ids \in BatchIds : BatchCompleteBookings(a, ids)
           \/ BatchReject
           \/ BatchReturn
    PROVE  IInv'
<1>1. UNCHANGED <<bookings, next_id, config, receipts, balance, flow, now>> /\ Ids' = Ids
  BY DEF BatchCompleteBookings, BatchReject, BatchReturn, Ids
<1>2. Ledger'
  <2>1. Escrowed' = Escrowed
    BY <1>1 DEF Escrowed
  <2> QED  BY <1>1, <2>1 DEF IInv, Ledger, Conserved, Solvent, Open
<1>3. ReceiptsProvePayment'
  BY <1>1, ReceiptsKept DEF IInv
<1>4. (batch' \in Batch \cup {NoBatch}) /\ BatchReport'
  <2>1. ASSUME NEW a \in Accounts, NEW ids \in BatchIds, BatchCompleteBookings(a, ids)
        PROVE  (batch' \in Batch \cup {NoBatch}) /\ BatchReport'
    <3>1. ids \in Seq(Nat)
      <4>1. PICK n \in 1..MaxBatch : ids \in [1..n -> 1..next_id]
        BY DEF BatchIds
      <4>2. next_id \in Nat /\ n \in Nat /\ 1..next_id \subseteq Nat
        BY NumbersAssumption DEF IInv, TypeOK
      <4> QED  BY <4>1, <4>2
    <3>2. balance[Escrow] \in Nat
      BY DEF IInv, TypeOK
    <3>3. batch' = [airline |-> a, todo |-> ids, completed |-> <<>>,
                    total_released |-> 0, before |-> balance[Escrow]]
      BY <2>1 DEF BatchCompleteBookings
    <3>4. batch' \in Batch
      BY <3>1, <3>2, <3>3 DEF Batch
    <3>5. BatchReport'
      BY <1>1, <3>2, <3>3 DEF BatchReport
    <3> QED  BY <3>4, <3>5
  <2>2. CASE BatchReject
    <3>1. batch # NoBatch /\ batch \in Batch
      BY <2>2 DEF BatchReject, NoBatch, IInv, TypeOK
    <3>2. Tail(batch.todo) \in Seq(Nat)
      BY <2>2, <3>1 DEF BatchReject, Batch
    <3>3. batch' = [batch EXCEPT !.todo = Tail(@)]
      BY <2>2 DEF BatchReject
    <3>4. batch' \in Batch /\ batch'.before = batch.before
          /\ batch'.total_released = batch.total_released
          /\ batch'.completed = batch.completed
      BY <3>1, <3>2, <3>3 DEF Batch
    <3>5. BatchReport'
      BY <1>1, <3>1, <3>4 DEF BatchReport, IInv
    <3> QED  BY <3>4, <3>5
  <2>3. CASE BatchReturn
    BY <2>3 DEF BatchReturn, BatchReport
  <2> QED  BY <2>1, <2>2, <2>3
<1>5. TypeOK'
  BY <1>1, <1>4 DEF IInv, TypeOK, config
<1> QED  BY <1>2, <1>3, <1>4, <1>5 DEF IInv

\* The setters and the clock.
LEMMA ConfigSteps ==
    ASSUME IInv,
           \/ \E o \in Oracles : InitializeOracle(o)
           \/ \E c \in ReceiptContracts : SetReceiptContract(c)
           \/ Tick
           \/ UNCHANGED vars
    PROVE  IInv'
<1>1. UNCHANGED <<bookings, next_id, receipts, balance, flow, batch>> /\ Ids' = Ids
  BY DEF InitializeOracle, SetReceiptContract, Tick, vars, Ids
<1>2. TypeOK'
  BY <1>1 DEF IInv, TypeOK, InitializeOracle, SetReceiptContract, Tick, vars, config
<1>3. Ledger'
  <2>1. Escrowed' = Escrowed
    BY <1>1 DEF Escrowed
  <2> QED  BY <1>1, <2>1 DEF IInv, Ledger, Conserved, Solvent, Open
<1>4. ReceiptsProvePayment'
  BY <1>1, ReceiptsKept DEF IInv
<1>5. BatchReport'
  BY <1>1 DEF BatchReport, IInv
<1> QED  BY <1>2, <1>3, <1>4, <1>5 DEF IInv

\* The entrypoints that close a booking, each an instance of PayOutStep.
LEMMA ClosingSteps ==
    ASSUME IInv, NEW id \in Ids,
           \/ ReleasePaymentToAirline(id)
           \/ RefundPassenger(id)
           \/ \E caller \in Accounts, bps \in Bps : SettleCancellation(id, caller, bps)
           \/ \E o \in Oracles :
                 OracleReleasePayment(o, id) \/ OracleRefundAirlineCancel(o, id)
    PROVE  IInv'
<1> DEFINE x == bookings[id].amount_escrowed
<1>1. x \in Nat /\ 0 + x = x /\ x + 0 = x
  BY DEF IInv, TypeOK, Booking
<1>2. CASE ReleasePaymentToAirline(id) \/ \E o \in Oracles : OracleReleasePayment(o, id)
  <2>1. Idle /\ PayOut(id, 0, x, "completed")
        /\ UNCHANGED <<next_id, config, receipts, batch, now>>
    BY <1>2 DEF ReleasePaymentToAirline, OracleReleasePayment
  <2> QED  BY <1>1, <2>1, PayOutStep
<1>3. CASE RefundPassenger(id) \/ \E o \in Oracles : OracleRefundAirlineCancel(o, id)
  <2>1. Idle /\ PayOut(id, x, 0, "refunded")
        /\ UNCHANGED <<next_id, config, receipts, batch, now>>
    BY <1>3 DEF RefundPassenger, OracleRefundAirlineCancel
  <2> QED  BY <1>1, <2>1, PayOutStep
<1>4. ASSUME NEW caller \in Accounts, NEW bps \in Bps, SettleCancellation(id, caller, bps)
      PROVE  IInv'
  <2> DEFINE p == PassengerShare(x, bps)
  <2>1. bps \in Nat /\ bps <= 10000
    BY <1>4, NumbersAssumption DEF SettleCancellation
  <2>2. p \in Nat /\ p <= x
    BY <1>1, <2>1, ShareBound
  <2> DEFINE a == x - p
  <2>3. Idle /\ PayOut(id, p, a, "cancelled")
        /\ UNCHANGED <<next_id, config, receipts, batch, now>>
    BY <1>4 DEF SettleCancellation
  <2>4. a \in Nat /\ p + a = x
    BY <1>1, <2>2
  <2> HIDE DEF p, a
  <2> QED  BY <2>2, <2>3, <2>4, PayOutStep
<1> QED  BY <1>2, <1>3, <1>4

\* The inductive step, with one lemma for each kind of entrypoint.
LEMMA NextIInv == IInv /\ [Next]_vars => IInv'
<1> SUFFICES ASSUME IInv, [Next]_vars PROVE IInv'
  OBVIOUS
<1> QED
  BY ConfigSteps, CreateBookingStep, PayForBookingStep, ClosingSteps,
     BatchCompleteStep, BatchOtherSteps DEF Next, PartyStep, OracleStep

\* The invariant of every reachable state.
THEOREM Invariant == Spec => []IInv
BY InitIInv, NextIInv, PTL DEF Spec

\* Every reachable state is well typed; amounts in escrow and balances are
\* never negative.
THEOREM TypeCorrect == Spec => []TypeOK
<1>1. IInv => TypeOK
  BY DEF IInv
<1> QED  BY <1>1, Invariant, PTL

\* The contract always holds exactly the money of its open bookings.
THEOREM SolventAlways == Spec => []Solvent
<1>1. IInv => Solvent
  BY DEF IInv, Ledger
<1> QED  BY <1>1, Invariant, PTL

\* No booking's money is lost, duplicated or paid out before it is closed.
THEOREM ConservedAlways == Spec => []Conserved
<1>1. IInv => Conserved
  BY DEF IInv, Ledger
<1> QED  BY <1>1, Invariant, PTL

\* A batch reports each booking once and exactly the money it moved.
THEOREM BatchReportAlways == Spec => []BatchReport
<1>1. IInv => BatchReport
  BY DEF IInv
<1> QED  BY <1>1, Invariant, PTL

\* A receipt belongs to the passenger of a paid booking, one per booking.
THEOREM ReceiptsAlways == Spec => []ReceiptsProvePayment
<1>1. IInv => ReceiptsProvePayment
  BY DEF IInv
<1> QED  BY <1>1, Invariant, PTL

-----------------------------------------------------------------------------
(***************************************************************************)
(* Action properties and refinement.                                       *)
(***************************************************************************)

\* The steps that are neither a creation nor a payment: one booking that was
\* open is paid out whole and closed, or the bookings do not change.
LEMMA StepKinds ==
    ASSUME IInv, [Next]_vars
    PROVE  \/ \E p, a \in Accounts, d \in Departures, x \in Prices : CreateBooking(p, a, d, x)
           \/ \E id \in Ids : PayForBooking(id)
           \/ \E id \in Ids, p, a \in Nat, st \in {"completed", "cancelled", "refunded"} :
                 /\ Open(id) /\ p + a = bookings[id].amount_escrowed
                 /\ PayOut(id, p, a, st) /\ next_id' = next_id
           \/ UNCHANGED <<bookings, flow, next_id>>
<1>1. \A id \in Ids : bookings[id].amount_escrowed \in Nat
  BY DEF IInv, TypeOK, Booking
<1>2. ASSUME NEW id \in Ids, NEW p \in Nat, NEW a \in Nat,
             NEW st \in {"completed", "cancelled", "refunded"},
             Open(id), p + a = bookings[id].amount_escrowed,
             PayOut(id, p, a, st), next_id' = next_id
      PROVE  \E i \in Ids, q, b \in Nat, s \in {"completed", "cancelled", "refunded"} :
                 /\ Open(i) /\ q + b = bookings[i].amount_escrowed
                 /\ PayOut(i, q, b, s) /\ next_id' = next_id
  BY <1>2
<1>3. ASSUME NEW id \in Ids,
             \/ ReleasePaymentToAirline(id)
             \/ \E o \in Oracles : OracleReleasePayment(o, id)
      PROVE  Open(id) /\ PayOut(id, 0, bookings[id].amount_escrowed, "completed")
             /\ next_id' = next_id
  BY <1>3 DEF ReleasePaymentToAirline, OracleReleasePayment, Releasable, Open
<1>4. ASSUME NEW id \in Ids,
             \/ RefundPassenger(id)
             \/ \E o \in Oracles : OracleRefundAirlineCancel(o, id)
      PROVE  Open(id) /\ PayOut(id, bookings[id].amount_escrowed, 0, "refunded")
             /\ next_id' = next_id
  BY <1>4 DEF RefundPassenger, OracleRefundAirlineCancel
<1>5. ASSUME NEW id \in Ids, NEW caller \in Accounts, NEW bps \in Bps,
             SettleCancellation(id, caller, bps)
      PROVE  \E p, a \in Nat : /\ Open(id) /\ p + a = bookings[id].amount_escrowed
                               /\ PayOut(id, p, a, "cancelled") /\ next_id' = next_id
  <2> DEFINE x == bookings[id].amount_escrowed
             p == PassengerShare(x, bps)
             a == x - p
  <2>1. x \in Nat /\ bps \in Nat /\ bps <= 10000
    BY <1>1, <1>5, NumbersAssumption DEF SettleCancellation
  <2>2. p \in Nat /\ p <= x
    BY <2>1, ShareBound
  <2>3. Open(id) /\ PayOut(id, p, a, "cancelled") /\ next_id' = next_id
    BY <1>5 DEF SettleCancellation
  <2> HIDE DEF p
  <2>4. a \in Nat /\ p + a = x
    BY <2>1, <2>2
  <2> HIDE DEF a
  <2> QED  BY <2>2, <2>3, <2>4
<1>6. CASE BatchComplete
  <2>1. Head(batch.todo) \in Ids /\ Open(Head(batch.todo))
    BY <1>6 DEF BatchComplete, BatchAccepts, Releasable, Open
  <2>2. PayOut(Head(batch.todo), 0, bookings[Head(batch.todo)].amount_escrowed, "completed")
        /\ next_id' = next_id
    BY <1>6 DEF BatchComplete
  <2> DEFINE id == Head(batch.todo)
             x == bookings[id].amount_escrowed
  <2>3. id \in Ids /\ Open(id) /\ PayOut(id, 0, x, "completed") /\ x \in Nat /\ 0 + x = x
    BY <1>1, <2>1, <2>2
  <2> HIDE DEF id
  <2> QED  BY <1>2, <2>2, <2>3
<1>7. CASE \/ \E o \in Oracles : InitializeOracle(o)
           \/ \E c \in ReceiptContracts : SetReceiptContract(c)
           \/ \E a \in Accounts, ids \in BatchIds : BatchCompleteBookings(a, ids)
           \/ BatchReject \/ BatchReturn \/ Tick \/ UNCHANGED vars
  BY <1>7 DEF InitializeOracle, SetReceiptContract, BatchCompleteBookings,
              BatchReject, BatchReturn, Tick, vars
<1>8. ASSUME NEW id \in Ids,
             \/ ReleasePaymentToAirline(id)
             \/ RefundPassenger(id)
             \/ \E caller \in Accounts, bps \in Bps : SettleCancellation(id, caller, bps)
             \/ \E o \in Oracles :
                   OracleReleasePayment(o, id) \/ OracleRefundAirlineCancel(o, id)
      PROVE  \E p, a \in Nat, st \in {"completed", "cancelled", "refunded"} :
                 /\ Open(id) /\ p + a = bookings[id].amount_escrowed
                 /\ PayOut(id, p, a, st) /\ next_id' = next_id
  <2>1. CASE ReleasePaymentToAirline(id) \/ \E o \in Oracles : OracleReleasePayment(o, id)
    BY <2>1, <1>1, <1>3
  <2>2. CASE RefundPassenger(id) \/ \E o \in Oracles : OracleRefundAirlineCancel(o, id)
    BY <2>2, <1>1, <1>4
  <2>3. CASE \E caller \in Accounts, bps \in Bps : SettleCancellation(id, caller, bps)
    BY <2>3, <1>5
  <2> QED  BY <1>8, <2>1, <2>2, <2>3
<1>9. CASE \E id \in Ids :
           \/ ReleasePaymentToAirline(id)
           \/ RefundPassenger(id)
           \/ \E caller \in Accounts, bps \in Bps : SettleCancellation(id, caller, bps)
           \/ \E o \in Oracles :
                 OracleReleasePayment(o, id) \/ OracleRefundAirlineCancel(o, id)
  BY <1>8, <1>9
<1>10. CASE \/ \E p, a \in Accounts, d \in Departures, x \in Prices : CreateBooking(p, a, d, x)
            \/ \E id \in Ids : PayForBooking(id)
  BY <1>10
<1> QED  BY <1>6, <1>7, <1>9, <1>10 DEF Next, PartyStep, OracleStep

\* No step changes a closed booking or moves money for it.
LEMMA ClosedStays ==
    ASSUME IInv, [Next]_vars, NEW i \in Ids, Closed(i)
    PROVE  bookings'[i] = bookings[i] /\ flow'[i] = flow[i]
<1>1. ~ Open(i) /\ bookings[i].status # "pending"
  BY DEF Closed, Open
<1>2. /\ bookings \in [Ids -> Booking] /\ flow \in [Ids -> Flow]
      /\ Ids = 1..(next_id - 1) /\ next_id \in Nat \ {0}
  BY DEF IInv, TypeOK, Ids
<1>3. ASSUME NEW p \in Accounts, NEW a \in Accounts, NEW d \in Departures,
             NEW x \in Prices, CreateBooking(p, a, d, x)
      PROVE  bookings'[i] = bookings[i] /\ flow'[i] = flow[i]
  <2>1. i \in 1..next_id /\ i # next_id
    BY <1>2
  <2> QED  BY <1>3, <2>1 DEF CreateBooking
<1>4. ASSUME NEW id \in Ids, PayForBooking(id)
      PROVE  bookings'[i] = bookings[i] /\ flow'[i] = flow[i]
  BY <1>1, <1>2, <1>4 DEF PayForBooking
<1>5. ASSUME NEW id \in Ids, NEW p \in Nat, NEW a \in Nat,
             NEW st \in {"completed", "cancelled", "refunded"},
             Open(id), PayOut(id, p, a, st)
      PROVE  bookings'[i] = bookings[i] /\ flow'[i] = flow[i]
  BY <1>1, <1>2, <1>5 DEF PayOut
<1> QED  BY <1>3, <1>4, <1>5, StepKinds

\* Ids are handed out in order and never taken back.
LEMMA IdsGrow ==
    ASSUME IInv, [Next]_vars
    PROVE  \/ next_id' = next_id
           \/ next_id <= MaxBookings /\ next_id' = next_id + 1
BY StepKinds DEF CreateBooking, PayForBooking

\* Whoever closes a booking first closes it for good.
THEOREM ClosedForGoodAlways == Spec => ClosedForGood
<1>1. IInv /\ [Next]_vars =>
         [\A i \in Ids : Closed(i) => /\ bookings'[i] = bookings[i]
                                      /\ flow'[i] = flow[i]]_vars
  BY ClosedStays
<1> QED  BY <1>1, Invariant, PTL DEF Spec, ClosedForGood

\* The contract implements EscrowPromise: every step is a step of the promise
\* or leaves the purses alone.
THEOREM PromiseKept == Spec => KeepsPromise
<1> DEFINE Amounts == {x \in Prices : x >= 0}
           Kinds == {"completed", "cancelled", "refunded"}
<1>1. Init => Promise!Init
  <2> SUFFICES ASSUME Init PROVE Purses = <<>>
    BY DEF Promise!Init
  <2>1. Ids = {}
    BY DEF Init, Ids
  <2> QED  BY <2>1 DEF Purses
<1>2. ASSUME IInv, [Next]_vars
      PROVE  [Promise!Next]_Purses
  <2>0. /\ bookings \in [Ids -> Booking] /\ flow \in [Ids -> Flow]
        /\ next_id \in Nat \ {0} /\ Ids = 1..(next_id - 1) /\ DOMAIN Purses = Ids
    BY <1>2 DEF IInv, TypeOK, Ids, Purses
  <2>1. ASSUME NEW p \in Accounts, NEW a \in Accounts, NEW d \in Departures,
               NEW x \in Prices, CreateBooking(p, a, d, x)
        PROVE  Promise!Book
    <3>1. Purses' = [i \in 1..next_id |-> IF i = next_id THEN Promise!Unpaid ELSE Purses[i]]
      <4>1. Ids' = 1..next_id /\ next_id \in 1..next_id
        BY <2>0, <2>1 DEF CreateBooking, Ids
      <4>2. Purses'[next_id] = Promise!Unpaid
        BY <2>0, <2>1, <4>1 DEF CreateBooking, Purses, Phase, Promise!Unpaid
      <4>3. \A i \in Ids : Purses'[i] = Purses[i]
        BY <2>0, <2>1, <4>1 DEF CreateBooking, Purses
      <4>4. Purses' = [i \in 1..next_id |-> Purses'[i]]
        BY <4>1 DEF Purses
      <4>5. \A i \in 1..next_id : i # next_id => i \in Ids
        BY <2>0
      <4> HIDE DEF Promise!Unpaid
      <4> QED  BY <4>2, <4>3, <4>4, <4>5
    <3>2. Purses = [i \in 1..(next_id - 1) |-> Purses[i]]
      BY <2>0 DEF Purses
    <3> DEFINE S == {Purses[i] : i \in Ids} \cup {Promise!Unpaid}
    <3>3. Purses \in Seq(S) /\ Len(Purses) = next_id - 1 /\ Promise!Unpaid \in S
      BY <3>2, <2>0
    <3>4. (next_id - 1) + 1 = next_id
      BY <2>0
    <3> HIDE DEF S
    <3>5. Append(Purses, Promise!Unpaid)
            = [i \in 1..next_id |-> IF i = next_id THEN Promise!Unpaid ELSE Purses[i]]
      <4> DEFINE new == Append(Purses, Promise!Unpaid)
      <4> HIDE DEF Promise!Unpaid
      <4>1. /\ new \in Seq(S) /\ Len(new) = next_id
            /\ \A i \in 1..(next_id - 1) : new[i] = Purses[i]
            /\ new[next_id] = Promise!Unpaid
        BY <3>3, <3>4, AppendProperties
      <4> HIDE DEF new
      <4>2. new = [i \in 1..next_id |-> new[i]]
        BY <4>1
      <4>3. \A i \in 1..next_id : i # next_id => i \in 1..(next_id - 1)
        BY <2>0
      <4>4. new = [i \in 1..next_id |-> IF i = next_id THEN Promise!Unpaid ELSE Purses[i]]
        BY <4>1, <4>2, <4>3
      <4> QED  BY <4>4 DEF new
    <3> QED  BY <3>1, <3>5 DEF Promise!Book
  <2>2. ASSUME NEW id \in Ids, PayForBooking(id)
        PROVE  \E i \in DOMAIN Purses : \E x \in Amounts : Promise!Pay(i, x)
    <3> DEFINE x == bookings[id].price
    <3>1. /\ bookings[id] \in Booking /\ flow[id] \in Flow
          /\ bookings[id].status = "pending" /\ 0 <= x
      BY <2>0, <2>2 DEF PayForBooking
    <3>2. x \in Int /\ x \in Prices
      BY <3>1, NumbersAssumption DEF Booking, NumbersAssumption
    <3>3. flow[id].paid = 0 /\ flow[id].to_passenger = 0 /\ flow[id].to_airline = 0
      BY <1>2, <3>1 DEF IInv, Ledger, Conserved, Open, Flow
    <3>4. /\ bookings'[id].status = "confirmed"
          /\ flow'[id].paid = x /\ flow'[id].to_passenger = 0 /\ flow'[id].to_airline = 0
          /\ \A i \in Ids : i # id => bookings'[i] = bookings[i] /\ flow'[i] = flow[i]
          /\ Ids' = Ids
      BY <2>0, <2>2, <3>1, <3>2, <3>3 DEF PayForBooking, Booking, Flow, Ids
    <3>5. Purses[id].phase = "unpaid"
      BY <3>1 DEF Purses, Phase
    <3>6. Purses'[id] = [phase |-> "held", paid |-> x, to_passenger |-> 0, to_airline |-> 0]
      BY <3>4 DEF Purses, Phase
    <3>7. \A i \in Ids : i # id => Purses'[i] = Purses[i]
      BY <3>4 DEF Purses
    <3>8. Purses' = [Purses EXCEPT ![id] =
              [phase |-> "held", paid |-> x, to_passenger |-> 0, to_airline |-> 0]]
      <4>1. /\ Purses = [i \in Ids |-> Purses[i]]
            /\ Purses' = [i \in Ids |-> Purses'[i]]
        BY <3>4 DEF Purses
      <4> QED  BY <3>6, <3>7, <4>1
    <3>9. Promise!Pay(id, x)
      BY <3>5, <3>8 DEF Promise!Pay, Promise!Unpaid
    <3> QED  BY <3>1, <3>2, <3>9, <2>0
  <2>3. ASSUME NEW id \in Ids, NEW p \in Nat, NEW a \in Nat, NEW st \in Kinds,
               Open(id), p + a = bookings[id].amount_escrowed,
               PayOut(id, p, a, st), next_id' = next_id
        PROVE  \E i \in DOMAIN Purses : \E q, b \in 0..Purses[i].paid : Promise!Close(i, q, b)
    <3>1. /\ bookings[id] \in Booking /\ flow[id] \in Flow
          /\ flow[id].to_passenger = 0 /\ flow[id].to_airline = 0
          /\ flow[id].paid = p + a
      BY <1>2, <2>0, <2>3 DEF IInv, Ledger, Conserved, Flow, Booking
    <3>2. /\ bookings'[id].status = st
          /\ flow'[id].paid = p + a /\ flow'[id].to_passenger = p /\ flow'[id].to_airline = a
          /\ \A i \in Ids : i # id => bookings'[i] = bookings[i] /\ flow'[i] = flow[i]
          /\ Ids' = Ids
      BY <2>0, <2>3, <3>1 DEF PayOut, Booking, Flow, Ids
    <3>3. Purses[id].phase # "closed" /\ Purses[id].paid = p + a
      BY <2>3, <3>1 DEF Purses, Phase, Open
    <3>4. Purses'[id] = [phase |-> "closed", paid |-> p + a, to_passenger |-> p, to_airline |-> a]
      BY <3>2 DEF Purses, Phase
    <3>5. \A i \in Ids : i # id => Purses'[i] = Purses[i]
      BY <3>2 DEF Purses
    <3>6. Purses' = [Purses EXCEPT ![id] =
              [phase |-> "closed", paid |-> @.paid, to_passenger |-> p, to_airline |-> a]]
      <4>1. /\ Purses = [i \in Ids |-> Purses[i]]
            /\ Purses' = [i \in Ids |-> Purses'[i]]
        BY <3>2 DEF Purses
      <4> QED  BY <3>3, <3>4, <3>5, <4>1
    <3>7. Promise!Close(id, p, a)
      BY <3>3, <3>6 DEF Promise!Close
    <3>8. p \in 0..Purses[id].paid /\ a \in 0..Purses[id].paid
      BY <3>3
    <3> QED  BY <3>7, <3>8, <2>0
  <2>4. CASE UNCHANGED <<bookings, flow, next_id>>
    BY <2>4 DEF Purses, Ids
  <2> QED  BY <1>2, <2>1, <2>2, <2>3, <2>4, StepKinds DEF Promise!Next
<1>3. IInv /\ [Next]_vars => [Promise!Next]_Purses
  BY <1>2
<1> QED  BY <1>1, <1>3, Invariant, PTL DEF Spec, KeepsPromise, Promise!Spec
=============================================================================
