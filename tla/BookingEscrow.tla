---------------------------- MODULE BookingEscrow ----------------------------
(***************************************************************************)
(* The booking contract (contracts/packages/booking) with the payment      *)
(* token it moves and the soulbound receipts it mints.                     *)
(*                                                                         *)
(* A contract call is one transaction: it commits whole or, when any       *)
(* assert, expect or inner call panics, not at all.  So each entrypoint is *)
(* one action and its asserts are conjuncts of the guard.  The exception   *)
(* is batch_complete_bookings, whose loop is kept as one step per element  *)
(* so that what an element sees of the elements before it is explicit;     *)
(* while a batch runs no other call does.                                  *)
(***************************************************************************)
EXTENDS BookingParties, Sums, Sequences, FiniteSets

CONSTANTS
    Escrow,            \* the booking contract's own address
    Oracles,           \* addresses that may be made the trusted oracle
    ReceiptContracts,  \* deployed booking_receipt contracts
    None,              \* an optional instance value that is not set
    Prices,            \* prices a booking may be created with (an i128)
    Departures,        \* departure times (a u64)
    Bps,               \* refund shares callers ask for, in basis points
    Window,            \* refund_passenger closes this long before departure
    MaxBatch,          \* MAX_BATCH_SIZE
    Wealth,            \* what every account holds at first
    MaxBookings,       \* bound: bookings created
    MaxTime            \* bound: ledger time

ASSUME AccountsAssumption ==
    /\ Escrow \notin Accounts
    /\ None \notin Accounts \cup Oracles \cup ReceiptContracts
ASSUME NumbersAssumption ==
    /\ Prices \subseteq Int
    /\ Departures \subseteq Nat
    /\ Bps \subseteq Nat
    /\ Window \in Nat
    /\ MaxBatch \in Nat
    /\ Wealth \in Nat
    /\ MaxBookings \in Nat
    /\ MaxTime \in Nat

VARIABLES
    bookings,         \* BookingStorage, by booking id
    next_id,          \* BookingStorage::next_id
    trusted_oracle,   \* BookingStorage::get_trusted_oracle
    receipt_contract, \* BookingStorage::get_receipt_contract
    receipts,         \* the receipts each receipt contract has minted, by id
    balance,          \* token balances
    flow,             \* per booking: what its events report paid in and out
    batch,            \* the batch_complete_bookings call being executed
    now               \* env.ledger().timestamp()

vars == <<bookings, next_id, trusted_oracle, receipt_contract, receipts,
          balance, flow, batch, now>>

config == <<trusted_oracle, receipt_contract>>

Ids == 1..(next_id - 1)

Statuses == {"pending", "confirmed", "completed", "cancelled", "refunded"}

Booking == [passenger : Accounts, airline : Accounts, departure_time : Nat,
            price : Prices, amount_escrowed : Nat, status : Statuses]

Flow == [paid : Nat, to_passenger : Nat, to_airline : Nat]

Receipt == [to : Accounts, booking_id : Nat]

NoBatch == [airline |-> None, todo |-> <<>>, completed |-> <<>>,
            total_released |-> 0, before |-> 0]

Batch == [airline : Accounts, todo : Seq(Nat), completed : Seq(Nat),
          total_released : Nat, before : Nat]

TypeOK ==
    /\ next_id \in Nat \ {0}
    /\ bookings \in [Ids -> Booking]
    /\ flow \in [Ids -> Flow]
    /\ trusted_oracle \in Oracles \cup {None}
    /\ receipt_contract \in ReceiptContracts \cup {None}
    /\ receipts \in [ReceiptContracts -> Seq(Receipt)]
    /\ balance \in [Accounts \cup {Escrow} -> Nat]
    /\ batch \in Batch \cup {NoBatch}
    /\ now \in Nat

Init ==
    /\ next_id = 1
    /\ bookings = [i \in Ids |-> None]
    /\ flow = [i \in Ids |-> None]
    /\ trusted_oracle = None
    /\ receipt_contract = None
    /\ receipts = [c \in ReceiptContracts |-> <<>>]
    /\ balance = [a \in Accounts \cup {Escrow} |-> IF a = Escrow THEN 0 ELSE Wealth]
    /\ batch = NoBatch
    /\ now = 0

(***************************************************************************)
(* Helpers.                                                                *)
(***************************************************************************)

\* No batch is in the middle of its transaction.
Idle == batch = NoBatch

Debit(b, a, amount) == [b EXCEPT ![a] = @ - amount]
Credit(b, a, amount) == [b EXCEPT ![a] = @ + amount]

Open(id) == bookings[id].status \in {"confirmed", "pending"}

\* The whole escrow of a booking leaves the contract, the given parts to the
\* passenger and to the airline, and the booking is closed with the given
\* status.  The token refuses a transfer its sender cannot cover.
PayOut(id, to_passenger, to_airline, status) ==
    /\ balance[Escrow] >= to_passenger + to_airline
    /\ balance' = Credit(Credit(Debit(balance, Escrow, to_passenger + to_airline),
                                bookings[id].passenger, to_passenger),
                         bookings[id].airline, to_airline)
    /\ bookings' = [bookings EXCEPT ![id].amount_escrowed = 0,
                                    ![id].status = status]
    /\ flow' = [flow EXCEPT ![id].to_passenger = @ + to_passenger,
                            ![id].to_airline = @ + to_airline]

(***************************************************************************)
(* Entrypoints.                                                            *)
(***************************************************************************)

\* Neither setter checks who "admin" is, and both may be called again.
InitializeOracle(oracle) ==
    /\ Idle
    /\ trusted_oracle' = oracle
    /\ UNCHANGED <<bookings, next_id, receipt_contract, receipts, balance, flow, batch, now>>

SetReceiptContract(contract) ==
    /\ Idle
    /\ receipt_contract' = contract
    /\ UNCHANGED <<bookings, next_id, trusted_oracle, receipts, balance, flow, batch, now>>

CreateBooking(passenger, airline, departure_time, price) ==
    /\ Idle
    /\ next_id <= MaxBookings
    /\ next_id' = next_id + 1
    /\ bookings' = [i \in 1..next_id |->
          IF i = next_id
          THEN [passenger |-> passenger, airline |-> airline,
                departure_time |-> departure_time, price |-> price,
                amount_escrowed |-> 0, status |-> "pending"]
          ELSE bookings[i]]
    /\ flow' = [i \in 1..next_id |->
          IF i = next_id
          THEN [paid |-> 0, to_passenger |-> 0, to_airline |-> 0]
          ELSE flow[i]]
    /\ UNCHANGED <<config, receipts, balance, batch, now>>

\* mint_receipt of the configured receipt contract, whose admin is the booking
\* contract; without one configured, nothing is minted.
MintReceipt(to, booking_id) ==
    receipts' = [c \in ReceiptContracts |->
        IF c = receipt_contract
        THEN Append(receipts[c], [to |-> to, booking_id |-> booking_id])
        ELSE receipts[c]]

\* Mutant: pays again for a booking that is already confirmed.
PayForBookingAgain(id) ==
    LET price == bookings[id].price
        passenger == bookings[id].passenger
    IN  /\ Idle
        /\ Open(id)
        /\ 0 <= price /\ price <= balance[passenger]
        /\ balance' = Credit(Debit(balance, passenger, price), Escrow, price)
        /\ bookings' = [bookings EXCEPT ![id].amount_escrowed = price,
                                        ![id].status = "confirmed"]
        /\ MintReceipt(passenger, id)
        /\ flow' = [flow EXCEPT ![id].paid = @ + price]
        /\ UNCHANGED <<next_id, config, batch, now>>

\* The token refuses a negative amount and one the passenger cannot cover.
PayForBooking(id) ==
    LET price == bookings[id].price
        passenger == bookings[id].passenger
    IN  /\ Idle
        /\ bookings[id].status = "pending"
        /\ 0 <= price /\ price <= balance[passenger]
        /\ balance' = Credit(Debit(balance, passenger, price), Escrow, price)
        /\ bookings' = [bookings EXCEPT ![id].amount_escrowed = price,
                                        ![id].status = "confirmed"]
        /\ MintReceipt(passenger, id)
        /\ flow' = [flow EXCEPT ![id].paid = @ + price]
        /\ UNCHANGED <<next_id, config, batch, now>>

Releasable(id) ==
    /\ bookings[id].status = "confirmed"
    /\ bookings[id].amount_escrowed > 0

\* Also complete_booking, which asks for one more signature and calls it.
ReleasePaymentToAirline(id) ==
    /\ Idle
    /\ Releasable(id)
    /\ PayOut(id, 0, bookings[id].amount_escrowed, "completed")
    /\ UNCHANGED <<next_id, config, receipts, batch, now>>

\* Mutant: refunds the price, also of a booking nobody has paid for.
RefundPassengerPrice(id) ==
    /\ Idle
    /\ bookings[id].departure_time >= Window
    /\ now < bookings[id].departure_time - Window
    /\ Open(id)
    /\ bookings[id].price >= 0
    /\ PayOut(id, bookings[id].price, 0, "refunded")
    /\ UNCHANGED <<next_id, config, receipts, batch, now>>

\* Also cancel_booking, which asks for one more signature and calls it.
\* departure_time - 86400 is an unsigned subtraction that panics below zero.
RefundPassenger(id) ==
    /\ Idle
    /\ bookings[id].departure_time >= Window
    /\ now < bookings[id].departure_time - Window
    /\ Open(id)
    /\ PayOut(id, bookings[id].amount_escrowed, 0, "refunded")
    /\ UNCHANGED <<next_id, config, receipts, batch, now>>

PassengerShare(escrowed, bps) == (escrowed * bps) \div 10000

\* Mutant: any share may be asked for.
SettleCancellationUncapped(id, caller, bps) ==
    LET escrowed == bookings[id].amount_escrowed
        passenger_refund == PassengerShare(escrowed, bps)
    IN  /\ Idle
        /\ Open(id)
        /\ caller \in {bookings[id].passenger, bookings[id].airline}
        /\ PayOut(id, passenger_refund, escrowed - passenger_refund, "cancelled")
        /\ UNCHANGED <<next_id, config, receipts, batch, now>>

\* Mutant: both shares are rounded down, and the rest stays in the contract.
SettleCancellationTwoShares(id, caller, bps) ==
    LET escrowed == bookings[id].amount_escrowed
    IN  /\ Idle
        /\ bps <= 10000
        /\ Open(id)
        /\ caller \in {bookings[id].passenger, bookings[id].airline}
        /\ PayOut(id, PassengerShare(escrowed, bps),
                  PassengerShare(escrowed, 10000 - bps), "cancelled")
        /\ UNCHANGED <<next_id, config, receipts, batch, now>>

SettleCancellation(id, caller, bps) ==
    LET escrowed == bookings[id].amount_escrowed
        passenger_refund == PassengerShare(escrowed, bps)
    IN  /\ Idle
        /\ bps <= 10000
        /\ Open(id)
        /\ caller \in {bookings[id].passenger, bookings[id].airline}
        /\ PayOut(id, passenger_refund, escrowed - passenger_refund, "cancelled")
        /\ UNCHANGED <<next_id, config, receipts, batch, now>>

OracleReleasePayment(oracle, id) ==
    /\ Idle
    /\ oracle = trusted_oracle
    /\ Releasable(id)
    /\ PayOut(id, 0, bookings[id].amount_escrowed, "completed")
    /\ UNCHANGED <<next_id, config, receipts, batch, now>>

\* Mutant: the oracle may cancel a booking that is already closed.
OracleRefundAirlineCancelAny(oracle, id) ==
    /\ Idle
    /\ oracle = trusted_oracle
    /\ PayOut(id, bookings[id].amount_escrowed, 0, "refunded")
    /\ UNCHANGED <<next_id, config, receipts, batch, now>>

OracleRefundAirlineCancel(oracle, id) ==
    /\ Idle
    /\ oracle = trusted_oracle
    /\ Open(id)
    /\ PayOut(id, bookings[id].amount_escrowed, 0, "refunded")
    /\ UNCHANGED <<next_id, config, receipts, batch, now>>

(***************************************************************************)
(* batch_complete_bookings: the call, its loop body and its return.        *)
(***************************************************************************)

BatchCompleteBookings(airline, booking_ids) ==
    /\ Idle
    /\ booking_ids # <<>>
    /\ Len(booking_ids) <= MaxBatch
    /\ batch' = [airline |-> airline, todo |-> booking_ids, completed |-> <<>>,
                 total_released |-> 0, before |-> balance[Escrow]]
    /\ UNCHANGED <<bookings, next_id, config, receipts, balance, flow, now>>

\* Mutant: the status and the escrow of the element are not looked at.
BatchAcceptsAnyStatus(id) ==
    /\ id \in Ids
    /\ bookings[id].airline = batch.airline

\* The element passes the four checks of the loop body.
BatchAccepts(id) ==
    /\ id \in Ids
    /\ bookings[id].airline = batch.airline
    /\ Releasable(id)

\* "missing", "unauth", "bad_stat" or "no_funds": the element is reported and
\* nothing else changes.
BatchReject ==
    /\ batch.todo # <<>>
    /\ ~BatchAccepts(Head(batch.todo))
    /\ batch' = [batch EXCEPT !.todo = Tail(@)]
    /\ UNCHANGED <<bookings, next_id, config, receipts, balance, flow, now>>

BatchComplete ==
    LET id == Head(batch.todo)
    IN  /\ batch.todo # <<>>
        /\ BatchAccepts(id)
        /\ PayOut(id, 0, bookings[id].amount_escrowed, "completed")
        /\ batch' = [batch EXCEPT !.todo = Tail(@),
                                  !.completed = Append(@, id),
                                  !.total_released = @ + bookings[id].amount_escrowed]
        /\ UNCHANGED <<next_id, config, receipts, now>>

BatchReturn ==
    /\ batch # NoBatch
    /\ batch.todo = <<>>
    /\ batch' = NoBatch
    /\ UNCHANGED <<bookings, next_id, config, receipts, balance, flow, now>>

\* The ledger closes: its timestamp advances.
Tick ==
    /\ Idle
    /\ now < MaxTime
    /\ now' = now + 1
    /\ UNCHANGED <<bookings, next_id, config, receipts, balance, flow, batch>>

\* The id lists an airline may pass: stored ids, repeated or not, and the
\* first id that is not stored.
BatchIds == UNION {[1..n -> 1..next_id] : n \in 1..MaxBatch}

\* What passengers, airlines, administrators and the ledger do.
PartyStep ==
    \/ \E o \in Oracles : InitializeOracle(o)
    \/ \E c \in ReceiptContracts : SetReceiptContract(c)
    \/ \E p, a \in Accounts, d \in Departures, x \in Prices : CreateBooking(p, a, d, x)
    \/ \E id \in Ids :
          \/ PayForBooking(id)
          \/ ReleasePaymentToAirline(id)
          \/ RefundPassenger(id)
          \/ \E caller \in Accounts, bps \in Bps : SettleCancellation(id, caller, bps)
    \/ \E a \in Accounts, ids \in BatchIds : BatchCompleteBookings(a, ids)
    \/ BatchReject
    \/ BatchComplete
    \/ BatchReturn
    \/ Tick

\* What the given oracles do.
OracleStep(oracles) ==
    \E id \in Ids, o \in oracles :
        OracleReleasePayment(o, id) \/ OracleRefundAirlineCancel(o, id)

Next == PartyStep \/ OracleStep(Oracles)

Spec == Init /\ [][Next]_vars

(***************************************************************************)
(* Properties.                                                             *)
(***************************************************************************)

Escrowed == [i \in Ids |-> bookings[i].amount_escrowed]

\* The contract holds exactly what its open bookings have in escrow: no
\* sequence of payments, refunds, settlements and batches leaves a booking
\* backed by another booking's money or strands money in the contract.
Solvent == balance[Escrow] = SumTo(Escrowed, next_id - 1)

\* A booking's money is in exactly one place: still in escrow, and then it is
\* the whole price of a confirmed booking and no part of it was paid out, or
\* all paid out, and then the parts the passenger and the airline got add up to
\* what was paid in.
Conserved ==
    \A i \in Ids :
        /\ flow[i].paid = bookings[i].amount_escrowed
                          + flow[i].to_passenger + flow[i].to_airline
        /\ bookings[i].amount_escrowed =
              IF bookings[i].status = "confirmed" THEN bookings[i].price ELSE 0
        /\ Open(i) => flow[i].to_passenger = 0 /\ flow[i].to_airline = 0

Closed(i) == bookings[i].status \in {"completed", "cancelled", "refunded"}

\* The passenger, the airline, the oracle and a batch race to close a booking:
\* whoever is first wins and nothing any of them does later changes the booking
\* or moves money for it.
ClosedForGood ==
    [][\A i \in Ids : Closed(i) => /\ bookings'[i] = bookings[i]
                                   /\ flow'[i] = flow[i]]_vars

\* What batch_complete_bookings returns: it lists no booking twice, although
\* its input may, and total_released is what left the contract in the call.
BatchReport ==
    batch # NoBatch =>
        /\ batch.before - balance[Escrow] = batch.total_released
        /\ \A i, j \in 1..Len(batch.completed) :
              batch.completed[i] = batch.completed[j] => i = j
        /\ \A i \in 1..Len(batch.completed) :
              /\ batch.completed[i] \in Ids
              /\ bookings[batch.completed[i]].status = "completed"

\* A soulbound receipt proves a payment: it belongs to the passenger of a
\* booking that was paid for, and a booking has at most one, in whichever
\* receipt contract was configured when it was paid.
ReceiptsProvePayment ==
    \A c \in ReceiptContracts : \A k \in 1..Len(receipts[c]) :
        LET r == receipts[c][k]
        IN  /\ r.booking_id \in Ids
            /\ bookings[r.booking_id].status # "pending"
            /\ r.to = bookings[r.booking_id].passenger
            /\ flow[r.booking_id].paid = bookings[r.booking_id].price
            /\ \A d \in ReceiptContracts : \A l \in 1..Len(receipts[d]) :
                  receipts[d][l].booking_id = r.booking_id => d = c /\ l = k

(***************************************************************************)
(* The contract keeps the promise of EscrowPromise.                        *)
(***************************************************************************)

Phase(status) ==
    CASE status = "pending" -> "unpaid"
      [] status = "confirmed" -> "held"
      [] OTHER -> "closed"

Purses ==
    [i \in Ids |-> [phase |-> Phase(bookings[i].status), paid |-> flow[i].paid,
                    to_passenger |-> flow[i].to_passenger,
                    to_airline |-> flow[i].to_airline]]

Promise == INSTANCE EscrowPromise
    WITH purses <- Purses, Amounts <- {x \in Prices : x >= 0}

\* Whatever entrypoints are called in whatever order, each booking is paid for
\* once and its money divided once.
KeepsPromise == Promise!Spec
=============================================================================
