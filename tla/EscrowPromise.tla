---------------------------- MODULE EscrowPromise ----------------------------
(***************************************************************************)
(* What passengers and airlines are promised about a booking's money,      *)
(* without saying how it is kept or who may move it: a booking is paid for *)
(* at most once, it is closed at most once, and on closing exactly what    *)
(* was paid is divided between the passenger and the airline.              *)
(***************************************************************************)
EXTENDS Integers, Sequences

CONSTANT Amounts   \* what a booking may cost

VARIABLE purses    \* in order of creation

Unpaid == [phase |-> "unpaid", paid |-> 0, to_passenger |-> 0, to_airline |-> 0]

Init == purses = <<>>

Book == purses' = Append(purses, Unpaid)

Pay(i, amount) ==
    /\ purses[i].phase = "unpaid"
    /\ purses' = [purses EXCEPT ![i] = [Unpaid EXCEPT !.phase = "held", !.paid = amount]]

Close(i, to_passenger, to_airline) ==
    /\ purses[i].phase # "closed"
    /\ to_passenger + to_airline = purses[i].paid
    /\ purses' = [purses EXCEPT ![i] = [phase |-> "closed", paid |-> @.paid,
                                        to_passenger |-> to_passenger,
                                        to_airline |-> to_airline]]

Next ==
    \/ Book
    \/ \E i \in DOMAIN purses :
          \/ \E amount \in Amounts : Pay(i, amount)
          \/ \E p, a \in 0..purses[i].paid : Close(i, p, a)

Spec == Init /\ [][Next]_purses
=============================================================================
