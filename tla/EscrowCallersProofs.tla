------------------------- MODULE EscrowCallersProofs -------------------------
(***************************************************************************)
(* The contracts in front of the booking contract: the flight oracle and   *)
(* the refund automation.  Both reach the escrow only through its own      *)
(* entrypoints, so their steps are steps of BookingEscrow and every        *)
(* theorem about that contract holds with them beside it.  The oracle then *)
(* settles a booking at most once and by consensus; what the automation    *)
(* believes is what the booking contract did, and the books of the refund  *)
(* contract it writes to stay right.                                       *)
(***************************************************************************)
EXTENDS FlightOracle, RefundAutomation, BookingEscrowProofs, RefundProofs

\* The oracle changes the booking contract and its money only through the
\* contract's own entrypoints.
THEOREM OracleImplementsEscrow == OracleSpec => Spec
<1>1. OracleInit => Init
  BY DEF OracleInit
<1>2. [OracleNext]_<<vars, oracleVars>> => [Next]_vars
  <2> SUFFICES ASSUME [OracleNext]_<<vars, oracleVars>> PROVE [Next]_vars
    OBVIOUS
  <2>1. CASE UNCHANGED <<vars, oracleVars>>
    BY <2>1
  <2>2. CASE PartyStep
    BY <2>2 DEF Next
  <2>3. CASE OracleStep(Oracles \ {FlightOracleId})
    BY <2>3 DEF Next, OracleStep
  <2>4. ASSUME NEW f \in Flights, NEW id \in Ids,
               VerifyFlightCompletion(f, id) \/ VerifyAirlineCancellation(f, id)
        PROVE  Next
    BY <2>4, OracleAssumption
       DEF Next, OracleStep, VerifyFlightCompletion, VerifyAirlineCancellation,
           OracleAssumption
  <2>5. CASE UNCHANGED vars
    BY <2>5
  <2> QED
    BY <2>1, <2>2, <2>3, <2>4, <2>5
       DEF OracleNext, Initialize, RegisterOracleProvider, SubmitFlightStatus, ManageRoles
<1> QED  BY <1>1, <1>2, PTL DEF OracleSpec, Spec

\* However the providers report and whoever asks for a settlement, the booking
\* contract holds exactly what its open bookings have in escrow.
THEOREM OracleKeepsSolvent == OracleSpec => []Solvent
BY OracleImplementsEscrow, SolventAlways

-----------------------------------------------------------------------------
(***************************************************************************)
(* A booking the oracle settled is closed, and a closed booking accepts no *)
(* settlement: the invariant says so of every id, those not yet handed out *)
(* included, and that a settlement needs a configuration, which is set     *)
(* once.                                                                   *)
(***************************************************************************)
ConsensusInv ==
    /\ IInv
    /\ Ids \subseteq ReportedIds
    /\ cfg # None => cfg.consensus_threshold \in Nat
    /\ count \in [Flights \X ReportedIds \X Outcomes -> Nat]
    /\ verdicts \in [ReportedIds -> Seq(Outcomes)]
    /\ \A id \in ReportedIds : verdicts[id] # <<>> => id \in Ids /\ cfg # None
    /\ SettledOnceByConsensus

\* Nothing is settled at first.
LEMMA ConsensusInit == OracleInit => ConsensusInv
<1> SUFFICES ASSUME OracleInit PROVE ConsensusInv
  OBVIOUS
<1>1. IInv
  BY InitIInv DEF OracleInit
<1>2. Ids = {}
  BY DEF OracleInit, Init, Ids
<1> QED  BY <1>1, <1>2 DEF OracleInit, ConsensusInv, SettledOnceByConsensus

\* A settled booking is closed.
LEMMA SettledIsClosed ==
    ASSUME ConsensusInv, NEW id \in Ids, verdicts[id] # <<>>
    PROVE  Closed(id)
<1>1. verdicts[id] \in Seq(Outcomes)
  BY DEF ConsensusInv
<1>2. verdicts[id][1] \in Outcomes
  BY <1>1
<1> QED  BY <1>2 DEF ConsensusInv, SettledOnceByConsensus, Closed, Outcomes

\* A step of the booking contract that the oracle has no part in.
LEMMA ConsensusEscrowStep ==
    ASSUME ConsensusInv, [Next]_vars, UNCHANGED oracleVars
    PROVE  ConsensusInv'
<1>1. IInv /\ IInv'
  BY NextIInv DEF ConsensusInv
<1>2. next_id \in Nat \ {0} /\ Ids = 1..(next_id - 1) /\ Ids' = 1..(next_id' - 1)
  BY <1>1 DEF IInv, TypeOK, Ids
<1>3. Ids \subseteq Ids' /\ Ids' \subseteq ReportedIds
  <2>1. CASE next_id' = next_id
    BY <2>1, <1>2 DEF ConsensusInv
  <2>2. CASE next_id <= MaxBookings /\ next_id' = next_id + 1
    BY <2>2, <1>2, NumbersAssumption DEF ReportedIds
  <2> QED  BY <2>1, <2>2, <1>1, IdsGrow
<1>4. SettledOnceByConsensus'
  <2> SUFFICES ASSUME NEW id \in Ids', verdicts[id] # <<>>
               PROVE  /\ Len(verdicts[id]) <= 1
                      /\ \E f \in Flights :
                            count[<<f, id, verdicts[id][1]>>] >= cfg.consensus_threshold
                      /\ IF verdicts[id][1] = "completed"
                         THEN /\ bookings'[id].status = "completed"
                              /\ flow'[id].to_airline = flow'[id].paid
                         ELSE /\ bookings'[id].status = "refunded"
                              /\ flow'[id].to_passenger = flow'[id].paid
    BY DEF SettledOnceByConsensus, oracleVars
  <2>1. id \in Ids
    BY <1>3 DEF ConsensusInv
  <2>2. bookings'[id] = bookings[id] /\ flow'[id] = flow[id]
    BY <2>1, <1>1, SettledIsClosed, ClosedStays
  <2> QED  BY <2>1, <2>2 DEF ConsensusInv, SettledOnceByConsensus
<1> QED  BY <1>1, <1>3, <1>4 DEF ConsensusInv, oracleVars

\* A settlement by the oracle: the booking was open, so nothing was settled
\* before and the whole payment goes to the side of the outcome.
LEMMA ConsensusSettles ==
    ASSUME ConsensusInv, NEW f \in Flights, NEW id \in Ids,
           VerifyFlightCompletion(f, id) \/ VerifyAirlineCancellation(f, id)
    PROVE  ConsensusInv'
<1> DEFINE x == bookings[id].amount_escrowed
<1>1. IInv /\ TypeOK /\ id \in ReportedIds /\ Ids' = Ids /\ next_id' = next_id
  BY DEF ConsensusInv, IInv, VerifyFlightCompletion, VerifyAirlineCancellation,
         OracleReleasePayment, OracleRefundAirlineCancel, Ids
<1>2. IInv'
  <2>1. Next
    BY OracleAssumption DEF Next, OracleStep, VerifyFlightCompletion,
       VerifyAirlineCancellation, OracleAssumption
  <2> QED  BY <1>1, <2>1, NextIInv
<1>3. Open(id)
  BY DEF VerifyFlightCompletion, VerifyAirlineCancellation, OracleReleasePayment,
         OracleRefundAirlineCancel, Releasable, Open
<1>4. verdicts[id] = <<>>
  BY <1>3, SettledIsClosed DEF Open, Closed
<1>5. /\ bookings \in [Ids -> Booking] /\ flow \in [Ids -> Flow]
      /\ x \in Nat /\ flow[id].paid = x
      /\ flow[id].to_airline = 0 /\ flow[id].to_passenger = 0
  <2>1. bookings \in [Ids -> Booking] /\ flow \in [Ids -> Flow]
    BY <1>1 DEF TypeOK
  <2>2. bookings[id] \in Booking /\ flow[id] \in Flow
    BY <2>1
  <2>3. x \in Nat /\ flow[id].paid \in Nat
    BY <2>2 DEF Booking, Flow
  <2>4. flow[id].to_airline = 0 /\ flow[id].to_passenger = 0 /\ flow[id].paid = x + 0 + 0
    BY <1>1, <1>3 DEF IInv, Ledger, Conserved
  <2> QED  BY <2>1, <2>3, <2>4
<1>6. PICK s \in Outcomes :
        /\ HasConsensus(f, id, s)
        /\ verdicts' = [verdicts EXCEPT ![id] = Append(@, s)]
        /\ UNCHANGED <<cfg, count>>
        /\ s = "completed" => PayOut(id, 0, x, "completed")
        /\ s = "cancelled" => PayOut(id, x, 0, "refunded")
  BY DEF VerifyFlightCompletion, VerifyAirlineCancellation, OracleReleasePayment,
         OracleRefundAirlineCancel, Outcomes
<1>7. /\ s = "completed" => /\ bookings'[id].status = "completed"
                            /\ flow'[id].to_airline = flow'[id].paid
      /\ s = "cancelled" => /\ bookings'[id].status = "refunded"
                            /\ flow'[id].to_passenger = flow'[id].paid
  BY <1>5, <1>6 DEF PayOut, Booking, Flow
<1>8. \A i \in Ids : i # id => bookings'[i] = bookings[i] /\ flow'[i] = flow[i]
  BY <1>5, <1>6 DEF PayOut, Outcomes
<1>9. /\ verdicts' \in [ReportedIds -> Seq(Outcomes)]
      /\ verdicts'[id] = <<s>>
      /\ \A i \in ReportedIds : i # id => verdicts'[i] = verdicts[i]
  BY <1>1, <1>4, <1>6 DEF ConsensusInv
<1>10. cfg # None /\ count[<<f, id, s>>] >= cfg.consensus_threshold
  BY <1>6 DEF HasConsensus
<1>11. SettledOnceByConsensus'
  <2>1. ASSUME NEW i \in Ids, i # id, verdicts'[i] # <<>>
        PROVE  /\ Len(verdicts'[i]) <= 1
               /\ \E g \in Flights :
                     count'[<<g, i, verdicts'[i][1]>>] >= cfg'.consensus_threshold
               /\ IF verdicts'[i][1] = "completed"
                  THEN /\ bookings'[i].status = "completed"
                       /\ flow'[i].to_airline = flow'[i].paid
                  ELSE /\ bookings'[i].status = "refunded"
                       /\ flow'[i].to_passenger = flow'[i].paid
    <3>1. verdicts'[i] = verdicts[i] /\ bookings'[i] = bookings[i] /\ flow'[i] = flow[i]
      BY <2>1, <1>8, <1>9 DEF ConsensusInv
    <3> QED  BY <2>1, <3>1, <1>6 DEF ConsensusInv, SettledOnceByConsensus
  <2>2. /\ Len(verdicts'[id]) <= 1
        /\ \E g \in Flights : count'[<<g, id, verdicts'[id][1]>>] >= cfg'.consensus_threshold
        /\ IF verdicts'[id][1] = "completed"
           THEN /\ bookings'[id].status = "completed"
                /\ flow'[id].to_airline = flow'[id].paid
           ELSE /\ bookings'[id].status = "refunded"
                /\ flow'[id].to_passenger = flow'[id].paid
    BY <1>6, <1>7, <1>9, <1>10 DEF Outcomes
  <2>3. \A i \in Ids : verdicts'[i] = <<>> => Len(verdicts'[i]) <= 1
    OBVIOUS
  <2> QED  BY <1>1, <2>1, <2>2, <2>3 DEF SettledOnceByConsensus
<1> QED  BY <1>1, <1>2, <1>6, <1>9, <1>10, <1>11 DEF ConsensusInv

\* What providers and administrators do; configuring happens before any
\* settlement, and counters only grow.
LEMMA ConsensusOwnSteps ==
    ASSUME ConsensusInv,
           \/ \E a \in Owners, m \in Stakes, t \in Thresholds : Initialize(a, m, t)
           \/ \E a \in Owners, p \in Providers, x \in Stakes : RegisterOracleProvider(a, p, x)
           \/ \E p \in Providers, f \in Flights, id \in ReportedIds, s \in Outcomes :
                 SubmitFlightStatus(p, f, id, s)
           \/ ManageRoles
    PROVE  ConsensusInv'
<1>1. UNCHANGED <<vars, verdicts>>
  BY DEF Initialize, RegisterOracleProvider, SubmitFlightStatus, ManageRoles
<1>2. IInv' /\ Ids' = Ids /\ bookings' = bookings /\ flow' = flow
  <2>1. IInv'
    BY <1>1, NextIInv DEF ConsensusInv
  <2> QED  BY <2>1, <1>1 DEF vars, Ids
<1>3. /\ count' \in [Flights \X ReportedIds \X Outcomes -> Nat]
      /\ \A f \in Flights, id \in ReportedIds, s \in Outcomes :
            count'[<<f, id, s>>] >= count[<<f, id, s>>]
  <2>1. CASE \E p \in Providers, f \in Flights, id \in ReportedIds, s \in Outcomes :
                SubmitFlightStatus(p, f, id, s)
    <3> DEFINE D == Flights \X ReportedIds \X Outcomes
    <3>1. PICK k \in D : count' = [count EXCEPT ![k] = @ + 1]
      BY <2>1 DEF SubmitFlightStatus
    <3>2. count \in [D -> Nat]
      BY DEF ConsensusInv
    <3>3. \A f \in Flights, id \in ReportedIds, s \in Outcomes : <<f, id, s>> \in D
      OBVIOUS
    <3> HIDE DEF D
    <3>4. count' \in [D -> Nat] /\ \A j \in D : count'[j] >= count[j]
      BY <3>1, <3>2
    <3> QED  BY <3>3, <3>4 DEF D
  <2>2. CASE count' = count
    <3>1. \A f \in Flights, id \in ReportedIds, s \in Outcomes : count[<<f, id, s>>] \in Nat
      BY DEF ConsensusInv
    <3> QED  BY <2>2, <3>1 DEF ConsensusInv
  <2>3. CASE \/ \E a \in Owners, m \in Stakes, t \in Thresholds : Initialize(a, m, t)
             \/ \E a \in Owners, p \in Providers, x \in Stakes :
                   RegisterOracleProvider(a, p, x)
             \/ ManageRoles
    <3>1. count' = count
      BY <2>3 DEF Initialize, RegisterOracleProvider, ManageRoles
    <3> QED  BY <2>2, <3>1
  <2> QED
    BY <2>1, <2>3
<1>4. \/ cfg' = cfg
      \/ cfg = None /\ cfg'.consensus_threshold \in Nat
  <2>1. ASSUME NEW a, NEW m, NEW t \in Thresholds, Initialize(a, m, t)
        PROVE  cfg = None /\ cfg'.consensus_threshold \in Nat
    BY <2>1, OracleAssumption DEF Initialize, OracleAssumption
  <2>2. ASSUME NEW a, NEW x, NEW p, NEW f, NEW id, NEW s,
               \/ RegisterOracleProvider(a, p, x)
               \/ SubmitFlightStatus(p, f, id, s)
               \/ ManageRoles
        PROVE  cfg' = cfg
    BY <2>2 DEF RegisterOracleProvider, SubmitFlightStatus, ManageRoles
  <2> QED  BY <2>1, <2>2
<1>5. \A id \in ReportedIds : verdicts[id] # <<>> => id \in Ids /\ cfg # None /\ cfg' = cfg
  BY <1>4 DEF ConsensusInv
<1>6. SettledOnceByConsensus'
  <2> SUFFICES ASSUME NEW id \in Ids, verdicts[id] # <<>>
               PROVE  \E f \in Flights :
                         count'[<<f, id, verdicts[id][1]>>] >= cfg'.consensus_threshold
    BY <1>1, <1>2 DEF ConsensusInv, SettledOnceByConsensus
  <2>1. id \in ReportedIds /\ verdicts[id][1] \in Outcomes
    <3>1. id \in ReportedIds /\ verdicts[id] \in Seq(Outcomes)
      BY DEF ConsensusInv
    <3> QED  BY <3>1
  <2>2. PICK f \in Flights : count[<<f, id, verdicts[id][1]>>] >= cfg.consensus_threshold
    BY DEF ConsensusInv, SettledOnceByConsensus
  <2>3. /\ cfg' = cfg /\ cfg.consensus_threshold \in Nat
        /\ count[<<f, id, verdicts[id][1]>>] \in Nat /\ count'[<<f, id, verdicts[id][1]>>] \in Nat
        /\ count'[<<f, id, verdicts[id][1]>>] >= count[<<f, id, verdicts[id][1]>>]
    BY <2>1, <1>3, <1>5 DEF ConsensusInv
  <2> QED  BY <2>2, <2>3
<1> QED  BY <1>1, <1>2, <1>3, <1>4, <1>5, <1>6 DEF ConsensusInv

\* The invariant holds throughout.
LEMMA ConsensusAlways == OracleSpec => []ConsensusInv
<1>1. ConsensusInv /\ [OracleNext]_<<vars, oracleVars>> => ConsensusInv'
  <2> SUFFICES ASSUME ConsensusInv, [OracleNext]_<<vars, oracleVars>>
               PROVE  ConsensusInv'
    OBVIOUS
  <2>1. CASE (PartyStep \/ OracleStep(Oracles \ {FlightOracleId})) /\ UNCHANGED oracleVars
    <3>1. Next
      BY <2>1 DEF Next, OracleStep
    <3> QED  BY <2>1, <3>1, ConsensusEscrowStep
  <2>2. CASE UNCHANGED <<vars, oracleVars>>
    BY <2>2, ConsensusEscrowStep
  <2> QED
    BY <2>1, <2>2, ConsensusSettles, ConsensusOwnSteps DEF OracleNext
<1> QED  BY <1>1, ConsensusInit, PTL DEF OracleSpec

\* The oracle settles a booking at most once, with enough reports of the
\* outcome behind it, and the whole payment goes to the side it names, for any
\* number of providers, flights and bookings and any thresholds.
THEOREM SettledOnceAlways == OracleSpec => []SettledOnceByConsensus
<1>1. ConsensusInv => SettledOnceByConsensus
  BY DEF ConsensusInv
<1> QED  BY <1>1, ConsensusAlways, PTL

-----------------------------------------------------------------------------
(***************************************************************************)
(* The oracle's own state is what the declarations say.  Events and        *)
(* counters need that bookings in use have reportable ids, which is part   *)
(* of ConsensusInv.                                                        *)
(***************************************************************************)
OwnTypes ==
    /\ Access!TypeOK
    /\ cfg \in [min_stake : Stakes, consensus_threshold : Thresholds] \cup {None}
    /\ stake \in [Providers -> Stakes \cup {0}]
    /\ reports \in [Flights \X ReportedIds -> Seq([status : Outcomes, provider : Providers])]

\* Only initialize, the registration of a provider, a report and the
\* management of roles write this state.
LEMMA OwnTypesHold ==
    ASSUME OwnTypes, [OracleNext]_<<vars, oracleVars>>
    PROVE  OwnTypes'
<1> USE DEF OwnTypes
<1>1. CASE UNCHANGED <<owner, roles, cfg, stake, reports>>
  BY <1>1 DEF Access!TypeOK
<1>2. ASSUME NEW a \in Owners, NEW m \in Stakes, NEW t \in Thresholds, Initialize(a, m, t)
      PROVE  OwnTypes'
  BY <1>2 DEF Initialize, Access!InitOwner, Access!TypeOK
<1>3. ASSUME NEW a \in Owners, NEW p \in Providers, NEW x \in Stakes,
             RegisterOracleProvider(a, p, x)
      PROVE  OwnTypes'
  BY <1>3 DEF RegisterOracleProvider, Access!TypeOK
<1>4. ASSUME NEW p \in Providers, NEW f \in Flights, NEW id \in ReportedIds,
             NEW o \in Outcomes, SubmitFlightStatus(p, f, id, o)
      PROVE  OwnTypes'
  <2> DEFINE K == Flights \X ReportedIds
             R == [status : Outcomes, provider : Providers]
             k == <<f, id>>
             r == [status |-> o, provider |-> p]
  <2>1. k \in K /\ r \in R /\ reports \in [K -> Seq(R)]
    OBVIOUS
  <2>2. reports' = [reports EXCEPT ![k] = Append(@, r)]
    BY <1>4 DEF SubmitFlightStatus
  <2> HIDE DEF K, R, k, r
  <2>3. reports' \in [K -> Seq(R)]
    BY <2>1, <2>2
  <2> QED  BY <1>4, <2>3 DEF K, R, SubmitFlightStatus, Access!TypeOK
<1>5. CASE ManageRoles
  <2>1. Access!Manage /\ Access!TypeOK
    BY <1>5 DEF ManageRoles
  <2>2. Access!TypeOK'
    BY <2>1 DEF Access!Manage, Access!SetRole, Access!TransferOwnership, Access!TypeOK
  <2> QED  BY <1>5, <2>2 DEF ManageRoles
<1>6. ASSUME NEW f \in Flights, NEW id \in Ids,
             VerifyFlightCompletion(f, id) \/ VerifyAirlineCancellation(f, id)
      PROVE  OwnTypes'
  BY <1>1, <1>6 DEF VerifyFlightCompletion, VerifyAirlineCancellation
<1> QED
  BY <1>1, <1>2, <1>3, <1>4, <1>5, <1>6 DEF OracleNext, oracleVars

\* The escrow, the roles, the configuration, the stakes, the reports, their
\* counters and the settlements the oracle announced keep their types, for any
\* providers, flights and thresholds.
THEOREM OracleTypeCorrect == OracleSpec => []OracleTypeOK
<1>1. OracleInit => OwnTypes
  BY DEF OracleInit, OwnTypes, Access!Init, Access!TypeOK
<1>2. ConsensusInv /\ OwnTypes => OracleTypeOK
  BY DEF ConsensusInv, OwnTypes, OracleTypeOK, IInv
<1> QED
  BY <1>1, <1>2, OwnTypesHold, ConsensusAlways, PTL DEF OracleSpec

-----------------------------------------------------------------------------
\* The share a tier earns is one that callers of settle_cancellation may ask
\* for.
LEMMA TierShare ==
    ASSUME NEW departure_time
    PROVE  RefundBps(Tier(departure_time)) \in Bps
BY AutomationAssumption DEF RefundBps, Tier, AutomationAssumption

\* A settlement is a call of settle_cancellation the contract allows anyone.
LEMMA SettlementIsStep ==
  ASSUME NEW n \in Names, NEW caller \in Accounts, Settlement(n, caller)
  PROVE  Next
<1> DEFINE id == booking_map[n]
           bps == RefundBps(Tier(bookings[id].departure_time))
<1>1. id \in Ids /\ SettleCancellation(id, caller, bps)
  BY DEF Settlement
<1>2. bps \in Bps
  BY TierShare
<1> HIDE DEF id, bps
<1> QED  BY <1>1, <1>2 DEF Next, PartyStep

\* The steps of the composition, by what they do to the bookings and to what
\* the automation keeps.
LEMMA AutomationSteps ==
  ASSUME [AutomationNext]_<<vars, refundVars, automationVars>>
  PROVE  \/ [Next]_vars /\ UNCHANGED automationVars
         \/ \E n \in Names, id \in BookingIds : RegisterBooking(n, id)
         \/ \E n \in Names, caller \in Accounts : Settlement(n, caller)
<1>1. CASE \E k \in 1..MaxRefundBatch : \E names \in [1..k -> Names] :
              ProcessBatchRefunds(names)
  BY <1>1 DEF ProcessBatchRefunds
<1> QED
  BY <1>1 DEF AutomationNext, CancelBooking, AutomateRefund

\* The three contracts together do to the bookings and their money only what
\* the booking contract alone can do.
THEOREM AutomationImplementsEscrow == AutomationSpec => Spec
<1>1. AutomationInit => Init
  BY DEF AutomationInit
<1>2. [AutomationNext]_<<vars, refundVars, automationVars>> => [Next]_vars
  BY AutomationSteps, SettlementIsStep DEF RegisterBooking
<1> QED  BY <1>1, <1>2, PTL DEF AutomationSpec, Spec

\* Whatever the automation cancels, refunds and files again, the booking
\* contract holds exactly what its open bookings have in escrow.
THEOREM AutomationKeepsSolvent == AutomationSpec => []Solvent
BY AutomationImplementsEscrow, SolventAlways, PTL

-----------------------------------------------------------------------------
(***************************************************************************)
(* What the automation believes is what the booking contract did.  A       *)
(* closed booking never changes, so only the step that marks a name has to *)
(* be looked at: the booking contract refuses it for a closed booking, so  *)
(* no other marked name can have the same one.                             *)
(***************************************************************************)
Result == [tier : {"full", "partial", "no_refund"},
           passenger_refund : Nat, airline_amount : Nat]

BeliefInv ==
    /\ IInv
    /\ booking_map \in [Names -> BookingIds \cup {None}]
    /\ cancelled \subseteq Names
    /\ results \in [Names -> Result \cup {None}]
    /\ CancelledMeansSettled

\* Nothing is cancelled at first.
LEMMA BeliefInit == AutomationInit => BeliefInv
BY InitIInv DEF AutomationInit, BeliefInv, CancelledMeansSettled

\* Steps of the booking contract leave alone what was cancelled.
LEMMA BeliefEscrowStep ==
  ASSUME BeliefInv, [Next]_vars, UNCHANGED automationVars
  PROVE  BeliefInv'
<1>1. IInv /\ IInv'
  BY NextIInv DEF BeliefInv
<1>2. \A i \in Ids : i \in Ids'
  <2>1. next_id \in Nat \ {0} /\ (next_id' = next_id \/ next_id' = next_id + 1)
    BY <1>1, IdsGrow DEF IInv, TypeOK
  <2> QED  BY <2>1 DEF Ids
<1>3. ASSUME NEW n \in cancelled
      PROVE  LET id == booking_map[n]
             IN  id \in Ids /\ bookings'[id] = bookings[id] /\ flow'[id] = flow[id]
  <2>1. booking_map[n] \in Ids /\ Closed(booking_map[n])
    BY DEF BeliefInv, CancelledMeansSettled, Closed
  <2> QED  BY <1>1, <2>1, ClosedStays
<1>4. CancelledMeansSettled'
  BY <1>2, <1>3 DEF BeliefInv, CancelledMeansSettled, automationVars
<1> QED
  BY <1>1, <1>4 DEF BeliefInv, automationVars

\* A name that is marked has its booking, and is not registered again.
LEMMA BeliefRegister ==
  ASSUME BeliefInv, NEW n \in Names, NEW id \in BookingIds, RegisterBooking(n, id)
  PROVE  BeliefInv'
<1>1. IInv' /\ Ids' = Ids /\ UNCHANGED <<bookings, flow, cancelled, results>>
  BY NextIInv DEF BeliefInv, RegisterBooking, vars, Ids
<1>2. ASSUME NEW m \in cancelled PROVE booking_map'[m] = booking_map[m]
  <2>1. booking_map[m] \in Ids /\ next_id \in Nat
    BY DEF BeliefInv, CancelledMeansSettled, IInv, TypeOK
  <2>2. booking_map[m] # None
    BY <2>1, AutomationAssumption DEF Ids, AutomationAssumption
  <2> QED
    BY <2>2 DEF RegisterBooking, BeliefInv
<1>3. CancelledMeansSettled'
  BY <1>1, <1>2 DEF BeliefInv, CancelledMeansSettled
<1>4. booking_map' \in [Names -> BookingIds \cup {None}]
  BY DEF RegisterBooking, BeliefInv
<1> QED
  BY <1>1, <1>3, <1>4 DEF BeliefInv

\* The step that marks a name: its booking was open, so no marked name has it,
\* nothing had left its escrow, and what leaves now is what is reported.
LEMMA BeliefSettlement ==
  ASSUME BeliefInv, NEW n \in Names, NEW caller \in Accounts, Settlement(n, caller)
  PROVE  BeliefInv'
<1> DEFINE id == booking_map[n]
           x == bookings[id].amount_escrowed
           tier == Tier(bookings[id].departure_time)
           refund == PassengerShare(x, RefundBps(tier))
<1>1. IInv /\ IInv' /\ TypeOK
  BY SettlementIsStep, NextIInv DEF BeliefInv, IInv
<1>2. /\ id \in Ids /\ Open(id)
      /\ RefundBps(tier) <= 10000
      /\ PayOut(id, refund, x - refund, "cancelled")
      /\ next_id' = next_id
      /\ cancelled' = cancelled \cup {n}
      /\ results' = [results EXCEPT ![n] = [tier |-> tier, passenger_refund |-> refund,
                                           airline_amount |-> x - refund]]
      /\ booking_map' = booking_map
  BY DEF Settlement, SettleCancellation
<1>3. /\ bookings \in [Ids -> Booking] /\ flow \in [Ids -> Flow] /\ x \in Nat
      /\ flow[id].to_airline = 0 /\ flow[id].to_passenger = 0
  <2>1. bookings \in [Ids -> Booking] /\ flow \in [Ids -> Flow]
    BY <1>1 DEF TypeOK
  <2>2. bookings[id] \in Booking
    BY <1>2, <2>1
  <2>3. x \in Nat
    BY <2>2 DEF Booking
  <2> QED  BY <1>1, <1>2, <2>1, <2>3 DEF IInv, Ledger, Conserved
<1>4. refund \in Nat /\ x - refund \in Nat /\ tier \in {"full", "partial", "no_refund"}
  <2>1. RefundBps(tier) \in Nat
    BY TierShare, NumbersAssumption DEF NumbersAssumption
  <2>2. refund \in Nat /\ refund <= x
    <3> HIDE DEF x, tier
    <3> QED  BY <1>2, <1>3, <2>1, ShareBound
  <2>3. tier \in {"full", "partial", "no_refund"}
    BY DEF Tier
  <2> HIDE DEF refund, x, tier
  <2> QED  BY <1>3, <2>2, <2>3
<1> HIDE DEF refund, tier
<1>5. /\ bookings'[id].status = "cancelled"
      /\ flow'[id].to_passenger = refund /\ flow'[id].to_airline = x - refund
      /\ \A i \in Ids : i # id => bookings'[i] = bookings[i] /\ flow'[i] = flow[i]
  <2> DEFINE rest == x - refund
  <2>1. PayOut(id, refund, rest, "cancelled") /\ rest \in Nat
    BY <1>2, <1>4
  <2> HIDE DEF rest, x
  <2>2. bookings'[id].status = "cancelled"
    BY <1>2, <1>3, <2>1 DEF PayOut, Booking
  <2>3. flow'[id].to_passenger = refund /\ flow'[id].to_airline = rest
    BY <1>2, <1>3, <1>4, <2>1 DEF PayOut, Flow
  <2>4. \A i \in Ids : i # id => bookings'[i] = bookings[i] /\ flow'[i] = flow[i]
    BY <1>2, <1>3, <2>1 DEF PayOut
  <2> QED  BY <2>2, <2>3, <2>4 DEF rest
<1>6. n \notin cancelled /\ \A m \in cancelled : booking_map[m] # id
  BY <1>2 DEF BeliefInv, CancelledMeansSettled, Open
<1> DEFINE result == [tier |-> tier, passenger_refund |-> refund, airline_amount |-> x - refund]
<1>7. result \in Result /\ results' = [results EXCEPT ![n] = result]
  BY <1>2, <1>4 DEF Result
<1>8. /\ results' \in [Names -> Result \cup {None}]
      /\ results'[n].passenger_refund = refund
      /\ results'[n].airline_amount = x - refund
      /\ \A m \in Names : m # n => results'[m] = results[m]
  <2>1. /\ results' \in [Names -> Result \cup {None}]
        /\ results'[n] = result
        /\ \A m \in Names : m # n => results'[m] = results[m]
    <3> HIDE DEF result
    <3> QED  BY <1>7 DEF BeliefInv
  <2> QED  BY <2>1
<1>9. Ids' = Ids
  BY <1>2 DEF Ids
<1> HIDE DEF x, id
<1>10. ASSUME NEW m \in cancelled'
       PROVE  LET i == booking_map'[m]
              IN  /\ i \in Ids'
                  /\ bookings'[i].status = "cancelled"
                  /\ results'[m].passenger_refund = flow'[i].to_passenger
                  /\ results'[m].airline_amount = flow'[i].to_airline
                  /\ \A l \in cancelled' : booking_map'[l] = i => l = m
  <2>1. CASE m = n
    BY <1>2, <1>5, <1>6, <1>8, <1>9, <2>1 DEF id
  <2>2. CASE m # n
    <3>1. m \in cancelled /\ m \in Names
      BY <1>2, <2>2 DEF BeliefInv
    <3>2. booking_map[m] \in Ids /\ booking_map[m] # id
      BY <1>6, <3>1 DEF BeliefInv, CancelledMeansSettled
    <3>3. /\ bookings'[booking_map[m]] = bookings[booking_map[m]]
          /\ flow'[booking_map[m]] = flow[booking_map[m]]
          /\ results'[m] = results[m]
      BY <1>5, <1>8, <2>2, <3>1, <3>2
    <3> QED
      BY <1>2, <1>9, <3>1, <3>2, <3>3 DEF BeliefInv, CancelledMeansSettled, id
  <2> QED  BY <2>1, <2>2
<1>11. CancelledMeansSettled'
  BY <1>10 DEF CancelledMeansSettled
<1> QED
  BY <1>1, <1>2, <1>8, <1>11 DEF BeliefInv

\* The belief holds throughout.
LEMMA BeliefAlways == AutomationSpec => []BeliefInv
<1>1. BeliefInv /\ [AutomationNext]_<<vars, refundVars, automationVars>> => BeliefInv'
  BY AutomationSteps, BeliefEscrowStep, BeliefRegister, BeliefSettlement
<1> QED  BY BeliefInit, <1>1, PTL DEF AutomationSpec

\* A name the automation marks as cancelled is of a booking it cancelled, it and
\* no other name, and the parts it reported are those that left the escrow.
THEOREM CancelledMeansSettledAlways == AutomationSpec => []CancelledMeansSettled
<1>1. BeliefInv => CancelledMeansSettled
  BY DEF BeliefInv
<1> QED  BY <1>1, BeliefAlways, PTL

-----------------------------------------------------------------------------
(***************************************************************************)
(* The refund contract's books, with the automation writing to them.  Its  *)
(* own calls keep RefundProofs' invariant; automate_refund's call is one   *)
(* of them, once the id and the passenger it passes are known to be real.  *)
(* A batch stores and announces many requests in one transaction.          *)
(***************************************************************************)

\* Approved requests for 0, appended with an announcement each, in order: their
\* numbers are new, so no announcement names one of them already, and zeros
\* leave every total as it is.
LEMMA ApprovedBatchHolds ==
  ASSUME BooksInv, NEW m \in Nat, NEW q \in [1..m -> Request],
         \A k \in 1..m : q[k].status = "approved",
         requests' = requests \o q,
         settled' = settled \o [k \in 1..m |->
             [booking_id |-> q[k].booking_id, amount |-> 0, by |-> Len(requests) + k]],
         UNCHANGED <<total_refunded, idempotency, policies>>
  PROVE  BooksInv'
<1> DEFINE l == Len(requests)
           n == Len(settled)
           a == [k \in 1..m |-> [booking_id |-> q[k].booking_id, amount |-> 0, by |-> l + k]]
<1>1. /\ l \in Nat /\ n \in Nat
      /\ requests \in Seq(Request) /\ settled \in Seq(Announcement)
  BY DEF BooksInv, RefundTypeOK
<1>2. ASSUME NEW k \in 1..m
      PROVE  q[k] \in Request /\ q[k].booking_id \in BookingIds
  BY DEF Request
<1>3. a \in Seq(Announcement) /\ Len(a) = m /\ q \in Seq(Request) /\ Len(q) = m
  <2>1. \A k \in 1..m : a[k] \in Announcement
    BY <1>1, <1>2 DEF Announcement
  <2> QED  BY <2>1
<1>4. /\ requests' \in Seq(Request)
      /\ Len(requests') = l + m
      /\ \A i \in 1..l : requests'[i] = requests[i]
      /\ \A i \in (l + 1)..(l + m) : i - l \in 1..m /\ requests'[i] = q[i - l]
  <2>1. requests' = requests \o q
    OBVIOUS
  <2>2. \A k \in (l + 1)..(l + m) : k - l \in 1..m
    BY <1>1
  <2> HIDE DEF a, n
  <2>3. requests' \in Seq(Request) /\ Len(requests') = l + m
    <3>1. \A s, t \in Seq(Request) :
            s \o t \in Seq(Request) /\ Len(s \o t) = Len(s) + Len(t)
      OBVIOUS
    <3>2. requests \o q \in Seq(Request) /\ Len(requests \o q) = l + m
      BY <1>1, <1>3, <3>1
    <3> QED  BY <2>1, <3>2
  <2>4. \A k \in 1..l : requests'[k] = requests[k]
    BY <1>1, <1>3, <2>1
  <2>5. \A k \in (l + 1)..(l + m) : requests'[k] = q[k - l]
    BY <1>1, <1>3, <2>1, <2>2
  <2> QED  BY <2>2, <2>3, <2>4, <2>5
<1>5. /\ settled' \in Seq(Announcement)
      /\ Len(settled') = n + m
      /\ \A i \in 1..n : settled'[i] = settled[i]
      /\ \A i \in (n + 1)..(n + m) : i - n \in 1..m /\ settled'[i] = a[i - n]
  <2> HIDE DEF a
  <2> QED  BY <1>1, <1>3 DEF a
<1>6. \A i \in (n + 1)..(n + m) :
        /\ settled'[i].booking_id = q[i - n].booking_id
        /\ settled'[i].amount = 0
        /\ settled'[i].by = l + (i - n)
  BY <1>5
<1> HIDE DEF a
<1>7. \A i \in 1..(n + m) : i \in 1..n \/ i \in (n + 1)..(n + m)
  BY <1>1
<1>8. \A i \in 1..(l + m) : i \in 1..l \/ i \in (l + 1)..(l + m)
  BY <1>1
<1>9. RefundTypeOK'
  BY <1>4, <1>5 DEF BooksInv, RefundTypeOK
<1>10. TotalsAddUp'
  <2> SUFFICES ASSUME NEW b \in BookingIds
               PROVE  total_refunded[b] = SumTo(Shares(b)', n + m)
    BY <1>5 DEF TotalsAddUp, Shares
  <2> DEFINE f == Shares(b)
             e == Shares(b)'
  <2>1. total_refunded[b] = SumTo(f, n)
    BY DEF BooksInv, TotalsAddUp, Shares
  <2>2. \A i \in 1..n : settled[i] \in Announcement
    BY <1>1
  <2>3. \A i \in 1..n : f[i] \in Int /\ e[i] = f[i]
    BY <1>1, <1>5, <2>2 DEF Shares, Announcement
  <2>4. \A i \in (n + 1)..(n + m) : e[i] = 0
    BY <1>1, <1>5, <1>6 DEF Shares
  <2>5. SumTo(e, n + m) = SumTo(f, n)
    <3>1. n \in Nat /\ m \in Nat
      BY <1>1
    <3> HIDE DEF f, e, n
    <3> QED  BY <2>3, <2>4, <3>1, SumToPad
  <2>6. SumTo(e, n + m) = total_refunded[b]
    <3> HIDE DEF e, f
    <3> QED  BY <2>1, <2>5
  <2> QED  BY <2>6
<1>11. \A i \in 1..n : settled[i].by \in Nat => settled[i].by \in 1..l
  BY DEF BooksInv, Books, RequestsSettled
<1>12. SettledOnce'
  <2> SUFFICES ASSUME NEW i \in 1..(n + m), NEW j \in 1..(n + m),
                      settled'[i].booking_id = settled'[j].booking_id,
                      settled'[i].by = settled'[j].by
               PROVE  i = j
    BY <1>5 DEF SettledOnce
  <2>1. CASE i \in 1..n /\ j \in 1..n
    BY <1>5, <2>1 DEF BooksInv, Books, SettledOnce
  <2>2. CASE i \in (n + 1)..(n + m) /\ j \in (n + 1)..(n + m)
    BY <1>1, <1>6, <2>2
  <2>3. ASSUME NEW g \in 1..n, NEW h \in (n + 1)..(n + m) PROVE settled'[g].by # settled'[h].by
    <3>1. settled'[g].by = settled[g].by
      BY <1>5
    <3>2. settled'[h].by = l + (h - n) /\ l + (h - n) \in Nat /\ ~ (l + (h - n) \in 1..l)
      BY <1>1, <1>6
    <3> QED  BY <1>11, <3>1, <3>2
  <2> QED  BY <1>7, <2>1, <2>2, <2>3
<1>13. RequestsSettled'
  <2> SUFFICES ASSUME NEW i \in 1..(n + m), settled'[i].by \in Nat
               PROVE  /\ settled'[i].by \in 1..(l + m)
                      /\ settled'[i].booking_id = requests'[settled'[i].by].booking_id
    BY <1>4, <1>5 DEF RequestsSettled
  <2>1. CASE i \in 1..n
    <3>1. /\ settled[i].by \in 1..l
          /\ settled[i].booking_id = requests[settled[i].by].booking_id
      BY <1>5, <2>1 DEF BooksInv, Books, RequestsSettled
    <3> QED  BY <1>1, <1>4, <1>5, <2>1, <3>1
  <2>2. CASE i \in (n + 1)..(n + m)
    <3> DEFINE r == l + (i - n)
    <3>1. r \in (l + 1)..(l + m) /\ r - l = i - n /\ r \in 1..(l + m)
      BY <1>1, <2>2
    <3>2. requests'[r] = q[i - n]
      BY <1>4, <3>1
    <3> QED  BY <1>6, <2>2, <3>1, <3>2
  <2> QED  BY <1>7, <2>1, <2>2
<1>14. ASSUME NEW b, NEW d, ~ (d \in (l + 1)..(l + m))
       PROVE  IsSettled(b, d)' <=> IsSettled(b, d)
  <2>1. IsSettled(b, d)' <=> \E i \in 1..(n + m) : settled'[i].by = d /\ settled'[i].booking_id = b
    BY <1>5 DEF IsSettled
  <2>2. \A i \in (n + 1)..(n + m) : settled'[i].by # d
    BY <1>1, <1>6, <1>14
  <2>3. \A i \in 1..n : i \in 1..(n + m)
    BY <1>1
  <2> QED  BY <1>5, <1>7, <2>1, <2>2, <2>3 DEF IsSettled
<1>15. RequestsMarked'
  <2> SUFFICES ASSUME NEW r \in 1..(l + m)
               PROVE  requests'[r].status = "approved" <=> IsSettled(requests[r].booking_id, r)'
    BY <1>4 DEF RequestsMarked
  <2>1. CASE r \in 1..l
    <3> DEFINE c == requests[r].booking_id
               d == requests'[r].booking_id
    <3>1. ~ (r \in (l + 1)..(l + m))
      BY <1>1, <2>1
    <3>2. requests'[r] = requests[r] /\ c = d
      BY <1>4, <2>1
    <3>3. requests[r].status = "approved" <=> IsSettled(c, r)
      BY <2>1 DEF BooksInv, Books, RequestsMarked
    <3>4. \A b : IsSettled(b, r)' <=> IsSettled(b, r)
      BY <1>14, <3>1
    <3>5. IsSettled(requests[r].booking_id, r)' <=> IsSettled(d, r)
      BY <3>4 DEF IsSettled
    <3> QED  BY <3>2, <3>3, <3>5
  <2>2. CASE r \in (l + 1)..(l + m)
    <3> DEFINE i == n + (r - l)
    <3>1. i \in (n + 1)..(n + m) /\ i - n = r - l /\ i \in 1..(n + m) /\ l + (i - n) = r
      BY <1>1, <2>2
    <3>2. requests'[r] = q[r - l] /\ r - l \in 1..m
      BY <1>4, <2>2
    <3>3. settled'[i].by = r /\ settled'[i].booking_id = requests'[r].booking_id
      BY <1>6, <3>1, <3>2
    <3> HIDE DEF i
    <3> QED  BY <1>5, <3>1, <3>2, <3>3 DEF IsSettled
  <2> QED  BY <1>8, <2>1, <2>2
<1>16. KeysMarked'
  <2>1. \A k \in Keys : ~ (k \in (l + 1)..(l + m))
    BY <1>1, RefundAssumption DEF RefundAssumption
  <2> QED  BY <1>14, <2>1 DEF BooksInv, Books, KeysMarked
<1> QED
  BY <1>9, <1>10, <1>12, <1>13, <1>15, <1>16 DEF BooksInv, Books

\* A booking with an id the automation may have been given is one the refund
\* contract knows the id and the passenger of.
LEMMA RealBooking ==
  ASSUME BeliefInv, NEW n \in Names, booking_map[n] \in Ids
  PROVE  /\ booking_map[n] \in BookingIds
         /\ bookings[booking_map[n]].passenger \in Accounts
         /\ bookings[booking_map[n]].amount_escrowed \in Nat
<1>1. TypeOK /\ booking_map[n] \in BookingIds \cup {None}
  BY DEF BeliefInv, IInv
<1>2. booking_map[n] # None
  BY <1>1, AutomationAssumption DEF AutomationAssumption, Ids, TypeOK
<1>3. bookings[booking_map[n]] \in Booking
  BY <1>1 DEF TypeOK
<1> QED  BY <1>1, <1>2, <1>3 DEF Booking

\* The request automate_refund files is one anyone may file.
LEMMA AutomateRefundHolds ==
  ASSUME BeliefInv, BooksInv, NEW n \in Names, NEW caller \in Accounts,
         AutomateRefund(n, caller)
  PROVE  BooksInv'
<1> DEFINE id == booking_map[n]
           x == bookings[id].amount_escrowed
           bps == RefundBps(Tier(bookings[id].departure_time))
           share == PassengerShare(x, bps)
<1>1. id \in Ids
  BY DEF AutomateRefund, Settlement
<1>2. id \in BookingIds /\ bookings[id].passenger \in Accounts /\ x \in Nat
  BY <1>1, RealBooking
<1>3. bps \in Nat /\ bps <= 10000
  <2>1. bps \in Nat
    BY TierShare, NumbersAssumption DEF NumbersAssumption
  <2>2. bps <= 10000
    BY DEF AutomateRefund, Settlement, SettleCancellation
  <2> QED  BY <2>1, <2>2
<1>4. share \in Int
  <2> HIDE DEF x, bps
  <2> QED  BY <1>2, <1>3, ShareBound DEF share
<1>5. \/ RequestRefund(bookings[id].passenger, id, share)
      \/ UNCHANGED refundVars
  BY DEF AutomateRefund
<1> HIDE DEF share, id
<1>6. CASE UNCHANGED refundVars
  BY <1>6, RefundStepHolds
<1>7. CASE RequestRefund(bookings[id].passenger, id, share)
  BY <1>2, <1>4, <1>7, RequestHolds
<1> QED  BY <1>5, <1>6, <1>7

\* The requests of a batch are of bookings that were cancelled.
LEMMA BatchRefundsHold ==
  ASSUME BeliefInv, BooksInv, NEW m \in Nat, NEW names \in [1..m -> Names],
         ProcessBatchRefunds(names)
  PROVE  BooksInv'
<1> DEFINE q == [k \in 1..m |-> BatchRequest(names[k])]
<1>1. Len(names) = m
  OBVIOUS
<1>2. ASSUME NEW k \in 1..m
      PROVE  /\ BatchRequest(names[k]) \in Request
             /\ BatchRequest(names[k]).status = "approved"
             /\ BatchRequest(names[k]).booking_id = booking_map[names[k]]
  <2>1. names[k] \in cancelled /\ names[k] \in Names
    BY <1>1 DEF ProcessBatchRefunds
  <2>2. booking_map[names[k]] \in Ids
    BY <2>1 DEF BeliefInv, CancelledMeansSettled
  <2>3. /\ booking_map[names[k]] \in BookingIds
        /\ bookings[booking_map[names[k]]].passenger \in Accounts
    BY <2>1, <2>2, RealBooking
  <2> QED  BY <2>3 DEF BatchRequest, Request
<1>3. q \in [1..m -> Request] /\ \A k \in 1..m : q[k].status = "approved"
  BY <1>2
<1>4. [k \in 1..m |-> [booking_id |-> booking_map[names[k]], amount |-> 0,
                       by |-> Len(requests) + k]]
      = [k \in 1..m |-> [booking_id |-> q[k].booking_id, amount |-> 0,
                         by |-> Len(requests) + k]]
  BY <1>2
<1>5. /\ requests' = requests \o q
      /\ settled' = settled \o [k \in 1..m |->
              [booking_id |-> q[k].booking_id, amount |-> 0, by |-> Len(requests) + k]]
      /\ UNCHANGED <<total_refunded, idempotency, policies>>
  BY <1>1, <1>4 DEF ProcessBatchRefunds
<1> HIDE DEF q
<1> QED  BY <1>3, <1>5, ApprovedBatchHolds

\* Every step of the composition keeps the refund contract's books.
LEMMA AutomationBooksStep ==
  ASSUME BeliefInv, BooksInv, [AutomationNext]_<<vars, refundVars, automationVars>>
  PROVE  BooksInv'
<1>1. CASE [RefundNext]_refundVars
  BY <1>1, RefundStepHolds
<1>2. ASSUME NEW n \in Names, NEW caller \in Accounts, AutomateRefund(n, caller)
      PROVE  BooksInv'
  BY <1>2, AutomateRefundHolds
<1>3. ASSUME NEW k \in 1..MaxRefundBatch, NEW names \in [1..k -> Names],
             ProcessBatchRefunds(names)
      PROVE  BooksInv'
  BY <1>3, BatchRefundsHold, AutomationAssumption DEF AutomationAssumption
<1> QED
  BY <1>1, <1>2, <1>3 DEF AutomationNext, RegisterBooking, CancelBooking

\* The books hold throughout.
LEMMA AutomationBooksAlways == AutomationSpec => []BooksInv
<1>1. AutomationInit => BooksInv
  BY RefundInitHolds DEF AutomationInit
<1> QED
  BY <1>1, AutomationBooksStep, BeliefAlways, PTL DEF AutomationSpec

\* The refund contract's totals and announcements stay right when the automation
\* files and approves requests in the same transactions as it settles escrows.
THEOREM BooksStayRightAlways == AutomationSpec => []BooksStayRight
<1>1. BooksInv => BooksStayRight
  BY BooksAreAnnouncements DEF BooksInv, BooksStayRight
<1> QED  BY <1>1, AutomationBooksAlways, PTL

\* The three contracts keep what their declarations say: the automation's map,
\* marks and results, the escrow and the refund contract it writes to.
THEOREM AutomationTypeCorrect == AutomationSpec => []AutomationTypeOK
<1>1. BeliefInv /\ BooksInv => AutomationTypeOK
  BY DEF BeliefInv, BooksInv, AutomationTypeOK, IInv, Result
<1> QED  BY <1>1, BeliefAlways, AutomationBooksAlways, PTL
=============================================================================
