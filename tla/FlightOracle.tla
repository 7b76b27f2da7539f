----------------------------- MODULE FlightOracle -----------------------------
(***************************************************************************)
(* The flight oracle (contracts/packages/oracle) in front of the booking   *)
(* contract.  Registered providers report flight statuses; once enough     *)
(* reports agree, anyone may have the oracle release a booking's escrow to *)
(* the airline or refund it to the passenger.  The booking contract's two  *)
(* oracle entrypoints need the trusted oracle's authorization, which this  *)
(* contract gives only inside its verify_ entrypoints, so here they are    *)
(* called from nowhere else.                                               *)
(***************************************************************************)
EXTENDS BookingEscrow

CONSTANTS
    FlightOracleId,   \* this contract's address, one of Oracles
    Owners,           \* addresses that may own or administer it
    Providers,        \* addresses that may be registered
    Flights,          \* flight numbers
    Stakes,           \* stakes and minimum stakes (an i128)
    Thresholds,       \* consensus thresholds (a u32)
    MaxReports        \* bound: reports per flight and booking

ASSUME OracleAssumption ==
    /\ FlightOracleId \in Oracles
    /\ None \notin Owners
    /\ Stakes \subseteq Int
    /\ Thresholds \subseteq Nat
    /\ MaxReports \in Nat

VARIABLES
    owner, roles,  \* the contract's AccessControl state
    cfg,           \* OracleConfig, or None
    stake,         \* OracleProvider.stake by address; 0 when not registered
    reports,       \* FlightStatusReport sequences, by flight and booking id
    count,         \* status_count, by flight, booking id and status
    verdicts       \* per booking: the (oracle, settled) and (oracle, refunded) events

oracleVars == <<owner, roles, cfg, stake, reports, count, verdicts>>

Access == INSTANCE AccessControl WITH Addresses <- Owners, NoOwner <- None

Outcomes == {"completed", "cancelled"}

\* Nothing checks that a reported booking exists.
ReportedIds == 1..MaxBookings

OracleTypeOK ==
    /\ TypeOK
    /\ Access!TypeOK
    /\ cfg \in [min_stake : Stakes, consensus_threshold : Thresholds] \cup {None}
    /\ stake \in [Providers -> Stakes \cup {0}]
    /\ reports \in [Flights \X ReportedIds -> Seq([status : Outcomes, provider : Providers])]
    /\ count \in [Flights \X ReportedIds \X Outcomes -> Nat]
    /\ verdicts \in [ReportedIds -> Seq(Outcomes)]

OracleInit ==
    /\ Init
    /\ Access!Init
    /\ cfg = None
    /\ stake = [p \in Providers |-> 0]
    /\ reports = [k \in Flights \X ReportedIds |-> <<>>]
    /\ count = [k \in Flights \X ReportedIds \X Outcomes |-> 0]
    /\ verdicts = [id \in ReportedIds |-> <<>>]

Initialize(admin, min_stake, consensus_threshold) ==
    /\ Idle
    /\ cfg = None
    /\ Access!InitOwner(admin)
    /\ min_stake > 0
    /\ consensus_threshold > 0
    /\ cfg' = [min_stake |-> min_stake, consensus_threshold |-> consensus_threshold]
    /\ UNCHANGED <<vars, stake, reports, count, verdicts>>

RegisterOracleProvider(admin, provider, amount) ==
    /\ Idle
    /\ Access!HasRole(admin, "Admin")
    /\ cfg # None
    /\ amount >= cfg.min_stake
    /\ stake[provider] = 0
    /\ stake' = [stake EXCEPT ![provider] = amount]
    /\ UNCHANGED <<vars, owner, roles, cfg, reports, count, verdicts>>

\* Providers are never slashed, and the proof is a hash of the booking id and
\* the report's own timestamp, which whoever reports can compute.
SubmitFlightStatus(provider, flight, id, status) ==
    /\ Idle
    /\ stake[provider] # 0
    /\ Len(reports[<<flight, id>>]) < MaxReports
    /\ reports' = [reports EXCEPT ![<<flight, id>>] =
                      Append(@, [status |-> status, provider |-> provider])]
    /\ count' = [count EXCEPT ![<<flight, id, status>>] = @ + 1]
    /\ UNCHANGED <<vars, owner, roles, cfg, stake, verdicts>>

\* Mutant: every report counts, whatever status it reports.
HasConsensusOfAny(flight, id, status) ==
    /\ cfg # None
    /\ Len(reports[<<flight, id>>]) >= cfg.consensus_threshold

HasConsensus(flight, id, status) ==
    /\ cfg # None
    /\ count[<<flight, id, status>>] >= cfg.consensus_threshold

\* Anyone may call it, with any flight number.
VerifyFlightCompletion(flight, id) ==
    /\ HasConsensus(flight, id, "completed")
    /\ OracleReleasePayment(FlightOracleId, id)
    /\ verdicts' = [verdicts EXCEPT ![id] = Append(@, "completed")]
    /\ UNCHANGED <<owner, roles, cfg, stake, reports, count>>

\* Mutant: the event carries the booking's new status.
VerifyAirlineCancellationRefunded(flight, id) ==
    /\ HasConsensus(flight, id, "cancelled")
    /\ OracleRefundAirlineCancel(FlightOracleId, id)
    /\ verdicts' = [verdicts EXCEPT ![id] = Append(@, "refunded")]
    /\ UNCHANGED <<owner, roles, cfg, stake, reports, count>>

VerifyAirlineCancellation(flight, id) ==
    /\ HasConsensus(flight, id, "cancelled")
    /\ OracleRefundAirlineCancel(FlightOracleId, id)
    /\ verdicts' = [verdicts EXCEPT ![id] = Append(@, "cancelled")]
    /\ UNCHANGED <<owner, roles, cfg, stake, reports, count>>

ManageRoles == Idle /\ Access!Manage /\ UNCHANGED <<vars, cfg, stake, reports, count, verdicts>>

OracleNext ==
    \/ (PartyStep \/ OracleStep(Oracles \ {FlightOracleId})) /\ UNCHANGED oracleVars
    \/ \E a \in Owners, m \in Stakes, t \in Thresholds : Initialize(a, m, t)
    \/ \E a \in Owners, p \in Providers, x \in Stakes : RegisterOracleProvider(a, p, x)
    \/ \E p \in Providers, f \in Flights, id \in ReportedIds, s \in Outcomes :
          SubmitFlightStatus(p, f, id, s)
    \/ \E f \in Flights, id \in Ids :
          VerifyFlightCompletion(f, id) \/ VerifyAirlineCancellation(f, id)
    \/ ManageRoles

OracleSpec == OracleInit /\ [][OracleNext]_<<vars, oracleVars>>

(***************************************************************************)
(* Properties.                                                             *)
(***************************************************************************)

\* The counters are never reset and both outcomes may reach the threshold, yet
\* a booking is settled by the oracle at most once; when it is, enough reports
\* of that outcome stand behind it and the whole payment went to the side the
\* outcome names.
SettledOnceByConsensus ==
    \A id \in Ids :
        /\ Len(verdicts[id]) <= 1
        /\ verdicts[id] # <<>> =>
              LET s == verdicts[id][1]
              IN  /\ \E f \in Flights :
                        count[<<f, id, s>>] >= cfg.consensus_threshold
                  /\ IF s = "completed"
                     THEN /\ bookings[id].status = "completed"
                          /\ flow[id].to_airline = flow[id].paid
                     ELSE /\ bookings[id].status = "refunded"
                          /\ flow[id].to_passenger = flow[id].paid
=============================================================================
