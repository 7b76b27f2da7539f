---------------------------- MODULE MCFlightOracle ----------------------------
(***************************************************************************)
(* FlightOracle on small instances.                                        *)
(***************************************************************************)
EXTENDS FlightOracle, TLC

MCPrices == {2}
MCBps == {5000}
MCDepartures == {2}
MCStakes == {0, 1}
MCThresholds == {0, 2}
Symmetric == UNION {Permutations(Providers), Permutations(Flights), Permutations(Owners)}
=============================================================================
