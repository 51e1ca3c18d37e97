------------------------------ MODULE MCAlerts ------------------------------
(***************************************************************************)
(* Alerts of long windows: the only ones where one report may hold two, a   *)
(* P1 that is announced and a P2 that is not.                               *)
(***************************************************************************)
EXTENDS Alerts, TLC

MCReports ==
    [t \in Timeframes |-> {<<"historical_hot">>, <<"historical_hot", "long_decline">>}]

Symmetry == Permutations(Keywords) \cup Permutations(Gprops)
=============================================================================
