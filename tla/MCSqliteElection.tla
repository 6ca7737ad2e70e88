-------------------------- MODULE MCSqliteElection --------------------------
(* Instances of SqliteElection for TLC: a heartbeat is two ticks.          *)
EXTENDS SqliteElection

TwoNodes == {1, 2}
\* Rendezvous order that differs from the order of the ids.
ScoreOf == [n \in Nodes |-> IF n = 2 THEN 9 ELSE n]
=============================================================================
