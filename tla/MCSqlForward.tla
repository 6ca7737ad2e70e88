---------------------------- MODULE MCSqlForward ----------------------------
(* Instances of SqlForward: node 2 owns the site until it is gone, or until *)
(* node 3, which comes first in the site's order, has joined.              *)
EXTENDS SqlForward

CONSTANTS c1

ThreeNodes == 1 .. 3
FirstTwo == 1 .. 2
OneClient == {c1}
OnForwarder == [c \in Clients |-> 1]
OnOwner == [c \in Clients |-> 2]
=============================================================================
