----------------------------- MODULE MCGossipKv -----------------------------
(* Instances of GossipKv for TLC.                                          *)
EXTENDS GossipKv

TwoNodes == {1, 2}
ThreeNodes == {1, 2, 3}
OneEach == {<<1, 1>>, <<2, 1>>}
TwoAndOne == {<<1, 1>>, <<1, 2>>, <<2, 1>>}
=============================================================================
