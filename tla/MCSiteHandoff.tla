--------------------------- MODULE MCSiteHandoff ---------------------------
(* Instances of SiteHandoff for TLC: node 1 is the site's first choice.    *)
EXTENDS SiteHandoff

NoNode == {}
FirstNode == {1}
SecondNode == {2}
TwoNodes == {1, 2}
ThreeNodes == {1, 2, 3}
=============================================================================
