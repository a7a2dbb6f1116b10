------------------------- MODULE MCReleasePipeline -------------------------
(***************************************************************************)
(* ReleasePipeline with two merges, the second of which may change the     *)
(* version in package.json, and at most one tag that was set by hand.      *)
(***************************************************************************)
EXTENDS ReleasePipeline, FiniteSets

MCInit ==
  /\ Init
  /\ base[1] = 2
  /\ Cardinality({v \in Versions : tags[v] = Foreign}) <= 1
  /\ \A v \in Versions \ {2, 3} : tags[v] = Nobody

MCSpec == MCInit /\ [][Next]_vars

MCFairSpec == MCSpec /\ Fairness
=============================================================================
