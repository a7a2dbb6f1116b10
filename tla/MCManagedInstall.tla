-------------------------- MODULE MCManagedInstall --------------------------
(* Finite instances of ManagedInstall for TLC. *)
EXTENDS ManagedInstall, TLC

R(v, g) == [v |-> v, g |-> g]

\* Two versions, the second one signed twice with different content.
TwoVersions == {R(1, "a"), R(2, "a"), R(2, "b")}
OneEach == {R(1, "a"), R(2, "a")}

Symmetry == Permutations(Proc)
=============================================================================
