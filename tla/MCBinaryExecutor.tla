-------------------------- MODULE MCBinaryExecutor --------------------------
(* Finite instances of BinaryExecutor for TLC. *)
EXTENDS BinaryExecutor, TLC

\* A rebuilt binary reports the same version.
Versions3 == <<"1.0.0", "1.0.0", "1.1.0">>
Versions2 == <<"1.0.0", "1.1.0">>
OneVersion == <<"1.0.0">>

Symmetry == Permutations(Caller)
=============================================================================
