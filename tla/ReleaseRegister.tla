-------------------------- MODULE ReleaseRegister --------------------------
(***************************************************************************)
(* What the managed updater promises about the two pointer files: a        *)
(* register of the release that is trusted and of the one that is active.  *)
(* The trusted release only moves to a newer version, and only the trusted *)
(* release becomes active, in a step of its own, possibly never.           *)
(***************************************************************************)
EXTENDS Naturals

CONSTANTS Releases, NoRelease

VARIABLES accepted, current

Init == accepted = NoRelease /\ current = NoRelease

Adopt(r) ==
  /\ accepted # NoRelease => r.v > accepted.v
  /\ accepted' = r
  /\ UNCHANGED current

Activate ==
  /\ accepted # NoRelease
  /\ current' = accepted
  /\ UNCHANGED accepted

Next == Activate \/ \E r \in Releases : Adopt(r)

Spec == Init /\ [][Next]_<<accepted, current>>
=============================================================================
