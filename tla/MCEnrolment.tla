----------------------------- MODULE MCEnrolment -----------------------------
(***************************************************************************)
(* Instances of Enrolment: one phone and the senders that claim its keys.  *)
(***************************************************************************)
EXTENDS Enrolment, TLC

CONSTANTS c1, c2

Symmetry == Permutations(Claims)
=============================================================================
