---------------------------- MODULE MCEnrolment ----------------------------
(***************************************************************************)
(* TLC instance of Enrolment: a user, two keys, two logins, two rows       *)
(* inserted and three permissions given.                                   *)
(***************************************************************************)
EXTENDS Enrolment, TLC

CONSTANTS u1, k1, k2, l1, l2

OneUser == {u1}
TwoKeys == {k1, k2}
TwoLogins == {l1, l2}
Symmetry == Permutations(TwoKeys) \cup Permutations(TwoLogins)
=============================================================================
