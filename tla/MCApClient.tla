----------------------------- MODULE MCApClient -----------------------------
(***************************************************************************)
(* TLC instance of ApClient: two services and two connections, one after   *)
(* the other, with a reconnect that may overtake a sleeping registrar.     *)
(***************************************************************************)
EXTENDS ApClient

CONSTANTS s1, s2

TwoServices == {s1, s2}
=============================================================================
