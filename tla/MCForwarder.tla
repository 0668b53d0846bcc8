----------------------------- MODULE MCForwarder -----------------------------
(***************************************************************************)
(* TLC instance of Forwarder: a service, two connections to the server in  *)
(* a row, two local connections and a caller of Stop.                      *)
(***************************************************************************)
EXTENDS Forwarder

CONSTANTS s1, l1, l2, c1

OneService == {s1}
TwoLocals == {l1, l2}
OneCaller == {c1}
=============================================================================
