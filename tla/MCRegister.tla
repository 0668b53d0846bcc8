----------------------------- MODULE MCRegister -----------------------------
(***************************************************************************)
(* TLC instance of Register: two connections of one access point, which    *)
(* share a key of the outer map; two services, one of them with a          *)
(* load_balancers row; three listeners, so that a client can register the  *)
(* same service twice while the other one is registered.                   *)
(***************************************************************************)
EXTENDS Register

CONSTANTS a1, x1, x2, s1, s2, l1, l2, l3

MCAps == {a1}
MCClients == {x1, x2}
MCApOf == [c \in Clients |-> a1]
MCServices == {s1, s2}
TwoListeners == {l1, l2}
ThreeListeners == {l1, l2, l3}
OneRow == {<<a1, s1>>}
=============================================================================
