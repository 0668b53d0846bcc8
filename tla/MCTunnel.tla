------------------------------ MODULE MCTunnel ------------------------------
(***************************************************************************)
(* TLC instance of Tunnel: two connections of one access point, two        *)
(* services, one of them with a load_balancers row, so that a registration *)
(* can wedge the register, and a call that names a client.                 *)
(***************************************************************************)
EXTENDS Tunnel

CONSTANTS a1, x1, x2, s1, s2, l1, l2, q1

MCAps == {a1}
MCClients == {x1, x2}
MCApOf == [c \in Clients |-> a1]
MCServices == {s1, s2}
TwoListeners == {l1, l2}
OneRow == {<<a1, s2>>}
OneCall == {q1}
MCWant == [q \in Calls |-> [ap |-> a1, svc |-> s1, addr |-> x1]]
=============================================================================
