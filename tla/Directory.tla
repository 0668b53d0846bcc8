------------------------------ MODULE Directory ------------------------------
(***************************************************************************)
(* What the register of reverse forwards promises to the requests that     *)
(* look services up: a directory in which every client offers, for each    *)
(* service, at most one listener.  A client that goes away withdraws all   *)
(* its offers in one step, nobody else's, and the listeners it withdraws   *)
(* never come back.  Register implements this.                             *)
(***************************************************************************)
CONSTANTS Clients, Services, Listeners, None

VARIABLES
    offer,       \* offer[c][s]: the listener that c offers for s, or None
    withdrawn    \* listeners that were offered by clients that went away

vars == <<offer, withdrawn>>

NoOffers == [s \in Services |-> None]
OfferedBy(c) == {offer[c][s] : s \in Services} \ {None}

Init ==
    /\ offer = [c \in Clients |-> NoOffers]
    /\ withdrawn = {}

Publish(c, s, l) ==
    /\ l \notin withdrawn
    /\ \A d \in Clients : l \notin OfferedBy(d)
    /\ offer' = [offer EXCEPT ![c][s] = l]
    /\ UNCHANGED withdrawn

Withdraw(c) ==
    /\ offer' = [offer EXCEPT ![c] = NoOffers]
    /\ withdrawn' = withdrawn \cup OfferedBy(c)

Next ==
    \E c \in Clients :
        \/ Withdraw(c)
        \/ \E s \in Services, l \in Listeners : Publish(c, s, l)

Spec == Init /\ [][Next]_vars
=============================================================================
