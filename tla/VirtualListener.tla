-------------------------- MODULE VirtualListener --------------------------
(***************************************************************************)
(* What a virtual listener promises to the goroutines that dial it and to  *)
(* the goroutine that accepts from it.  ChanListener implements this.      *)
(*                                                                         *)
(* A dial is answered by an established pipe or by a refusal, and may be   *)
(* left without an answer only when the listener was closed before the     *)
(* dial reached it.  The far end of every established pipe is delivered to *)
(* the accept loop, or closed because the listener closed meanwhile: it is *)
(* never forgotten.                                                        *)
(***************************************************************************)
CONSTANT Dialers

VARIABLES
    phase,     \* of the listener: "open", then "closed"
    call,      \* what each dialer knows of its call
    far        \* what became of the far end of each dialer's pipe

vars == <<phase, call, far>>

Init ==
    /\ phase = "open"
    /\ call = [d \in Dialers |-> "idle"]
    /\ far = [d \in Dialers |-> "none"]

\* The dial is offered to an accept loop that will take it.
Offer(d) ==
    /\ phase = "open"
    /\ call[d] = "idle"
    /\ call' = [call EXCEPT ![d] = "offered"]
    /\ UNCHANGED <<phase, far>>

\* The accept loop takes an offered dial: both sides are connected.
Connect(d) ==
    /\ phase = "open"
    /\ call[d] = "offered"
    /\ call' = [call EXCEPT ![d] = "connected"]
    /\ far' = [far EXCEPT ![d] = "accepted"]
    /\ UNCHANGED phase

\* The far end is delivered to the loop's caller.
Deliver(d) ==
    /\ far[d] = "accepted"
    /\ far' = [far EXCEPT ![d] = "delivered"]
    /\ UNCHANGED <<phase, call>>

\* The listener closed while the far end was in the loop's hands.
Discard(d) ==
    /\ phase = "closed"
    /\ far[d] = "accepted"
    /\ far' = [far EXCEPT ![d] = "closed"]
    /\ UNCHANGED <<phase, call>>

\* The close refuses at once every dial that is offered and not yet taken.
Close ==
    /\ phase = "open"
    /\ phase' = "closed"
    /\ call' = [d \in Dialers |->
                  IF call[d] = "offered" THEN "refused" ELSE call[d]]
    /\ UNCHANGED far

\* A dial that finds the listener closed is refused or never answered.
Miss(d) ==
    /\ phase = "closed"
    /\ call[d] = "idle"
    /\ \E answer \in {"refused", "unanswered"} :
          call' = [call EXCEPT ![d] = answer]
    /\ UNCHANGED <<phase, far>>

Next ==
    \/ Close
    \/ \E d \in Dialers :
          Offer(d) \/ Connect(d) \/ Deliver(d) \/ Discard(d) \/ Miss(d)

Fairness ==
    \A d \in Dialers : WF_vars(Connect(d)) /\ WF_vars(Deliver(d) \/ Discard(d))

Spec == Init /\ [][Next]_vars /\ Fairness
=============================================================================
