---------------------------- MODULE ChanListener ----------------------------
(***************************************************************************)
(* server.ChanListener (src/server/net.go): the in-memory listener behind  *)
(* every forwarded service.  One goroutine of the ssh library accepts,     *)
(* HTTP request goroutines dial, and the goroutines that tear a connection *)
(* down close.  They share the field src, which Accept and Dial read       *)
(* without the mutex that Listen and Close take to write it.               *)
(*                                                                         *)
(* The module starts after Listen() returned: Listen is called exactly     *)
(* once, by the goroutine that made the listener, before it is shared.     *)
(* Each step below is one unsynchronised access to src or one operation of *)
(* the Go channel it points to.                                            *)
(***************************************************************************)
EXTENDS Naturals

CONSTANTS
    Dialers,    \* goroutines that call Dial, once each
    Closers,    \* goroutines that call Close, once each
    Nobody      \* the mutex has no holder, the accept loop no connection

ASSUME NobodyAssumption == Nobody \notin Dialers \cup Closers

VARIABLES
    src,        \* the field: "chan" or "nil"
    chan,       \* the channel itself: "open" or "closed"
    mu,         \* holder of l.mu, or Nobody
    apc,        \* the accept loop's place in Accept
    seen,       \* the value of src that Accept's first test read
    acon,       \* the dialer whose rConn Accept received, or Nobody
    dpc,        \* each dialer's place in Dial
    cpc,        \* each closer's place in Close
    rConn,      \* what became of the far end of each dialer's pipe
    closes,     \* how many times close(l.src) ran: a second one panics
    called      \* how many times the onClose callbacks ran

vars == <<src, chan, mu, apc, seen, acon, dpc, cpc, rConn, closes, called>>
chanVars == <<src, chan, closes, called>>
acceptVars == <<apc, seen, acon>>

AcceptStates == {"check", "load", "recv", "recheck", "ended", "hung"}
DialStates == {"idle", "send", "queued", "returned", "panicked", "hung"}
CloseStates == {"check", "lock", "recheck", "clear", "callbacks", "unlock", "done"}

Init ==
    /\ src = "chan"
    /\ chan = "open"
    /\ mu = Nobody
    /\ apc = "check"
    /\ seen = "nil"
    /\ acon = Nobody
    /\ dpc = [d \in Dialers |-> "idle"]
    /\ cpc = [c \in Closers |-> "check"]
    /\ rConn = [d \in Dialers |-> "none"]
    /\ closes = 0
    /\ called = 0

-----------------------------------------------------------------------------
(* Accept.  The ssh library calls it in a loop until it returns an error.  *)

AcceptCheck ==
    /\ apc = "check"
    /\ seen' = src
    /\ apc' = IF src = "nil" THEN "ended" ELSE "load"
    /\ UNCHANGED <<chanVars, mu, acon, dpc, cpc, rConn>>

\* The second read of src races with Close: the compiler may keep the first
\* value or load again.  A receive from a nil channel blocks for ever.
AcceptLoad ==
    /\ apc = "load"
    /\ \E v \in {seen, src} : apc' = IF v = "nil" THEN "hung" ELSE "recv"
    /\ UNCHANGED <<chanVars, mu, seen, acon, dpc, cpc, rConn>>

\* The receive takes a blocked sender ...
AcceptRecv(d) ==
    /\ apc = "recv"
    /\ dpc[d] = "queued"
    /\ dpc' = [dpc EXCEPT ![d] = "returned"]
    /\ acon' = d
    /\ rConn' = [rConn EXCEPT ![d] = "inhand"]
    /\ apc' = "recheck"
    /\ UNCHANGED <<chanVars, mu, seen, cpc>>

\* Mutant of AcceptEOF: the zero value is skipped and the receive repeated.
AcceptEOFSkipped ==
    /\ apc = "recv"
    /\ chan = "closed"
    /\ apc' = "load"
    /\ UNCHANGED <<chanVars, mu, seen, acon, dpc, cpc, rConn>>

\* ... or the zero value of a closed channel, and Accept returns io.EOF.
AcceptEOF ==
    /\ apc = "recv"
    /\ chan = "closed"
    /\ apc' = "ended"
    /\ UNCHANGED <<chanVars, mu, seen, acon, dpc, cpc, rConn>>

\* Mutants of AcceptRecheck: io.EOF without closing what was received, and the
\* second test of src inverted.
AcceptRecheckDrops ==
    /\ apc = "recheck"
    /\ apc' = IF src = "nil" THEN "ended" ELSE "check"
    /\ rConn' = IF src = "nil" THEN rConn ELSE [rConn EXCEPT ![acon] = "handed"]
    /\ acon' = Nobody
    /\ UNCHANGED <<chanVars, mu, seen, dpc, cpc>>

AcceptRecheckInverted ==
    /\ apc = "recheck"
    /\ apc' = IF src = "nil" THEN "check" ELSE "ended"
    /\ rConn' = [rConn EXCEPT ![acon] = IF src = "nil" THEN "handed" ELSE "closed"]
    /\ acon' = Nobody
    /\ UNCHANGED <<chanVars, mu, seen, dpc, cpc>>

\* A listener closed meanwhile makes Accept close what it received.
AcceptRecheck ==
    /\ apc = "recheck"
    /\ apc' = IF src = "nil" THEN "ended" ELSE "check"
    /\ rConn' = [rConn EXCEPT ![acon] = IF src = "nil" THEN "closed" ELSE "handed"]
    /\ acon' = Nobody
    /\ UNCHANGED <<chanVars, mu, seen, dpc, cpc>>

Accept ==
    AcceptCheck \/ AcceptLoad \/ AcceptEOF \/ AcceptRecheck
        \/ \E d \in Dialers : AcceptRecv(d)

-----------------------------------------------------------------------------
(* Dial: one read of src, then a send on what was read.                    *)

\* A send on a nil channel blocks for ever.
DialLoad(d) ==
    /\ dpc[d] = "idle"
    /\ dpc' = [dpc EXCEPT ![d] = IF src = "nil" THEN "hung" ELSE "send"]
    /\ UNCHANGED <<chanVars, mu, acceptVars, cpc, rConn>>

\* A send on a closed channel panics; net/http recovers it.
DialSend(d) ==
    /\ dpc[d] = "send"
    /\ dpc' = [dpc EXCEPT ![d] = IF chan = "closed" THEN "panicked" ELSE "queued"]
    /\ UNCHANGED <<chanVars, mu, acceptVars, cpc, rConn>>

Dial(d) == DialLoad(d) \/ DialSend(d)

-----------------------------------------------------------------------------
(* Close: test, lock, test again, close the channel, clear the field, run  *)
(* the callbacks, unlock.                                                  *)

CloseCheck(c) ==
    /\ cpc[c] = "check"
    /\ cpc' = [cpc EXCEPT ![c] = IF src = "nil" THEN "done" ELSE "lock"]
    /\ UNCHANGED <<chanVars, mu, acceptVars, dpc, rConn>>

CloseLock(c) ==
    /\ cpc[c] = "lock"
    /\ mu = Nobody
    /\ mu' = c
    /\ cpc' = [cpc EXCEPT ![c] = "recheck"]
    /\ UNCHANGED <<chanVars, acceptVars, dpc, rConn>>

\* Already closed: nothing left but the deferred unlock.
CloseLate(c) ==
    /\ cpc[c] = "recheck"
    /\ src = "nil"
    /\ cpc' = [cpc EXCEPT ![c] = "unlock"]
    /\ UNCHANGED <<chanVars, mu, acceptVars, dpc, rConn>>

\* Mutants of CloseChan: no second test under the lock, and only the field is
\* cleared, so that nobody tells the blocked senders.
CloseChanUntested(c) ==
    /\ cpc[c] = "recheck"
    /\ chan' = "closed"
    /\ closes' = closes + 1
    /\ dpc' = [d \in Dialers |-> IF dpc[d] = "queued" THEN "panicked" ELSE dpc[d]]
    /\ cpc' = [cpc EXCEPT ![c] = "clear"]
    /\ UNCHANGED <<src, called, mu, acceptVars, rConn>>

CloseChanSilent(c) ==
    /\ cpc[c] = "recheck"
    /\ src # "nil"
    /\ cpc' = [cpc EXCEPT ![c] = "clear"]
    /\ UNCHANGED <<chanVars, mu, acceptVars, dpc, rConn>>

\* close(l.src): every sender blocked on the channel panics.
CloseChan(c) ==
    /\ cpc[c] = "recheck"
    /\ src # "nil"
    /\ chan' = "closed"
    /\ closes' = closes + 1
    /\ dpc' = [d \in Dialers |-> IF dpc[d] = "queued" THEN "panicked" ELSE dpc[d]]
    /\ cpc' = [cpc EXCEPT ![c] = "clear"]
    /\ UNCHANGED <<src, called, mu, acceptVars, rConn>>

CloseClear(c) ==
    /\ cpc[c] = "clear"
    /\ src' = "nil"
    /\ cpc' = [cpc EXCEPT ![c] = "callbacks"]
    /\ UNCHANGED <<chan, closes, called, mu, acceptVars, dpc, rConn>>

CloseCallbacks(c) ==
    /\ cpc[c] = "callbacks"
    /\ called' = called + 1
    /\ cpc' = [cpc EXCEPT ![c] = "unlock"]
    /\ UNCHANGED <<src, chan, closes, mu, acceptVars, dpc, rConn>>

CloseUnlock(c) ==
    /\ cpc[c] = "unlock"
    /\ mu' = Nobody
    /\ cpc' = [cpc EXCEPT ![c] = "done"]
    /\ UNCHANGED <<chanVars, acceptVars, dpc, rConn>>

Close(c) ==
    \/ CloseCheck(c) \/ CloseLock(c) \/ CloseLate(c) \/ CloseChan(c)
    \/ CloseClear(c) \/ CloseCallbacks(c) \/ CloseUnlock(c)

-----------------------------------------------------------------------------
Next ==
    \/ Accept
    \/ \E d \in Dialers : Dial(d)
    \/ \E c \in Closers : Close(c)

\* Goroutines that can run are scheduled.  Nobody has to call Dial or Close,
\* but who has begun goes on.
Fairness ==
    /\ WF_vars(Accept)
    /\ \A d \in Dialers : WF_vars(DialSend(d))
    /\ \A c \in Closers : WF_vars(cpc[c] # "check" /\ Close(c))

Spec == Init /\ [][Next]_vars /\ Fairness

-----------------------------------------------------------------------------
TypeOK ==
    /\ src \in {"chan", "nil"}
    /\ chan \in {"open", "closed"}
    /\ mu \in Closers \cup {Nobody}
    /\ apc \in AcceptStates
    /\ seen \in {"chan", "nil"}
    /\ acon \in Dialers \cup {Nobody}
    /\ dpc \in [Dialers -> DialStates]
    /\ cpc \in [Closers -> CloseStates]
    /\ rConn \in [Dialers -> {"none", "inhand", "handed", "closed"}]
    /\ closes \in Nat
    /\ called \in Nat

\* However many goroutines call Close, the channel is closed once (a second
\* close would panic the goroutine that tears the connection down) and the
\* callbacks run at most once, after it (net.go, Close).
ClosedOnce == closes <= 1 /\ called <= closes

\* A dial that returned a connection has its far end in the accept loop's
\* hand, handed to the ssh library, or closed: the caller of Dial never
\* talks into a pipe that nobody owns (net.go, Accept's last test).
NoForgottenPipe ==
    /\ \A d \in Dialers :
          /\ dpc[d] = "returned" <=> rConn[d] # "none"
          /\ rConn[d] = "inhand" <=> acon = d
    /\ apc = "recheck" <=> acon # Nobody

\* A sender blocked in Dial always faces a channel that is open and an accept
\* loop that still runs: only a dial that reads src after Close cleared it can
\* wait for ever (net.go, Dial against Accept's and Close's orders of steps).
NoSenderAtDeadListener ==
    \A d \in Dialers :
        /\ dpc[d] = "queued" => chan = "open" /\ apc \notin {"ended", "hung"}
        /\ dpc[d] = "hung" => src = "nil"

\* Closing the channel ends the accept loop: it returns io.EOF, or blocks on
\* the nil field it read again.
CloseStopsAccept == chan = "closed" ~> apc \in {"ended", "hung"}

-----------------------------------------------------------------------------
(* The listener implements VirtualListener.  A dial that has read src but  *)
(* not yet sent is still idle there.                                       *)

AbstractCall(d) ==
    CASE dpc[d] \in {"idle", "send"} -> "idle"
      [] dpc[d] = "queued" -> "offered"
      [] dpc[d] = "returned" -> "connected"
      [] dpc[d] = "panicked" -> "refused"
      [] dpc[d] = "hung" -> "unanswered"

AbstractFar(d) ==
    CASE rConn[d] = "none" -> "none"
      [] rConn[d] = "inhand" -> "accepted"
      [] rConn[d] = "handed" -> "delivered"
      [] rConn[d] = "closed" -> "closed"

VL == INSTANCE VirtualListener WITH
        phase <- chan,
        call <- [d \in Dialers |-> AbstractCall(d)],
        far <- [d \in Dialers |-> AbstractFar(d)]

\* Every step is one the promise allows, and a dial that reached the channel is
\* answered: taken by the accept loop, or refused by the panic that closing the
\* channel causes (net.go, Accept, Dial and Close together).
ImplementsVirtualListener == VL!Spec
=============================================================================
