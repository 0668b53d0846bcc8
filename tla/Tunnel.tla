------------------------------- MODULE Tunnel -------------------------------
(***************************************************************************)
(* A websocket call to a service (serveLocal, src/server/http_serve.go):   *)
(* the goroutine of the HTTP request looks the service up in the register, *)
(* dials its listener and copies between the websocket and the pipe, while *)
(* the ssh library's accept loop takes the far end and links it to the     *)
(* client's connection.  The module composes Register with the calls; of   *)
(* each listener it keeps what VirtualListener promises.                   *)
(*                                                                         *)
(* The pipe is synchronous: a write waits for a read of the other end.     *)
(* Each of the two copies is at a read, at a write, or at one of its two   *)
(* deferred closes, which run in the reverse of the order they are written *)
(* in: first the websocket, then the pipe.                                 *)
(***************************************************************************)
EXTENDS Register

CONSTANTS
    Calls,       \* websocket calls, once each
    Want         \* what each call asks for: access point, service, address

ASSUME WantAssumption ==
    Want \in [Calls -> [ap : Aps, svc : Services, addr : Clients \cup {None}]]

VARIABLES
    phase,       \* the call's place in serveLocal
    target,      \* the listener that GetListener returned to it
    up, down,    \* places of io.Copy(con, ws) and of io.Copy(ws, con)
    ws,          \* the websocket: open, left by the browser, or closed here
    near,        \* whether the near end of the pipe is closed
    far,         \* the far end of the pipe, in the hands of the ssh library
    give,        \* whether the library waits for a reader of the pipe
    hold         \* whether the library waits for the service to read

nearVars == <<up, down, ws, near>>
farVars == <<far, give, hold>>
callVars == <<phase, target, nearVars, farVars>>
allVars == <<vars, callVars>>

Phases == {"idle", "resolve", "dial", "queued", "upgrade", "piped",
           "rejected", "aborted", "hung", "leaked"}
Places == {"none", "read", "write", "ws", "con", "end"}

TInit ==
    /\ Init
    /\ phase = [q \in Calls |-> "idle"]
    /\ target = [q \in Calls |-> None]
    /\ up = [q \in Calls |-> "none"] /\ down = [q \in Calls |-> "none"]
    /\ ws = [q \in Calls |-> "none"] /\ near = [q \in Calls |-> FALSE]
    /\ far = [q \in Calls |-> "none"]
    /\ give = [q \in Calls |-> FALSE] /\ hold = [q \in Calls |-> FALSE]

Owner(q) == owner[target[q]][1]

\* The token is checked first; without it, or with a blank header, the answer
\* is an error.
Arrive(q) ==
    /\ phase[q] = "idle"
    /\ \E p \in {"resolve", "rejected"} : phase' = [phase EXCEPT ![q] = p]
    /\ UNCHANGED <<vars, target, nearVars, farVars>>

\* Mutants of Resolve: the address is not looked at; a service that is not found
\* is waited for.
ResolveAnyAddress(q) ==
    /\ phase[q] = "resolve"
    /\ holder = Free
    /\ LET found == Lookup(Want[q].ap, Want[q].svc, None)
       IN  \/ /\ found = {}
              /\ phase' = [phase EXCEPT ![q] = "rejected"]
              /\ UNCHANGED target
           \/ \E l \in found :
                 /\ phase' = [phase EXCEPT ![q] = "dial"]
                 /\ target' = [target EXCEPT ![q] = l]
    /\ UNCHANGED <<vars, nearVars, farVars>>

ResolveWaits(q) ==
    /\ phase[q] = "resolve"
    /\ holder = Free
    /\ \E l \in Lookup(Want[q].ap, Want[q].svc, Want[q].addr) :
          /\ phase' = [phase EXCEPT ![q] = "dial"]
          /\ target' = [target EXCEPT ![q] = l]
    /\ UNCHANGED <<vars, nearVars, farVars>>

\* GetListener, under r.mu.  It returns one of the listeners it may find.
Resolve(q) ==
    /\ phase[q] = "resolve"
    /\ holder = Free
    /\ LET found == Lookup(Want[q].ap, Want[q].svc, Want[q].addr)
       IN  \/ /\ found = {}
              /\ phase' = [phase EXCEPT ![q] = "rejected"]
              /\ UNCHANGED target
           \/ \E l \in found :
                 /\ phase' = [phase EXCEPT ![q] = "dial"]
                 /\ target' = [target EXCEPT ![q] = l]
    /\ UNCHANGED <<vars, nearVars, farVars>>

\* Dial, after r.mu was given back.  On a listener closed meanwhile it panics,
\* which net/http recovers, or blocks for ever.
Dial(q) ==
    /\ phase[q] = "dial"
    /\ IF lis[target[q]] = "open"
         THEN phase' = [phase EXCEPT ![q] = "queued"]
         ELSE \E p \in {"aborted", "hung"} : phase' = [phase EXCEPT ![q] = p]
    /\ UNCHANGED <<vars, target, nearVars, farVars>>

\* The accept loop takes the far end.
Take(q) ==
    /\ phase[q] = "queued"
    /\ lis[target[q]] = "open"
    /\ phase' = [phase EXCEPT ![q] = "upgrade"]
    /\ far' = [far EXCEPT ![q] = "accepted"]
    /\ UNCHANGED <<vars, target, nearVars, give, hold>>

\* The websocket handshake comes after the dial.  A request that is not a valid
\* one gets an error from the websocket library, whose handler does not run:
\* nobody closes the near end of the pipe.
Upgrade(q) ==
    /\ phase[q] = "upgrade"
    /\ \/ /\ phase' = [phase EXCEPT ![q] = "piped"]
          /\ up' = [up EXCEPT ![q] = "read"] /\ down' = [down EXCEPT ![q] = "read"]
          /\ ws' = [ws EXCEPT ![q] = "open"]
       \/ phase' = [phase EXCEPT ![q] = "leaked"] /\ UNCHANGED <<up, down, ws>>
    /\ UNCHANGED <<vars, target, near, farVars>>

-----------------------------------------------------------------------------
(* The browser (external).  It may stop reading, and may stay for ever.    *)

BrowserSends(q) ==
    /\ up[q] = "read" /\ ws[q] = "open"
    /\ up' = [up EXCEPT ![q] = "write"]
    /\ UNCHANGED <<vars, phase, target, down, ws, near, farVars>>

BrowserReads(q) ==
    /\ down[q] = "write" /\ ws[q] = "open"
    /\ down' = [down EXCEPT ![q] = "read"]
    /\ UNCHANGED <<vars, phase, target, up, ws, near, farVars>>

BrowserLeaves(q) ==
    /\ ws[q] = "open"
    /\ ws' = [ws EXCEPT ![q] = "left"]
    /\ UNCHANGED <<vars, phase, target, up, down, near, farVars>>

-----------------------------------------------------------------------------
(* io.Copy(con, ws), in the handler, and its deferred closes.              *)

PipeBroken(q) == near[q] \/ far[q] = "closed"

\* The read fails once the websocket was left or closed; the write fails on a
\* pipe with a closed end, else it waits for the library to read.
UpCopy(q) ==
    /\ \/ /\ up[q] = "read" /\ ws[q] # "open"
          /\ up' = [up EXCEPT ![q] = "ws"] /\ UNCHANGED hold
       \/ /\ up[q] = "write" /\ PipeBroken(q)
          /\ up' = [up EXCEPT ![q] = "ws"] /\ UNCHANGED hold
       \/ /\ up[q] = "write" /\ ~PipeBroken(q)
          /\ far[q] \in {"linked", "hungup"} /\ ~hold[q]
          /\ up' = [up EXCEPT ![q] = "read"]
          /\ hold' = [hold EXCEPT ![q] = TRUE]
    /\ UNCHANGED <<vars, phase, target, down, ws, near, far, give>>

\* ws.Close writes a close frame: it waits for a write that is in progress.
UpClosesWs(q) ==
    /\ up[q] = "ws"
    /\ ~(down[q] = "write" /\ ws[q] = "open")
    /\ ws' = [ws EXCEPT ![q] = "closed"]
    /\ up' = [up EXCEPT ![q] = "con"]
    /\ UNCHANGED <<vars, phase, target, down, near, farVars>>

UpClosesCon(q) ==
    /\ up[q] = "con"
    /\ near' = [near EXCEPT ![q] = TRUE]
    /\ up' = [up EXCEPT ![q] = "end"]
    /\ UNCHANGED <<vars, phase, target, down, ws, farVars>>

Up(q) == UpCopy(q) \/ UpClosesWs(q) \/ UpClosesCon(q)

-----------------------------------------------------------------------------
(* io.Copy(ws, con), in its own goroutine, and its deferred closes.        *)

DownCopy(q) ==
    /\ \/ /\ down[q] = "read" /\ PipeBroken(q)
          /\ down' = [down EXCEPT ![q] = "ws"] /\ UNCHANGED give
       \/ /\ down[q] = "read" /\ ~PipeBroken(q) /\ give[q]
          /\ down' = [down EXCEPT ![q] = "write"]
          /\ give' = [give EXCEPT ![q] = FALSE]
       \/ /\ down[q] = "write" /\ ws[q] # "open"
          /\ down' = [down EXCEPT ![q] = "ws"] /\ UNCHANGED give
    /\ UNCHANGED <<vars, phase, target, up, ws, near, far, hold>>

\* Mutant of DownClosesWs: only the pipe is closed.
DownKeepsWs(q) ==
    /\ down[q] = "ws"
    /\ down' = [down EXCEPT ![q] = "con"]
    /\ UNCHANGED <<vars, phase, target, up, ws, near, farVars>>

DownClosesWs(q) ==
    /\ down[q] = "ws"
    /\ ws' = [ws EXCEPT ![q] = "closed"]
    /\ down' = [down EXCEPT ![q] = "con"]
    /\ UNCHANGED <<vars, phase, target, up, near, farVars>>

DownClosesCon(q) ==
    /\ down[q] = "con"
    /\ near' = [near EXCEPT ![q] = TRUE]
    /\ down' = [down EXCEPT ![q] = "end"]
    /\ UNCHANGED <<vars, phase, target, up, ws, farVars>>

Down(q) == DownCopy(q) \/ DownClosesWs(q) \/ DownClosesCon(q)

-----------------------------------------------------------------------------
(* The far end: the ssh library and the service behind it (external).      *)

\* The library opens a channel on the client's connection; a connection that is
\* closed, or a listener closed meanwhile, closes the pipe.
Link(q) ==
    /\ far[q] = "accepted"
    /\ conn[Owner(q)] = "up"
    /\ far' = [far EXCEPT ![q] = "linked"]
    /\ UNCHANGED <<vars, phase, target, nearVars, give, hold>>

LinkFails(q) ==
    /\ far[q] = "accepted"
    /\ conn[Owner(q)] # "up" \/ lis[target[q]] = "closed"
    /\ far' = [far EXCEPT ![q] = "closed"]
    /\ UNCHANGED <<vars, phase, target, nearVars, give, hold>>

Linked(q) == far[q] = "linked" /\ conn[Owner(q)] = "up"

\* The service sends, reads and hangs up, each if it pleases.
ServiceSends(q) ==
    /\ Linked(q) /\ ~give[q]
    /\ give' = [give EXCEPT ![q] = TRUE]
    /\ UNCHANGED <<vars, phase, target, nearVars, far, hold>>

ServiceReads(q) ==
    /\ Linked(q) /\ hold[q]
    /\ hold' = [hold EXCEPT ![q] = FALSE]
    /\ UNCHANGED <<vars, phase, target, nearVars, far, give>>

ServiceEnds(q) ==
    /\ Linked(q)
    /\ far' = [far EXCEPT ![q] = "hungup"]
    /\ UNCHANGED <<vars, phase, target, nearVars, give, hold>>

\* One of the library's two copies fails and closes the far end: on a channel
\* that ended or went with its connection, unless it waits for a reader of the
\* pipe; or on the closed near end, unless it waits for the service.
FarEnds(q) ==
    /\ far[q] \in {"linked", "hungup"}
    /\ \/ ~Linked(q) /\ (~give[q] \/ hold[q])
       \/ near[q] /\ (give[q] \/ ~hold[q])
    /\ far' = [far EXCEPT ![q] = "closed"]
    /\ give' = [give EXCEPT ![q] = FALSE] /\ hold' = [hold EXCEPT ![q] = FALSE]
    /\ UNCHANGED <<vars, phase, target, nearVars>>

-----------------------------------------------------------------------------
\* Mutant of RegisterStep: closing a listener leaves blocked dials waiting.
RegisterStepSilent ==
    /\ Next
    /\ UNCHANGED callVars

\* A step of the register.  A listener that it closes refuses the dials that
\* are blocked on it.
RegisterStep ==
    /\ Next
    /\ phase' = [q \in Calls |->
                   IF phase[q] = "queued" /\ lis'[target[q]] = "closed"
                     THEN "aborted" ELSE phase[q]]
    /\ UNCHANGED <<target, nearVars, farVars>>

CallProgress(q) == Resolve(q) \/ Dial(q) \/ Take(q) \/ Upgrade(q)
FarProgress(q) == Link(q) \/ LinkFails(q) \/ FarEnds(q)
Browser(q) == BrowserSends(q) \/ BrowserReads(q) \/ BrowserLeaves(q)
Service(q) == ServiceSends(q) \/ ServiceReads(q) \/ ServiceEnds(q)

TNext ==
    \/ RegisterStep
    \/ \E q \in Calls :
          \/ Arrive(q) \/ CallProgress(q) \/ Up(q) \/ Down(q)
          \/ FarProgress(q) \/ Browser(q) \/ Service(q)

\* Goroutines that can run do; calls, connections, services and browsers may
\* come and go, or stay, and need not send or read.
TFairness ==
    /\ \A c \in Clients :
          /\ WF_allVars(Register(c) /\ RegisterStep)
          /\ WF_allVars(Callback(c) /\ RegisterStep)
    /\ \A q \in Calls :
          /\ WF_allVars(CallProgress(q))
          /\ WF_allVars(Up(q))
          /\ WF_allVars(Down(q))
          /\ WF_allVars(FarProgress(q))

TSpec == TInit /\ [][TNext]_allVars /\ TFairness

-----------------------------------------------------------------------------
TTypeOK ==
    /\ TypeOK
    /\ phase \in [Calls -> Phases]
    /\ target \in [Calls -> Listeners \cup {None}]
    /\ up \in [Calls -> Places] /\ down \in [Calls -> Places]
    /\ ws \in [Calls -> {"none", "open", "left", "closed"}]
    /\ near \in [Calls -> BOOLEAN]
    /\ far \in [Calls -> {"none", "accepted", "linked", "hungup", "closed"}]
    /\ give \in [Calls -> BOOLEAN] /\ hold \in [Calls -> BOOLEAN]

\* A call is only ever connected to the access point, the service and, when
\* it names one, the client it asked for, whatever registered, re-registered
\* or left between the lookup and the link (GetListener, Register, Dial).
RightTarget ==
    \A q \in Calls :
        target[q] # None =>
            LET c == owner[target[q]][1]
            IN  /\ owner[target[q]] = <<c, Want[q].svc>>
                /\ ApOf[c] = Want[q].ap
                /\ Want[q].addr \in {None, c}

Departed(q) == conn[Owner(q)] \in {"unhooking", "gone"}

\* A dial that is waiting faces an open listener; one that waits for ever was
\* overtaken by the departure of the client it had looked up (http_serve.go:66
\* to 77: r.mu is free between the lookup and the dial).
HungOnlyByDeparture ==
    \A q \in Calls :
        /\ phase[q] = "queued" => lis[target[q]] = "open"
        /\ phase[q] = "hung" => Departed(q)

\* A call gets an error or its pipe.  Only two things keep it inside serveLocal
\* for ever: a star registration that holds r.mu stops it in the lookup, and
\* the departure of the client it looked up may stop it in Dial (http_serve.go:66
\* to 77).
CallIsAnswered ==
    \A q \in Calls :
        phase[q] = "resolve" ~>
            \/ phase[q] \in {"rejected", "aborted", "piped", "leaked"}
            \/ phase[q] = "resolve" /\ Wedged
            \/ phase[q] = "hung" /\ Departed(q)

\* One side of a tunnel has ended: the browser, the service or its connection.
OneSideEnded(q) ==
    \/ ws[q] \in {"left", "closed"} \/ near[q]
    \/ far[q] \in {"hungup", "closed"}
    \/ far[q] \in {"accepted", "linked"} /\ conn[Owner(q)] # "up"

\* Nothing is left of it: both ends of the pipe and the websocket are closed and
\* both goroutines are over.  After a failed handshake there is only the far end.
NothingLeft(q) ==
    /\ far[q] = "closed"
    /\ \/ phase[q] = "leaked"
       \/ up[q] = "end" /\ down[q] = "end" /\ ws[q] = "closed" /\ near[q]

\* Data waits for a browser or a service that is connected and does not read, or
\* at a near end that no handler reads.
Unread(q) ==
    \/ down[q] = "write" /\ ws[q] = "open"
    \/ hold[q] /\ Linked(q)
    \/ give[q] /\ phase[q] = "leaked"

\* Once one side of a tunnel has ended all of it ends, whichever copy returns
\* first and however its closes interleave with the other's (http_serve.go:79 to
\* 88), unless from some moment on data waits for somebody who never reads.
TunnelEndsWhole ==
    \A q \in Calls :
        (OneSideEnded(q) ~> NothingLeft(q)) \/ <>[]Unread(q)
=============================================================================
