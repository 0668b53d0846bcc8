------------------------------ MODULE Forwarder ------------------------------
(***************************************************************************)
(* The forwarder (src/forwarder): one ssh connection to the server, and    *)
(* for each forwarded service a local listener whose connections are       *)
(* copied to a channel of the ssh connection.                              *)
(*                                                                         *)
(* forever connects, starts the services and sleeps in Delayer.Wait; a     *)
(* waiter clears fw.client and flags the services when the connection is   *)
(* lost.  A flagged accept loop sees its flag only after one more local    *)
(* connection: until then it keeps the local address, and a reconnect that *)
(* comes first ends the process in Service.Listen (log.Fatalln).           *)
(*                                                                         *)
(* The flags and s.ln are written without the lock that guards the others' *)
(* access, getConn caches one channel per service, and Delayer.Close works *)
(* on a copy of the Delayer.  Forwarder.Close has no caller and            *)
(* Service.running is never set, so neither is here.                       *)
(***************************************************************************)
EXTENDS Integers, FiniteSets

CONSTANTS
    Services,      \* forwarded services, each with its fixed local address
    Locals,        \* local connections; each also names the channel it dials
    Callers,       \* goroutines that call Stop
    MaxSessions,   \* bound on the ssh connections made
    None           \* nil

ASSUME SessionsAssumption == MaxSessions \in Nat \ {0}
ASSUME NoneAssumption ==
    None \notin Services \cup Locals \cup Callers \cup Nat
ASSUME LocalsAssumption == Locals \cap Nat = {}
ASSUME CallersAssumption == IsFiniteSet(Callers) /\ Callers \cap Nat = {}

Sessions == 1..MaxSessions
Main == 0                             \* forever, as a holder of fw's mutex
Chans == 1..(Cardinality(Callers) + 1)

VARIABLES
    \* Forwarder
    main, stop, client, session, fwmu, todo,
    \* the ssh connections that are lost, and their waiters
    lost, waiter,
    \* Delayer: done, and the channels that were closed
    done, shut,
    \* callers of Stop: place, and their copy of done
    caller, copied,
    \* services left for each waiter or caller to flag
    flagging,
    \* Service: stop, ln, the listener that has the address, mu, con
    svcStop, ln, bound, smu, con,
    \* accept loops by service and session
    loop,
    \* local connections: place, service, channel used
    place, svc, uses,
    \* channels by dialer: session, closed, dialled with no accept loop running
    chanOf, chanShut, late,
    \* what ended the process
    dead

fwVars == <<main, stop, client, session, fwmu, todo>>
sshVars == <<lost, waiter>>
delayVars == <<done, shut>>
callVars == <<caller, copied>>
svcVars == <<flagging, svcStop, ln, bound, smu, con, loop>>
localVars == <<place, svc, uses, chanOf, chanShut, late>>
vars == <<fwVars, sshVars, delayVars, callVars, svcVars, localVars, dead>>

Stoppers == Sessions \cup Callers
Alive == dead = "no"
\* The services were started once, so fw.servicesStoper is not nil.
Started == \E k \in Sessions : waiter[k] # "none"

\* An accept loop of s that has not cleared s.con yet.
Running(s) == \E k \in Sessions : loop[s][k] \notin {"none", "over"}

TypeOK ==
    /\ main \in {"test", "connect", "reset", "lock", "start", "delay",
                 "sleep", "over"}
    /\ stop \in BOOLEAN /\ client \in Sessions \cup {None}
    /\ session \in 0..MaxSessions
    /\ fwmu \in Stoppers \cup {Main, None} /\ todo \subseteq Services
    /\ lost \subseteq Sessions
    /\ waiter \in [Sessions -> {"none", "wait", "flag", "done"}]
    /\ done \in Chans \cup {None} /\ shut \subseteq Chans
    /\ caller \in [Callers -> {"idle", "flag", "shut", "stuck"}]
    /\ copied \in [Callers -> Chans \cup {None}]
    /\ flagging \in [Stoppers -> SUBSET Services]
    /\ svcStop \in [Services -> BOOLEAN]
    /\ ln \in [Services -> Sessions \cup {None}]
    /\ bound \in [Services -> Sessions \cup {None}]
    /\ smu \in [Services -> Locals \cup Sessions \cup {None}]
    /\ con \in [Services -> Locals \cup {None}]
    /\ loop \in [Services -> [Sessions ->
                   {"none", "test", "accept", "exit", "clear", "over"}]]
    /\ place \in [Locals -> {"new", "get", "cached", "lock", "dial",
                             "copy", "done"}]
    /\ svc \in [Locals -> Services \cup {None}]
    /\ uses \in [Locals -> Locals \cup {None}]
    /\ chanOf \in [Locals -> Sessions \cup {None}]
    /\ chanShut \subseteq Locals /\ late \subseteq Locals
    /\ dead \in {"no", "listen", "client", "listener", "con", "shut"}

Init ==
    /\ main = "test" /\ stop = FALSE /\ client = None /\ session = 0
    /\ fwmu = None /\ todo = {}
    /\ lost = {} /\ waiter = [k \in Sessions |-> "none"]
    /\ done = None /\ shut = {}
    /\ caller = [c \in Callers |-> "idle"]
    /\ copied = [c \in Callers |-> None]
    /\ flagging = [a \in Stoppers |-> {}]
    /\ svcStop = [s \in Services |-> FALSE]
    /\ ln = [s \in Services |-> None] /\ bound = [s \in Services |-> None]
    /\ smu = [s \in Services |-> None] /\ con = [s \in Services |-> None]
    /\ loop = [s \in Services |-> [k \in Sessions |-> "none"]]
    /\ place = [l \in Locals |-> "new"] /\ svc = [l \in Locals |-> None]
    /\ uses = [l \in Locals |-> None]
    /\ chanOf = [l \in Locals |-> None] /\ chanShut = {} /\ late = {}
    /\ dead = "no"

-----------------------------------------------------------------------------
(* forever and run.                                                        *)

\* Mutant of Test: the stop flag is only looked at while connected.
TestStopsConnected ==
    /\ Alive /\ main = "test"
    /\ main' = IF client = None THEN "connect" ELSE IF stop THEN "over" ELSE "delay"
    /\ UNCHANGED <<stop, client, session, fwmu, todo, sshVars, delayVars,
                   callVars, svcVars, localVars, dead>>

Test ==
    /\ Alive /\ main = "test"
    /\ main' = IF stop THEN "over" ELSE IF client = None THEN "connect" ELSE "delay"
    /\ UNCHANGED <<stop, client, session, fwmu, todo, sshVars, delayVars,
                   callVars, svcVars, localVars, dead>>

\* A failed dial leaves fw.client nil, to be tried after the delay.
Connect ==
    /\ Alive /\ main = "connect"
    /\ \/ /\ main' = "delay"
          /\ UNCHANGED <<client, session>>
       \/ /\ session < MaxSessions
          /\ session' = session + 1
          /\ client' = session + 1
          /\ main' = "reset"
    /\ UNCHANGED <<stop, fwmu, todo, sshVars, delayVars, callVars, svcVars,
                   localVars, dead>>

\* The services' flags are cleared before fw is locked.
Reset ==
    /\ Alive /\ main = "reset"
    /\ svcStop' = [s \in Services |-> FALSE]
    /\ main' = "lock"
    /\ UNCHANGED <<stop, client, session, fwmu, todo, sshVars, delayVars,
                   callVars, flagging, ln, bound, smu, con, loop, localVars, dead>>

Lock ==
    /\ Alive /\ main = "lock" /\ fwmu = None
    /\ fwmu' = Main /\ todo' = Services /\ main' = "start"
    /\ UNCHANGED <<stop, client, session, sshVars, delayVars, callVars, svcVars,
                   localVars, dead>>

\* Mutant of Listen: a service whose address is taken is passed over.
ListenSkips(s) ==
    /\ Alive /\ main = "start" /\ s \in todo
    /\ todo' = todo \ {s}
    /\ IF bound[s] # None
       THEN UNCHANGED <<ln, bound, loop>>
       ELSE /\ ln' = [ln EXCEPT ![s] = session]
            /\ bound' = [bound EXCEPT ![s] = session]
            /\ loop' = [loop EXCEPT ![s][session] = "test"]
    /\ UNCHANGED <<main, stop, client, session, fwmu, sshVars, delayVars,
                   callVars, flagging, svcStop, smu, con, localVars, dead>>

\* Service.Start and Listen: an address that is still taken ends the process.
Listen(s) ==
    /\ Alive /\ main = "start" /\ s \in todo
    /\ todo' = todo \ {s}
    /\ IF bound[s] # None
       THEN dead' = "listen" /\ UNCHANGED <<ln, bound, loop>>
       ELSE /\ ln' = [ln EXCEPT ![s] = session]
            /\ bound' = [bound EXCEPT ![s] = session]
            /\ loop' = [loop EXCEPT ![s][session] = "test"]
            /\ UNCHANGED dead
    /\ UNCHANGED <<main, stop, client, session, fwmu, sshVars, delayVars,
                   callVars, flagging, svcStop, smu, con, localVars>>

Unlock ==
    /\ Alive /\ main = "start" /\ todo = {}
    /\ waiter' = [waiter EXCEPT ![session] = "wait"]
    /\ fwmu' = None /\ main' = "delay"
    /\ UNCHANGED <<stop, client, session, todo, lost, delayVars, callVars,
                   svcVars, localVars, dead>>

-----------------------------------------------------------------------------
(* Delayer.Wait: its mutex is held around each assignment of done.         *)

\* A channel that nobody refers to any more is made anew.
WaitMake ==
    /\ Alive /\ main = "delay"
    /\ LET fresh == CHOOSE h \in Chans : \A c \in Callers : copied[c] # h
       IN  done' = fresh /\ shut' = shut \ {fresh}
    /\ main' = "sleep"
    /\ UNCHANGED <<stop, client, session, fwmu, todo, sshVars, callVars, svcVars,
                   localVars, dead>>

\* The timer fired, or done was closed.
WaitEnd ==
    /\ Alive /\ main = "sleep"
    /\ done' = None /\ main' = "test"
    /\ UNCHANGED <<stop, client, session, fwmu, todo, sshVars, shut, callVars,
                   svcVars, localVars, dead>>

-----------------------------------------------------------------------------
(* The waiter of a connection, and Stop.                                   *)

Lose(k) ==
    /\ Alive /\ k <= session /\ k \notin lost
    /\ lost' = lost \cup {k}
    /\ UNCHANGED <<fwVars, waiter, delayVars, callVars, svcVars, localVars, dead>>

\* Mutant of WaiterNotices: the client is left in place.
WaiterKeepsClient(k) ==
    /\ Alive /\ waiter[k] = "wait" /\ k \in lost /\ fwmu = None
    /\ fwmu' = k
    /\ waiter' = [waiter EXCEPT ![k] = "flag"]
    /\ flagging' = [flagging EXCEPT ![k] = Services]
    /\ UNCHANGED <<main, stop, client, session, todo, lost, delayVars, callVars,
                   svcStop, ln, bound, smu, con, loop, localVars, dead>>

\* client.Wait returned: lock, clear fw.client, stop the services.
WaiterNotices(k) ==
    /\ Alive /\ waiter[k] = "wait" /\ k \in lost /\ fwmu = None
    /\ fwmu' = k /\ client' = None
    /\ waiter' = [waiter EXCEPT ![k] = "flag"]
    /\ flagging' = [flagging EXCEPT ![k] = Services]
    /\ UNCHANGED <<main, stop, session, todo, lost, delayVars, callVars, svcStop,
                   ln, bound, smu, con, loop, localVars, dead>>

\* Mutant of StopServices: Service.Stop gives the address back itself.
StopServicesUnbinds(a) ==
    /\ Alive
    /\ \E s \in flagging[a] :
          /\ smu[s] = None
          /\ svcStop' = [svcStop EXCEPT ![s] = TRUE]
          /\ bound' = [bound EXCEPT ![s] = None]
          /\ flagging' = [flagging EXCEPT ![a] = @ \ {s}]
    /\ UNCHANGED <<fwVars, sshVars, delayVars, callVars, ln, smu, con,
                   loop, localVars, dead>>

\* servicesStoper.Stop calls Service.Stop of each service, under its mutex.
StopServices(a) ==
    /\ Alive
    /\ \E s \in flagging[a] :
          /\ smu[s] = None
          /\ svcStop' = [svcStop EXCEPT ![s] = TRUE]
          /\ flagging' = [flagging EXCEPT ![a] = @ \ {s}]
    /\ UNCHANGED <<fwVars, sshVars, delayVars, callVars, ln, bound, smu, con,
                   loop, localVars, dead>>

WaiterEnds(k) ==
    /\ Alive /\ waiter[k] = "flag" /\ flagging[k] = {}
    /\ waiter' = [waiter EXCEPT ![k] = "done"]
    /\ fwmu' = None
    /\ UNCHANGED <<main, stop, client, session, todo, lost, delayVars, callVars,
                   svcVars, localVars, dead>>

\* A caller may stop the forwarder again.
Stop(c) ==
    /\ Alive /\ caller[c] = "idle" /\ fwmu = None
    /\ fwmu' = c /\ stop' = TRUE
    /\ flagging' = [flagging EXCEPT ![c] = IF Started THEN Services ELSE {}]
    /\ caller' = [caller EXCEPT ![c] = "flag"]
    /\ UNCHANGED <<main, client, session, todo, sshVars, delayVars, copied,
                   svcStop, ln, bound, smu, con, loop, localVars, dead>>

\* Delayer.Close has a value receiver: the call copies done and the mutex.  Wait
\* may be inside one of its two critical sections: a mutex that was copied locked
\* is never released.
CloseCopy(c) ==
    /\ Alive /\ caller[c] = "flag" /\ flagging[c] = {}
    /\ copied' = [copied EXCEPT ![c] = done]
    /\ \E locked \in BOOLEAN :
          /\ locked => main \in {"delay", "sleep"}
          /\ caller' = [caller EXCEPT ![c] = IF locked THEN "stuck" ELSE "shut"]
    /\ UNCHANGED <<fwVars, sshVars, delayVars, svcVars, localVars, dead>>

\* Closing a channel that another caller closed before panics.
CloseDone(c) ==
    /\ Alive /\ caller[c] = "shut"
    /\ IF copied[c] \in shut
       THEN dead' = "shut" /\ UNCHANGED shut
       ELSE shut' = shut \cup ({copied[c]} \ {None}) /\ UNCHANGED dead
    /\ caller' = [caller EXCEPT ![c] = "idle"]
    /\ copied' = [copied EXCEPT ![c] = None]
    /\ fwmu' = None
    /\ UNCHANGED <<main, stop, client, session, todo, sshVars, done,
                   svcVars, localVars>>

-----------------------------------------------------------------------------
(* Service.forever: the accept loop of a service in session k.             *)

LoopTest(s, k) ==
    /\ Alive /\ loop[s][k] = "test"
    /\ IF ~svcStop[s] /\ ln[s] = None
       THEN dead' = "listener" /\ UNCHANGED loop
       ELSE /\ loop' = [loop EXCEPT ![s][k] =
                           IF svcStop[s] THEN "exit" ELSE "accept"]
            /\ UNCHANGED dead
    /\ UNCHANGED <<fwVars, sshVars, delayVars, callVars, flagging, svcStop, ln,
                   bound, smu, con, localVars>>

\* Only a local connection wakes the loop: nothing closes its listener.
Accept(s, k, l) ==
    /\ Alive /\ loop[s][k] = "accept" /\ bound[s] = k /\ place[l] = "new"
    /\ place' = [place EXCEPT ![l] = "get"]
    /\ svc' = [svc EXCEPT ![l] = s]
    /\ loop' = [loop EXCEPT ![s][k] = "test"]
    /\ UNCHANGED <<fwVars, sshVars, delayVars, callVars, flagging, svcStop, ln,
                   bound, smu, con, uses, chanOf, chanShut, late, dead>>

\* Any error of Accept ends the loop, its client and its flag as they are.
AcceptFails(s, k) ==
    /\ Alive /\ loop[s][k] = "accept"
    /\ loop' = [loop EXCEPT ![s][k] = "exit"]
    /\ UNCHANGED <<fwVars, sshVars, delayVars, callVars, flagging, svcStop, ln,
                   bound, smu, con, localVars, dead>>

\* The deferred function: s.ln.Close gives the address back ...
LoopClose(s, k) ==
    /\ Alive /\ loop[s][k] = "exit" /\ smu[s] = None
    /\ IF ln[s] = None
       THEN dead' = "listener" /\ UNCHANGED <<bound, smu, loop>>
       ELSE /\ smu' = [smu EXCEPT ![s] = k]
            /\ bound' = [bound EXCEPT ![s] = None]
            /\ loop' = [loop EXCEPT ![s][k] = "clear"]
            /\ UNCHANGED dead
    /\ UNCHANGED <<fwVars, sshVars, delayVars, callVars, flagging, svcStop, ln,
                   con, localVars>>

\* Mutant of LoopClear: the cached channel stays.
LoopClearKeepsCon(s, k) ==
    /\ Alive /\ loop[s][k] = "clear"
    /\ ln' = [ln EXCEPT ![s] = None]
    /\ chanShut' = chanShut \cup ({con[s]} \ {None})
    /\ smu' = [smu EXCEPT ![s] = None]
    /\ loop' = [loop EXCEPT ![s][k] = "over"]
    /\ UNCHANGED <<fwVars, sshVars, delayVars, callVars, flagging, svcStop,
                   bound, con, place, svc, uses, chanOf, late, dead>>

\* ... and only then s.ln is cleared, with whatever it holds by now.
LoopClear(s, k) ==
    /\ Alive /\ loop[s][k] = "clear"
    /\ ln' = [ln EXCEPT ![s] = None]
    /\ con' = [con EXCEPT ![s] = None]
    /\ chanShut' = chanShut \cup ({con[s]} \ {None})
    /\ smu' = [smu EXCEPT ![s] = None]
    /\ loop' = [loop EXCEPT ![s][k] = "over"]
    /\ UNCHANGED <<fwVars, sshVars, delayVars, callVars, flagging, svcStop,
                   bound, place, svc, uses, chanOf, late, dead>>

-----------------------------------------------------------------------------
(* forward and getConn, for a local connection.                            *)

\* The first test of s.con takes no lock ...
GetCached(l) ==
    /\ Alive /\ place[l] = "get"
    /\ place' = [place EXCEPT ![l] = IF con[svc[l]] = None THEN "lock" ELSE "cached"]
    /\ UNCHANGED <<fwVars, sshVars, delayVars, callVars, svcVars, svc, uses, chanOf,
                   chanShut, late, dead>>

\* ... nor does the read that follows it: getConn may return nil without an
\* error, and the copy from it ends the process.
ReadCached(l) ==
    /\ Alive /\ place[l] = "cached"
    /\ IF con[svc[l]] = None
       THEN dead' = "con" /\ UNCHANGED <<uses, place>>
       ELSE /\ uses' = [uses EXCEPT ![l] = con[svc[l]]]
            /\ place' = [place EXCEPT ![l] = "copy"]
            /\ UNCHANGED dead
    /\ UNCHANGED <<fwVars, sshVars, delayVars, callVars, svcVars, svc, chanOf,
                   chanShut, late>>

\* Mutant of GetLocked: s.con is not tested again.
GetLockedUntested(l) ==
    /\ Alive /\ place[l] = "lock" /\ smu[svc[l]] = None
    /\ UNCHANGED uses
    /\ IF client = None
       THEN place' = [place EXCEPT ![l] = "done"] /\ UNCHANGED smu
       ELSE /\ place' = [place EXCEPT ![l] = "dial"]
            /\ smu' = [smu EXCEPT ![svc[l]] = l]
    /\ UNCHANGED <<fwVars, sshVars, delayVars, callVars, flagging, svcStop, ln,
                   bound, con, loop, svc, chanOf, chanShut, late, dead>>

\* The second test, under s.mu, and the test of fw.client.
GetLocked(l) ==
    /\ Alive /\ place[l] = "lock" /\ smu[svc[l]] = None
    /\ uses' = [uses EXCEPT ![l] = con[svc[l]]]
    /\ IF con[svc[l]] = None /\ client # None
       THEN /\ place' = [place EXCEPT ![l] = "dial"]
            /\ smu' = [smu EXCEPT ![svc[l]] = l]
       ELSE /\ place' = [place EXCEPT ![l] =
                            IF con[svc[l]] = None THEN "done" ELSE "copy"]
            /\ UNCHANGED smu
    /\ UNCHANGED <<fwVars, sshVars, delayVars, callVars, flagging, svcStop, ln,
                   bound, con, loop, svc, chanOf, chanShut, late, dead>>

\* fw.client is read again: the waiter may have cleared it, which panics.  The
\* server may refuse, and a lost connection does.
Dial(l) ==
    /\ Alive /\ place[l] = "dial"
    /\ IF client = None
       THEN dead' = "client" /\ UNCHANGED <<smu, con, place, uses, chanOf, late>>
       ELSE /\ \/ /\ client \notin lost
                  /\ con' = [con EXCEPT ![svc[l]] = l]
                  /\ uses' = [uses EXCEPT ![l] = l]
                  /\ chanOf' = [chanOf EXCEPT ![l] = client]
                  /\ late' = IF Running(svc[l]) THEN late ELSE late \cup {l}
                  /\ place' = [place EXCEPT ![l] = "copy"]
               \/ /\ place' = [place EXCEPT ![l] = "done"]
                  /\ UNCHANGED <<con, uses, chanOf, late>>
            /\ smu' = [smu EXCEPT ![svc[l]] = None]
            /\ UNCHANGED dead
    /\ UNCHANGED <<fwVars, sshVars, delayVars, callVars, flagging, svcStop, ln,
                   bound, loop, svc, chanShut>>

\* Either copy ends: both connections are closed, and s.con stays as it is.
CopiesEnd(l) ==
    /\ Alive /\ place[l] = "copy"
    /\ place' = [place EXCEPT ![l] = "done"]
    /\ chanShut' = chanShut \cup {uses[l]}
    /\ uses' = [uses EXCEPT ![l] = None]
    /\ UNCHANGED <<fwVars, sshVars, delayVars, callVars, svcVars, svc, chanOf,
                   late, dead>>

-----------------------------------------------------------------------------
Wait == WaitMake \/ WaitEnd
Forever == Test \/ Connect \/ Reset \/ Lock \/ Unlock \/ Wait
              \/ \E s \in Services : Listen(s)
Waiter(k) == WaiterNotices(k) \/ StopServices(k) \/ WaiterEnds(k)
CloseDelayer(c) == CloseCopy(c) \/ CloseDone(c)
AcceptLoop(s, k) == LoopTest(s, k) \/ LoopClose(s, k) \/ LoopClear(s, k)
Forward(l) == GetCached(l) \/ ReadCached(l) \/ GetLocked(l) \/ Dial(l)

Next ==
    \/ Forever
    \/ \E k \in Sessions : Lose(k) \/ Waiter(k)
    \/ \E c \in Callers : Stop(c) \/ StopServices(c) \/ CloseDelayer(c)
    \/ \E s \in Services, k \in Sessions :
          AcceptLoop(s, k) \/ AcceptFails(s, k) \/ \E l \in Locals : Accept(s, k, l)
    \/ \E l \in Locals : Forward(l) \/ CopiesEnd(l)

\* Runnable goroutines run: neither the loss of a connection, nor a local
\* connection or its end, nor an error of Accept, nor a call of Stop has to happen.  A goroutine that
\* waits for fw's mutex gets it (Go's mutexes do not starve their waiters).  The
\* accept loops and local connections take finitely many steps each, so that one
\* condition for all of them lets every one finish.
Fairness ==
    /\ WF_vars(Forever) /\ SF_vars(Lock)
    /\ WF_vars(\E k \in Sessions : Waiter(k))
    /\ \A c \in Callers : WF_vars(StopServices(c) \/ CloseDelayer(c))
    /\ WF_vars(\/ \E s \in Services, k \in Sessions : AcceptLoop(s, k)
               \/ \E l \in Locals : Forward(l))

Spec == Init /\ [][Next]_vars /\ Fairness

-----------------------------------------------------------------------------
(* Properties.                                                             *)

\* A service inherits a channel of a lost connection (service.go:156) only when it
\* was dialled by the local connection that woke its accept loop, after the loop
\* had ended: otherwise the cached channel is of the connection in use, or the
\* accept loop of its session will still clear it.
OnlyLateInherited ==
    \A s \in Services : con[s] \notin late \cup {None} =>
        \/ chanOf[con[s]] = client
        \/ loop[s][chanOf[con[s]]] \notin {"none", "over"}

\* getConn's second test (service.go:161): the local connections of a service
\* share one channel, across reconnects too: no two of them are open at once.
OneChannel ==
    \A l, m \in Locals \ chanShut :
        chanOf[l] # None /\ chanOf[m] # None /\ svc[l] = svc[m] => l = m

\* An accept loop that was not told to stop belongs to the connection in use, or
\* its waiter is about to flag it; only between the reset of the flags and the
\* start of the services, which ends the process if a loop is left, is there an
\* older one without its flag (forwarder.go:79 resets the flags before fw is locked
\* and whether or not the loops have seen them).
StaleLoopsFlagged ==
    Alive /\ main \notin {"reset", "lock", "start"} =>
        \A s \in Services, k \in Sessions :
            loop[s][k] \in {"test", "accept"} =>
                client = k \/ svcStop[s] \/ s \in flagging[k]

\* An accept loop never accepts from, or closes, the listener of another session,
\* although it reads s.ln without a lock and Listen replaces it; s.ln is nil
\* under it only when an older loop ended so late that it cleared the new
\* listener (service.go:119).
OwnListener ==
    \A s \in Services, k \in Sessions :
        loop[s][k] \in {"test", "accept", "exit"} =>
            \/ ln[s] = k
            \/ ln[s] = None /\ \E j \in Sessions : j < k /\ loop[s][j] = "over"

\* A lost connection is torn down and dialled again (forwarder.go:99, 149),
\* unless the forwarder was stopped or the process ended.
LossIsRetried == client \in lost ~> main = "connect" \/ stop \/ ~Alive

\* Stop ends the main loop (forwarder.go:149), even when Stop itself is stuck
\* on its copy of the Delayer's mutex with fw locked.
StopEndsForever == stop ~> main = "over" \/ ~Alive

\* Claim of the option "Reconnect to server timeout." (cmd/ap.go:335): a
\* reconnect does not end the process.
ReconnectSurvives == dead # "listen"
=============================================================================
