------------------------------ MODULE ApClient ------------------------------
(***************************************************************************)
(* One connection slot of an access point (ap.Ap, src/ap/ap.go): connect   *)
(* to the server, register the services, notice the loss of the            *)
(* connection, tear down, wait and connect again, for ever.  Each          *)
(* connection has three goroutines, which share c.client and c.registered  *)
(* without a lock: the main loop (run), the waiter, which clears c.client  *)
(* when the connection is lost, and the registrar.                         *)
(*                                                                         *)
(* The registrar sleeps between passes and only looks at c.client, so one  *)
(* that sleeps through a reconnect goes on with the new connection beside  *)
(* the new registrar.  Its sleep takes up to six seconds: it happens only  *)
(* with a reconnect timeout shorter than that (ShortReconnect).            *)
(*                                                                         *)
(* Ap.Close is missing: it runs only after Forever returned, and Forever   *)
(* returns only after Close (cmd/ap.go:295), so c.closed stays false.      *)
(***************************************************************************)
EXTENDS Naturals, FiniteSets

CONSTANTS
    Services,        \* names of the services the slot registers
    MaxConnects,     \* bound on the connections made
    ShortReconnect   \* the reconnect timeout is shorter than a sleep

ASSUME ConnectsAssumption == MaxConnects \in Nat \ {0}
ASSUME ShortAssumption == ShortReconnect \in BOOLEAN

Conns == 1..MaxConnects    \* connections, and the goroutines they started
Nil == 0

VARIABLES
    made,        \* connections made so far
    client,      \* c.client: the connection, or Nil
    alive,       \* connections that are up
    main,        \* place of the main loop
    waiter,      \* place of each connection's waiter
    reg,         \* place of each connection's registrar
    todo,        \* services left in each registrar's pass
    item,        \* what each registrar registers: service, connection
    registered,  \* c.registered: the connection each service's listener is
                 \* of, or Nil
    listeners,   \* open listeners <<service, connection>> in Service.listeners
    listens,     \* how often each service was registered on each connection
    workers,     \* registrars that registered something on each connection
    crashed      \* the process panicked

goVars == <<main, waiter, reg, todo, item>>
vars == <<made, client, alive, goVars, registered, listeners, listens,
          workers, crashed>>

MainPlaces == {"connect", "test", "ping", "close", "reset"}
WaiterPlaces == {"none", "wait", "done"}
RegPlaces == {"none", "test", "scan", "listen", "assign", "ended"}

Init ==
    /\ made = 0
    /\ client = Nil
    /\ alive = {}
    /\ main = "connect"
    /\ waiter = [k \in Conns |-> "none"]
    /\ reg = [k \in Conns |-> "none"]
    /\ todo = [k \in Conns |-> {}]
    /\ item = [k \in Conns |-> <<>>]
    /\ registered = [s \in Services |-> Nil]
    /\ listeners = {}
    /\ listens = [s \in Services |-> [k \in Conns |-> 0]]
    /\ workers = [k \in Conns |-> {}]
    /\ crashed = FALSE

-----------------------------------------------------------------------------
(* The main loop: remoteForever and run.                                   *)

\* A failed connect leaves c.client nil and is tried again after the delay.
\* The waiter and the registrar start with the connection.
Connect ==
    /\ ~crashed
    /\ main = "connect"
    /\ made < MaxConnects
    /\ ~ShortReconnect => \A r \in Conns : reg[r] \in {"none", "ended"}
    /\ made' = made + 1
    /\ client' = made + 1
    /\ alive' = alive \cup {made + 1}
    /\ main' = "test"
    /\ waiter' = [waiter EXCEPT ![made + 1] = "wait"]
    /\ reg' = [reg EXCEPT ![made + 1] = "test"]
    /\ UNCHANGED <<todo, item, registered, listeners, listens, workers, crashed>>

\* for c.client != nil { sleep 30 seconds; if c.client != nil { ping } }
MainTest ==
    /\ ~crashed
    /\ main = "test"
    /\ main' = IF client = Nil THEN "close" ELSE "ping"
    /\ UNCHANGED <<made, client, alive, waiter, reg, todo, item, registered,
                   listeners, listens, workers, crashed>>

\* Mutant of MainPing: a failed ping ends the loop, the connection still open.
MainPingGivesUp ==
    /\ ~crashed
    /\ main = "ping"
    /\ main' \in {"test", "close"}
    /\ UNCHANGED <<made, client, alive, waiter, reg, todo, item, registered,
                   listeners, listens, workers, crashed>>

\* The ping may read c.client again after the test, and find it nil.
MainPing ==
    /\ ~crashed
    /\ main = "ping"
    /\ \E panics \in BOOLEAN :
          /\ panics => client = Nil
          /\ crashed' = panics
    /\ main' = "test"
    /\ UNCHANGED <<made, client, alive, waiter, reg, todo, item, registered,
                   listeners, listens, workers>>

\* run's deferred functions: close the registered listeners ...  The callback
\* of each deletes a name from c.registered, but all callbacks of one pass share
\* its loop variable and delete the name that the pass ended with: an entry
\* deleted before its turn is never closed, others stay.
MainClose ==
    /\ ~crashed
    /\ main = "close"
    /\ LET entries == {s \in Services : registered[s] # Nil}
       IN  \E deleted \in SUBSET entries : \E skipped \in SUBSET deleted :
              /\ entries # {} => skipped # entries
              /\ listeners' =
                    listeners \ {<<s, registered[s]>> : s \in entries \ skipped}
              /\ registered' =
                    [s \in Services |-> IF s \in deleted THEN Nil ELSE registered[s]]
    /\ main' = "reset"
    /\ UNCHANGED <<made, client, alive, waiter, reg, todo, item, listens,
                   workers, crashed>>

\* ... and start from an empty map, after the delay.
MainReset ==
    /\ ~crashed
    /\ main = "reset"
    /\ registered' = [s \in Services |-> Nil]
    /\ main' = "connect"
    /\ UNCHANGED <<made, client, alive, waiter, reg, todo, item, listeners,
                   listens, workers, crashed>>

Main == MainTest \/ MainPing \/ MainClose \/ MainReset

-----------------------------------------------------------------------------
(* The connection is lost (external); the waiter notices.                  *)

Lose(k) ==
    /\ ~crashed
    /\ k \in alive
    /\ alive' = alive \ {k}
    /\ UNCHANGED <<made, client, goVars, registered, listeners, listens,
                   workers, crashed>>

\* Mutant of Waiter: c.client is not cleared.
WaiterForgets(k) ==
    /\ ~crashed
    /\ waiter[k] = "wait"
    /\ k \notin alive
    /\ waiter' = [waiter EXCEPT ![k] = "done"]
    /\ UNCHANGED <<made, client, alive, main, reg, todo, item, registered,
                   listeners, listens, workers, crashed>>

Waiter(k) ==
    /\ ~crashed
    /\ waiter[k] = "wait"
    /\ k \notin alive
    /\ client' = Nil
    /\ waiter' = [waiter EXCEPT ![k] = "done"]
    /\ UNCHANGED <<made, alive, main, reg, todo, item, registered, listeners,
                   listens, workers, crashed>>

-----------------------------------------------------------------------------
(* The registrar of connection r.                                          *)

RegTest(r) ==
    /\ ~crashed
    /\ reg[r] = "test"
    /\ IF client = Nil
         THEN reg' = [reg EXCEPT ![r] = "ended"] /\ UNCHANGED todo
         ELSE /\ reg' = [reg EXCEPT ![r] = "scan"]
              /\ todo' = [todo EXCEPT ![r] = Services]
    /\ UNCHANGED <<made, client, alive, main, waiter, item, registered,
                   listeners, listens, workers, crashed>>

\* Mutant of RegScan: services in c.registered are not skipped.
RegScanAgain(r, s) ==
    /\ ~crashed
    /\ reg[r] = "scan"
    /\ s \in todo[r]
    /\ todo' = [todo EXCEPT ![r] = @ \ {s}]
    /\ reg' = [reg EXCEPT ![r] = "listen"]
    /\ item' = [item EXCEPT ![r] = <<s, Nil>>]
    /\ UNCHANGED <<made, client, alive, main, waiter, registered, listeners,
                   listens, workers, crashed>>

\* The services in any order; those in c.registered are skipped.
RegScan(r, s) ==
    /\ ~crashed
    /\ reg[r] = "scan"
    /\ s \in todo[r]
    /\ todo' = [todo EXCEPT ![r] = @ \ {s}]
    /\ IF registered[s] # Nil
         THEN UNCHANGED <<reg, item>>
         ELSE /\ reg' = [reg EXCEPT ![r] = "listen"]
              /\ item' = [item EXCEPT ![r] = <<s, Nil>>]
    /\ UNCHANGED <<made, client, alive, main, waiter, registered, listeners,
                   listens, workers, crashed>>

\* The pass is over: the registrar sleeps for six seconds before its next test.
RegPassEnds(r) ==
    /\ ~crashed
    /\ reg[r] = "scan"
    /\ todo[r] = {}
    /\ reg' = [reg EXCEPT ![r] = "test"]
    /\ UNCHANGED <<made, client, alive, main, waiter, todo, item, registered,
                   listeners, listens, workers, crashed>>

\* c.client.Listen dereferences c.client: nil panics the process.
RegPanics(r) ==
    /\ ~crashed
    /\ reg[r] = "listen"
    /\ client = Nil
    /\ crashed' = TRUE
    /\ UNCHANGED <<made, client, alive, goVars, registered, listeners, listens,
                   workers>>

\* The server grants the listener, and Service.Register starts accepting.
RegListens(r) ==
    /\ ~crashed
    /\ reg[r] = "listen"
    /\ client \in alive
    /\ LET s == item[r][1]
       IN  /\ item' = [item EXCEPT ![r] = <<s, client>>]
           /\ listeners' = listeners \cup {<<s, client>>}
           /\ listens' = [listens EXCEPT ![s][client] = @ + 1]
    /\ workers' = [workers EXCEPT ![client] = @ \cup {r}]
    /\ reg' = [reg EXCEPT ![r] = "assign"]
    /\ UNCHANGED <<made, client, alive, main, waiter, todo, registered, crashed>>

\* The server refuses, or the connection is lost: the registrar gives up, and
\* no other one starts before the next connection.
RegFails(r) ==
    /\ ~crashed
    /\ reg[r] = "listen"
    /\ client # Nil
    /\ reg' = [reg EXCEPT ![r] = "ended"]
    /\ todo' = [todo EXCEPT ![r] = {}]
    /\ item' = [item EXCEPT ![r] = <<>>]
    /\ UNCHANGED <<made, client, alive, main, waiter, registered, listeners,
                   listens, workers, crashed>>

\* Mutant of RegAssign: the listener is not remembered.
RegAssignForgets(r) ==
    /\ ~crashed
    /\ reg[r] = "assign"
    /\ reg' = [reg EXCEPT ![r] = "scan"]
    /\ item' = [item EXCEPT ![r] = <<>>]
    /\ UNCHANGED <<made, client, alive, main, waiter, todo, registered,
                   listeners, listens, workers, crashed>>

RegAssign(r) ==
    /\ ~crashed
    /\ reg[r] = "assign"
    /\ registered' = [registered EXCEPT ![item[r][1]] = item[r][2]]
    /\ reg' = [reg EXCEPT ![r] = "scan"]
    /\ item' = [item EXCEPT ![r] = <<>>]
    /\ UNCHANGED <<made, client, alive, main, waiter, todo, listeners,
                   listens, workers, crashed>>

Registrar(r) ==
    \/ RegTest(r) \/ RegPassEnds(r) \/ RegPanics(r) \/ RegListens(r)
    \/ RegFails(r) \/ RegAssign(r)
    \/ \E s \in Services : RegScan(r, s)

\* c.registered is a Go map: two goroutines in it at once, one of them writing,
\* may end the process.
MapFault ==
    /\ ~crashed
    /\ \E r \in Conns :
          \/ reg[r] = "assign" /\ main \in {"close", "reset"}
          \/ reg[r] = "scan" /\ main = "close"
          \/ \E q \in Conns \ {r} : reg[r] = "assign" /\ reg[q] \in {"scan", "assign"}
    /\ crashed' = TRUE
    /\ UNCHANGED <<made, client, alive, goVars, registered, listeners, listens,
                   workers>>

-----------------------------------------------------------------------------
\* A service's accept loop ends with its connection and drops its listener.
AcceptLoopEnds ==
    /\ ~crashed
    /\ \E l \in listeners : l[2] \notin alive /\ listeners' = listeners \ {l}
    /\ UNCHANGED <<made, client, alive, goVars, registered, listens, workers,
                   crashed>>

Next ==
    \/ Connect \/ Main \/ MapFault \/ AcceptLoopEnds
    \/ \E k \in Conns : Lose(k) \/ Waiter(k) \/ Registrar(k)

\* The goroutines run, the timers fire, the server can be reached, and a dead
\* connection's Accept returns.  Connections need not be lost.
Fairness ==
    /\ WF_vars(Connect)
    /\ WF_vars(Main)
    /\ WF_vars(AcceptLoopEnds)
    /\ \A k \in Conns : WF_vars(Waiter(k)) /\ WF_vars(Registrar(k))

Spec == Init /\ [][Next]_vars /\ Fairness

-----------------------------------------------------------------------------
TypeOK ==
    /\ made \in 0..MaxConnects
    /\ client \in Conns \cup {Nil}
    /\ alive \subseteq Conns
    /\ main \in MainPlaces
    /\ waiter \in [Conns -> WaiterPlaces]
    /\ reg \in [Conns -> RegPlaces]
    /\ todo \in [Conns -> SUBSET Services]
    /\ item \in [Conns -> (Services \X (Conns \cup {Nil})) \cup {<<>>}]
    /\ registered \in [Services -> Conns \cup {Nil}]
    /\ listeners \subseteq Services \X Conns
    /\ listens \in [Services -> [Conns -> Nat]]
    /\ workers \in [Conns -> SUBSET Conns]
    /\ crashed \in BOOLEAN

\* The slot never holds two live connections, and the one c.client names is the
\* last one made: an old waiter never clears, and an old main loop never
\* abandons, a connection that is up (ap.go, run).
OneConnection ==
    /\ alive \subseteq {made}
    /\ client \in {Nil, made}
    /\ \A k \in alive : client = k

\* A service is registered on one connection at most once by each registrar
\* that worked on it: twice, so that the second listener displaces the first
\* in the server's register, only when an old registrar outlived a reconnect.
DoubleNeedsOldRegistrar ==
    \A s \in Services, k \in Conns :
        /\ listens[s][k] <= Cardinality(workers[k])
        /\ ~ShortReconnect => workers[k] \subseteq {k}

\* A listener of the live connection is in c.registered or on its way there:
\* the registrar never opens one that teardown and the next pass do not know
\* (ap.go:100 and 122; the entry may be that of an older connection).
ListenersKnown ==
    \A l \in listeners :
        l[2] \in alive => registered[l[1]] # Nil \/ \E r \in Conns : item[r] = l

\* A lost connection is torn down, whatever the other goroutines do: the main
\* loop gets to connect again, unless the process panics.
LossIsTornDown ==
    \A k \in Conns :
        made = k /\ k \notin alive ~> crashed \/ main = "connect"

\* The access point comes back: after a lost connection it is connected again
\* ("Reconnect to server timeout.", src/cmd/ap.go:335).
Reconnects ==
    \A k \in Conns :
        k < MaxConnects /\ made = k /\ k \notin alive ~> made > k
=============================================================================
