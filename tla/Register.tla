------------------------------ MODULE Register ------------------------------
(***************************************************************************)
(* The register of reverse forwards (src/server/register.go, with          *)
(* conn.go and the listener callback of sshserver.go): which client (an    *)
(* ssh connection of an access point) serves which service, with which     *)
(* listener.                                                               *)
(*                                                                         *)
(* Three kinds of goroutines meet in it, all under r.mu: the one that      *)
(* serves a connection's forward requests (Register), the one that closes  *)
(* a connection (the callback Register installs), and HTTP requests        *)
(* (GetListener, here the operator Lookup; module Tunnel has the           *)
(* requests).  A forward request is handled in two steps, first the        *)
(* listener and then the registration, and the connection may close before *)
(* it, between them or after it.                                           *)
(*                                                                         *)
(* UnRegister and Get are missing because they change nothing: both test   *)
(* their result "ok", still false, instead of the lookup's "ok2", and      *)
(* return at once (register.go:131 and 156).                               *)
(***************************************************************************)
EXTENDS Naturals, FiniteSets

CONSTANTS
    Clients,     \* client keys: the remote address of one ssh connection
    Aps,         \* access point names: the ssh user of a connection
    ApOf,        \* the access point that each client belongs to
    Services,    \* service names, without prefix and asterisk
    Listeners,   \* a pool of ChanListeners, each made at most once
    Rows,        \* rows <<ap, service>> of the load_balancers table
    None,        \* no listener, no request
    Free         \* r.mu is free

\* A forward request between its two steps.
Requests == [svc : Services, star : BOOLEAN, lis : Listeners]

ASSUME ApAssumption == ApOf \in [Clients -> Aps]
ASSUME NoneAssumption == None \notin Listeners \cup Requests \cup Clients
ASSUME FreeAssumption == Free \notin Clients

VARIABLES
    conn,        \* state of each ssh connection
    hook,        \* whether the close callback is installed on it
    request,     \* the forward request each connection is handling
    holder,      \* the client whose goroutine holds r.mu across steps, or Free
    outer,       \* keys of r.forwards
    inner,       \* keys of all r.forwards[ap]
    byName,      \* r.forwards[ap][client].byName (byAddr has the same entries)
    lis,         \* state of each listener
    owner,       \* the client and service each listener was made for
    late         \* clients registered after their connection's callbacks ran

vars == <<conn, hook, request, holder, outer, inner, byName, lis, owner, late>>

NoServices == [s \in Services |-> None]

Init ==
    /\ conn = [c \in Clients |-> "new"]
    /\ hook = [c \in Clients |-> FALSE]
    /\ request = [c \in Clients |-> None]
    /\ holder = Free
    /\ outer = {}
    /\ inner = {}
    /\ byName = [c \in Clients |-> NoServices]
    /\ lis = [l \in Listeners |-> "none"]
    /\ owner = [l \in Listeners |-> None]
    /\ late = {}

-----------------------------------------------------------------------------
(* The life of an ssh connection, as the server sees it (external).        *)

Connect(c) ==
    /\ conn[c] = "new"
    /\ conn' = [conn EXCEPT ![c] = "up"]
    /\ UNCHANGED <<hook, request, holder, outer, inner, byName, lis, owner, late>>

\* Closing runs the callbacks installed so far; there may be none yet.
ConnClose(c) ==
    /\ conn[c] = "up"
    /\ conn' = [conn EXCEPT ![c] = IF hook[c] THEN "closing" ELSE "gone"]
    /\ UNCHANGED <<hook, request, holder, outer, inner, byName, lis, owner, late>>

-----------------------------------------------------------------------------
(* A forward request: ReverseSocketForwardingListenerCallback, Register.   *)

\* The listener callback: a star service needs its load_balancers row.  A request
\* may be handled after its connection was closed.  The callback looks at the first
\* character of the name: services have names that are not empty.
MakeListener(c, s, star, l) ==
    /\ conn[c] # "new"
    /\ request[c] = None
    /\ star => <<ApOf[c], s>> \in Rows
    /\ lis[l] = "none"
    /\ lis' = [lis EXCEPT ![l] = "open"]
    /\ owner' = [owner EXCEPT ![l] = <<c, s>>]
    /\ request' = [request EXCEPT ![c] = [svc |-> s, star |-> star, lis |-> l]]
    /\ UNCHANGED <<conn, hook, holder, outer, inner, byName, late>>

\* Mutant of EnterClient: the close callback is not installed.
EnterClientUnhooked(c) ==
    /\ outer' = outer \cup {ApOf[c]}
    /\ inner' = inner \cup {c}
    /\ late' = IF conn[c] = "gone" THEN late \cup {c} ELSE late
    /\ UNCHANGED hook

\* What Register does first, for every service: it installs the callback and
\* makes the client's entry in both maps.
EnterClient(c) ==
    /\ hook' = [hook EXCEPT ![c] = TRUE]
    /\ outer' = outer \cup {ApOf[c]}
    /\ inner' = inner \cup {c}
    /\ late' = IF conn[c] = "gone" THEN late \cup {c} ELSE late

\* A plain service.  A second registration of the same name by one client has
\* the same address too and takes the place of the first in both maps.
RegisterPlain(c) ==
    /\ request[c] # None
    /\ ~request[c].star
    /\ holder = Free
    /\ EnterClient(c)
    /\ byName' = [byName EXCEPT ![c][request[c].svc] = request[c].lis]
    /\ request' = [request EXCEPT ![c] = None]
    /\ UNCHANGED <<conn, holder, lis, owner>>

\* A star service.  Nodes.Add holds the write lock of Nodes.mu when it calls
\* Nodes.Count, which waits for the read lock: Register never returns, and it
\* still holds r.mu.
RegisterStar(c) ==
    /\ request[c] # None
    /\ request[c].star
    /\ holder = Free
    /\ EnterClient(c)
    /\ holder' = c
    /\ UNCHANGED <<conn, request, byName, lis, owner>>

-----------------------------------------------------------------------------
(* The close callback, under r.mu: the listeners one by one, then the map  *)
(* entries.                                                                *)

CallbackHolds(c) == holder = c /\ conn[c] = "unhooking"
Tabled(c) == {byName[c][s] : s \in Services} \ {None}

CallbackEnter(c) ==
    /\ conn[c] = "closing"
    /\ holder = Free
    /\ IF c \in inner
         THEN holder' = c /\ conn' = [conn EXCEPT ![c] = "unhooking"]
         ELSE conn' = [conn EXCEPT ![c] = "gone"] /\ UNCHANGED holder
    /\ UNCHANGED <<hook, request, outer, inner, byName, lis, owner, late>>

CallbackCloseOne(c, l) ==
    /\ CallbackHolds(c)
    /\ l \in Tabled(c)
    /\ lis[l] = "open"
    /\ lis' = [lis EXCEPT ![l] = "closed"]
    /\ UNCHANGED <<conn, hook, request, holder, outer, inner, byName, owner, late>>

\* For the mutants below: the step that deletes the clients in gone and the
\* outer keys in aps.
DeleteClients(c, gone, aps) ==
    /\ byName' = [d \in Clients |-> IF d \in gone THEN NoServices ELSE byName[d]]
    /\ inner' = inner \ gone
    /\ outer' = outer \ aps
    /\ holder' = Free
    /\ conn' = [conn EXCEPT ![c] = "gone"]
    /\ UNCHANGED <<hook, request, lis, owner, late>>

Emptied(c) ==
    IF \E d \in inner \ {c} : ApOf[d] = ApOf[c] THEN {} ELSE {ApOf[c]}

\* Mutants of CallbackDelete.  The client's entry stays; the outer key goes
\* although another client uses it; the listeners are not closed before; the
\* callback waits for the request that its own mutex blocks; every client of
\* the access point is deleted.
CallbackDeletesNothing(c) ==
    /\ CallbackHolds(c)
    /\ \A l \in Tabled(c) : lis[l] = "closed"
    /\ DeleteClients(c, {}, {})

CallbackDeletesAp(c) ==
    /\ CallbackHolds(c)
    /\ \A l \in Tabled(c) : lis[l] = "closed"
    /\ DeleteClients(c, {c}, {ApOf[c]})

CallbackDeletesFirst(c) ==
    /\ CallbackHolds(c)
    /\ DeleteClients(c, {c}, Emptied(c))

CallbackDeleteWaits(c) ==
    /\ CallbackHolds(c)
    /\ request[c] = None
    /\ \A l \in Tabled(c) : lis[l] = "closed"
    /\ DeleteClients(c, {c}, Emptied(c))

CallbackDeletesOthers(c) ==
    /\ CallbackHolds(c)
    /\ \A l \in Tabled(c) : lis[l] = "closed"
    /\ DeleteClients(c, {d \in Clients : ApOf[d] = ApOf[c]}, {ApOf[c]})

\* The outer key goes with the last client of its access point.
CallbackDelete(c) ==
    /\ CallbackHolds(c)
    /\ \A l \in Tabled(c) : lis[l] = "closed"
    /\ byName' = [byName EXCEPT ![c] = NoServices]
    /\ inner' = inner \ {c}
    /\ outer' = IF \E d \in inner \ {c} : ApOf[d] = ApOf[c]
                  THEN outer ELSE outer \ {ApOf[c]}
    /\ holder' = Free
    /\ conn' = [conn EXCEPT ![c] = "gone"]
    /\ UNCHANGED <<hook, request, lis, owner, late>>

Callback(c) ==
    CallbackEnter(c) \/ CallbackDelete(c)
        \/ \E l \in Listeners : CallbackCloseOne(c, l)

-----------------------------------------------------------------------------
(* GetListener(ap, s, addr), under r.mu: the listeners it may return, none *)
(* when it returns an error.  Without an address any client of the access  *)
(* point may be chosen: the map is walked in any order and the counts it   *)
(* sorts by are always 0.                                                  *)

Lookup(ap, s, addr) ==
    IF ap \notin outer THEN {}
    ELSE {byName[c][s] : c \in {d \in inner : /\ ApOf[d] = ap
                                              /\ addr \in {None, d}}} \ {None}

-----------------------------------------------------------------------------
Register(c) == RegisterPlain(c) \/ RegisterStar(c)

Next ==
    \E c \in Clients :
        \/ Connect(c) \/ ConnClose(c) \/ Register(c) \/ Callback(c)
        \/ \E s \in Services, star \in BOOLEAN, l \in Listeners :
              MakeListener(c, s, star, l)

\* A goroutine inside Register or in a close callback goes on whenever r.mu is
\* free or its own.  No connection has to come or to close.
Fairness ==
    \A c \in Clients : WF_vars(Register(c)) /\ WF_vars(Callback(c))

Spec == Init /\ [][Next]_vars /\ Fairness

-----------------------------------------------------------------------------
ConnStates == {"new", "up", "closing", "unhooking", "gone"}

TypeOK ==
    /\ conn \in [Clients -> ConnStates]
    /\ hook \in [Clients -> BOOLEAN]
    /\ request \in [Clients -> Requests \cup {None}]
    /\ holder \in Clients \cup {Free}
    /\ outer \subseteq Aps
    /\ inner \subseteq Clients
    /\ byName \in [Clients -> [Services -> Listeners \cup {None}]]
    /\ lis \in [Listeners -> {"none", "open", "closed"}]
    /\ owner \in [Listeners -> (Clients \X Services) \cup {None}]
    /\ late \subseteq Clients

\* Whenever r.mu can be taken, every listener in the tables is open and was
\* made for the client and the service it is found under: GetListener never
\* hands out a dead listener or somebody else's (register.go, Register and the
\* close callback).
TabledListenersServe ==
    \A c \in Clients, s \in Services :
        byName[c][s] # None =>
            /\ owner[byName[c][s]] = <<c, s>>
            /\ holder = Free => lis[byName[c][s]] = "open"

\* No client's departure hides a service of another client: what is in the
\* tables is found, by name alone and by name and address.
RegisteredIsReachable ==
    holder = Free =>
        \A c \in Clients, s \in Services :
            byName[c][s] # None =>
                /\ byName[c][s] \in Lookup(ApOf[c], s, None)
                /\ Lookup(ApOf[c], s, c) = {byName[c][s]}

\* A connection that is gone keeps an entry only if Register overtook: it ran
\* for a request of that connection after the connection's callbacks had.
EntryOutlivesOnlyLate ==
    \A c \in inner : conn[c] = "gone" => c \in late

Accounted(l) ==
    LET c == owner[l][1]
        s == owner[l][2]
    IN  \/ byName[c][s] = l
        \/ request[c] # None /\ request[c].lis = l
        \/ \E k \in Listeners \ {l} : lis[k] # "none" /\ owner[k] = owner[l]

\* Every open listener is in the tables, or will be when its request is
\* registered, or another registration of the same name by the same client
\* took its place: no other way leads to a listener that nobody closes
\* (register.go, Register and the close callback; conn.go, Add and Close).
OpenListenersAccounted ==
    \A l \in Listeners : lis[l] = "open" => Accounted(l)

\* A registration of a star service holds the mutex for ever.
Wedged == holder # Free /\ conn[holder] # "unhooking"

\* The close callback gets the mutex and finishes, whatever the other clients
\* do, short of a star service wedging the register.
DepartureIsProcessed ==
    \A c \in Clients : conn[c] = "closing" ~> conn[c] = "gone" \/ Wedged

\* A forward request that got its listener is registered: "For load balancer
\* entry point use `*` (asterisk) as prefix" (src/cmd/ap.go:55) promises it
\* for star services too.
RequestIsRegistered ==
    \A c \in Clients : request[c] # None ~> request[c] = None

-----------------------------------------------------------------------------
(* The register implements Directory: a client's offers are its entries,   *)
(* until the callback has deleted them.                                    *)

Dir == INSTANCE Directory WITH
         offer <- byName,
         withdrawn <- {l \in Listeners :
                         /\ lis[l] = "closed"
                         /\ \A c \in Clients : l \notin Tabled(c)}

\* Every step is one that Directory allows: a client's offers vanish at once,
\* nobody else's do, and a withdrawn listener is never offered again
\* (register.go, Register and the close callback).
ImplementsDirectory == Dir!Spec
=============================================================================
