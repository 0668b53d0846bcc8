---------------------------- MODULE TunnelProofs ----------------------------
(***************************************************************************)
(* The safety invariants of Register and its refinement of Directory, then *)
(* the safety invariants of Tunnel over it, for every set of clients,      *)
(* services, listeners, load balancer rows and calls, so also for the      *)
(* registers that a star service has wedged.                               *)
(***************************************************************************)
EXTENDS Tunnel, TLAPS

-----------------------------------------------------------------------------
(* Register.  An entry in the tables implies an installed hook (EntryInv), *)
(* so that a close always runs the callback that removes it; a listener in *)
(* the tables is closed only while the callback of its client holds the    *)
(* mutex (ClosingInv); and a listener in a request is open, of that        *)
(* client, and in no table yet (RequestInv).                               *)

HolderInv == \A c \in Clients : conn[c] = "unhooking" => holder = c

EntryInv ==
    \A c \in Clients :
        /\ byName[c] # NoServices => c \in inner
        /\ c \in inner \/ conn[c] \in {"closing", "unhooking"} => hook[c]
        /\ c \in inner /\ conn[c] = "gone" => c \in late

OwnerInv ==
    /\ \A l \in Listeners : lis[l] # "none" => owner[l] \in Clients \X Services
    /\ \A c \in Clients, s \in Services :
          byName[c][s] # None => /\ owner[byName[c][s]] = <<c, s>>
                                 /\ lis[byName[c][s]] # "none"

ClosingInv ==
    \A c \in Clients, s \in Services :
        byName[c][s] # None =>
            lis[byName[c][s]] = "open" \/ conn[c] = "unhooking"

\* An access point is a key of the outer map while, and only while, one of
\* its clients has an entry.
OuterExact == outer = {ApOf[c] : c \in inner}

RequestInv ==
    \A c \in Clients :
        request[c] # None =>
            /\ owner[request[c].lis] = <<c, request[c].svc>>
            /\ lis[request[c].lis] = "open"
            /\ byName[c][request[c].svc] # request[c].lis

IInv ==
    /\ TypeOK
    /\ HolderInv
    /\ EntryInv
    /\ OwnerInv
    /\ ClosingInv
    /\ RequestInv
    /\ OuterExact
    /\ OpenListenersAccounted

LEMMA InitIInv == Init => IInv
<1> SUFFICES ASSUME Init PROVE IInv
    OBVIOUS
<1> USE DEF Init
<1>1. TypeOK
    BY DEF TypeOK, NoServices, ConnStates
<1>2. HolderInv /\ EntryInv /\ RequestInv
    BY DEF HolderInv, EntryInv, RequestInv
<1>3. OwnerInv /\ ClosingInv
    BY DEF OwnerInv, ClosingInv, NoServices
<1>4. OuterExact
    BY DEF OuterExact
<1>5. OpenListenersAccounted
    BY DEF OpenListenersAccounted
<1> QED
    BY <1>1, <1>2, <1>3, <1>4, <1>5 DEF IInv

LEMMA NextIInv == IInv /\ [Next]_vars => IInv'
<1> USE ApAssumption, NoneAssumption, FreeAssumption
<1> USE DEF IInv, TypeOK, HolderInv, EntryInv, OwnerInv, ClosingInv,
            RequestInv, OuterExact, NoServices, ConnStates, Requests
<1> SUFFICES ASSUME IInv, [Next]_vars PROVE IInv'
    OBVIOUS
<1>1. ASSUME NEW c \in Clients, Connect(c) PROVE IInv'
    BY <1>1 DEF Connect, OpenListenersAccounted, Accounted
<1>2. ASSUME NEW c \in Clients, ConnClose(c) PROVE IInv'
    BY <1>2 DEF ConnClose, OpenListenersAccounted, Accounted
<1>3. ASSUME NEW c \in Clients, NEW s \in Services, NEW star \in BOOLEAN,
             NEW l \in Listeners, MakeListener(c, s, star, l)
      PROVE  IInv'
    <2> USE <1>3 DEF MakeListener
    <2>1. TypeOK'
        OBVIOUS
    <2>2. HolderInv' /\ EntryInv' /\ OuterExact'
        OBVIOUS
    <2>3. OwnerInv' /\ ClosingInv'
        OBVIOUS
    <2>4. RequestInv'
        OBVIOUS
    <2>5. OpenListenersAccounted'
        <3> SUFFICES ASSUME NEW k \in Listeners, lis'[k] = "open"
                     PROVE  Accounted(k)'
            BY DEF OpenListenersAccounted
        <3>1. CASE k = l
            <4>1. owner'[l] = <<c, s>> /\ request'[c] \in Requests /\ request'[c].lis = l
                OBVIOUS
            <4> QED
                BY <3>1, <4>1 DEF Accounted
        <3>2. CASE k # l
            <4>1. lis[k] = "open" /\ owner[k] \in Clients \X Services
                BY <3>2
            <4>2. Accounted(k)
                BY <4>1 DEF OpenListenersAccounted
            <4> QED
                BY <3>2, <4>1, <4>2 DEF Accounted
        <3> QED
            BY <3>1, <3>2
    <2> QED
        BY <2>1, <2>2, <2>3, <2>4, <2>5
<1>4. ASSUME NEW c \in Clients, RegisterPlain(c) PROVE IInv'
    <2> USE <1>4 DEF RegisterPlain, EnterClient
    <2>0. /\ request[c] \in Requests
          /\ ApOf[c] \in Aps
          /\ conn[c] # "unhooking"
        OBVIOUS
    <2>1. TypeOK'
        BY <2>0
    <2>2. HolderInv' /\ EntryInv'
        BY <2>0
    <2>3. OwnerInv' /\ ClosingInv'
        BY <2>0
    <2>4. RequestInv'
        BY <2>0
    <2>5. OpenListenersAccounted'
        <3> SUFFICES ASSUME NEW k \in Listeners, lis[k] = "open"
                     PROVE  Accounted(k)'
            BY DEF OpenListenersAccounted
        <3> DEFINE s == request[c].svc
                   l == request[c].lis
        <3>1. /\ owner[k] \in Clients \X Services
              /\ Accounted(k)
              /\ s \in Services /\ l \in Listeners
              /\ owner[l] = <<c, s>> /\ lis[l] = "open"
              /\ byName' = [byName EXCEPT ![c][s] = l]
            BY <2>0 DEF OpenListenersAccounted
        <3>2. CASE k = l
            BY <3>1, <3>2 DEF Accounted
        <3>3. CASE k # l /\ owner[k] = <<c, s>>
            BY <3>1, <3>3 DEF Accounted
        <3>4. CASE k # l /\ owner[k] # <<c, s>>
            BY <3>1, <3>4, <2>0 DEF Accounted
        <3> QED
            BY <3>2, <3>3, <3>4
    <2>6. OuterExact'
        BY <2>0
    <2> QED
        BY <2>1, <2>2, <2>3, <2>4, <2>5, <2>6
<1>5. ASSUME NEW c \in Clients, RegisterStar(c) PROVE IInv'
    <2> USE <1>5 DEF RegisterStar, EnterClient
    <2>1. TypeOK'
        OBVIOUS
    <2>2. HolderInv' /\ EntryInv' /\ OwnerInv' /\ ClosingInv' /\ RequestInv'
        OBVIOUS
    <2>3. OpenListenersAccounted' /\ OuterExact'
        BY DEF OpenListenersAccounted, Accounted
    <2> QED
        BY <2>1, <2>2, <2>3
<1>6. ASSUME NEW c \in Clients, CallbackEnter(c) PROVE IInv'
    <2> USE <1>6 DEF CallbackEnter
    <2>0. OpenListenersAccounted'
        BY DEF OpenListenersAccounted, Accounted
    <2>1. TypeOK'
        <3>1. conn' \in [Clients -> ConnStates] /\ holder' \in Clients \cup {Free}
            OBVIOUS
        <3> QED
            BY <3>1
    <2>2. \A d \in Clients :
             /\ conn'[d] = "unhooking" => conn[d] = "unhooking" \/ holder' = d
             /\ conn[d] = "unhooking" => conn'[d] = "unhooking"
             /\ d # c => conn'[d] = conn[d]
        <3>1. CASE c \in inner
            BY <3>1
        <3>2. CASE c \notin inner
            BY <3>2
        <3> QED
            BY <3>1, <3>2
    <2>3. HolderInv'
        BY <2>2, holder = Free
    <2>4. EntryInv'
        <3>1. CASE c \in inner
            BY <3>1
        <3>2. CASE c \notin inner
            BY <3>2
        <3> QED
            BY <3>1, <3>2
    <2>5. OwnerInv' /\ ClosingInv' /\ RequestInv' /\ OuterExact'
        BY <2>2
    <2> QED
        BY <2>0, <2>1, <2>3, <2>4, <2>5
<1>7. ASSUME NEW c \in Clients, NEW l \in Listeners, CallbackCloseOne(c, l)
      PROVE  IInv'
    <2> USE <1>7 DEF CallbackCloseOne, CallbackHolds, Tabled
    <2>1. TypeOK' /\ HolderInv' /\ EntryInv' /\ OuterExact'
        OBVIOUS
    <2>2. OwnerInv' /\ ClosingInv'
        OBVIOUS
    <2>3. RequestInv'
        OBVIOUS
    <2>4. OpenListenersAccounted'
        BY DEF OpenListenersAccounted, Accounted
    <2> QED
        BY <2>1, <2>2, <2>3, <2>4
<1>8. ASSUME NEW c \in Clients, CallbackDelete(c) PROVE IInv'
    <2> USE <1>8 DEF CallbackDelete, CallbackHolds, Tabled
    <2>1. TypeOK'
        OBVIOUS
    <2>2. HolderInv' /\ EntryInv'
        OBVIOUS
    <2>3. OwnerInv' /\ ClosingInv' /\ RequestInv'
        OBVIOUS
    <2>4. OpenListenersAccounted'
        <3> SUFFICES ASSUME NEW k \in Listeners, lis[k] = "open"
                     PROVE  Accounted(k)'
            BY DEF OpenListenersAccounted
        <3>1. owner[k] \in Clients \X Services /\ Accounted(k)
            BY DEF OpenListenersAccounted
        <3>2. \A s \in Services : byName[c][s] # k
            OBVIOUS
        <3> QED
            BY <3>1, <3>2 DEF Accounted
    <2>5. OuterExact'
        OBVIOUS
    <2> QED
        BY <2>1, <2>2, <2>3, <2>4, <2>5
<1>9. CASE UNCHANGED vars
    BY <1>9 DEF vars, OpenListenersAccounted, Accounted
<1> HIDE DEF IInv
<1> QED
    BY <1>1, <1>2, <1>3, <1>4, <1>5, <1>6, <1>7, <1>8, <1>9
       DEF Next, Register, Callback

\* The inductive invariant of the register.
THEOREM Invariance == Spec => []IInv
BY InitIInv, NextIInv, PTL DEF Spec

\* However requests, registrations and closes interleave, the register's state
\* keeps its types.
THEOREM TypeCorrect == Spec => []TypeOK
<1>1. IInv => TypeOK
    BY DEF IInv
<1> QED
    BY Invariance, <1>1, PTL

\* What GetListener finds is open and was made for the client and the service
\* it is found under.
THEOREM LookupsServe == Spec => []TabledListenersServe
<1>1. IInv => TabledListenersServe
    BY FreeAssumption
       DEF IInv, TypeOK, HolderInv, OwnerInv, ClosingInv, TabledListenersServe
<1> QED
    BY Invariance, <1>1, PTL

\* Departures of other clients never hide a registered service.
THEOREM Reachability == Spec => []RegisteredIsReachable
<1>1. IInv => RegisteredIsReachable
    <2> SUFFICES ASSUME IInv, NEW c \in Clients, NEW s \in Services,
                        byName[c][s] # None
                 PROVE  /\ byName[c][s] \in Lookup(ApOf[c], s, None)
                        /\ Lookup(ApOf[c], s, c) = {byName[c][s]}
        BY DEF RegisteredIsReachable
    <2>1. c \in inner
        BY DEF IInv, EntryInv, NoServices
    <2>2. ApOf[c] \in outer
        BY <2>1 DEF IInv, OuterExact
    <2> QED
        BY <2>1, <2>2, NoneAssumption DEF IInv, TypeOK, Lookup
<1> QED
    BY Invariance, <1>1, PTL

\* An entry outlives its connection only if it was registered after it.
THEOREM OnlyLateEntriesStay == Spec => []EntryOutlivesOnlyLate
<1>1. IInv => EntryOutlivesOnlyLate
    BY DEF IInv, TypeOK, EntryInv, EntryOutlivesOnlyLate
<1> QED
    BY Invariance, <1>1, PTL

\* A listener that nobody will close was replaced by a registration of the
\* same name.
THEOREM ListenersAccounted == Spec => []OpenListenersAccounted
<1>1. IInv => OpenListenersAccounted
    BY DEF IInv
<1> QED
    BY Invariance, <1>1, PTL

-----------------------------------------------------------------------------
(* Refinement of Directory.                                                *)

LEMMA InitRefines == Init => Dir!Init
BY DEF Init, Dir!Init, Dir!NoOffers, NoServices, Tabled

LEMMA StepRefines == IInv /\ [Next]_vars => [Dir!Next]_Dir!vars
<1> USE ApAssumption, NoneAssumption, FreeAssumption
<1> USE DEF Dir!NoOffers, NoServices, Dir!vars, Tabled, Dir!OfferedBy
<1> SUFFICES ASSUME IInv, [Next]_vars PROVE Dir!Next \/ UNCHANGED Dir!vars
    OBVIOUS
<1>1. ASSUME byName' = byName, lis' = lis PROVE UNCHANGED Dir!vars
    BY <1>1
<1>2. ASSUME NEW c \in Clients,
             \/ Connect(c) \/ ConnClose(c) \/ RegisterStar(c) \/ CallbackEnter(c)
      PROVE  UNCHANGED Dir!vars
    BY <1>1, <1>2 DEF Connect, ConnClose, RegisterStar, EnterClient, CallbackEnter
<1>3. ASSUME NEW c \in Clients, NEW s \in Services, NEW star \in BOOLEAN,
             NEW l \in Listeners, MakeListener(c, s, star, l)
      PROVE  UNCHANGED Dir!vars
    BY <1>3 DEF MakeListener, IInv, TypeOK
<1>4. ASSUME NEW c \in Clients, NEW l \in Listeners, CallbackCloseOne(c, l)
      PROVE  UNCHANGED Dir!vars
    BY <1>4 DEF CallbackCloseOne, IInv, TypeOK
<1>5. ASSUME NEW c \in Clients, RegisterPlain(c) PROVE Dir!Next
    <2> DEFINE s == request[c].svc
               l == request[c].lis
    <2>1. /\ s \in Services /\ l \in Listeners
          /\ owner[l] = <<c, s>> /\ lis[l] = "open"
          /\ byName[c][s] # l
          /\ byName' = [byName EXCEPT ![c][s] = l]
          /\ lis' = lis
        BY <1>5 DEF RegisterPlain, IInv, TypeOK, RequestInv, Requests
    <2>2. \A d \in Clients, t \in Services : byName[d][t] # l
        BY <2>1 DEF IInv, TypeOK, OwnerInv
    <2>3. \A k \in Listeners :
             lis[k] = "closed" =>
                ((\A d \in Clients : k \notin Tabled(d))
                    <=> (\A d \in Clients : k \notin Tabled(d)'))
        <3> SUFFICES ASSUME NEW k \in Listeners, lis[k] = "closed",
                            NEW d \in Clients
                     PROVE  k \in Tabled(d) <=> k \in Tabled(d)'
            BY <2>1
        <3>1. conn[c] # "unhooking"
            BY <1>5, FreeAssumption DEF RegisterPlain, IInv, HolderInv
        <3>2. \A t \in Services : byName[c][t] # k
            BY <3>1 DEF IInv, ClosingInv
        <3> QED
            BY <2>1, <3>2 DEF IInv, TypeOK
    <2>4. Dir!Publish(c, s, l)
        BY <2>1, <2>2, <2>3 DEF Dir!Publish, IInv, TypeOK
    <2> QED
        BY <2>1, <2>4 DEF Dir!Next
<1>6. ASSUME NEW c \in Clients, CallbackDelete(c) PROVE Dir!Next
    <2>1. /\ byName' = [byName EXCEPT ![c] = NoServices]
          /\ lis' = lis
          /\ \A l \in Tabled(c) : lis[l] = "closed"
        BY <1>6 DEF CallbackDelete
    <2>2. \A d \in Clients : d # c => Tabled(d)' = Tabled(d) /\ Tabled(d) \cap Tabled(c) = {}
        BY <2>1 DEF IInv, TypeOK, OwnerInv
    <2>3. Tabled(c)' = {} /\ Tabled(c) \subseteq Listeners
        BY <2>1 DEF IInv, TypeOK
    <2>4. Dir!Withdraw(c)
        BY <2>1, <2>2, <2>3 DEF Dir!Withdraw
    <2> QED
        BY <2>4 DEF Dir!Next
<1>7. CASE UNCHANGED vars
    BY <1>7, <1>1 DEF vars
<1> QED
    BY <1>2, <1>3, <1>4, <1>5, <1>6, <1>7 DEF Next, Register, Callback

\* Every step of the register is a step of Directory or a stutter: a client's
\* offers go all at once and the listeners that went never come back.
THEOREM RefinesDirectory == Spec => ImplementsDirectory
<1>1. Spec => []IInv /\ Init /\ [][Next]_vars
    BY Invariance, PTL DEF Spec
<1> QED
    BY <1>1, InitRefines, StepRefines, PTL DEF ImplementsDirectory, Dir!Spec
-----------------------------------------------------------------------------
(* Tunnel.  A step of Tunnel is a step of Register or leaves its variables *)
(* alone, so Register's inductive invariant holds; TargetInv adds that a   *)
(* call keeps a listener made for what it asked for, and ClosedInv that    *)
(* only a departing client's listeners are closed.                         *)

TargetInv ==
    \A q \in Calls :
        /\ target[q] # None =>
              /\ lis[target[q]] # "none"
              /\ \E c \in Clients :
                    /\ owner[target[q]] = <<c, Want[q].svc>>
                    /\ ApOf[c] = Want[q].ap
                    /\ Want[q].addr \in {None, c}
        /\ phase[q] \in {"dial", "queued", "upgrade", "hung", "piped", "leaked"}
              => target[q] # None

ClosedInv ==
    \A l \in Listeners, c \in Clients, s \in Services :
        lis[l] = "closed" /\ owner[l] = <<c, s>>
            => conn[c] \in {"unhooking", "gone"}

CallInv ==
    /\ phase \in [Calls -> Phases]
    /\ target \in [Calls -> Listeners \cup {None}]

\* The types of the two copies, the websocket and both ends of the pipe.
PipeInv ==
    /\ up \in [Calls -> Places] /\ down \in [Calls -> Places]
    /\ ws \in [Calls -> {"none", "open", "left", "closed"}]
    /\ near \in [Calls -> BOOLEAN]
    /\ far \in [Calls -> {"none", "accepted", "linked", "hungup", "closed"}]
    /\ give \in [Calls -> BOOLEAN] /\ hold \in [Calls -> BOOLEAN]

WaitInv ==
    \A q \in Calls :
        /\ phase[q] = "queued" => lis[target[q]] = "open"
        /\ phase[q] = "hung" => lis[target[q]] = "closed"

TInv == IInv /\ CallInv /\ TargetInv /\ ClosedInv /\ WaitInv /\ PipeInv

LEMMA InitTInv == TInit => TInv
<1> SUFFICES ASSUME TInit PROVE TInv
    OBVIOUS
<1>1. IInv
    BY InitIInv DEF TInit
<1>2. CallInv /\ TargetInv /\ WaitInv /\ PipeInv
    BY DEF TInit, CallInv, TargetInv, WaitInv, PipeInv, Phases, Places
<1>3. ClosedInv
    BY DEF TInit, Init, ClosedInv
<1> QED
    BY <1>1, <1>2, <1>3 DEF TInv

\* What a step of the register does to listeners and connections.
LEMMA RegisterEffect ==
    ASSUME IInv, ClosedInv, Next
    PROVE  /\ ClosedInv'
           /\ \A l \in Listeners : lis[l] # "none" =>
                 /\ owner'[l] = owner[l]
                 /\ lis'[l] # "none"
                 /\ lis[l] = "closed" => lis'[l] = "closed"
<1> USE FreeAssumption, NoneAssumption DEF IInv, TypeOK, ClosedInv, ConnStates
<1>1. ASSUME NEW c \in Clients, Connect(c) \/ ConnClose(c)
      PROVE  ClosedInv' /\ lis' = lis /\ owner' = owner
    BY <1>1 DEF Connect, ConnClose
<1>2. ASSUME NEW c \in Clients, NEW s \in Services, NEW star \in BOOLEAN,
             NEW l \in Listeners, MakeListener(c, s, star, l)
      PROVE  /\ ClosedInv'
             /\ \A k \in Listeners : lis[k] # "none" =>
                   owner'[k] = owner[k] /\ lis'[k] = lis[k]
    BY <1>2 DEF MakeListener
<1>3. ASSUME NEW c \in Clients, Register(c)
      PROVE  ClosedInv' /\ lis' = lis /\ owner' = owner
    BY <1>3 DEF Register, RegisterPlain, RegisterStar
<1>4. ASSUME NEW c \in Clients, CallbackEnter(c)
      PROVE  ClosedInv' /\ lis' = lis /\ owner' = owner
    <2>1. /\ lis' = lis /\ owner' = owner
          /\ conn[c] = "closing"
          /\ \A d \in Clients : d # c => conn'[d] = conn[d]
        BY <1>4 DEF CallbackEnter
    <2> QED
        BY <2>1
<1>5. ASSUME NEW c \in Clients, NEW l \in Listeners, CallbackCloseOne(c, l)
      PROVE  /\ ClosedInv'
             /\ owner' = owner
             /\ \A k \in Listeners : lis[k] # "none" =>
                   /\ lis'[k] # "none"
                   /\ lis[k] = "closed" => lis'[k] = "closed"
    <2>1. \E s \in Services : owner[l] = <<c, s>>
        BY <1>5 DEF CallbackCloseOne, Tabled, OwnerInv
    <2> QED
        BY <1>5, <2>1 DEF CallbackCloseOne, CallbackHolds
<1>6. ASSUME NEW c \in Clients, CallbackDelete(c)
      PROVE  ClosedInv' /\ lis' = lis /\ owner' = owner
    BY <1>6 DEF CallbackDelete
<1> QED
    BY <1>1, <1>2, <1>3, <1>4, <1>5, <1>6 DEF Next, Callback

\* The steps after the dial keep the types of the pipe's two sides.
LEMMA NextPipeInv ==
    ASSUME PipeInv, NEW q \in Calls,
           CallProgress(q) \/ Up(q) \/ Down(q) \/ FarProgress(q) \/ Browser(q) \/ Service(q)
    PROVE  PipeInv'
<1> USE DEF PipeInv, nearVars, farVars
<1>1. CASE CallProgress(q)
    BY <1>1 DEF CallProgress, Resolve, Dial, Take, Upgrade, Places
<1>2. CASE Up(q)
    BY <1>2 DEF Up, UpCopy, UpClosesWs, UpClosesCon, Places
<1>3. CASE Down(q)
    BY <1>3 DEF Down, DownCopy, DownClosesWs, DownClosesCon, Places
<1>4. CASE FarProgress(q)
    BY <1>4 DEF FarProgress, Link, LinkFails, FarEnds
<1>5. CASE Browser(q)
    BY <1>5 DEF Browser, BrowserSends, BrowserReads, BrowserLeaves, Places
<1>6. CASE Service(q)
    BY <1>6 DEF Service, ServiceSends, ServiceReads, ServiceEnds
<1> QED
    BY <1>1, <1>2, <1>3, <1>4, <1>5, <1>6

LEMMA NextTInv == TInv /\ [TNext]_allVars => TInv'
<1> SUFFICES ASSUME TInv, [TNext]_allVars PROVE TInv'
    OBVIOUS
<1> USE DEF TInv
<1>1. CASE RegisterStep
    <2>1. IInv'
        BY <1>1, NextIInv DEF RegisterStep
    <2>2. ClosedInv' /\ \A l \in Listeners : lis[l] # "none" =>
             /\ owner'[l] = owner[l]
             /\ lis'[l] # "none"
             /\ lis[l] = "closed" => lis'[l] = "closed"
        BY <1>1, RegisterEffect DEF RegisterStep
    <2>3. CallInv'
        BY <1>1 DEF RegisterStep, CallInv, Phases
    <2>4. TargetInv'
        BY <1>1, <2>2 DEF RegisterStep, CallInv, TargetInv
    <2>5. WaitInv'
        <3> SUFFICES ASSUME NEW q \in Calls
                     PROVE  /\ phase'[q] = "queued" => lis'[target[q]] = "open"
                            /\ phase'[q] = "hung" => lis'[target[q]] = "closed"
            BY <1>1 DEF RegisterStep, WaitInv
        <3>1. phase'[q] = IF phase[q] = "queued" /\ lis'[target[q]] = "closed"
                            THEN "aborted" ELSE phase[q]
            BY <1>1 DEF RegisterStep
        <3>2. phase'[q] \in {"queued", "hung"} =>
                 /\ target[q] \in Listeners
                 /\ lis[target[q]] # "none"
                 /\ lis'[target[q]] \in {"none", "open", "closed"}
            BY <2>1, <3>1 DEF CallInv, TargetInv, IInv, TypeOK
        <3> QED
            BY <2>2, <3>1, <3>2 DEF WaitInv
    <2>6. PipeInv'
        BY <1>1 DEF RegisterStep, nearVars, farVars, PipeInv
    <2> QED
        BY <2>1, <2>2, <2>3, <2>4, <2>5, <2>6
<1>2. ASSUME NEW q \in Calls, UNCHANGED vars,
             Arrive(q) \/ Resolve(q) \/ Dial(q)
      PROVE  TInv'
    <2>1. IInv' /\ ClosedInv' /\ PipeInv'
        <3>1. PipeInv'
            BY <1>2, NextPipeInv DEF CallProgress, Arrive, nearVars, farVars, PipeInv
        <3> QED
            BY <1>2, <3>1, NextIInv DEF vars, ClosedInv
    <2>2. CASE Arrive(q)
        BY <2>1, <2>2, <1>2
           DEF Arrive, vars, CallInv, TargetInv, WaitInv, Phases
    <2>3. CASE Resolve(q)
        <3> DEFINE found == Lookup(Want[q].ap, Want[q].svc, Want[q].addr)
        <3>1. CASE found = {} /\ phase' = [phase EXCEPT ![q] = "rejected"] /\ UNCHANGED target
            BY <2>1, <2>3, <3>1, <1>2
               DEF Resolve, vars, CallInv, TargetInv, WaitInv, Phases
        <3>2. ASSUME NEW l \in found,
                     phase' = [phase EXCEPT ![q] = "dial"],
                     target' = [target EXCEPT ![q] = l]
              PROVE  TInv'
            <4>1. /\ l \in Listeners /\ lis[l] # "none"
                  /\ \E c \in Clients :
                        /\ owner[l] = <<c, Want[q].svc>>
                        /\ ApOf[c] = Want[q].ap
                        /\ Want[q].addr \in {None, c}
                BY <3>2, WantAssumption DEF Lookup, IInv, TypeOK, OwnerInv
            <4>2. CallInv' /\ WaitInv'
                BY <2>3, <3>2, <4>1 DEF Resolve, vars, CallInv, WaitInv, Phases
            <4>3. TargetInv'
                <5> SUFFICES ASSUME NEW r \in Calls
                             PROVE  /\ target'[r] # None =>
                                          /\ lis[target'[r]] # "none"
                                          /\ \E c \in Clients :
                                                /\ owner[target'[r]] = <<c, Want[r].svc>>
                                                /\ ApOf[c] = Want[r].ap
                                                /\ Want[r].addr \in {None, c}
                                    /\ phase'[r] \in {"dial", "queued", "upgrade", "hung", "piped", "leaked"}
                                          => target'[r] # None
                    BY <1>2 DEF vars, TargetInv
                <5>1. CASE r = q
                    BY <3>2, <4>1, <5>1, NoneAssumption DEF CallInv
                <5>2. CASE r # q
                    BY <3>2, <5>2 DEF CallInv, TargetInv
                <5> QED
                    BY <5>1, <5>2
            <4> QED
                BY <2>1, <4>2, <4>3
        <3> QED
            BY <2>3, <3>1, <3>2 DEF Resolve
    <2>4. CASE Dial(q)
        <3>1. target[q] \in Listeners /\ lis[target[q]] \in {"open", "closed"}
            BY <2>4 DEF Dial, CallInv, TargetInv, IInv, TypeOK
        <3> QED
            BY <2>1, <2>4, <3>1
               DEF Dial, vars, CallInv, TargetInv, WaitInv, Phases
    <2> QED
        BY <1>2, <2>2, <2>3, <2>4
<1>3. ASSUME NEW q \in Calls, UNCHANGED vars,
             \/ Take(q) \/ Upgrade(q) \/ Up(q) \/ Down(q)
             \/ FarProgress(q) \/ Browser(q) \/ Service(q)
      PROVE  TInv'
    <2>1. IInv' /\ ClosedInv' /\ PipeInv'
        BY <1>3, NextIInv, NextPipeInv DEF CallProgress, vars, ClosedInv
    <2>2. CASE UNCHANGED <<phase, target>>
        BY <2>1, <2>2, <1>3 DEF vars, CallInv, TargetInv, WaitInv
    <2>3. CASE Take(q) \/ Upgrade(q)
        BY <2>1, <2>3, <1>3 DEF Take, Upgrade, vars, CallInv, TargetInv, WaitInv, Phases
    <2> QED
        BY <1>3, <2>2, <2>3
           DEF Up, UpCopy, UpClosesWs, UpClosesCon, Down, DownCopy, DownClosesWs,
               DownClosesCon, FarProgress, Link, LinkFails, FarEnds, Browser, BrowserSends,
               BrowserReads, BrowserLeaves, Service, ServiceSends, ServiceReads, ServiceEnds
<1>4. CASE UNCHANGED allVars
    <2>1. IInv' /\ ClosedInv'
        BY <1>4, NextIInv DEF allVars, vars, ClosedInv
    <2> QED
        BY <2>1, <1>4
           DEF allVars, callVars, nearVars, farVars, vars, CallInv, TargetInv, WaitInv, PipeInv
<1>5. \A q \in Calls :
         \/ Arrive(q) \/ CallProgress(q) \/ Up(q) \/ Down(q)
         \/ FarProgress(q) \/ Browser(q) \/ Service(q)
         => UNCHANGED vars
    BY DEF Arrive, CallProgress, Resolve, Dial, Take, Upgrade, Up, UpCopy, UpClosesWs,
           UpClosesCon, Down, DownCopy, DownClosesWs, DownClosesCon, FarProgress, Link,
           LinkFails, FarEnds, Browser, BrowserSends, BrowserReads, BrowserLeaves, Service,
           ServiceSends, ServiceReads, ServiceEnds
<1> HIDE DEF TInv
<1> QED
    BY <1>1, <1>2, <1>3, <1>4, <1>5 DEF TNext, CallProgress

\* The inductive invariant of the calls and the register together.
THEOREM TunnelInvariance == TSpec => []TInv
BY InitTInv, NextTInv, PTL DEF TSpec

\* The types of the calls' variables and of the register's under them.
THEOREM TunnelTypeCorrect == TSpec => []TTypeOK
<1>1. TInv => TTypeOK
    BY DEF TInv, IInv, CallInv, PipeInv, TTypeOK
<1> QED
    BY TunnelInvariance, <1>1, PTL

\* A call that has a target has one that was made for the access point, the
\* service and the client it asked for.
THEOREM CallsReachTheirTarget == TSpec => []RightTarget
<1>1. TInv => RightTarget
    BY DEF TInv, TargetInv, RightTarget
<1> QED
    BY TunnelInvariance, <1>1, PTL

\* A call waits for ever only on a listener whose client departed.
THEOREM HangsNeedDeparture == TSpec => []HungOnlyByDeparture
<1>1. TInv => HungOnlyByDeparture
    <2> SUFFICES ASSUME TInv, NEW q \in Calls
                 PROVE  /\ phase[q] = "queued" => lis[target[q]] = "open"
                        /\ phase[q] = "hung" => conn[Owner(q)] \in {"unhooking", "gone"}
        BY DEF HungOnlyByDeparture, Departed
    <2>1. CASE phase[q] = "hung"
        <3>1. target[q] \in Listeners /\ lis[target[q]] = "closed"
            BY <2>1 DEF TInv, CallInv, TargetInv, WaitInv
        <3>2. PICK c \in Clients : owner[target[q]] = <<c, Want[q].svc>>
            BY <2>1 DEF TInv, TargetInv
        <3> QED
            BY <2>1, <3>1, <3>2, WantAssumption DEF TInv, ClosedInv, Owner
    <2> QED
        BY <2>1 DEF TInv, WaitInv
<1> QED
    BY TunnelInvariance, <1>1, PTL
=============================================================================
