--------------------------- MODULE ForwarderProofs ---------------------------
(***************************************************************************)
(* The safety properties of Forwarder, for every set of services, local    *)
(* connections and callers of Stop and every number of ssh connections.    *)
(*                                                                         *)
(* ClientInv: one waiter waits, for the connection that fw.client names.   *)
(* LoopInv: of the accept loops of a service only one holds the address,   *)
(* and an older one is past its Close; it is over before the next one can  *)
(* close.  LockInv: who holds s.mu, and that an open channel is the one    *)
(* that s.con names.  StartInv ties the accept loops to the main loop,     *)
(* and the two last parts are properties that are inductive with them.     *)
(***************************************************************************)
EXTENDS Forwarder, FiniteSetTheorems, TLAPS

Holding == {"test", "accept", "exit"}
Places == {"new", "get", "cached", "lock", "dial", "copy", "done"}

ClientInv ==
    /\ client # None => client = session
    /\ \A k \in Sessions : waiter[k] = "wait" => client = k
    /\ \A k \in Sessions : waiter[k] # "none" => k <= session
    /\ main = "connect" => client = None
    /\ main \in {"reset", "lock", "start"} => client # None /\ waiter[session] = "none"
    /\ main \notin {"reset", "lock", "start"} /\ client # None =>
          waiter[client] = "wait"

LoopHolds(s, k) ==
    /\ loop[s][k] # "none" => k <= session
    /\ loop[s][k] \in Holding => bound[s] = k
    /\ loop[s][k] = "clear" => smu[s] = k

LoopOrder(s, j, k) ==
    j < k => /\ loop[s][k] # "none" => loop[s][j] \notin Holding
             /\ loop[s][k] \in {"clear", "over"} => loop[s][j] \in {"none", "over"}

LoopInv ==
    \A s \in Services, k \in Sessions :
        LoopHolds(s, k) /\ \A j \in Sessions : LoopOrder(s, j, k)

LockInv ==
    /\ \A l \in Locals :
          /\ place[l] # "new" => svc[l] \in Services
          /\ place[l] = "dial" => smu[svc[l]] = l /\ con[svc[l]] = None
          /\ place[l] = "copy" => uses[l] # None
          /\ chanOf[l] # None => place[l] \in {"copy", "done"}
          /\ chanOf[l] # None /\ l \notin chanShut => con[svc[l]] = l
    /\ \A s \in Services : con[s] # None => chanOf[con[s]] # None

StartInv ==
    \A s \in Services, k \in Sessions :
        /\ main \in {"reset", "lock"} /\ k = session => loop[s][k] = "none"
        /\ Alive /\ main = "start" /\ s \notin todo /\ k = session => loop[s][k] # "none"
        /\ waiter[k] # "none" => loop[s][k] # "none"

InheritInv ==
    \A s \in Services : con[s] # None /\ con[s] \notin late =>
        /\ loop[s][chanOf[con[s]]] # "over"
        /\ chanOf[con[s]] = client \/ loop[s][chanOf[con[s]]] # "none"


IInv == /\ TypeOK /\ ClientInv /\ LoopInv /\ LockInv /\ StartInv /\ InheritInv
        /\ StaleLoopsFlagged /\ OwnListener

-----------------------------------------------------------------------------
(* Sessions, holders of locks and nil are different things.                *)

LEMMA Kinds ==
    /\ Sessions \subseteq Nat
    /\ None \notin Sessions /\ None \notin Locals /\ None \notin Services
    /\ \A l \in Locals, k \in Sessions : l # k
BY NoneAssumption, LocalsAssumption, SessionsAssumption DEF Sessions

\* There is always a channel that no caller of Stop holds.
LEMMA FreshChannel ==
    ASSUME TypeOK
    PROVE  \E h \in Chans : \A c \in Callers : copied[c] # h
<1> SUFFICES ASSUME \A h \in Chans : \E c \in Callers : copied[c] = h
             PROVE  FALSE
    OBVIOUS
<1>1. Cardinality(Callers) \in Nat
    BY CallersAssumption, FS_CardinalityType
<1>2. IsFiniteSet(Chans) /\ Cardinality(Chans) = Cardinality(Callers) + 1
    BY <1>1, FS_Interval DEF Chans
<1> DEFINE f == [h \in Chans |-> CHOOSE c \in Callers : copied[c] = h]
<1>3. f \in [Chans -> Callers] /\ \A h \in Chans : copied[f[h]] = h
    OBVIOUS
<1> HIDE DEF f
<1>4. \E x, y \in Chans : x # y /\ f[x] = f[y]
    BY <1>1, <1>2, <1>3, CallersAssumption, FS_PigeonHole
<1> QED
    BY <1>3, <1>4

LEMMA InitIInv == Init => IInv
<1> SUFFICES ASSUME Init PROVE IInv
    OBVIOUS
<1> USE DEF Init
<1>1. TypeOK
    <2>1. /\ loop \in [Services -> [Sessions ->
                   {"none", "test", "accept", "exit", "clear", "over"}]]
          /\ waiter \in [Sessions -> {"none", "wait", "flag", "done"}]
        OBVIOUS
    <2>2. session \in 0..MaxSessions
        BY SessionsAssumption
    <2>3. /\ caller \in [Callers -> {"idle", "flag", "shut", "stuck"}]
          /\ copied \in [Callers -> Chans \cup {None}]
          /\ flagging \in [Stoppers -> SUBSET Services]
          /\ svcStop \in [Services -> BOOLEAN]
        OBVIOUS
    <2>4. /\ ln \in [Services -> Sessions \cup {None}]
          /\ bound \in [Services -> Sessions \cup {None}]
          /\ smu \in [Services -> Locals \cup Sessions \cup {None}]
          /\ con \in [Services -> Locals \cup {None}]
        OBVIOUS
    <2>5. /\ place \in [Locals -> Places]
          /\ svc \in [Locals -> Services \cup {None}]
          /\ uses \in [Locals -> Locals \cup {None}]
          /\ chanOf \in [Locals -> Sessions \cup {None}]
        BY DEF Places
    <2> QED
        BY <2>1, <2>2, <2>3, <2>4, <2>5 DEF TypeOK, Places
<1>2. /\ ClientInv /\ LoopInv /\ LockInv /\ StartInv /\ InheritInv
      /\ StaleLoopsFlagged /\ OwnListener
    BY DEF ClientInv, LoopInv, LoopHolds, LoopOrder, LockInv, StartInv, InheritInv,
           Holding, StaleLoopsFlagged, OwnListener
<1> QED
    BY <1>1, <1>2 DEF IInv

-----------------------------------------------------------------------------
(* What the steps of the accept loops and the local connections do, entry  *)
(* by entry.                                                               *)

LEMMA ListenFacts ==
    ASSUME TypeOK, ClientInv, NEW s \in Services, Listen(s)
    PROVE  /\ session \in Sessions /\ s \in todo /\ todo' = todo \ {s}
           /\ main = "start" /\ Alive
           /\ UNCHANGED <<main, stop, client, session, fwmu, sshVars, delayVars,
                          callVars, flagging, svcStop, smu, con, localVars>>
           /\ \/ ~Alive' /\ UNCHANGED <<ln, bound, loop>>
              \/ /\ bound[s] = None /\ UNCHANGED dead
                 /\ bound'[s] = session /\ ln'[s] = session
                 /\ loop'[s][session] = "test"
                 /\ \A t \in Services \ {s} : bound'[t] = bound[t] /\ ln'[t] = ln[t]
                 /\ \A t \in Services, j \in Sessions :
                       t # s \/ j # session => loop'[t][j] = loop[t][j]
<1>1. session \in Sessions
    BY Kinds DEF Listen, ClientInv, TypeOK
<1> QED
    BY <1>1 DEF Listen, TypeOK, Alive

LEMMA LoopTestFacts ==
    ASSUME TypeOK, NEW s \in Services, NEW k \in Sessions, LoopTest(s, k)
    PROVE  /\ UNCHANGED <<fwVars, sshVars, delayVars, callVars, flagging, svcStop,
                          ln, bound, smu, con, localVars>>
           /\ loop[s][k] = "test" /\ Alive
           /\ loop'[s][k] \in {"test", "accept", "exit"}
           /\ loop'[s][k] = "exit" => svcStop[s]
           /\ \A t \in Services, j \in Sessions :
                 t # s \/ j # k => loop'[t][j] = loop[t][j]
<1>1. CASE ~svcStop[s] /\ ln[s] = None
    BY <1>1 DEF LoopTest, TypeOK, Alive
<1>2. CASE svcStop[s]
    <2>1. loop' = [loop EXCEPT ![s][k] = "exit"]
        BY <1>2 DEF LoopTest
    <2> QED
        BY <1>2, <2>1 DEF LoopTest, TypeOK, Alive
<1>3. CASE ~svcStop[s] /\ ln[s] # None
    <2>1. loop' = [loop EXCEPT ![s][k] = "accept"]
        BY <1>3 DEF LoopTest
    <2> QED
        BY <1>3, <2>1 DEF LoopTest, TypeOK, Alive
<1> QED
    BY <1>1, <1>2, <1>3

LEMMA AcceptFacts ==
    ASSUME TypeOK, NEW s \in Services, NEW k \in Sessions, NEW l \in Locals,
           Accept(s, k, l)
    PROVE  /\ UNCHANGED <<fwVars, sshVars, delayVars, callVars, flagging, svcStop,
                          ln, bound, smu, con, uses, chanOf, chanShut, late, dead>>
           /\ loop[s][k] = "accept" /\ loop'[s][k] = "test"
           /\ \A t \in Services, j \in Sessions :
                 t # s \/ j # k => loop'[t][j] = loop[t][j]
           /\ place[l] = "new" /\ place'[l] = "get" /\ svc'[l] = s
           /\ \A m \in Locals \ {l} : place'[m] = place[m] /\ svc'[m] = svc[m]
BY DEF Accept, TypeOK

LEMMA AcceptFailsFacts ==
    ASSUME TypeOK, NEW s \in Services, NEW k \in Sessions, AcceptFails(s, k)
    PROVE  /\ UNCHANGED <<fwVars, sshVars, delayVars, callVars, flagging, svcStop,
                          ln, bound, smu, con, localVars, dead>>
           /\ loop[s][k] = "accept" /\ loop'[s][k] = "exit" /\ Alive
           /\ \A t \in Services, j \in Sessions :
                 t # s \/ j # k => loop'[t][j] = loop[t][j]
BY DEF AcceptFails, TypeOK

LEMMA LoopCloseFacts ==
    ASSUME TypeOK, NEW s \in Services, NEW k \in Sessions, LoopClose(s, k)
    PROVE  /\ UNCHANGED <<fwVars, sshVars, delayVars, callVars, flagging, svcStop,
                          ln, con, localVars>>
           /\ loop[s][k] = "exit" /\ smu[s] = None /\ Alive
           /\ \/ ~Alive' /\ UNCHANGED <<bound, smu, loop>>
              \/ /\ UNCHANGED dead
                 /\ smu'[s] = k /\ bound'[s] = None /\ loop'[s][k] = "clear"
                 /\ \A t \in Services \ {s} : bound'[t] = bound[t] /\ smu'[t] = smu[t]
                 /\ \A t \in Services, j \in Sessions :
                       t # s \/ j # k => loop'[t][j] = loop[t][j]
BY DEF LoopClose, TypeOK, Alive

LEMMA LoopClearFacts ==
    ASSUME TypeOK, NEW s \in Services, NEW k \in Sessions, LoopClear(s, k)
    PROVE  /\ UNCHANGED <<fwVars, sshVars, delayVars, callVars, flagging, svcStop,
                          bound, place, svc, uses, chanOf, late, dead>>
           /\ loop[s][k] = "clear" /\ loop'[s][k] = "over"
           /\ \A t \in Services, j \in Sessions :
                 t # s \/ j # k => loop'[t][j] = loop[t][j]
           /\ con'[s] = None /\ smu'[s] = None /\ ln'[s] = None
           /\ \A t \in Services \ {s} :
                 con'[t] = con[t] /\ smu'[t] = smu[t] /\ ln'[t] = ln[t]
           /\ chanShut' = chanShut \cup ({con[s]} \ {None})
BY DEF LoopClear, TypeOK

LEMMA GetLockedFacts ==
    ASSUME TypeOK, LockInv, NEW l \in Locals, GetLocked(l)
    PROVE  LET s == svc[l] IN
           /\ UNCHANGED <<fwVars, sshVars, delayVars, callVars, flagging, svcStop, ln,
                          bound, con, loop, svc, chanOf, chanShut, late, dead>>
           /\ s \in Services /\ place[l] = "lock" /\ smu[s] = None
           /\ uses'[l] = con[s]
           /\ \A m \in Locals \ {l} : place'[m] = place[m] /\ uses'[m] = uses[m]
           /\ \/ place'[l] = "dial" /\ con[s] = None /\ smu'[s] = l
              \/ /\ place'[l] = "done" \/ (place'[l] = "copy" /\ con[s] # None)
                 /\ smu'[s] = smu[s]
           /\ \A t \in Services \ {s} : smu'[t] = smu[t]
BY DEF GetLocked, TypeOK, LockInv

LEMMA DialFacts ==
    ASSUME TypeOK, LockInv, NEW l \in Locals, Dial(l)
    PROVE  LET s == svc[l] IN
           /\ UNCHANGED <<fwVars, sshVars, delayVars, callVars, flagging, svcStop, ln,
                          bound, loop, svc, chanShut>>
           /\ s \in Services /\ place[l] = "dial"
           /\ \A m \in Locals \ {l} :
                 place'[m] = place[m] /\ uses'[m] = uses[m] /\ chanOf'[m] = chanOf[m]
           /\ \A t \in Services \ {s} : smu'[t] = smu[t] /\ con'[t] = con[t]
           /\ \/ UNCHANGED <<smu, con, place, uses, chanOf, late>>
              \/ /\ client # None /\ smu'[s] = None /\ con'[s] = l
                 /\ uses'[l] = l /\ chanOf'[l] = client /\ place'[l] = "copy"
                 /\ late' = IF Running(s) THEN late ELSE late \cup {l}
              \/ /\ smu'[s] = None /\ place'[l] = "done"
                 /\ UNCHANGED <<con, uses, chanOf, late>>
BY DEF Dial, TypeOK, LockInv

-----------------------------------------------------------------------------
(* Type correctness.                                                       *)

\* One entry of loop is changed.
LEMMA LoopType ==
    ASSUME TypeOK, NEW s \in Services, NEW k \in Sessions,
           NEW v \in {"test", "accept", "exit", "clear", "over"},
           loop' = [loop EXCEPT ![s][k] = v]
    PROVE  loop' \in [Services -> [Sessions ->
                   {"none", "test", "accept", "exit", "clear", "over"}]]
BY DEF TypeOK

LEMMA NextTypeOK == ASSUME IInv, [Next]_vars PROVE TypeOK'
<1> USE DEF fwVars, sshVars, delayVars, callVars, svcVars, localVars
<1>0. TypeOK /\ ClientInv /\ LockInv /\ \A k \in Sessions : k \in Stoppers
    BY DEF IInv, Stoppers
<1>1. ASSUME Test \/ Lock \/ Unlock \/ WaitEnd PROVE TypeOK'
    BY <1>0, <1>1 DEF Test, Lock, Unlock, WaitEnd, TypeOK
<1>2. CASE Connect
    BY <1>0, <1>2, SessionsAssumption DEF Connect, TypeOK, Sessions
<1>3. CASE Reset
    BY <1>0, <1>3 DEF Reset, TypeOK
<1>4. ASSUME NEW s \in Services, Listen(s) PROVE TypeOK'
    <2>1. session \in Sessions
        BY <1>0, Kinds, <1>4 DEF Listen, ClientInv, TypeOK
    <2> QED
        BY <1>0, <1>4, <2>1, LoopType DEF Listen, TypeOK
<1>5. CASE WaitMake
    <2>1. done' \in Chans /\ shut' \subseteq Chans
        BY <1>0, <1>5, FreshChannel DEF WaitMake, TypeOK
    <2> QED
        BY <1>0, <1>5, <2>1 DEF WaitMake, TypeOK
<1>6. ASSUME NEW k \in Sessions, Lose(k) \/ WaiterNotices(k) \/ WaiterEnds(k)
      PROVE  TypeOK'
    <2>1. CASE Lose(k)
        BY <1>0, <2>1 DEF Lose, TypeOK
    <2>2. CASE WaiterNotices(k)
        <3>1. waiter' \in [Sessions -> {"none", "wait", "flag", "done"}]
              /\ flagging' \in [Stoppers -> SUBSET Services]
            BY <1>0, <2>2 DEF WaiterNotices, TypeOK
        <3> QED
            BY <1>0, <2>2, <3>1 DEF WaiterNotices, TypeOK
    <2>3. CASE WaiterEnds(k)
        <3>1. waiter' \in [Sessions -> {"none", "wait", "flag", "done"}]
            BY <1>0, <2>3 DEF WaiterEnds, TypeOK
        <3> QED
            BY <1>0, <2>3, <3>1 DEF WaiterEnds, TypeOK
    <2> QED
        BY <1>6, <2>1, <2>2, <2>3
<1>7. ASSUME NEW a \in Stoppers, StopServices(a) PROVE TypeOK'
    BY <1>0, <1>7 DEF StopServices, TypeOK
<1>8. ASSUME NEW c \in Callers, Stop(c) \/ CloseCopy(c) \/ CloseDone(c)
      PROVE  TypeOK'
    <2>1. c \in Stoppers
        BY DEF Stoppers
    <2>2. CASE Stop(c)
        <3>1. flagging' \in [Stoppers -> SUBSET Services]
            BY <1>0, <2>1, <2>2 DEF Stop, TypeOK
        <3> QED
            BY <1>0, <2>1, <2>2, <3>1 DEF Stop, TypeOK
    <2>3. CASE CloseCopy(c)
        <3>1. caller' \in [Callers -> {"idle", "flag", "shut", "stuck"}]
            BY <1>0, <2>3 DEF CloseCopy, TypeOK
        <3> QED
            BY <1>0, <2>3, <3>1 DEF CloseCopy, TypeOK
    <2>4. CASE CloseDone(c)
        <3>1. copied[c] \in Chans \cup {None} /\ shut \subseteq Chans
            BY <1>0 DEF TypeOK
        <3>2. shut' \subseteq Chans /\ dead' \in {"no", "shut"}
            BY <1>0, <2>4, <3>1 DEF CloseDone, Alive
        <3> QED
            BY <1>0, <2>4, <3>2 DEF CloseDone, TypeOK
    <2> QED
        BY <1>8, <2>2, <2>3, <2>4
<1>9. ASSUME NEW s \in Services, NEW k \in Sessions,
             LoopTest(s, k) \/ LoopClose(s, k) \/ LoopClear(s, k)
      PROVE  TypeOK'
    <2>1. CASE LoopTest(s, k)
        <3>1. CASE ~svcStop[s] /\ ln[s] = None
            BY <1>0, <2>1, <3>1 DEF LoopTest, TypeOK
        <3>2. ASSUME NEW v \in {"accept", "exit"},
                     loop' = [loop EXCEPT ![s][k] = v], UNCHANGED dead
              PROVE  TypeOK'
            <4>1. loop' \in [Services -> [Sessions ->
                       {"none", "test", "accept", "exit", "clear", "over"}]]
                BY <1>0, <3>2, LoopType
            <4> QED
                BY <1>0, <2>1, <3>2, <4>1 DEF LoopTest, TypeOK
        <3> QED
            BY <2>1, <3>1, <3>2 DEF LoopTest
    <2>2. CASE LoopClose(s, k)
        <3>1. CASE ln[s] = None
            BY <1>0, <2>2, <3>1 DEF LoopClose, TypeOK
        <3>2. CASE ln[s] # None
            <4>1. loop' \in [Services -> [Sessions ->
                       {"none", "test", "accept", "exit", "clear", "over"}]]
                BY <1>0, <2>2, <3>2, LoopType DEF LoopClose
            <4>2. smu' \in [Services -> Locals \cup Sessions \cup {None}]
                  /\ bound' \in [Services -> Sessions \cup {None}]
                BY <1>0, <2>2, <3>2 DEF LoopClose, TypeOK
            <4> QED
                BY <1>0, <2>2, <3>2, <4>1, <4>2 DEF LoopClose, TypeOK
        <3> QED
            BY <3>1, <3>2
    <2>3. CASE LoopClear(s, k)
        <3>1. loop' \in [Services -> [Sessions ->
                   {"none", "test", "accept", "exit", "clear", "over"}]]
            BY <1>0, <2>3, LoopType DEF LoopClear
        <3> QED
            BY <1>0, <2>3, <3>1 DEF LoopClear, TypeOK
    <2> QED
        BY <1>9, <2>1, <2>2, <2>3
<1>10. ASSUME NEW s \in Services, NEW k \in Sessions, NEW l \in Locals,
              Accept(s, k, l)
       PROVE  TypeOK'
    BY <1>0, <1>10 DEF Accept, TypeOK
<1>15. ASSUME NEW s \in Services, NEW k \in Sessions, AcceptFails(s, k) PROVE TypeOK'
    BY <1>0, <1>15, LoopType DEF AcceptFails, TypeOK
<1>11. ASSUME NEW l \in Locals, GetCached(l) \/ ReadCached(l) \/ GetLocked(l)
       PROVE  TypeOK'
    <2>1. CASE GetCached(l)
        <3>2. place' \in [Locals -> Places]
            BY <1>0, <2>1 DEF GetCached, TypeOK, Places
        <3> QED
            BY <1>0, <2>1, <3>2 DEF GetCached, TypeOK, Places
    <2>3. CASE ReadCached(l)
        <3>1. svc[l] \in Services /\ con[svc[l]] \in Locals \cup {None}
            BY <1>0, <2>3 DEF ReadCached, LockInv, TypeOK
        <3>2. place' \in [Locals -> Places] /\ uses' \in [Locals -> Locals \cup {None}]
            BY <1>0, <2>3, <3>1 DEF ReadCached, TypeOK, Places
        <3>3. dead' \in {"no", "con"}
            BY <2>3 DEF ReadCached, Alive
        <3> QED
            BY <1>0, <2>3, <3>2, <3>3 DEF ReadCached, TypeOK, Places
    <2>2. CASE GetLocked(l)
        <3>1. svc[l] \in Services /\ con[svc[l]] \in Locals \cup {None}
            BY <1>0, <2>2 DEF GetLocked, LockInv, TypeOK
        <3>2. \E v \in {"dial", "done", "copy"} : place' = [place EXCEPT ![l] = v]
            BY <2>2 DEF GetLocked
        <3>4. place' \in [Locals -> Places]
            BY <1>0, <3>2 DEF TypeOK, Places
        <3>3. smu' \in [Services -> Locals \cup Sessions \cup {None}]
            BY <1>0, <2>2, <3>1 DEF GetLocked, TypeOK
        <3> QED
            BY <1>0, <2>2, <3>1, <3>3, <3>4 DEF GetLocked, TypeOK, Places
    <2> QED
        BY <1>11, <2>1, <2>2, <2>3
<1>12. ASSUME NEW l \in Locals, Dial(l) PROVE TypeOK'
    <2>1. svc[l] \in Services
        BY <1>0, <1>12 DEF Dial, LockInv
    <2>2. smu' \in [Services -> Locals \cup Sessions \cup {None}]
          /\ con' \in [Services -> Locals \cup {None}]
        BY <1>0, <1>12, <2>1 DEF Dial, TypeOK
    <2>3. /\ place' \in [Locals -> Places]
          /\ uses' \in [Locals -> Locals \cup {None}]
        <3>1. place' = place \/ \E v \in {"done", "copy"} : place' = [place EXCEPT ![l] = v]
            BY <1>12 DEF Dial
        <3>2. uses' = uses \/ uses' = [uses EXCEPT ![l] = l]
            BY <1>12 DEF Dial
        <3>3. place' \in [Locals -> Places]
            BY <1>0, <3>1 DEF TypeOK, Places
        <3> QED
            BY <1>0, <3>2, <3>3 DEF TypeOK
    <2>5. chanOf' \in [Locals -> Sessions \cup {None}] /\ late' \subseteq Locals
        <3>1. chanOf' = chanOf \/ chanOf' = [chanOf EXCEPT ![l] = client]
            BY <1>12 DEF Dial
        <3>2. late' = late \/ late' = late \cup {l}
            BY <1>12 DEF Dial
        <3> QED
            BY <1>0, <3>1, <3>2 DEF TypeOK
    <2>4. dead' \in {"no", "client"}
        BY <1>12 DEF Dial, Alive
    <2> QED
        BY <1>0, <1>12, <2>2, <2>3, <2>4, <2>5 DEF Dial, TypeOK, Places
<1>13. ASSUME NEW l \in Locals, CopiesEnd(l) PROVE TypeOK'
    BY <1>0, <1>13 DEF CopiesEnd, TypeOK, LockInv
<1>14. CASE UNCHANGED vars
    BY <1>0, <1>14 DEF vars, TypeOK
<1> QED
    BY <1>1, <1>2, <1>3, <1>4, <1>5, <1>6, <1>7, <1>8, <1>9, <1>10, <1>11, <1>12,
       <1>13, <1>14, <1>15
       DEF Next, Forever, Wait, Waiter, CloseDelayer, AcceptLoop, Forward, Stoppers

-----------------------------------------------------------------------------
(* The waiters and fw.client.                                              *)

LEMMA NextClientInv == ASSUME IInv, [Next]_vars PROVE ClientInv'
<1> USE DEF ClientInv, fwVars, sshVars
<1>0. TypeOK /\ ClientInv
    BY DEF IInv
<1>1. CASE Test
    BY <1>0, <1>1 DEF Test
<1>2. CASE Connect
    <2>1. \A k \in Sessions : waiter[k] # "wait" /\ (waiter[k] # "none" => k # session + 1)
        BY <1>0, <1>2, NoneAssumption DEF Connect, TypeOK, Sessions
    <2>2. session' = session \/ (session' = session + 1 /\ session + 1 \in Sessions)
        BY <1>0, <1>2, SessionsAssumption DEF Connect, TypeOK, Sessions
    <2> QED
        BY <1>0, <1>2, <2>1, <2>2, Kinds DEF Connect, TypeOK, Sessions
<1>3. CASE Reset \/ Lock
    BY <1>0, <1>3 DEF Reset, Lock
<1>4. ASSUME NEW s \in Services, Listen(s) PROVE ClientInv'
    BY <1>0, <1>4 DEF Listen
<1>5. CASE Unlock
    BY <1>0, <1>5 DEF Unlock, TypeOK, Sessions
<1>6. CASE WaitMake \/ WaitEnd
    BY <1>0, <1>6 DEF WaitMake, WaitEnd
<1>7. ASSUME NEW k \in Sessions, Lose(k) \/ WaiterEnds(k) PROVE ClientInv'
    BY <1>0, <1>7 DEF Lose, WaiterEnds, TypeOK
<1>8. ASSUME NEW k \in Sessions, WaiterNotices(k) PROVE ClientInv'
    <2>1. client = k /\ main \notin {"reset", "lock", "start"}
        BY <1>0, <1>8, Kinds DEF WaiterNotices
    <2> QED
        BY <1>0, <1>8, <2>1, Kinds DEF WaiterNotices, TypeOK
<1>9. ASSUME NEW a \in Stoppers, StopServices(a) PROVE ClientInv'
    BY <1>0, <1>9 DEF StopServices
<1>10. ASSUME NEW c \in Callers, Stop(c) \/ CloseCopy(c) \/ CloseDone(c)
       PROVE  ClientInv'
    BY <1>0, <1>10 DEF Stop, CloseCopy, CloseDone
<1>11. ASSUME NEW s \in Services, NEW k \in Sessions,
              LoopTest(s, k) \/ LoopClose(s, k) \/ LoopClear(s, k)
                  \/ AcceptFails(s, k) \/ (\E l \in Locals : Accept(s, k, l))
       PROVE  ClientInv'
    BY <1>0, <1>11 DEF LoopTest, LoopClose, LoopClear, Accept, AcceptFails
<1>12. ASSUME NEW l \in Locals,
              Forward(l) \/ CopiesEnd(l)
       PROVE  ClientInv'
    BY <1>0, <1>12 DEF Forward, GetCached, ReadCached, GetLocked, Dial, CopiesEnd
<1>13. CASE UNCHANGED vars
    BY <1>0, <1>13 DEF vars
<1> QED
    BY <1>1, <1>2, <1>3, <1>4, <1>5, <1>6, <1>7, <1>8, <1>9, <1>10, <1>11, <1>12,
       <1>13
       DEF Next, Forever, Wait, Waiter, CloseDelayer, AcceptLoop, Forward, Stoppers

-----------------------------------------------------------------------------
(* The accept loops of one service.                                        *)

LEMMA NextLoopInv == ASSUME IInv, [Next]_vars PROVE LoopInv'
<1> USE DEF fwVars, sshVars, delayVars, callVars, svcVars, localVars
<1>0. TypeOK /\ ClientInv /\ LoopInv /\ LockInv /\ StartInv /\ session \in Nat
    BY DEF IInv, TypeOK
<1>1. CASE \/ Test \/ Reset \/ Lock \/ Unlock \/ WaitMake \/ WaitEnd
           \/ \E k \in Sessions : Lose(k) \/ WaiterNotices(k) \/ WaiterEnds(k)
           \/ \E a \in Stoppers : StopServices(a)
           \/ \E c \in Callers : Stop(c) \/ CloseCopy(c) \/ CloseDone(c)
           \/ \E l \in Locals : GetCached(l) \/ ReadCached(l) \/ CopiesEnd(l)
           \/ UNCHANGED vars
    <2>1. UNCHANGED <<session, loop, bound, smu>>
        BY <1>1 DEF Test, Reset, Lock, Unlock, WaitMake, WaitEnd, Lose,
                    WaiterNotices, WaiterEnds, StopServices, Stop, CloseCopy,
                    CloseDone, GetCached, ReadCached, CopiesEnd, vars
    <2> QED
        BY <1>0, <2>1 DEF LoopInv, LoopHolds, LoopOrder
<1>2. CASE Connect
    <2>1. UNCHANGED <<loop, bound, smu>> /\ session' >= session /\ session' \in Nat
        BY <1>0, <1>2 DEF Connect
    <2>2. ASSUME NEW s \in Services, NEW k \in Sessions PROVE LoopHolds(s, k)'
        <3>1. LoopHolds(s, k) /\ k \in Nat
            BY <1>0, Kinds DEF LoopInv
        <3> QED
            BY <1>0, <2>1, <3>1 DEF LoopHolds
    <2>3. ASSUME NEW s \in Services, NEW j \in Sessions, NEW k \in Sessions
          PROVE  LoopOrder(s, j, k)'
        BY <1>0, <2>1 DEF LoopInv, LoopOrder
    <2> QED
        BY <2>2, <2>3 DEF LoopInv
<1>3. ASSUME NEW s \in Services, Listen(s) PROVE LoopInv'
    <2> USE ListenFacts
    <2>1. CASE bound[s] = None /\ bound'[s] = session
        <3>1. session \in Sessions /\ \A j \in Sessions : loop[s][j] \notin Holding
            BY <1>0, <1>3, <2>1, Kinds DEF LoopInv, LoopHolds
        <3>2. loop'[s][session] = "test"
            BY <1>0, <1>3, <2>1, <3>1, Kinds
        <3>3. ASSUME NEW t \in Services, NEW k \in Sessions PROVE LoopHolds(t, k)'
            <4>1. LoopHolds(t, k)
                BY <1>0 DEF LoopInv
            <4>2. CASE t = s /\ k = session
                BY <1>0, <1>3, <2>1, <3>1, <3>2, <4>2 DEF LoopHolds, Holding
            <4>3. CASE t = s /\ k # session
                BY <1>0, <1>3, <2>1, <3>1, <3>2, <4>1, <4>3, Kinds DEF LoopHolds, Holding
            <4>4. CASE t # s
                BY <1>0, <1>3, <2>1, <4>1, <4>4, Kinds DEF LoopHolds, Holding
            <4> QED
                BY <4>2, <4>3, <4>4
        <3>4. ASSUME NEW t \in Services, NEW j \in Sessions, NEW k \in Sessions
              PROVE  LoopOrder(t, j, k)'
            <4>1. LoopOrder(t, j, k) /\ LoopHolds(t, k)
                BY <1>0 DEF LoopInv
            <4>2. CASE t = s /\ k = session
                BY <1>0, <1>3, <2>1, <3>1, <3>2, <4>1, <4>2, Kinds DEF LoopOrder, Holding
            <4>3. CASE t = s /\ j = session
                BY <1>0, <1>3, <2>1, <3>1, <3>2, <4>1, <4>3, Kinds
                   DEF LoopOrder, LoopHolds, Holding
            <4>4. CASE t # s \/ (k # session /\ j # session)
                BY <1>0, <1>3, <2>1, <3>1, <4>1, <4>4, Kinds DEF LoopOrder, Holding
            <4> QED
                BY <4>2, <4>3, <4>4
        <3> QED
            BY <3>3, <3>4 DEF LoopInv
    <2>2. CASE UNCHANGED <<session, loop, bound, smu>>
        BY <1>0, <2>2 DEF LoopInv, LoopHolds, LoopOrder
    <2> QED
        BY <1>0, <1>3, <2>1, <2>2
<1>4. ASSUME NEW s \in Services, NEW k \in Sessions,
             LoopTest(s, k) \/ AcceptFails(s, k) \/ (\E l \in Locals : Accept(s, k, l))
      PROVE  LoopInv'
    <2>1. /\ UNCHANGED <<session, bound, smu>>
          /\ loop[s][k] \in Holding /\ loop'[s][k] \in Holding
          /\ \A t \in Services, j \in Sessions :
                t # s \/ j # k => loop'[t][j] = loop[t][j]
        BY <1>0, <1>4, LoopTestFacts, AcceptFailsFacts, AcceptFacts DEF Holding
    <2>2. ASSUME NEW t \in Services, NEW i \in Sessions PROVE LoopHolds(t, i)'
        <3>1. LoopHolds(t, i)
            BY <1>0 DEF LoopInv
        <3> QED
            BY <2>1, <3>1 DEF LoopHolds, Holding
    <2>3. ASSUME NEW t \in Services, NEW j \in Sessions, NEW i \in Sessions
          PROVE  LoopOrder(t, j, i)'
        <3>1. LoopOrder(t, j, i)
            BY <1>0 DEF LoopInv
        <3> QED
            BY <2>1, <3>1 DEF LoopOrder, Holding
    <2> QED
        BY <2>2, <2>3 DEF LoopInv
<1>5. ASSUME NEW s \in Services, NEW k \in Sessions, LoopClose(s, k)
      PROVE  LoopInv'
    <2>1. \A j \in Sessions : loop[s][j] # "clear"
        BY <1>0, <1>5, LoopCloseFacts, Kinds DEF LoopInv, LoopHolds, LoopOrder
    <2>2. bound[s] = k /\ \A j \in Sessions \ {k} : loop[s][j] \notin Holding
        BY <1>0, <1>5, LoopCloseFacts, Kinds DEF LoopInv, LoopHolds, LoopOrder, Holding
    <2>3. CASE UNCHANGED <<session, loop, bound, smu>>
        BY <1>0, <2>3 DEF LoopInv, LoopHolds, LoopOrder
    <2>4. CASE smu'[s] = k /\ loop'[s][k] = "clear"
        <3>1. /\ UNCHANGED session
              /\ \A t \in Services \ {s} : bound'[t] = bound[t] /\ smu'[t] = smu[t]
              /\ \A t \in Services, j \in Sessions :
                    t # s \/ j # k => loop'[t][j] = loop[t][j]
              /\ loop[s][k] = "exit"
            BY <1>0, <1>5, <2>4, LoopCloseFacts, Kinds
        <3>2. ASSUME NEW t \in Services, NEW i \in Sessions PROVE LoopHolds(t, i)'
            <4>1. LoopHolds(t, i)
                BY <1>0 DEF LoopInv
            <4> QED
                BY <2>1, <2>2, <2>4, <3>1, <4>1 DEF LoopHolds, Holding
        <3>3. ASSUME NEW t \in Services, NEW j \in Sessions, NEW i \in Sessions
              PROVE  LoopOrder(t, j, i)'
            <4>1. LoopOrder(t, j, i)
                BY <1>0 DEF LoopInv
            <4>2. j # k => t # s \/ loop[s][j] \in {"none", "over"}
                BY <1>0, <2>1, <2>2 DEF TypeOK, Holding
            <4>3. j < i => j # i
                BY Kinds
            <4> QED
                BY <2>1, <2>4, <3>1, <4>1, <4>2, <4>3 DEF LoopOrder, Holding
        <3> QED
            BY <3>2, <3>3 DEF LoopInv
    <2> QED
        BY <1>0, <1>5, <2>3, <2>4, LoopCloseFacts
<1>6. ASSUME NEW s \in Services, NEW k \in Sessions, LoopClear(s, k)
      PROVE  LoopInv'
    <2>1. \A j \in Sessions \ {k} : loop[s][j] # "clear"
        BY <1>0, <1>6, LoopClearFacts, Kinds DEF LoopInv, LoopHolds, LoopOrder
    <2>2. /\ UNCHANGED <<session, bound>> /\ loop[s][k] = "clear" /\ loop'[s][k] = "over"
          /\ \A t \in Services \ {s} : smu'[t] = smu[t]
          /\ \A t \in Services, j \in Sessions :
                t # s \/ j # k => loop'[t][j] = loop[t][j]
        BY <1>0, <1>6, LoopClearFacts
    <2>3. ASSUME NEW t \in Services, NEW i \in Sessions PROVE LoopHolds(t, i)'
        <3>1. LoopHolds(t, i)
            BY <1>0 DEF LoopInv
        <3> QED
            BY <2>1, <2>2, <3>1 DEF LoopHolds, Holding
    <2>4. ASSUME NEW t \in Services, NEW j \in Sessions, NEW i \in Sessions
          PROVE  LoopOrder(t, j, i)'
        <3>1. LoopOrder(t, j, i)
            BY <1>0 DEF LoopInv
        <3>2. j < i => j # i
            BY Kinds
        <3> QED
            BY <2>1, <2>2, <3>1, <3>2 DEF LoopOrder, Holding
    <2> QED
        BY <2>3, <2>4 DEF LoopInv
<1>7. ASSUME NEW l \in Locals, GetLocked(l) \/ Dial(l) PROVE LoopInv'
    <2>1. UNCHANGED <<session, loop, bound>>
        BY <1>7 DEF GetLocked, Dial
    <2>2. \A t \in Services, k \in Sessions : smu[t] = k => smu'[t] = k
        BY <1>0, <1>7, GetLockedFacts, DialFacts, Kinds DEF LockInv
    <2> QED
        BY <1>0, <2>1, <2>2 DEF LoopInv, LoopHolds, LoopOrder
<1> QED
    BY <1>1, <1>2, <1>3, <1>4, <1>5, <1>6, <1>7
       DEF Next, Forever, Wait, Waiter, CloseDelayer, AcceptLoop, Forward, Stoppers

-----------------------------------------------------------------------------
(* s.mu, s.con and the channels.                                           *)

LEMMA NextLockInv == ASSUME IInv, [Next]_vars PROVE LockInv'
<1> USE DEF fwVars, sshVars, delayVars, callVars, svcVars, localVars
<1>0. TypeOK /\ LockInv
    BY DEF IInv
<1>1. CASE \/ Forever
           \/ \E k \in Sessions : Lose(k) \/ WaiterNotices(k) \/ WaiterEnds(k)
           \/ \E a \in Stoppers : StopServices(a)
           \/ \E c \in Callers : Stop(c) \/ CloseCopy(c) \/ CloseDone(c)
           \/ \E s \in Services, k \in Sessions : LoopTest(s, k) \/ AcceptFails(s, k)
           \/ UNCHANGED vars
    <2>1. UNCHANGED <<place, svc, uses, chanOf, chanShut, con, smu>>
        BY <1>1 DEF Forever, Test, Connect, Reset, Lock, Unlock, Wait, WaitMake,
                    WaitEnd, Listen, Lose, WaiterNotices, WaiterEnds, StopServices,
                    Stop, CloseCopy, CloseDone, LoopTest, AcceptFails, vars
    <2> QED
        BY <1>0, <2>1 DEF LockInv
<1>2. ASSUME NEW s \in Services, NEW k \in Sessions, NEW l \in Locals,
             Accept(s, k, l)
      PROVE  LockInv'
    BY <1>0, <1>2, AcceptFacts DEF LockInv
<1>3. ASSUME NEW s \in Services, NEW k \in Sessions, LoopClose(s, k)
      PROVE  LockInv'
    <2>1. UNCHANGED <<place, svc, uses, chanOf, chanShut, con>>
          /\ \A t \in Services : smu[t] # None => smu'[t] = smu[t]
        BY <1>0, <1>3, LoopCloseFacts
    <2> QED
        BY <1>0, <2>1, Kinds DEF LockInv
<1>4. ASSUME NEW s \in Services, NEW k \in Sessions, LoopClear(s, k)
      PROVE  LockInv'
    <2>1. smu[s] = k
        BY <1>4, LoopClearFacts DEF IInv, LoopInv, LoopHolds
    <2> QED
        BY <1>0, <1>4, <2>1, LoopClearFacts, Kinds DEF LockInv
<1>5. ASSUME NEW l \in Locals, GetCached(l) PROVE LockInv'
    BY <1>0, <1>5 DEF GetCached, LockInv, TypeOK
<1>9. ASSUME NEW l \in Locals, ReadCached(l) PROVE LockInv'
    BY <1>0, <1>9 DEF ReadCached, LockInv, TypeOK
<1>6. ASSUME NEW l \in Locals, GetLocked(l) PROVE LockInv'
    BY <1>0, <1>6, GetLockedFacts, Kinds DEF LockInv
<1>7. ASSUME NEW l \in Locals, Dial(l) PROVE LockInv'
    <2> DEFINE s == svc[l]
    <2>1. /\ s \in Services /\ place[l] = "dial" /\ smu[s] = l /\ con[s] = None
          /\ UNCHANGED <<svc, chanShut>>
          /\ \A m \in Locals \ {l} :
                place'[m] = place[m] /\ uses'[m] = uses[m] /\ chanOf'[m] = chanOf[m]
          /\ \A t \in Services \ {s} : smu'[t] = smu[t] /\ con'[t] = con[t]
        BY <1>0, <1>7, DialFacts DEF LockInv
    <2>2. \/ UNCHANGED <<smu, con, place, uses, chanOf>>
          \/ /\ chanOf'[l] # None /\ smu'[s] = None /\ con'[s] = l
             /\ uses'[l] = l /\ place'[l] = "copy"
          \/ smu'[s] = None /\ place'[l] = "done" /\ UNCHANGED <<con, uses, chanOf>>
        BY <1>0, <1>7, DialFacts
    <2> HIDE DEF s
    <2>3. svc[l] = s /\ \A m \in Locals \ {l} : place[m] = "dial" => svc[m] # s
        BY <1>0, <2>1 DEF LockInv, s
    <2>4. \A t \in Services : con[t] \in Locals \cup {None}
        BY <1>0 DEF TypeOK
    <2>5. CASE UNCHANGED <<smu, con, place, uses, chanOf>>
        BY <1>0, <2>1, <2>5 DEF LockInv
    <2>6. CASE /\ chanOf'[l] # None /\ smu'[s] = None /\ con'[s] = l
               /\ uses'[l] = l /\ place'[l] = "copy"
        BY <1>0, <2>1, <2>3, <2>4, <2>6, Kinds DEF LockInv
    <2>7. CASE smu'[s] = None /\ place'[l] = "done" /\ UNCHANGED <<con, uses, chanOf>>
        BY <1>0, <2>1, <2>3, <2>4, <2>7 DEF LockInv
    <2> QED
        BY <2>2, <2>5, <2>6, <2>7
<1>8. ASSUME NEW l \in Locals, CopiesEnd(l) PROVE LockInv'
    BY <1>0, <1>8 DEF CopiesEnd, LockInv, TypeOK
<1> QED
    BY <1>1, <1>2, <1>3, <1>4, <1>5, <1>6, <1>7, <1>8, <1>9
       DEF Next, Waiter, CloseDelayer, AcceptLoop, Forward, Stoppers

-----------------------------------------------------------------------------
(* The accept loops and the main loop.                                     *)

LEMMA NextStartInv == ASSUME IInv, [Next]_vars PROVE StartInv'
<1> USE DEF fwVars, sshVars, delayVars, callVars, svcVars, localVars
<1>0. TypeOK /\ ClientInv /\ LoopInv /\ StartInv /\ session \in Nat
    BY DEF IInv, TypeOK
<1>1. CASE \/ \E k \in Sessions : Lose(k)
           \/ \E c \in Callers : Stop(c) \/ CloseCopy(c) \/ CloseDone(c)
           \/ \E l \in Locals : Forward(l) \/ CopiesEnd(l)
           \/ UNCHANGED vars
    <2>1. /\ UNCHANGED <<main, session, waiter, todo, loop, svcStop>>
          /\ Alive' => Alive
        BY <1>1 DEF Lose, Stop, CloseCopy, CloseDone, Forward, GetCached, ReadCached,
                    GetLocked, Dial, CopiesEnd, Alive, vars
    <2> QED
        BY <1>0, <2>1 DEF StartInv
<1>2. CASE Test \/ Wait
    BY <1>0, <1>2 DEF Test, Wait, WaitMake, WaitEnd, StartInv, Alive
<1>3. CASE Connect
    <2>1. \A s \in Services, k \in Sessions : k = session + 1 => loop[s][k] = "none"
        BY <1>0, Kinds DEF LoopInv, LoopHolds
    <2>2. UNCHANGED <<waiter, loop, svcStop>> /\ main' # "start"
          /\ (session' = session + 1 \/ (main' = "delay" /\ UNCHANGED session))
        BY <1>3 DEF Connect
    <2> QED
        BY <1>0, <2>1, <2>2 DEF StartInv
<1>4. CASE Reset
    BY <1>0, <1>4 DEF Reset, StartInv
<1>5. CASE Lock
    BY <1>0, <1>5 DEF Lock, StartInv
<1>6. ASSUME NEW s \in Services, Listen(s) PROVE StartInv'
    <2>1. CASE ~Alive' /\ UNCHANGED loop
        BY <1>0, <1>6, <2>1 DEF Listen, StartInv
    <2>2. CASE /\ loop'[s][session] = "test" /\ session \in Sessions
               /\ \A t \in Services, j \in Sessions :
                     t # s \/ j # session => loop'[t][j] = loop[t][j]
        BY <1>0, <1>6, <2>2 DEF Listen, StartInv, Alive
    <2> QED
        BY <1>0, <1>6, <2>1, <2>2, ListenFacts
<1>7. CASE Unlock
    <2>1. /\ main = "start" /\ todo = {} /\ Alive /\ main' = "delay"
          /\ \A k \in Sessions \ {session} : waiter'[k] = waiter[k]
          /\ UNCHANGED <<session, loop, svcStop>>
        BY <1>0, <1>7 DEF Unlock, TypeOK
    <2> QED
        BY <1>0, <2>1 DEF StartInv
<1>8. ASSUME NEW k \in Sessions, WaiterNotices(k) \/ WaiterEnds(k) PROVE StartInv'
    <2>1. \A j \in Sessions : waiter'[j] # "none" => waiter[j] # "none"
        BY <1>0, <1>8 DEF WaiterNotices, WaiterEnds, TypeOK
    <2>2. UNCHANGED <<main, session, todo, loop, svcStop, dead>>
        BY <1>8 DEF WaiterNotices, WaiterEnds
    <2> QED
        BY <1>0, <2>1, <2>2 DEF StartInv, Alive
<1>9. ASSUME NEW a \in Stoppers, StopServices(a) PROVE StartInv'
    <2>1. \A s \in Services : svcStop[s] => svcStop'[s]
        BY <1>0, <1>9 DEF StopServices, TypeOK
    <2> QED
        BY <1>0, <1>9, <2>1 DEF StopServices, StartInv, Alive
<1>10. ASSUME NEW s \in Services, NEW k \in Sessions,
              AcceptLoop(s, k) \/ AcceptFails(s, k)
                  \/ (\E l \in Locals : Accept(s, k, l))
       PROVE  StartInv'
    <2>1. /\ UNCHANGED <<main, session, waiter, todo, svcStop>> /\ (Alive' => Alive)
          /\ loop[s][k] # "none"
        BY <1>10 DEF AcceptLoop, AcceptFails, LoopTest, LoopClose, LoopClear, Accept,
                     Alive
    <2>2. \/ UNCHANGED loop
          \/ /\ loop'[s][k] # "none"
             /\ \A t \in Services, j \in Sessions :
                   t # s \/ j # k => loop'[t][j] = loop[t][j]
        BY <1>0, <1>10, LoopTestFacts, LoopCloseFacts, LoopClearFacts, AcceptFacts,
           AcceptFailsFacts
           DEF AcceptLoop
    <2> QED
        BY <1>0, <2>1, <2>2 DEF StartInv
<1> QED
    BY <1>1, <1>2, <1>3, <1>4, <1>5, <1>6, <1>7, <1>8, <1>9, <1>10
       DEF Next, Forever, Waiter, CloseDelayer, Stoppers

-----------------------------------------------------------------------------
(* What the cached channels were dialled for.                              *)

LEMMA NextInheritInv == ASSUME IInv, [Next]_vars PROVE InheritInv'
<1> USE DEF fwVars, sshVars, delayVars, callVars, svcVars, localVars
<1>0. /\ TypeOK /\ ClientInv /\ LoopInv /\ LockInv /\ StartInv /\ InheritInv
      /\ \A s \in Services : con[s] # None => con[s] \in Locals /\ chanOf[con[s]] \in Sessions
    BY DEF IInv, TypeOK, LockInv
<1>1. CASE \/ Test \/ Reset \/ Lock \/ Unlock \/ Wait
           \/ \E k \in Sessions : Lose(k) \/ WaiterEnds(k)
           \/ \E a \in Stoppers : StopServices(a)
           \/ \E c \in Callers : Stop(c) \/ CloseCopy(c) \/ CloseDone(c)
           \/ \E l \in Locals : \/ GetCached(l) \/ ReadCached(l) \/ GetLocked(l)
                               \/ CopiesEnd(l)
           \/ UNCHANGED vars
    <2>1. UNCHANGED <<con, chanOf, late, loop, client>>
        BY <1>1 DEF Test, Reset, Lock, Unlock, Wait, WaitMake, WaitEnd, Lose,
                    WaiterEnds, StopServices, Stop, CloseCopy, CloseDone,
                    GetCached, ReadCached, GetLocked, CopiesEnd, vars
    <2> QED
        BY <1>0, <2>1 DEF InheritInv
<1>2. CASE Connect
    BY <1>0, <1>2, Kinds DEF Connect, ClientInv, InheritInv
<1>3. ASSUME NEW k \in Sessions, WaiterNotices(k) PROVE InheritInv'
    <2>1. client = k /\ \A s \in Services : loop[s][k] # "none"
        BY <1>0, <1>3 DEF WaiterNotices, ClientInv, StartInv
    <2> QED
        BY <1>0, <1>3, <2>1 DEF WaiterNotices, InheritInv
<1>4. ASSUME NEW s \in Services, Listen(s) PROVE InheritInv'
    <2>1. UNCHANGED <<con, chanOf, late, client>>
        BY <1>4 DEF Listen
    <2>2. \A t \in Services, j \in Sessions :
             loop'[t][j] = loop[t][j] \/ loop'[t][j] = "test"
        BY <1>0, <1>4, ListenFacts
    <2> QED
        BY <1>0, <2>1, <2>2 DEF InheritInv
<1>5. ASSUME NEW s \in Services, NEW k \in Sessions,
             \/ LoopTest(s, k) \/ LoopClose(s, k) \/ AcceptFails(s, k)
             \/ (\E l \in Locals : Accept(s, k, l))
      PROVE  InheritInv'
    <2>1. UNCHANGED <<con, chanOf, late, client>>
        BY <1>5 DEF LoopTest, LoopClose, AcceptFails, Accept
    <2>2. \A t \in Services, j \in Sessions :
             loop'[t][j] = loop[t][j] \/ loop'[t][j] \notin {"none", "over"}
        BY <1>0, <1>5, LoopTestFacts, LoopCloseFacts, AcceptFacts, AcceptFailsFacts
    <2> QED
        BY <1>0, <2>1, <2>2 DEF InheritInv
<1>6. ASSUME NEW s \in Services, NEW k \in Sessions, LoopClear(s, k)
      PROVE  InheritInv'
    BY <1>0, <1>6, LoopClearFacts DEF InheritInv
<1>7. ASSUME NEW l \in Locals, Dial(l) PROVE InheritInv'
    <2> DEFINE s == svc[l]
    <2>1. /\ s \in Services /\ UNCHANGED <<client, loop>> /\ place[l] = "dial"
          /\ \A m \in Locals \ {l} : chanOf'[m] = chanOf[m]
          /\ \A t \in Services \ {s} : con'[t] = con[t]
        BY <1>0, <1>7, DialFacts
    <2>2. \/ UNCHANGED <<con, chanOf, late>>
          \/ /\ client # None /\ con'[s] = l /\ chanOf'[l] = client
             /\ late' = IF Running(s) THEN late ELSE late \cup {l}
        BY <1>0, <1>7, DialFacts
    <2> HIDE DEF s
    <2>3. \A t \in Services : con[t] # l
        BY <1>0, <2>1, Kinds DEF LockInv
    <2>4. CASE UNCHANGED <<con, chanOf, late>>
        BY <1>0, <2>1, <2>4 DEF InheritInv
    <2>5. CASE /\ client # None /\ con'[s] = l /\ chanOf'[l] = client
               /\ late' = IF Running(s) THEN late ELSE late \cup {l}
        <3>1. Running(s) => loop[s][client] # "over"
            <4>1. SUFFICES ASSUME NEW k \in Sessions, loop[s][k] \notin {"none", "over"}
                  PROVE  loop[s][client] # "over"
                BY DEF Running
            <4>2. LoopHolds(s, k) /\ LoopOrder(s, k, client) /\ client = session
                  /\ client \in Sessions
                BY <1>0, <2>1, <2>5 DEF LoopInv, ClientInv, TypeOK
            <4>3. k = client \/ k < client
                BY <4>1, <4>2, Kinds DEF LoopHolds
            <4> QED
                BY <4>1, <4>2, <4>3 DEF LoopOrder
        <3>2. \A t \in Services \ {s} : con[t] # None /\ con[t] \notin late' => con[t] \notin late
            BY <2>5
        <3>3. l \notin late' => Running(s)
            BY <2>5
        <3> QED
            BY <1>0, <2>1, <2>3, <2>5, <3>1, <3>2, <3>3 DEF InheritInv
    <2> QED
        BY <2>2, <2>4, <2>5
<1> QED
    BY <1>1, <1>2, <1>3, <1>4, <1>5, <1>6, <1>7
       DEF Next, Forever, Waiter, CloseDelayer, AcceptLoop, Forward, Stoppers

-----------------------------------------------------------------------------
(* The stop flags and the listeners of the accept loops.                   *)

LEMMA NextFlags == ASSUME IInv, [Next]_vars PROVE StaleLoopsFlagged'
<1> USE DEF fwVars, sshVars, delayVars, callVars, svcVars, localVars
<1>0. TypeOK /\ ClientInv /\ LoopInv /\ StartInv /\ StaleLoopsFlagged
    BY DEF IInv
<1>1. CASE \/ Test \/ Wait
           \/ \E k \in Sessions : Lose(k) \/ WaiterEnds(k)
           \/ \E c \in Callers : CloseCopy(c) \/ CloseDone(c)
           \/ \E l \in Locals : Forward(l) \/ CopiesEnd(l)
           \/ UNCHANGED vars
    <2>1. /\ UNCHANGED <<client, loop, svcStop, flagging>> /\ (Alive' => Alive)
          /\ main' \notin {"reset", "lock", "start"} => main \notin {"reset", "lock", "start"}
        BY <1>1 DEF Test, Wait, WaitMake, WaitEnd, Lose, WaiterEnds, CloseCopy, CloseDone,
                    Forward, GetCached, ReadCached, GetLocked, Dial, CopiesEnd, Alive, vars
    <2> QED
        BY <1>0, <2>1 DEF StaleLoopsFlagged
<1>2. CASE Connect
    BY <1>0, <1>2 DEF Connect, ClientInv, StaleLoopsFlagged, Alive
<1>3. CASE Reset \/ Lock \/ \E s \in Services : Listen(s)
    <2>1. main' \in {"reset", "lock", "start"}
        BY <1>3 DEF Reset, Lock, Listen
    <2> QED
        BY <2>1 DEF StaleLoopsFlagged
<1>4. CASE Unlock
    <2>1. /\ client = session /\ session \in Sessions /\ UNCHANGED <<client, loop>>
          /\ \A s \in Services : loop[s][session] # "none"
        BY <1>0, <1>4, Kinds DEF Unlock, ClientInv, StartInv, TypeOK
    <2>2. ASSUME NEW s \in Services, NEW k \in Sessions, loop[s][k] \in {"test", "accept"}
          PROVE  k = session
        <3>1. LoopHolds(s, k) /\ LoopOrder(s, k, session)
            BY <1>0, <2>1 DEF LoopInv
        <3> QED
            BY <2>1, <2>2, <3>1, Kinds DEF LoopHolds, LoopOrder, Holding
    <2> QED
        BY <2>1, <2>2 DEF StaleLoopsFlagged
<1>5. ASSUME NEW k \in Sessions, WaiterNotices(k) PROVE StaleLoopsFlagged'
    <2>1. client = k
        BY <1>0, <1>5 DEF WaiterNotices, ClientInv
    <2>2. /\ UNCHANGED <<main, loop, svcStop, dead>> /\ k \in Stoppers
          /\ \A a \in Stoppers : flagging[a] \subseteq flagging'[a]
          /\ flagging'[k] = Services
        BY <1>0, <1>5 DEF WaiterNotices, TypeOK, Stoppers
    <2> QED
        BY <1>0, <2>1, <2>2 DEF StaleLoopsFlagged, Alive, Stoppers
<1>6. ASSUME NEW a \in Stoppers, StopServices(a) PROVE StaleLoopsFlagged'
    <2>1. PICK s \in flagging[a] :
             /\ svcStop' = [svcStop EXCEPT ![s] = TRUE]
             /\ flagging' = [flagging EXCEPT ![a] = @ \ {s}]
        BY <1>6 DEF StopServices
    <2>2. /\ UNCHANGED <<main, client, loop, dead>>
          /\ \A t \in Services : (svcStop[t] => svcStop'[t]) /\ (t = s => svcStop'[t])
          /\ \A k \in Sessions, t \in Services \ {s} : t \in flagging[k] => t \in flagging'[k]
        BY <1>0, <1>6, <2>1 DEF StopServices, TypeOK, Stoppers
    <2> QED
        BY <1>0, <2>2 DEF StaleLoopsFlagged, Alive
<1>7. ASSUME NEW c \in Callers, Stop(c) PROVE StaleLoopsFlagged'
    <2>1. \A k \in Sessions : flagging'[k] = flagging[k]
        BY <1>0, <1>7, Kinds, CallersAssumption DEF Stop, TypeOK, Stoppers
    <2> QED
        BY <1>0, <1>7, <2>1 DEF Stop, StaleLoopsFlagged, Alive
<1>8. ASSUME NEW s \in Services, NEW k \in Sessions,
             AcceptLoop(s, k) \/ AcceptFails(s, k) \/ (\E l \in Locals : Accept(s, k, l))
      PROVE  StaleLoopsFlagged'
    <2>1. /\ UNCHANGED <<main, client, svcStop, flagging>> /\ (Alive' => Alive)
        BY <1>8 DEF AcceptLoop, AcceptFails, LoopTest, LoopClose, LoopClear, Accept, Alive
    <2>2. \A t \in Services, j \in Sessions :
             loop'[t][j] \in {"test", "accept"} => loop[t][j] \in {"test", "accept"}
        BY <1>0, <1>8, LoopTestFacts, LoopCloseFacts, LoopClearFacts, AcceptFacts,
           AcceptFailsFacts
           DEF AcceptLoop
    <2> QED
        BY <1>0, <2>1, <2>2 DEF StaleLoopsFlagged
<1> QED
    BY <1>1, <1>2, <1>3, <1>4, <1>5, <1>6, <1>7, <1>8
       DEF Next, Forever, Waiter, CloseDelayer, Stoppers

LEMMA NextListener == ASSUME IInv, [Next]_vars PROVE OwnListener'
<1> USE DEF fwVars, sshVars, delayVars, callVars, svcVars, localVars
<1>0. TypeOK /\ ClientInv /\ LoopInv /\ OwnListener
    BY DEF IInv
<1>1. CASE \/ Test \/ Connect \/ Reset \/ Lock \/ Unlock \/ Wait
           \/ \E k \in Sessions : Lose(k) \/ WaiterNotices(k) \/ WaiterEnds(k)
           \/ \E a \in Stoppers : StopServices(a)
           \/ \E c \in Callers : Stop(c) \/ CloseCopy(c) \/ CloseDone(c)
           \/ \E l \in Locals : Forward(l) \/ CopiesEnd(l)
           \/ UNCHANGED vars
    <2>1. UNCHANGED <<loop, ln>>
        BY <1>1 DEF Test, Connect, Reset, Lock, Unlock, Wait, WaitMake, WaitEnd, Lose,
                    WaiterNotices, WaiterEnds, StopServices, Stop, CloseCopy, CloseDone,
                    Forward, GetCached, ReadCached, GetLocked, Dial, CopiesEnd, vars
    <2> QED
        BY <1>0, <2>1 DEF OwnListener
<1>2. ASSUME NEW s \in Services, Listen(s) PROVE OwnListener'
    <2>1. CASE UNCHANGED <<ln, loop>>
        BY <1>0, <2>1 DEF OwnListener
    <2>2. CASE /\ bound[s] = None /\ ln'[s] = session /\ session \in Sessions
               /\ \A t \in Services \ {s} : ln'[t] = ln[t]
               /\ \A t \in Services, j \in Sessions :
                     t # s \/ j # session => loop'[t][j] = loop[t][j]
        <3>1. \A j \in Sessions : loop[s][j] \notin Holding
            BY <1>0, <2>2, Kinds DEF LoopInv, LoopHolds
        <3> QED
            BY <1>0, <2>2, <3>1 DEF OwnListener, Holding
    <2> QED
        BY <1>0, <1>2, <2>1, <2>2, ListenFacts
<1>3. ASSUME NEW s \in Services, NEW k \in Sessions,
             \/ LoopTest(s, k) \/ LoopClose(s, k) \/ AcceptFails(s, k)
             \/ (\E l \in Locals : Accept(s, k, l))
      PROVE  OwnListener'
    <2>1. /\ UNCHANGED ln /\ loop[s][k] # "over"
          /\ \A t \in Services, j \in Sessions :
                /\ loop'[t][j] \in Holding => loop[t][j] \in Holding
                /\ loop[t][j] = "over" => loop'[t][j] = "over"
        BY <1>0, <1>3, LoopTestFacts, LoopCloseFacts, AcceptFacts, AcceptFailsFacts
           DEF Holding
    <2> QED
        BY <1>0, <2>1 DEF OwnListener, Holding
<1>4. ASSUME NEW s \in Services, NEW k \in Sessions, LoopClear(s, k)
      PROVE  OwnListener'
    <2>1. /\ loop[s][k] = "clear" /\ loop'[s][k] = "over" /\ ln'[s] = None
          /\ \A t \in Services \ {s} : ln'[t] = ln[t]
          /\ \A t \in Services, j \in Sessions :
                t # s \/ j # k => loop'[t][j] = loop[t][j]
        BY <1>0, <1>4, LoopClearFacts
    <2>2. \A j \in Sessions : loop[s][j] \in Holding => k < j
        <3>1. ASSUME NEW j \in Sessions, loop[s][j] \in Holding PROVE k < j
            <4>1. LoopOrder(s, j, k) /\ j \in Nat /\ k \in Nat /\ j # k
                BY <1>0, <2>1, <3>1, Kinds DEF LoopInv, Holding
            <4> QED
                BY <2>1, <3>1, <4>1 DEF LoopOrder
        <3> QED
            BY <3>1
    <2>3. ASSUME NEW j \in Sessions, loop'[s][j] \in Holding
          PROVE  \E i \in Sessions : i < j /\ loop'[s][i] = "over"
        BY <2>1, <2>2, <2>3 DEF Holding
    <2>4. \A t \in Services \ {s}, j \in Sessions : loop'[t][j] = loop[t][j]
        BY <2>1
    <2> QED
        BY <1>0, <2>1, <2>3, <2>4 DEF OwnListener, Holding
<1> QED
    BY <1>1, <1>2, <1>3, <1>4
       DEF Next, Forever, Waiter, CloseDelayer, AcceptLoop, Stoppers

-----------------------------------------------------------------------------
LEMMA InvariantHolds == Spec => []IInv
<1>1. Init => IInv
    BY InitIInv
<1>2. IInv /\ [Next]_vars => IInv'
    BY NextTypeOK, NextClientInv, NextLoopInv, NextLockInv, NextStartInv,
       NextInheritInv, NextFlags, NextListener DEF IInv
<1> QED
    BY <1>1, <1>2, PTL DEF Spec

\* The forwarder's variables keep their types: in particular Wait always finds a
\* channel that no caller of Stop refers to (forwarder.go:108, common.go:44).
THEOREM ForwarderTypeOK == Spec => []TypeOK
<1>1. IInv => TypeOK
    BY DEF IInv
<1> QED
    BY <1>1, InvariantHolds, PTL

\* getConn's second test (service.go:161): a service never has two channels open.
THEOREM ForwarderOneChannel == Spec => []OneChannel
<1>1. IInv => OneChannel
    BY DEF IInv, LockInv, OneChannel
<1> QED
    BY <1>1, InvariantHolds, PTL

\* A channel of a lost connection is inherited (service.go:156) only when it was
\* dialled after the accept loop had ended.
THEOREM ForwarderOnlyLateInherited == Spec => []OnlyLateInherited
<1>1. IInv => OnlyLateInherited
    BY DEF IInv, InheritInv, OnlyLateInherited
<1> QED
    BY <1>1, InvariantHolds, PTL

\* An accept loop without its stop flag belongs to the connection in use, except
\* between the reset of the flags and the start of the services (forwarder.go:79).
THEOREM ForwarderStaleLoopsFlagged == Spec => []StaleLoopsFlagged
<1>1. IInv => StaleLoopsFlagged
    BY DEF IInv
<1> QED
    BY <1>1, InvariantHolds, PTL

\* An accept loop never uses the listener of another session, and loses its own
\* only to an older loop that ends late (service.go:119).
THEOREM ForwarderOwnListener == Spec => []OwnListener
<1>1. IInv => OwnListener
    BY DEF IInv
<1> QED
    BY <1>1, InvariantHolds, PTL
=============================================================================
