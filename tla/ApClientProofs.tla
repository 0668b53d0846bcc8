---------------------------- MODULE ApClientProofs ----------------------------
(***************************************************************************)
(* The safety invariants of ApClient, for every set of services and every  *)
(* number of connections.                                                  *)
(*                                                                         *)
(* ConnInv: a waiter waits only for the connection that c.client names,    *)
(* and the main loop is outside its loop only while c.client is nil; so    *)
(* nothing but the loss of a connection gets rid of it.                    *)
(*                                                                         *)
(* CountInv: a registrar that registered a service on the connection has   *)
(* passed it for good (Passed): it is about to enter the listener in       *)
(* c.registered, or finds the service there.  Registrars only ever join    *)
(* that set while the connection lasts, since c.registered loses entries   *)
(* only in the teardown.  Each registration adds one, which bounds their   *)
(* number by that of the registrars.                                       *)
(***************************************************************************)
EXTENDS ApClient, FiniteSetTheorems, TLAPS

\* Registrars that will not register s on the connection any more.
Passed(s) ==
    {r \in Conns :
        \/ reg[r] = "assign" /\ item[r] = <<s, client>>
        \/ registered[s] # Nil /\ ~(reg[r] = "listen" /\ item[r][1] = s)}

ConnInv ==
    /\ alive \subseteq {made}
    /\ client \in {Nil, made}
    /\ \A k \in alive : client = k
    /\ \A k \in Conns : waiter[k] = "wait" => client = k
    /\ main \in {"connect", "close", "reset"} => client = Nil
    /\ \A l \in listeners : l[2] <= made

ItemInv ==
    \A r \in Conns :
        /\ reg[r] = "listen" => item[r] \in Services \X {Nil}
        /\ reg[r] = "assign" => item[r] \in Services \X Conns
        /\ reg[r] \notin {"listen", "assign"} => item[r] = <<>>
        /\ r > made => reg[r] = "none"

CountInv ==
    \A s \in Services, k \in Conns :
        /\ listens[s][k] <= Cardinality(workers[k])
        /\ k = client => listens[s][k] <= Cardinality(workers[k] \cap Passed(s))
        /\ k > made => listens[s][k] = 0

LoneInv ==
    ~ShortReconnect =>
        /\ \A r \in Conns : reg[r] \notin {"none", "ended"} => r = made
        /\ \A k \in Conns : workers[k] \subseteq {k}

IInv == TypeOK /\ ConnInv /\ ItemInv /\ CountInv /\ LoneInv /\ ListenersKnown

-----------------------------------------------------------------------------
\* Sets of registrars are finite.
LEMMA Registrars ==
    ASSUME NEW S \in SUBSET Conns
    PROVE  IsFiniteSet(S) /\ Cardinality(S) \in Nat
<1>1. IsFiniteSet(Conns)
    BY ConnectsAssumption, FS_Interval DEF Conns
<1> QED
    BY <1>1, FS_Subset, FS_CardinalityType

\* More registrars count for more.
LEMMA MoreRegistrars ==
    ASSUME NEW T \in SUBSET Conns, NEW S \in SUBSET T
    PROVE  Cardinality(S) <= Cardinality(T)
BY Registrars, FS_Subset

LEMMA OneMoreRegistrar ==
    ASSUME NEW T \in SUBSET Conns, NEW S \in SUBSET T, NEW r \in T, r \notin S
    PROVE  Cardinality(S) + 1 <= Cardinality(T)
<1>1. Cardinality(S \cup {r}) = Cardinality(S) + 1
    BY Registrars, FS_AddElement
<1> QED
    BY <1>1, MoreRegistrars

LEMMA InitIInv == Init => IInv
<1> SUFFICES ASSUME Init PROVE IInv
    OBVIOUS
<1> USE ConnectsAssumption DEF Init, Conns, Nil
<1>1. TypeOK
    <2>1. /\ item \in [Conns -> (Services \X (Conns \cup {Nil})) \cup {<<>>}]
          /\ listens \in [Services -> [Conns -> Nat]]
        OBVIOUS
    <2>2. /\ waiter \in [Conns -> WaiterPlaces] /\ reg \in [Conns -> RegPlaces]
          /\ todo \in [Conns -> SUBSET Services]
          /\ registered \in [Services -> Conns \cup {Nil}]
          /\ workers \in [Conns -> SUBSET Conns]
        BY DEF WaiterPlaces, RegPlaces
    <2>3. made \in 0..MaxConnects
        OBVIOUS
    <2>4. /\ client \in Conns \cup {Nil} /\ alive \subseteq Conns
          /\ listeners \subseteq Services \X Conns
        OBVIOUS
    <2>5. main \in MainPlaces /\ crashed \in BOOLEAN
        BY DEF MainPlaces
    <2> QED
        BY ONLY <2>1, <2>2, <2>3, <2>4, <2>5 DEF TypeOK
<1>2. ConnInv /\ ItemInv /\ LoneInv /\ ListenersKnown
    BY DEF ConnInv, ItemInv, LoneInv, ListenersKnown
<1>3. CountInv
    BY Registrars DEF CountInv
<1> QED
    BY <1>1, <1>2, <1>3 DEF IInv

-----------------------------------------------------------------------------
(* Every step keeps each part of the invariant.                            *)

LEMMA NextTypeOK == TypeOK /\ ItemInv /\ [Next]_vars => TypeOK'
<1> SUFFICES ASSUME TypeOK, ItemInv, [Next]_vars PROVE TypeOK'
    OBVIOUS
<1> USE ConnectsAssumption DEF TypeOK, Conns, Nil, MainPlaces, WaiterPlaces, RegPlaces
<1>1. CASE Connect
    BY <1>1 DEF Connect
<1>2. CASE Main
    BY <1>2 DEF Main, MainTest, MainPing, MainClose, MainReset
<1>3. ASSUME NEW k \in Conns, Lose(k) \/ Waiter(k) PROVE TypeOK'
    BY <1>3 DEF Lose, Waiter, goVars
<1>4. ASSUME NEW r \in Conns, Registrar(r) PROVE TypeOK'
    <2>1. CASE RegTest(r) \/ RegPassEnds(r) \/ RegPanics(r)
        BY <2>1 DEF RegTest, RegPassEnds, RegPanics, goVars
    <2>2. ASSUME NEW s \in Services, RegScan(r, s) PROVE TypeOK'
        <3>1. \/ item' = item
              \/ item' = [item EXCEPT ![r] = <<s, Nil>>]
            BY <2>2 DEF RegScan
        <3>2. item' \in [Conns -> (Services \X (Conns \cup {Nil})) \cup {<<>>}]
            BY <3>1
        <3> QED
            BY <2>2, <3>2 DEF RegScan
    <2>3. CASE RegListens(r)
        <3>1. item[r] \in Services \X {Nil} /\ client \in Conns
            BY <2>3 DEF RegListens, ItemInv
        <3> DEFINE s == item[r][1]
        <3>2. s \in Services
            BY <3>1
        <3>3. item' \in [Conns -> (Services \X (Conns \cup {Nil})) \cup {<<>>}]
            BY <2>3, <3>1, <3>2 DEF RegListens
        <3>4. listeners' \subseteq Services \X Conns
            BY <2>3, <3>1, <3>2 DEF RegListens
        <3>5. listens' \in [Services -> [Conns -> Nat]]
            BY <2>3, <3>1, <3>2 DEF RegListens
        <3>6. /\ workers' \in [Conns -> SUBSET Conns]
              /\ reg' \in [Conns -> RegPlaces]
            BY <2>3, <3>1 DEF RegListens
        <3>7. UNCHANGED <<made, client, alive, main, waiter, todo, registered, crashed>>
            BY <2>3 DEF RegListens
        <3> QED
            BY <3>3, <3>4, <3>5, <3>6, <3>7
    <2>4. CASE RegFails(r)
        BY <2>4 DEF RegFails
    <2>5. CASE RegAssign(r)
        <3>1. item[r] \in Services \X Conns
            BY <2>5 DEF RegAssign, ItemInv
        <3> QED
            BY <2>5, <3>1 DEF RegAssign
    <2> QED
        BY <1>4, <2>1, <2>2, <2>3, <2>4, <2>5 DEF Registrar
<1>5. CASE MapFault \/ AcceptLoopEnds
    BY <1>5 DEF MapFault, AcceptLoopEnds, goVars
<1>6. CASE UNCHANGED vars
    BY <1>6 DEF vars, goVars
<1> QED
    BY <1>1, <1>2, <1>3, <1>4, <1>5, <1>6 DEF Next

LEMMA NextConnInv == TypeOK /\ ConnInv /\ [Next]_vars => ConnInv'
<1> SUFFICES ASSUME TypeOK, ConnInv, [Next]_vars PROVE ConnInv'
    OBVIOUS
<1> USE ConnectsAssumption DEF ConnInv, Conns, Nil
<1>1. CASE Connect
    BY <1>1 DEF Connect, TypeOK
<1>2. CASE Main
    BY <1>2 DEF Main, MainTest, MainPing, MainClose, MainReset
<1>3. ASSUME NEW k \in Conns, Lose(k) PROVE ConnInv'
    BY <1>3 DEF Lose, goVars
<1>4. ASSUME NEW k \in Conns, Waiter(k) PROVE ConnInv'
    <2>1. client = k /\ alive = {}
        BY <1>4 DEF Waiter
    <2> QED
        BY <1>4, <2>1 DEF Waiter, TypeOK
<1>5. ASSUME NEW r \in Conns, Registrar(r) PROVE ConnInv'
    <2>1. /\ UNCHANGED <<made, client, alive, main, waiter>>
          /\ ~RegListens(r) => listeners' = listeners
        BY <1>5 DEF Registrar, RegTest, RegScan, RegPassEnds, RegPanics, RegListens,
                    RegFails, RegAssign, goVars
    <2>2. CASE RegListens(r)
        <3>1. client = made /\ made \in Nat
            BY <2>2 DEF RegListens, TypeOK
        <3>2. \A l \in listeners' : l[2] <= made
            BY <2>2, <3>1 DEF RegListens
        <3> QED
            BY <2>1, <3>2
    <2> QED
        BY <2>1, <2>2
<1>6. CASE MapFault \/ AcceptLoopEnds \/ UNCHANGED vars
    BY <1>6 DEF MapFault, AcceptLoopEnds, vars, goVars
<1> QED
    BY <1>1, <1>2, <1>3, <1>4, <1>5, <1>6 DEF Next

LEMMA NextItemInv == TypeOK /\ ItemInv /\ [Next]_vars => ItemInv'
<1> SUFFICES ASSUME TypeOK, ItemInv, [Next]_vars PROVE ItemInv'
    OBVIOUS
<1> USE ConnectsAssumption DEF TypeOK, ItemInv, Conns, Nil, RegPlaces
<1>1. CASE Connect
    <2>1. made + 1 \in Conns => reg[made + 1] = "none"
        OBVIOUS
    <2>2. UNCHANGED item /\ made' = made + 1 /\ reg' = [reg EXCEPT ![made + 1] = "test"]
        BY <1>1 DEF Connect
    <2> QED
        BY <2>1, <2>2
<1>2. CASE Main
    BY <1>2 DEF Main, MainTest, MainPing, MainClose, MainReset
<1>3. ASSUME NEW k \in Conns, Lose(k) \/ Waiter(k) PROVE ItemInv'
    BY <1>3 DEF Lose, Waiter, goVars
<1>4. ASSUME NEW r \in Conns, Registrar(r) PROVE ItemInv'
    <2>1. CASE RegTest(r) \/ RegPassEnds(r) \/ RegPanics(r)
        <3>1. /\ UNCHANGED <<made, item>>
              /\ reg' = reg \/ \E place \in {"test", "scan", "ended"} :
                    /\ reg' = [reg EXCEPT ![r] = place]
                    /\ reg[r] \in {"test", "scan"}
            BY <2>1 DEF RegTest, RegPassEnds, RegPanics, goVars
        <3> QED
            BY <3>1
    <2>2. ASSUME NEW s \in Services, RegScan(r, s) PROVE ItemInv'
        <3>1. CASE UNCHANGED <<reg, item>>
            BY <2>2, <3>1 DEF RegScan
        <3>2. CASE /\ reg' = [reg EXCEPT ![r] = "listen"]
                   /\ item' = [item EXCEPT ![r] = <<s, Nil>>]
            <4>1. reg[r] = "scan" /\ made' = made /\ <<s, Nil>> \in Services \X {Nil}
                BY <2>2 DEF RegScan
            <4> QED
                BY ONLY TypeOK, ItemInv, <3>2, <4>1
        <3> QED
            BY <2>2, <3>1, <3>2 DEF RegScan
    <2>3. CASE RegListens(r)
        <3>1. item[r] \in Services \X {Nil} /\ client \in Conns
            BY <2>3 DEF RegListens
        <3> QED
            BY <2>3, <3>1 DEF RegListens
    <2>4. CASE RegFails(r) \/ RegAssign(r)
        BY <2>4 DEF RegFails, RegAssign
    <2> QED
        BY <1>4, <2>1, <2>2, <2>3, <2>4 DEF Registrar
<1>5. CASE MapFault \/ AcceptLoopEnds \/ UNCHANGED vars
    BY <1>5 DEF MapFault, AcceptLoopEnds, vars, goVars
<1> QED
    BY <1>1, <1>2, <1>3, <1>4, <1>5 DEF Next

-----------------------------------------------------------------------------
\* A step that registers nothing keeps CountInv when no registrar leaves Passed.
LEMMA CountKept ==
    ASSUME TypeOK, TypeOK', CountInv,
           listens' = listens, workers' = workers, made' >= made,
           client' \in {client, Nil},
           client' # Nil => \A s \in Services : Passed(s) \subseteq Passed(s)'
    PROVE  CountInv'
<1> SUFFICES ASSUME NEW s \in Services, NEW k \in Conns
             PROVE  /\ listens[s][k] <= Cardinality(workers[k])
                    /\ k = client' =>
                          listens[s][k] <= Cardinality(workers[k] \cap Passed(s)')
                    /\ k > made' => listens[s][k] = 0
    BY DEF CountInv
<1>1. listens[s][k] <= Cardinality(workers[k])
    BY DEF CountInv
<1>2. ASSUME k = client'
      PROVE  listens[s][k] <= Cardinality(workers[k] \cap Passed(s)')
    <2>1. k = client /\ Passed(s) \subseteq Passed(s)'
        BY <1>2 DEF Conns, Nil
    <2>2. listens[s][k] <= Cardinality(workers[k] \cap Passed(s))
        BY <2>1 DEF CountInv
    <2>3. workers[k] \in SUBSET Conns
        BY DEF TypeOK
    <2>4. Cardinality(workers[k] \cap Passed(s))
              <= Cardinality(workers[k] \cap Passed(s)')
        BY <2>1, <2>3, MoreRegistrars
    <2>5. /\ Cardinality(workers[k] \cap Passed(s)) \in Nat
          /\ Cardinality(workers[k] \cap Passed(s)') \in Nat
        BY <2>3, Registrars
    <2>6. listens[s][k] \in Nat
        BY DEF TypeOK
    <2> QED
        BY <2>2, <2>4, <2>5, <2>6
<1>3. ASSUME k > made' PROVE listens[s][k] = 0
    <2>1. k \in Nat /\ made \in Nat /\ made' \in Nat
        BY ConnectsAssumption DEF TypeOK, Conns
    <2>2. k > made
        BY <1>3, <2>1
    <2> QED
        BY <2>2 DEF CountInv
<1> QED
    BY <1>1, <1>2, <1>3

\* A registration counts its registrar, which has just passed the service.
LEMMA CountGrows ==
    ASSUME TypeOK, TypeOK', ConnInv, ItemInv, CountInv,
           NEW r \in Conns, RegListens(r)
    PROVE  CountInv'
<1> DEFINE s1 == item[r][1]
<1>1. client \in Conns /\ client = made /\ client' = client /\ made' = made
    BY DEF RegListens, TypeOK, ConnInv, Conns, Nil
<1>2. /\ reg[r] = "listen" /\ reg' = [reg EXCEPT ![r] = "assign"]
      /\ item' = [item EXCEPT ![r] = <<s1, client>>] /\ registered' = registered
      /\ workers' = [workers EXCEPT ![client] = @ \cup {r}]
      /\ listens' = [listens EXCEPT ![s1][client] = @ + 1]
      /\ s1 \in Services
    BY DEF RegListens, ItemInv
<1>3. \A s \in Services : Passed(s) \subseteq Passed(s)'
    BY <1>1, <1>2 DEF Passed, TypeOK
<1>4. \A s \in Services : s = s1 => r \in Passed(s)' /\ r \notin Passed(s)
    BY <1>1, <1>2 DEF Passed, TypeOK
<1> SUFFICES ASSUME NEW s \in Services, NEW k \in Conns
             PROVE  /\ listens'[s][k] <= Cardinality(workers'[k])
                    /\ k = client =>
                          listens'[s][k] <= Cardinality(workers'[k] \cap Passed(s)')
                    /\ k > made => listens'[s][k] = 0
    BY <1>1 DEF CountInv
<1>5. /\ workers[k] \in SUBSET Conns /\ workers'[k] \in SUBSET Conns
      /\ workers[k] \subseteq workers'[k] /\ listens[s][k] \in Nat
    BY <1>1, <1>2 DEF TypeOK
<1>6. /\ Cardinality(workers[k] \cap Passed(s)) \in Nat
      /\ Cardinality(workers'[k] \cap Passed(s)') \in Nat
      /\ Cardinality(workers[k]) \in Nat /\ Cardinality(workers'[k]) \in Nat
    BY <1>5, Registrars
<1>7. CASE s = s1 /\ k = client
    <2>1. listens'[s][k] = listens[s][k] + 1 /\ r \in workers'[k]
        BY <1>1, <1>2, <1>7 DEF TypeOK
    <2>2. listens[s][k] <= Cardinality(workers[k] \cap Passed(s))
        BY <1>7 DEF CountInv
    <2>3. Cardinality(workers[k] \cap Passed(s)) + 1
              <= Cardinality(workers'[k] \cap Passed(s)')
        <3> DEFINE S == workers[k] \cap Passed(s)
                   T == workers'[k] \cap Passed(s)'
        <3>1. Passed(s) \subseteq Passed(s)' /\ r \in Passed(s)' /\ r \notin Passed(s)
            BY <1>3, <1>4, <1>7
        <3>2. T \in SUBSET Conns /\ S \in SUBSET T
            BY <1>5, <3>1
        <3>3. r \in T /\ r \notin S
            BY <2>1, <3>1
        <3> HIDE DEF S, T
        <3>4. Cardinality(S) + 1 <= Cardinality(T)
            BY <3>2, <3>3, OneMoreRegistrar
        <3> QED
            BY <3>4 DEF S, T
    <2>4. Cardinality(workers'[k] \cap Passed(s)') <= Cardinality(workers'[k])
        BY <1>5, MoreRegistrars
    <2> QED
        BY <1>1, <1>5, <1>6, <1>7, <2>1, <2>2, <2>3, <2>4 DEF Conns
<1>8. CASE ~(s = s1 /\ k = client)
    <2>1. listens'[s][k] = listens[s][k]
        BY <1>1, <1>2, <1>8 DEF TypeOK
    <2>2. /\ listens[s][k] <= Cardinality(workers[k])
          /\ k = client => listens[s][k] <= Cardinality(workers[k] \cap Passed(s))
          /\ k > made => listens[s][k] = 0
        BY DEF CountInv
    <2>3. Cardinality(workers[k]) <= Cardinality(workers'[k])
        BY <1>5, MoreRegistrars
    <2>4. Cardinality(workers[k] \cap Passed(s))
              <= Cardinality(workers'[k] \cap Passed(s)')
        BY <1>3, <1>5, MoreRegistrars
    <2> QED
        BY <1>5, <1>6, <2>1, <2>2, <2>3, <2>4
<1> QED
    BY <1>7, <1>8

LEMMA NextCountInv ==
    TypeOK /\ TypeOK' /\ ConnInv /\ ItemInv /\ CountInv /\ [Next]_vars => CountInv'
<1> SUFFICES ASSUME TypeOK, TypeOK', ConnInv, ItemInv, CountInv, [Next]_vars
             PROVE  CountInv'
    OBVIOUS
<1>1. CASE Connect
    <2>1. made \in Nat /\ made' = made + 1 /\ client' = made + 1
        BY <1>1, ConnectsAssumption DEF Connect, TypeOK
    <2>2. ASSUME NEW s \in Services, NEW k \in Conns
          PROVE  /\ Cardinality(workers[k]) \in Nat
                 /\ Cardinality(workers[k] \cap Passed(s)') \in Nat
        BY Registrars DEF TypeOK
    <2> QED
        <3>1. UNCHANGED <<listens, workers>>
            BY <1>1 DEF Connect
        <3>2. \A s \in Services, k \in Conns : k >= made + 1 => listens[s][k] = 0
            <4>1. \A s \in Services, k \in Conns : k > made => listens[s][k] = 0
                BY DEF CountInv
            <4>2. \A k \in Conns : k >= made + 1 => k > made
                BY <2>1, ConnectsAssumption DEF Conns
            <4> QED
                BY <4>1, <4>2
        <3>3. \A s \in Services, k \in Conns : k > made' => listens[s][k] = 0
            BY <2>1, <3>2, ConnectsAssumption DEF Conns
        <3>4. \A s \in Services, k \in Conns :
                  listens[s][k] <= Cardinality(workers[k])
            BY DEF CountInv
        <3>5. \A s \in Services, k \in Conns :
                  k = client' =>
                      listens[s][k] <= Cardinality(workers[k] \cap Passed(s)')
            BY <2>1, <2>2, <3>2
        <3> QED
            BY <3>1, <3>3, <3>4, <3>5 DEF CountInv
<1>2. CASE Main
    <2>1. client' # Nil => \A s \in Services : Passed(s) \subseteq Passed(s)'
        BY <1>2 DEF Main, MainTest, MainPing, MainClose, MainReset, ConnInv, Passed
    <2> QED
        BY <1>2, <2>1, CountKept
        DEF Main, MainTest, MainPing, MainClose, MainReset, TypeOK
<1>3. ASSUME NEW k \in Conns, Lose(k) \/ Waiter(k) PROVE CountInv'
    <2>1. client' # Nil => \A s \in Services : Passed(s) \subseteq Passed(s)'
        BY <1>3 DEF Lose, Waiter, goVars, Passed
    <2> QED
        BY <1>3, <2>1, CountKept DEF Lose, Waiter, TypeOK
<1>4. ASSUME NEW r \in Conns, Registrar(r) PROVE CountInv'
    <2>1. CASE RegTest(r) \/ RegPassEnds(r) \/ RegPanics(r) \/ RegFails(r)
        <3>1. /\ UNCHANGED <<registered, client>>
              /\ reg[r] # "assign" /\ reg'[r] # "assign"
              /\ reg'[r] = "listen" => reg[r] = "listen" /\ item' = item
              /\ \A q \in Conns \ {r} : reg'[q] = reg[q] /\ item'[q] = item[q]
            BY <2>1 DEF RegTest, RegPassEnds, RegPanics, RegFails, goVars, TypeOK
        <3>2. \A s \in Services : Passed(s) \subseteq Passed(s)'
            BY <3>1 DEF Passed
        <3> QED
            BY <2>1, <3>2, CountKept
            DEF RegTest, RegPassEnds, RegPanics, RegFails, TypeOK
    <2>2. ASSUME NEW s1 \in Services, RegScan(r, s1) PROVE CountInv'
        <3>1. \A s \in Services : Passed(s) \subseteq Passed(s)'
            BY <2>2 DEF RegScan, Passed, TypeOK
        <3>2. UNCHANGED <<listens, workers, made, client>> /\ made \in Nat
            BY <2>2, ConnectsAssumption DEF RegScan, TypeOK
        <3> QED
            BY <3>1, <3>2, CountKept
    <2>3. CASE RegListens(r)
        BY <2>3, CountGrows
    <2>4. CASE RegAssign(r)
        <3>1. item[r] \in Services \X Conns
            BY <2>4 DEF RegAssign, ItemInv
        <3>2. item[r][2] # Nil /\ item[r] = <<item[r][1], item[r][2]>>
            BY <3>1 DEF Conns, Nil
        <3>3. \A s \in Services : Passed(s) \subseteq Passed(s)'
            BY <2>4, <3>1, <3>2 DEF RegAssign, Passed, TypeOK
        <3> QED
            BY <2>4, <3>3, CountKept DEF RegAssign, TypeOK
    <2> QED
        BY <1>4, <2>1, <2>2, <2>3, <2>4 DEF Registrar
<1>5. CASE MapFault \/ AcceptLoopEnds \/ UNCHANGED vars
    <2>1. \A s \in Services : Passed(s) \subseteq Passed(s)'
        BY <1>5 DEF MapFault, AcceptLoopEnds, vars, goVars, Passed
    <2> QED
        BY <1>5, <2>1, CountKept DEF MapFault, AcceptLoopEnds, vars, TypeOK
<1> QED
    BY <1>1, <1>2, <1>3, <1>4, <1>5 DEF Next

LEMMA NextLoneInv ==
    TypeOK /\ ConnInv /\ LoneInv /\ [Next]_vars => LoneInv'
<1> SUFFICES ASSUME TypeOK, ConnInv, LoneInv, [Next]_vars, ~ShortReconnect
             PROVE  /\ \A r \in Conns : reg'[r] \notin {"none", "ended"} => r = made'
                    /\ \A k \in Conns : workers'[k] \subseteq {k}
    BY DEF LoneInv
<1> USE ConnectsAssumption DEF TypeOK, LoneInv, Conns, Nil, RegPlaces
<1>1. CASE Connect
    BY <1>1 DEF Connect
<1>2. CASE Main
    BY <1>2 DEF Main, MainTest, MainPing, MainClose, MainReset
<1>3. ASSUME NEW k \in Conns, Lose(k) \/ Waiter(k) PROVE LoneInv'
    BY <1>3 DEF Lose, Waiter, goVars
<1>4. ASSUME NEW r \in Conns, Registrar(r) PROVE LoneInv'
    <2>1. CASE RegTest(r) \/ RegPassEnds(r) \/ RegPanics(r) \/ RegFails(r)
        <3>1. /\ UNCHANGED <<made, workers>> /\ reg[r] \notin {"none", "ended"}
              /\ \A q \in Conns \ {r} : reg'[q] = reg[q]
            BY <2>1 DEF RegTest, RegPassEnds, RegPanics, RegFails, goVars
        <3> QED
            BY <3>1
    <2>2. ASSUME NEW s \in Services, RegScan(r, s) PROVE LoneInv'
        BY <2>2 DEF RegScan
    <2>3. CASE RegListens(r)
        <3>1. r = made /\ client = made
            BY <2>3 DEF RegListens, ConnInv
        <3> QED
            BY <2>3, <3>1 DEF RegListens
    <2>4. CASE RegAssign(r)
        BY <2>4 DEF RegAssign
    <2> QED
        BY <1>4, <2>1, <2>2, <2>3, <2>4 DEF Registrar
<1>5. CASE MapFault \/ AcceptLoopEnds \/ UNCHANGED vars
    BY <1>5 DEF MapFault, AcceptLoopEnds, vars, goVars
<1> QED
    BY <1>1, <1>2, <1>3, <1>4, <1>5 DEF Next

LEMMA NextListenersKnown ==
    TypeOK /\ ConnInv /\ ItemInv /\ ListenersKnown /\ [Next]_vars => ListenersKnown'
<1> SUFFICES ASSUME TypeOK, ConnInv, ItemInv, ListenersKnown, [Next]_vars,
                    NEW l \in listeners', l[2] \in alive'
             PROVE  registered'[l[1]] # Nil \/ \E r \in Conns : item'[r] = l
    BY DEF ListenersKnown
<1>1. ASSUME l \in listeners, l[2] \in alive
      PROVE  /\ registered[l[1]] # Nil \/ \E r \in Conns : item[r] = l
             /\ l \in Services \X Conns /\ l # <<>> /\ l[2] # Nil
    BY <1>1 DEF ListenersKnown, TypeOK, Conns, Nil
<1>2. CASE Connect
    <2>1. l[2] # made + 1 /\ l \in listeners
        BY <1>2, ConnectsAssumption DEF Connect, ConnInv, TypeOK, Conns
    <2> QED
        BY <1>1, <1>2, <2>1 DEF Connect
<1>3. CASE Main
    <2>1. main \notin {"close", "reset"}
        BY <1>3, <1>1 DEF Main, MainTest, MainPing, MainClose, MainReset, ConnInv,
                          TypeOK, Conns, Nil
    <2> QED
        BY <1>1, <1>3, <2>1 DEF Main, MainTest, MainPing, MainClose, MainReset
<1>4. ASSUME NEW k \in Conns, Lose(k) \/ Waiter(k) PROVE ListenersKnown'
    BY <1>4 DEF Lose, Waiter, goVars, ListenersKnown
<1>5. ASSUME NEW r \in Conns, Registrar(r)
      PROVE  registered'[l[1]] # Nil \/ \E q \in Conns : item'[q] = l
    <2>1. CASE RegTest(r) \/ RegPassEnds(r) \/ RegPanics(r)
        BY <1>1, <2>1 DEF RegTest, RegPassEnds, RegPanics, goVars
    <2>2. ASSUME NEW s \in Services, RegScan(r, s)
          PROVE  registered'[l[1]] # Nil \/ \E q \in Conns : item'[q] = l
        <3>1. item[r] = <<>>
            BY <2>2 DEF RegScan, ItemInv
        <3> QED
            BY <1>1, <2>2, <3>1 DEF RegScan, TypeOK
    <2>3. CASE RegListens(r)
        <3>1. item[r] \in Services \X {Nil}
            BY <2>3 DEF RegListens, ItemInv
        <3>2. CASE l = <<item[r][1], client>>
            BY <2>3, <3>2 DEF RegListens, TypeOK
        <3>3. CASE l # <<item[r][1], client>>
            <4>1. l \in listeners /\ l[2] \in alive
                BY <2>3, <3>3 DEF RegListens
            <4> QED
                BY <1>1, <2>3, <3>1, <4>1 DEF RegListens, TypeOK
        <3> QED
            BY <3>2, <3>3
    <2>4. CASE RegFails(r)
        <3>1. item[r] \in Services \X {Nil}
            BY <2>4 DEF RegFails, ItemInv
        <3> QED
            BY <1>1, <2>4, <3>1 DEF RegFails, TypeOK
    <2>5. CASE RegAssign(r)
        <3>1. item[r] \in Services \X Conns
            BY <2>5 DEF RegAssign, ItemInv
        <3> QED
            BY <1>1, <2>5, <3>1 DEF RegAssign, TypeOK, Conns, Nil
    <2> QED
        BY <1>5, <2>1, <2>2, <2>3, <2>4, <2>5 DEF Registrar
<1>6. CASE MapFault \/ AcceptLoopEnds \/ UNCHANGED vars
    BY <1>1, <1>6 DEF MapFault, AcceptLoopEnds, vars, goVars
<1> QED
    BY <1>2, <1>3, <1>4, <1>5, <1>6 DEF Next, ListenersKnown

LEMMA InvariantHolds == Spec => []IInv
<1>1. IInv /\ [Next]_vars => IInv'
    BY NextTypeOK, NextConnInv, NextItemInv, NextCountInv, NextLoneInv,
       NextListenersKnown DEF IInv
<1> QED
    BY <1>1, InitIInv, PTL DEF Spec

-----------------------------------------------------------------------------
(* The theorems.                                                           *)

\* The places, the counts and the maps of an access point's slot keep their
\* types (ap.go, run, waitClient and register).
THEOREM ApTypeOK == Spec => []TypeOK
<1>1. IInv => TypeOK
    BY DEF IInv
<1> QED
    BY <1>1, InvariantHolds, PTL

\* A slot never has two live connections, and no waiter or main loop of an old
\* one gets rid of a new one (ap.go, run).
THEOREM ApOneConnection == Spec => []OneConnection
<1>1. IInv => OneConnection
    BY DEF IInv, ConnInv, OneConnection
<1> QED
    BY <1>1, InvariantHolds, PTL

\* Each registrar registers a service on a connection at most once; with a
\* reconnect timeout longer than its sleep, only the connection's own one does.
THEOREM ApDoubleNeedsOldRegistrar == Spec => []DoubleNeedsOldRegistrar
<1>1. IInv => DoubleNeedsOldRegistrar
    BY DEF IInv, CountInv, LoneInv, DoubleNeedsOldRegistrar
<1> QED
    BY <1>1, InvariantHolds, PTL

\* The teardown and the next pass know every listener of the live connection
\* (ap.go:100 and 122).
THEOREM ApListenersKnown == Spec => []ListenersKnown
<1>1. IInv => ListenersKnown
    BY DEF IInv
<1> QED
    BY <1>1, InvariantHolds, PTL
=============================================================================
