--------------------------- MODULE CommandsProofs ---------------------------
(***************************************************************************)
(* Proofs about Commands, for every set of calls, command lines, paths,    *)
(* load balancers and requests.                                            *)
(*                                                                         *)
(* Connect.  SshInv: while the ssh client has not yet restored the         *)
(* terminal, and the far end has not cut the websocket, no goroutine of    *)
(* the call has begun to end: each would have to see an end closed first.  *)
(*                                                                         *)
(* Routing.  The table of paths holds the first of the mounts that stand   *)
(* (PathsInv) and sorted is the table in descending order (SortedInv),     *)
(* which is possible since strings are totally ordered.  Of the prefixes   *)
(* of one URI the longer one is sorted first: the first that fits is the   *)
(* longest.                                                                *)
(***************************************************************************)
EXTENDS Commands, FiniteSetTheorems, WellFoundedInduction, TLAPS

-----------------------------------------------------------------------------
(* The connect command.                                                    *)

BeforeInv ==
    process = "parse" =>
        /\ mode = "none" /\ shell = "none" /\ ~raw
        /\ \A c \in Calls : call[c] = "none" /\ copyOut[c] = "none" /\ copyIn[c] = "none"
        /\ done = {}

ModeInv ==
    /\ mode # "listener" => \A c \in Calls \ {First} : call[c] = "none"
    /\ shell # "none" => mode = "ssh"
    /\ raw => shell \in {"session", "restore"}

SshInv ==
    mode = "ssh" =>
        /\ call[First] = "dial" =>
              /\ near[First] = "open" /\ copyOut[First] = "none" /\ copyIn[First] = "none"
              /\ First \notin done /\ shell = "none"
        /\ shell \in {"handshake", "session", "restore"} /\ First \notin cut =>
              /\ near[First] = "open" /\ ws[First] = "open"
              /\ copyOut[First] = "copy" /\ copyIn[First] = "copy"
              /\ call[First] = "wait" /\ First \notin done

IInv == TypeOK /\ BeforeInv /\ ModeInv /\ SshInv /\ RawOnlyIfCut

LEMMA InitIInv == Init => IInv
BY FirstAssumption
DEF Init, IInv, TypeOK, BeforeInv, ModeInv, SshInv, RawOnlyIfCut

-----------------------------------------------------------------------------
(* Every step keeps each part of the invariant.                            *)

LEMMA NextTypeOK == TypeOK /\ [Next]_vars => TypeOK'
<1> SUFFICES ASSUME TypeOK, [Next]_vars PROVE TypeOK'
    OBVIOUS
<1> USE FirstAssumption DEF TypeOK, Ended, Running
<1>1. CASE Parse
    <2>1. mode' \in {"none", "stdio", "ssh", "listener"}
        BY <1>1 DEF Parse, Mode
    <2>2. process' \in {"run", "refused"}
        BY <1>1 DEF Parse
    <2>3. /\ call' \in [Calls -> {"none", "dial", "wait", "close", "over"}]
          /\ near' \in [Calls -> {"none", "open", "ended", "closed"}]
        BY <1>1 DEF Parse
    <2> QED
        BY <1>1, <2>1, <2>2, <2>3 DEF Parse, shellVars
<1>2. CASE AcceptFails
    BY <1>2 DEF AcceptFails, callVars, shellVars
<1>3. CASE Shell
    BY <1>3 DEF Shell, Handshake, SessionEnds, Restore, CloseNear, CloseWs, callVars, shellVars
<1>4. ASSUME NEW c \in Calls, AcceptLocal(c) PROVE TypeOK'
    BY <1>4 DEF AcceptLocal, shellVars
<1>5. ASSUME NEW c \in Calls, DialCall(c) PROVE TypeOK'
    BY <1>5 DEF DialCall
<1>6. ASSUME NEW c \in Calls, CallDone(c) \/ CallEnds(c) PROVE TypeOK'
    BY <1>6 DEF CallDone, CallEnds, CloseWs, shellVars
<1>7. ASSUME NEW c \in Calls, FarEnds(c) \/ NearEnds(c) PROVE TypeOK'
    BY <1>7 DEF FarEnds, NearEnds, shellVars
<1>8. ASSUME NEW c \in Calls, CopyOut(c) PROVE TypeOK'
    BY <1>8 DEF CopyOut, CopyOutEnds, CopyOutCloses, CloseNear, CloseWs, shellVars
<1>9. ASSUME NEW c \in Calls, CopyIn(c) PROVE TypeOK'
    BY <1>9 DEF CopyIn, CopyInEnds, CopyInCloses, CloseNear, CloseWs, shellVars
<1>10. CASE UNCHANGED vars
    BY <1>10 DEF vars, callVars, shellVars
<1> QED
    BY <1>1, <1>2, <1>3, <1>4, <1>5, <1>6, <1>7, <1>8, <1>9, <1>10 DEF Next, Caller

LEMMA NextBeforeInv == BeforeInv /\ [Next]_vars => BeforeInv'
<1> SUFFICES ASSUME BeforeInv, [Next]_vars, process' = "parse" PROVE BeforeInv'
    BY DEF BeforeInv
<1>1. UNCHANGED vars
    <2>1. ~Parse
        BY DEF Parse
    <2>2. ~AcceptFails /\ ~Shell
        BY DEF AcceptFails, Shell, Handshake, SessionEnds, Restore, Running
    <2>3. ASSUME NEW c \in Calls PROVE ~AcceptLocal(c) /\ ~Caller(c)
        BY DEF AcceptLocal, Caller, DialCall, CallDone, CallEnds, Running
    <2>4. ASSUME NEW c \in Calls PROVE ~FarEnds(c) /\ ~NearEnds(c)
        BY DEF FarEnds, NearEnds, Running
    <2>5. ASSUME NEW c \in Calls PROVE ~CopyOut(c) /\ ~CopyIn(c)
        BY DEF CopyOut, CopyOutEnds, CopyOutCloses, CopyIn, CopyInEnds, CopyInCloses, Running
    <2> QED
        BY <2>1, <2>2, <2>3, <2>4, <2>5 DEF Next
<1> QED
    BY <1>1 DEF BeforeInv, vars, callVars, shellVars

LEMMA NextModeInv ==
    TypeOK /\ BeforeInv /\ ModeInv /\ SshInv /\ [Next]_vars => ModeInv'
<1> SUFFICES ASSUME TypeOK, BeforeInv, ModeInv, SshInv, [Next]_vars PROVE ModeInv'
    OBVIOUS
<1> USE FirstAssumption DEF ModeInv
<1>1. CASE Parse
    <2>1. /\ UNCHANGED shellVars /\ shell = "none" /\ ~raw
          /\ \A c \in Calls \ {First} : call'[c] = "none"
        BY <1>1 DEF Parse, BeforeInv, TypeOK
    <2> QED
        BY <2>1 DEF shellVars
<1>2. CASE AcceptFails
    BY <1>2 DEF AcceptFails, callVars, shellVars
<1>3. CASE Shell
    BY <1>3 DEF Shell, Handshake, SessionEnds, Restore, callVars, shellVars
<1>4. ASSUME NEW c \in Calls, AcceptLocal(c) PROVE ModeInv'
    BY <1>4 DEF AcceptLocal, shellVars
<1>5. ASSUME NEW c \in Calls, DialCall(c) PROVE ModeInv'
    <2>1. /\ UNCHANGED <<mode, raw>> /\ call[c] = "dial"
          /\ \A d \in Calls \ {c} : call'[d] = call[d]
          /\ shell' = shell \/ (mode = "ssh" /\ shell' = "handshake")
        BY <1>5 DEF DialCall, TypeOK
    <2>2. mode # "listener" => c = First
        BY <2>1
    <2>3. mode = "ssh" => ~raw
        BY <2>1, <2>2 DEF SshInv
    <2> QED
        BY <2>1, <2>2, <2>3
<1>6. ASSUME NEW c \in Calls, CallDone(c) \/ CallEnds(c) PROVE ModeInv'
    <2>1. /\ UNCHANGED <<mode, raw, shell>> /\ call[c] # "none"
          /\ \A d \in Calls \ {c} : call'[d] = call[d]
        BY <1>6 DEF CallDone, CallEnds, shellVars, TypeOK
    <2>2. mode # "listener" => c = First
        BY <2>1
    <2> QED
        BY <2>1, <2>2
<1>7. ASSUME NEW c \in Calls, FarEnds(c) \/ NearEnds(c) PROVE ModeInv'
    BY <1>7 DEF FarEnds, NearEnds, shellVars
<1>8. ASSUME NEW c \in Calls, CopyOut(c) \/ CopyIn(c) PROVE ModeInv'
    BY <1>8 DEF CopyOut, CopyOutEnds, CopyOutCloses, CopyIn, CopyInEnds, CopyInCloses,
                shellVars
<1>9. CASE UNCHANGED vars
    BY <1>9 DEF vars, callVars, shellVars
<1> QED
    BY <1>1, <1>2, <1>3, <1>4, <1>5, <1>6, <1>7, <1>8, <1>9 DEF Next, Caller

LEMMA NextSshInv ==
    TypeOK /\ BeforeInv /\ ModeInv /\ SshInv /\ [Next]_vars => SshInv'
<1> SUFFICES ASSUME TypeOK, BeforeInv, ModeInv, SshInv, [Next]_vars PROVE SshInv'
    OBVIOUS
<1> USE FirstAssumption DEF SshInv
<1>1. CASE Parse
    <2>1. UNCHANGED <<copyOut, copyIn, done, shell>> /\ shell = "none" /\ done = {}
        BY <1>1 DEF Parse, BeforeInv, shellVars
    <2>2. copyOut[First] = "none" /\ copyIn[First] = "none"
        BY <1>1 DEF Parse, BeforeInv
    <2>3. mode' = "ssh" => near'[First] = "open"
        BY <1>1 DEF Parse, TypeOK, BeforeInv
    <2> QED
        BY <2>1, <2>2, <2>3
<1>2. CASE AcceptFails \/ UNCHANGED vars
    BY <1>2 DEF AcceptFails, vars, callVars, shellVars
<1>3. CASE Handshake \/ SessionEnds
    BY <1>3 DEF Handshake, SessionEnds, callVars, shellVars
<1>4. CASE Restore
    BY <1>4 DEF Restore
<1>5. ASSUME NEW c \in Calls, AcceptLocal(c) PROVE SshInv'
    BY <1>5 DEF AcceptLocal
<1>6. ASSUME NEW c \in Calls, DialCall(c) PROVE SshInv'
    <2>1. CASE mode = "ssh"
        <3>1. c = First
            BY <1>6, <2>1 DEF DialCall, ModeInv
        <3> QED
            BY <1>6, <2>1, <3>1 DEF DialCall, TypeOK
    <2>2. CASE mode # "ssh"
        BY <1>6, <2>2 DEF DialCall
    <2> QED
        BY <2>1, <2>2
<1>7. ASSUME NEW c \in Calls, CallDone(c) \/ CallEnds(c) PROVE SshInv'
    <2>1. CASE mode = "ssh"
        <3>1. c = First
            BY <1>7, <2>1 DEF CallDone, CallEnds, ModeInv
        <3> QED
            BY <1>7, <2>1, <3>1 DEF CallDone, CallEnds, CloseWs, shellVars, TypeOK
    <2>2. CASE mode # "ssh"
        BY <1>7, <2>2 DEF CallDone, CallEnds
    <2> QED
        BY <2>1, <2>2
<1>8. ASSUME NEW c \in Calls, FarEnds(c) \/ NearEnds(c) PROVE SshInv'
    BY <1>8 DEF FarEnds, NearEnds, shellVars, TypeOK
<1>9. ASSUME NEW c \in Calls, CopyOut(c) PROVE SshInv'
    BY <1>9 DEF CopyOut, CopyOutEnds, CopyOutCloses, ReadReturns, CloseNear, CloseWs,
                shellVars, TypeOK
<1>10. ASSUME NEW c \in Calls, CopyIn(c) PROVE SshInv'
    <2>1. CASE CopyInEnds(c)
        BY <2>1 DEF CopyInEnds, shellVars, TypeOK
    <2>2. CASE CopyInCloses(c)
        BY <2>2 DEF CopyInCloses, CloseNear, CloseWs, shellVars, TypeOK
    <2> QED
        BY <1>10, <2>1, <2>2 DEF CopyIn
<1> QED
    BY <1>1, <1>2, <1>3, <1>4, <1>5, <1>6, <1>7, <1>8, <1>9, <1>10
    DEF Next, Caller, Shell

LEMMA NextRawOnlyIfCut ==
    TypeOK /\ ModeInv /\ SshInv /\ RawOnlyIfCut /\ [Next]_vars => RawOnlyIfCut'
<1> SUFFICES ASSUME TypeOK, ModeInv, SshInv, RawOnlyIfCut, [Next]_vars PROVE RawOnlyIfCut'
    OBVIOUS
<1>1. ASSUME NEW c \in Calls, CallEnds(c) PROVE RawOnlyIfCut'
    <2>1. /\ UNCHANGED <<raw, cut, shell, mode>> /\ call[c] = "close"
          /\ process' = "exit" => mode # "listener"
        BY <1>1 DEF CallEnds, shellVars, Running
    <2>2. ASSUME process' = "exit", raw PROVE First \in cut
        <3>1. c = First
            BY <2>1, <2>2 DEF ModeInv
        <3>2. mode = "ssh" /\ shell \in {"session", "restore"}
            BY <2>2 DEF ModeInv
        <3> QED
            BY <2>1, <3>1, <3>2 DEF SshInv
    <2> QED
        BY <2>1, <2>2 DEF RawOnlyIfCut
<1>2. CASE UNCHANGED vars
    BY <1>2 DEF RawOnlyIfCut, vars, callVars, shellVars
<1>3. CASE Parse \/ AcceptFails \/ Shell
    BY <1>3 DEF Parse, AcceptFails, Shell, Handshake, SessionEnds, Restore, Running,
                RawOnlyIfCut
<1>4. ASSUME NEW c \in Calls, AcceptLocal(c) \/ DialCall(c) \/ CallDone(c)
      PROVE  RawOnlyIfCut'
    BY <1>4 DEF AcceptLocal, DialCall, CallDone, Running, RawOnlyIfCut
<1>5. ASSUME NEW c \in Calls, FarEnds(c) \/ NearEnds(c) \/ CopyOut(c) \/ CopyIn(c)
      PROVE  RawOnlyIfCut'
    BY <1>5 DEF FarEnds, NearEnds, CopyOut, CopyOutEnds, CopyOutCloses, CopyIn,
                CopyInEnds, CopyInCloses, Running, RawOnlyIfCut
<1> QED
    BY <1>1, <1>2, <1>3, <1>4, <1>5 DEF Next, Caller

LEMMA InvariantHolds == Spec => []IInv
<1>1. IInv /\ [Next]_vars => IInv'
    BY NextTypeOK, NextBeforeInv, NextModeInv, NextSshInv, NextRawOnlyIfCut DEF IInv
<1> QED
    BY <1>1, InitIInv, PTL DEF Spec

\* The command's goroutines, ends and calls keep their types (connect.go).
THEOREM ConnectTypeOK == Spec => []TypeOK
<1>1. IInv => TypeOK
    BY DEF IInv
<1> QED
    BY <1>1, InvariantHolds, PTL

\* The process leaves the terminal raw only when the far end cut the websocket
\* (connect.go:82, 214 and 239), whatever the order in which its goroutines end.
THEOREM ConnectRawOnlyIfCut == Spec => []RawOnlyIfCut
<1>1. IInv => RawOnlyIfCut
    BY DEF IInv
<1> QED
    BY <1>1, InvariantHolds, PTL

-----------------------------------------------------------------------------
(* Numbers.                                                                *)

\* A set of numbers has a smallest one.
LEMMA NatMin ==
    ASSUME NEW T \in SUBSET Nat, T # {}
    PROVE  \E x \in T : \A y \in T : x <= y
<1>1. \E x \in T : \A y \in T : <<y, x>> \notin OpToRel(<, Nat)
    BY NatLessThanWellFounded, WFMin
<1>2. \A x, y \in Nat : <<y, x>> \notin OpToRel(<, Nat) => x <= y
    BY DEF OpToRel
<1> QED BY <1>1, <1>2

\* A set that has 0 and every successor has every number.
LEMMA NatInd ==
    ASSUME NEW T \in SUBSET Nat, 0 \in T, \A n \in T : n + 1 \in T
    PROVE  T = Nat
<1> SUFFICES ASSUME NEW m \in Nat \ T PROVE FALSE
    OBVIOUS
<1>1. PICK x \in Nat \ T : \A y \in Nat \ T : x <= y
    BY NatMin
<1>2. x # 0 /\ x - 1 \in Nat
    BY <1>1
<1>3. x - 1 \in T
    BY <1>1, <1>2
<1> QED BY <1>1, <1>3

\* Of finitely many integers one is the greatest.
LEMMA GreatestOf ==
    ASSUME NEW n \in Nat \ {0}, NEW f \in [1..n -> Int]
    PROVE  \E k \in 1..n : \A l \in 1..n : f[l] <= f[k]
<1> DEFINE T == {m \in Nat : m + 1 <= n =>
                    \E k \in 1..(m + 1) : \A l \in 1..(m + 1) : f[l] <= f[k]}
<1>1. 0 \in T
    <2>1. 1 \in 1..(0 + 1) /\ \A l \in 1..(0 + 1) : l = 1
        OBVIOUS
    <2>2. f[1] \in Int
        OBVIOUS
    <2> QED BY <2>1, <2>2
<1>2. ASSUME NEW m \in T PROVE m + 1 \in T
    <2> SUFFICES ASSUME (m + 1) + 1 <= n
                 PROVE  \E k \in 1..((m + 1) + 1) : \A l \in 1..((m + 1) + 1) : f[l] <= f[k]
        OBVIOUS
    <2>1. PICK k \in 1..(m + 1) : \A l \in 1..(m + 1) : f[l] <= f[k]
        OBVIOUS
    <2> DEFINE p == (m + 1) + 1
    <2>2. p \in 1..n /\ k \in 1..n /\ \A l \in 1..p : l \in 1..(m + 1) \/ l = p
        OBVIOUS
    <2> HIDE DEF p
    <2>3. CASE f[p] <= f[k]
        <3>1. k \in 1..p
            BY <2>1 DEF p
        <3> QED BY <2>1, <2>2, <2>3, <3>1 DEF p
    <2>4. CASE ~(f[p] <= f[k])
        <3>1. p \in 1..p
            BY <2>2
        <3>2. ASSUME NEW l \in 1..p PROVE f[l] <= f[p]
            <4>1. CASE l = p
                BY <4>1, <2>2
            <4>2. CASE l \in 1..(m + 1)
                <5>1. f[l] <= f[k] /\ l \in 1..n
                    BY <4>2, <2>1, <2>2 DEF p
                <5>2. f[l] \in Int /\ f[k] \in Int /\ f[p] \in Int
                    BY <5>1, <2>2
                <5> QED BY <5>1, <5>2, <2>4
            <4> QED BY <2>2, <4>1, <4>2
        <3> QED BY <3>1, <3>2 DEF p
    <2> QED BY <2>3, <2>4
<1>3. T = Nat
    <2> HIDE DEF T
    <2>1. T \in SUBSET Nat
        BY DEF T
    <2> QED BY <1>1, <1>2, <2>1, NatInd
<1>4. n - 1 \in Nat /\ (n - 1) + 1 = n
    OBVIOUS
<1>5. n - 1 \in T
    <2> HIDE DEF T
    <2> QED BY <1>3, <1>4
<1> QED BY <1>4, <1>5

-----------------------------------------------------------------------------
(* The ap command.                                                         *)

\* Cardinality is the same wherever it is instantiated.
LEMMA ApCardinality == \A S : Ap!Cardinality(S) = Cardinality(S)
BY DEF Ap!Cardinality, Cardinality

LEMMA HttpCardinality == \A S : Http!Cardinality(S) = Cardinality(S)
BY DEF Http!Cardinality, Cardinality

\* An accepted ap command has services, whose counts are numbers and whose names differ.
LEMMA AcceptedConfigs ==
    ASSUME NEW a \in ApInputs, Ap!Outcome(a) = "accepted"
    PROVE  /\ Len(Ap!Configs(a)) \in Nat \ {0}
           /\ \A k \in 1..Len(Ap!Configs(a)) : Ap!Configs(a)[k].count \in Int
           /\ ~Ap!Twice(Ap!Configs(a))
<1> DEFINE c == Ap!Configs(a)
<1>1. a.connections \in Int /\ a.dsns \in Seq(Dsns)
    BY ApAssumption
<1>2. /\ ~\E i \in 1..Len(a.dsns) : Ap!BadDSN(a.dsns[i])
      /\ ~Ap!Twice(c) /\ c # <<>>
    BY DEF Ap!Outcome
<1>3. ASSUME NEW i \in 1..Len(a.dsns) PROVE Ap!Count(a, a.dsns[i]) \in Int
    <2>1. a.dsns[i] \in Dsns /\ ~Ap!BadDSN(a.dsns[i])
        BY <1>1, <1>2
    <2>2. a.dsns[i].parts = 2 \/ a.dsns[i].count \in Int
        BY <2>1, DsnAssumption DEF Ap!BadDSN
    <2> QED BY <1>1, <2>2 DEF Ap!Count
<1> DEFINE d == [i \in 1..Len(a.dsns) |->
                   [name |-> a.dsns[i].name, count |-> Ap!Count(a, a.dsns[i])]]
           e == IF a.ssh THEN <<[name |-> "ssh", count |-> 1]>> ELSE <<>>
           R == {[name |-> x, count |-> y] :
                    x \in {"ssh"} \cup {a.dsns[i].name : i \in 1..Len(a.dsns)}, y \in Int}
<1>4. c = e \o d
    BY DEF Ap!Configs
<1>5. d \in Seq(R)
    <2>1. Len(a.dsns) \in Nat
        BY <1>1
    <2>2. ASSUME NEW i \in 1..Len(a.dsns)
          PROVE  [name |-> a.dsns[i].name, count |-> Ap!Count(a, a.dsns[i])] \in R
        <3>1. a.dsns[i].name \in {"ssh"} \cup {a.dsns[k].name : k \in 1..Len(a.dsns)}
            OBVIOUS
        <3> DEFINE x == a.dsns[i].name  y == Ap!Count(a, a.dsns[i])
                   X == {"ssh"} \cup {a.dsns[k].name : k \in 1..Len(a.dsns)}
        <3>2. x \in X /\ y \in Int
            BY <1>3, <3>1
        <3> HIDE DEF x, y, X
        <3>3. [name |-> x, count |-> y] \in {[name |-> u, count |-> v] : u \in X, v \in Int}
            BY <3>2
        <3> QED BY <3>3 DEF x, y, X
    <2> HIDE DEF R
    <2> QED BY <2>1, <2>2
<1>6. e \in Seq(R)
    <2>1. [name |-> "ssh", count |-> 1] \in R
        OBVIOUS
    <2> HIDE DEF R
    <2> QED BY <2>1
<1>7. c \in Seq(R)
    <2> HIDE DEF R, d, e, c
    <2> QED BY <1>4, <1>5, <1>6
<1>8. \A r \in R : r.count \in Int
    OBVIOUS
<1> HIDE DEF R, c
<1>9. Len(c) \in Nat \ {0} /\ \A k \in 1..Len(c) : c[k] \in R
    BY <1>2, <1>7
<1> QED BY <1>2, <1>8, <1>9 DEF c

\* The slots of a command line serve its services.
LEMMA SlotsServe == ASSUME NEW a \in ApInputs PROVE Ap!SlotsServe(a)
<1> SUFFICES ASSUME Ap!Outcome(a) = "accepted"
             PROVE  LET configs == Ap!Configs(a)  slots == Ap!Slots(configs) IN
                    /\ \A i \in DOMAIN slots : slots[i] # {}
                    /\ \A k \in 1..Len(configs) :
                          Cardinality({i \in DOMAIN slots : configs[k].name \in slots[i]})
                              = IF configs[k].count < 0 THEN 0 ELSE configs[k].count
    BY ApCardinality, Zenon DEF Ap!SlotsServe
<1> DEFINE c == Ap!Configs(a)  n == Len(c)  slots == Ap!Slots(c)
           S == {c[k].count : k \in 1..n}
           M == Ap!Max(S)
<1>1. n \in Nat \ {0} /\ (\A k \in 1..n : c[k].count \in Int) /\ ~Ap!Twice(c)
    BY AcceptedConfigs
<1> HIDE DEF c
<1>2. \A i, j \in 1..n : i # j => c[i].name # c[j].name
    BY <1>1 DEF Ap!Twice
<1>3. \E x \in S : \A y \in S : x >= y
    <2> DEFINE f == [k \in 1..n |-> c[k].count]
    <2>1. f \in [1..n -> Int]
        BY <1>1
    <2>2. PICK k \in 1..n : \A l \in 1..n : f[l] <= f[k]
        <3> HIDE DEF f
        <3> QED BY <1>1, <2>1, GreatestOf
    <2>3. \A l \in 1..n : c[l].count <= c[k].count
        BY <2>2
    <2> QED BY <1>1, <2>2, <2>3
<1>4. M \in S /\ \A y \in S : M >= y
    BY <1>3 DEF Ap!Max
<1>5. PICK m \in 1..n : M = c[m].count
    BY <1>4
<1>6. M \in Int /\ \A k \in 1..n : c[k].count <= M
    BY <1>1, <1>4, <1>5
<1> DEFINE at(i) == {c[k].name : k \in {k \in 1..n : c[k].count >= i}}
<1>7. slots = [i \in 1..M |-> at(i)]
    BY DEF Ap!Slots
<1> HIDE DEF M, S, slots
<1>8. ASSUME NEW i \in DOMAIN slots PROVE slots[i] # {}
    <2>1. i \in 1..M /\ slots[i] = at(i)
        BY <1>7, <1>8
    <2>2. c[m].count >= i
        BY <1>5, <1>6, <2>1
    <2> QED BY <2>1, <2>2
<1>9. ASSUME NEW k \in 1..n
      PROVE  Cardinality({i \in DOMAIN slots : c[k].name \in slots[i]})
                 = IF c[k].count < 0 THEN 0 ELSE c[k].count
    <2> DEFINE q == c[k].count
    <2>1. q \in Int /\ q <= M
        BY <1>1, <1>6
    <2>2. ASSUME NEW i \in 1..M PROVE c[k].name \in at(i) <=> q >= i
        BY <1>2
    <2>3. {i \in DOMAIN slots : c[k].name \in slots[i]} = {i \in 1..M : q >= i}
        <3>1. DOMAIN slots = 1..M /\ \A i \in 1..M : slots[i] = at(i)
            BY <1>7
        <3> HIDE DEF at, q
        <3> QED BY <2>2, <3>1
    <2>4. {i \in 1..M : q >= i} = 1..q
        <3> HIDE DEF q
        <3> QED BY <1>6, <2>1
    <2>5. Cardinality(1..q) = IF 1 > q THEN 0 ELSE (q - 1) + 1
        <3> HIDE DEF q
        <3>1. 1 \in Int
            OBVIOUS
        <3>2. Cardinality(1..q) = IF 1 > q THEN 0 ELSE q - 1 + 1
            BY <2>1, <3>1, FS_Interval
        <3> QED BY <3>2
    <2> HIDE DEF q
    <2>6. Cardinality(1..q) = IF q < 0 THEN 0 ELSE q
        BY <2>1, <2>5
    <2> QED BY <2>3, <2>4, <2>6 DEF q
<1> QED BY <1>8, <1>9 DEF c, slots

-----------------------------------------------------------------------------
(* The order of strings.                                                   *)
\* Paths and URIs.
Strings == Seq(Nat)

\* Strings that agree at every place are the same.
LEMMA SameString ==
    ASSUME NEW s \in Strings, NEW t \in Strings, Len(s) = Len(t),
           \A i \in 1..Len(s) : s[i] = t[i]
    PROVE  s = t
BY DEF Strings

\* A prefix is no longer and agrees at each of its places.
LEMMA Prefix ==
    ASSUME NEW s \in Strings, NEW t \in Strings
    PROVE  Http!IsPrefix(s, t) <=> Len(s) <= Len(t) /\ \A i \in 1..Len(s) : s[i] = t[i]
<1> USE DEF Strings
<1>1. Len(s) \in Nat /\ Len(t) \in Nat
    OBVIOUS
<1>2. ASSUME Len(s) <= Len(t), \A i \in 1..Len(s) : s[i] = t[i]
      PROVE  SubSeq(s, 1, Len(s)) = SubSeq(t, 1, Len(s))
    BY <1>1, <1>2
<1>3. ASSUME Len(s) <= Len(t), SubSeq(s, 1, Len(s)) = SubSeq(t, 1, Len(s)),
             NEW i \in 1..Len(s)
      PROVE  s[i] = t[i]
    <2>1. SubSeq(s, 1, Len(s))[i] = s[i] /\ SubSeq(t, 1, Len(s))[i] = t[i]
        BY <1>1, <1>3
    <2> QED BY <1>3, <2>1
<1> QED BY <1>2, <1>3 DEF Http!IsPrefix

\* s is before t at their place i: the end of s, or their first difference.
BeforeAt(i, s, t) ==
    /\ i <= Len(t) /\ \A j \in 1..(i - 1) : s[j] = t[j]
    /\ i <= Len(s) => s[i] < t[i]

\* Less is to be before at some place.
LEMMA LessBefore ==
    ASSUME NEW s \in Strings, NEW t \in Strings
    PROVE  Http!Less(s, t) <=> \E i \in 1..(Len(s) + 1) : BeforeAt(i, s, t)
<1>1. Len(s) \in Nat /\ Len(t) \in Nat
    BY DEF Strings
<1>2. ASSUME Http!IsStrictPrefix(s, t) PROVE BeforeAt(Len(s) + 1, s, t)
    <2>1. Len(s) <= Len(t) /\ s # t /\ \A i \in 1..Len(s) : s[i] = t[i]
        BY <1>2, Prefix DEF Http!IsStrictPrefix
    <2>2. Len(s) # Len(t)
        BY <2>1, SameString
    <2>3. (Len(s) + 1) - 1 = Len(s) /\ ~(Len(s) + 1 <= Len(s)) /\ Len(s) + 1 <= Len(t)
        BY <1>1, <2>1, <2>2
    <2> QED BY <2>1, <2>3 DEF BeforeAt
<1>3. ASSUME NEW i \in 1..(Len(s) + 1), BeforeAt(i, s, t) PROVE Http!Less(s, t)
    <2>1. CASE i = Len(s) + 1
        <3>1. Len(s) <= Len(t) /\ s # t /\ \A j \in 1..Len(s) : s[j] = t[j]
            BY <1>1, <1>3, <2>1 DEF BeforeAt
        <3> QED BY <3>1, Prefix DEF Http!IsStrictPrefix, Http!Less
    <2>2. CASE i # Len(s) + 1
        <3>1. i \in 1..Len(s) /\ i <= Len(t) /\ s[i] < t[i] /\ \A j \in 1..(i - 1) : s[j] = t[j]
            BY <1>1, <1>3, <2>2 DEF BeforeAt
        <3> QED BY <3>1 DEF Http!Less
    <2> QED BY <2>1, <2>2
<1>4. ASSUME Http!Less(s, t), ~Http!IsStrictPrefix(s, t)
      PROVE  \E i \in 1..(Len(s) + 1) : BeforeAt(i, s, t)
    <2>1. PICK i \in 1..Len(s) : i <= Len(t) /\ s[i] < t[i] /\ \A j \in 1..(i - 1) : s[j] = t[j]
        BY <1>4 DEF Http!Less
    <2> QED BY <1>1, <2>1 DEF BeforeAt
<1>5. Len(s) + 1 \in 1..(Len(s) + 1)
    BY <1>1
<1> QED BY <1>2, <1>3, <1>4, <1>5

\* Less is transitive ...
LEMMA LessTransitive ==
    ASSUME NEW s \in Strings, NEW t \in Strings, NEW u \in Strings,
           Http!Less(s, t), Http!Less(t, u)
    PROVE  Http!Less(s, u)
<1>1. PICK i \in 1..(Len(s) + 1) : BeforeAt(i, s, t)
    BY LessBefore
<1>2. PICK k \in 1..(Len(t) + 1) : BeforeAt(k, t, u)
    BY LessBefore
<1>3. /\ Len(s) \in Nat /\ Len(t) \in Nat /\ Len(u) \in Nat
      /\ \A j \in 1..Len(s) : s[j] \in Nat
      /\ \A j \in 1..Len(t) : t[j] \in Nat
      /\ \A j \in 1..Len(u) : u[j] \in Nat
    BY DEF Strings
<1>4. CASE i < k
    <2>1. t[i] = u[i] /\ i <= Len(u) /\ i <= Len(t)
        BY <1>1, <1>2, <1>3, <1>4 DEF BeforeAt
    <2>2. \A j \in 1..(i - 1) : s[j] = u[j]
        BY <1>1, <1>2, <1>3, <1>4 DEF BeforeAt
    <2>3. BeforeAt(i, s, u)
        BY <1>1, <2>1, <2>2 DEF BeforeAt
    <2> QED BY <2>3, LessBefore
<1>5. CASE i = k
    <2>1. \A j \in 1..(i - 1) : s[j] = u[j]
        BY <1>1, <1>2, <1>5 DEF BeforeAt
    <2>2. i <= Len(u) /\ i <= Len(t) /\ t[i] < u[i]
        BY <1>1, <1>2, <1>5 DEF BeforeAt
    <2>3. i <= Len(s) => s[i] < u[i]
        <3> SUFFICES ASSUME i <= Len(s) PROVE s[i] < u[i]
            OBVIOUS
        <3>1. s[i] < t[i] /\ s[i] \in Nat /\ t[i] \in Nat /\ u[i] \in Nat
            BY <1>1, <1>3, <2>2 DEF BeforeAt
        <3> QED BY <2>2, <3>1
    <2>4. BeforeAt(i, s, u)
        BY <2>1, <2>2, <2>3 DEF BeforeAt
    <2> QED BY <2>4, LessBefore
<1>6. CASE k < i
    <2>1. k \in 1..(Len(s) + 1) /\ k <= Len(s) /\ s[k] = t[k] /\ k <= Len(t)
        BY <1>1, <1>2, <1>3, <1>6 DEF BeforeAt
    <2>2. \A j \in 1..(k - 1) : s[j] = u[j]
        BY <1>1, <1>2, <1>3, <1>6 DEF BeforeAt
    <2>3. k <= Len(u) /\ t[k] < u[k]
        BY <1>2, <2>1 DEF BeforeAt
    <2>4. BeforeAt(k, s, u)
        BY <2>1, <2>2, <2>3 DEF BeforeAt
    <2> QED BY <2>1, <2>4, LessBefore
<1>7. i \in Int /\ k \in Int
    BY <1>3
<1> QED BY <1>4, <1>5, <1>6, <1>7

\* ... and total.
LEMMA LessTotal ==
    ASSUME NEW s \in Strings, NEW t \in Strings, s # t
    PROVE  Http!Less(s, t) \/ Http!Less(t, s)
<1> DEFINE D == {i \in Nat : i \in 1..Len(s) /\ i \in 1..Len(t) /\ s[i] # t[i]}
<1>1. /\ Len(s) \in Nat /\ Len(t) \in Nat
      /\ \A j \in 1..Len(s) : s[j] \in Nat
      /\ \A j \in 1..Len(t) : t[j] \in Nat
    BY DEF Strings
<1>2. CASE D # {}
    <2>1. PICK i \in D : \A j \in D : i <= j
        <3>1. D \in SUBSET Nat
            OBVIOUS
        <3> HIDE DEF D
        <3> QED BY <1>2, <3>1, NatMin
    <2>2. \A j \in 1..(i - 1) : s[j] = t[j]
        <3> SUFFICES ASSUME NEW j \in 1..(i - 1), s[j] # t[j] PROVE FALSE
            OBVIOUS
        <3>1. j \in D /\ j < i
            BY <1>1
        <3> QED BY <2>1, <3>1
    <2>3. s[i] < t[i] \/ t[i] < s[i]
        BY <1>1
    <2>4. BeforeAt(i, s, t) \/ BeforeAt(i, t, s)
        BY <2>2, <2>3 DEF BeforeAt
    <2>5. i \in 1..(Len(s) + 1) /\ i \in 1..(Len(t) + 1)
        BY <1>1
    <2> QED BY <2>4, <2>5, LessBefore
<1>3. CASE D = {}
    <2>1. \A j \in 1..Len(s) : j <= Len(t) => s[j] = t[j]
        BY <1>1, <1>3
    <2>2. CASE Len(s) < Len(t)
        <3>1. BeforeAt(Len(s) + 1, s, t)
            BY <1>1, <2>1, <2>2 DEF BeforeAt
        <3> QED BY <1>1, <3>1, LessBefore
    <2>3. CASE Len(t) < Len(s)
        <3>1. BeforeAt(Len(t) + 1, t, s)
            BY <1>1, <2>1, <2>3 DEF BeforeAt
        <3> QED BY <1>1, <3>1, LessBefore
    <2>4. CASE Len(s) = Len(t)
        <3>1. \A j \in 1..Len(s) : s[j] = t[j]
            BY <1>1, <2>1, <2>4
        <3>2. s = t
            BY <2>4, <3>1, SameString
        <3> QED BY <3>2
    <2> QED BY <1>1, <2>2, <2>3, <2>4
<1> QED BY <1>2, <1>3

\* Of two prefixes of one string the one that is before the other is shorter.
LEMMA LessPrefix ==
    ASSUME NEW s \in Strings, NEW t \in Strings, NEW u \in Strings,
           Http!IsPrefix(s, u), Http!IsPrefix(t, u), Http!Less(s, t)
    PROVE  Len(s) < Len(t)
<1>1. PICK i \in 1..(Len(s) + 1) : BeforeAt(i, s, t)
    BY LessBefore
<1>2. /\ Len(s) \in Nat /\ Len(t) \in Nat
      /\ \A j \in 1..Len(s) : s[j] = u[j] /\ s[j] \in Nat
      /\ \A j \in 1..Len(t) : t[j] = u[j]
    BY Prefix DEF Strings
<1>3. i = Len(s) + 1
    <2> SUFFICES ASSUME i \in 1..Len(s) PROVE FALSE
        BY <1>2
    <2>1. s[i] < t[i] /\ i \in 1..Len(t)
        BY <1>1, <1>2 DEF BeforeAt
    <2>2. s[i] = t[i] /\ s[i] \in Nat
        BY <1>2, <2>1
    <2> QED BY <2>1, <2>2
<1> QED BY <1>1, <1>2, <1>3 DEF BeforeAt

\* The prefixes of a URI with a slash are those of the URI, and itself.
LEMMA PrefixOfUri ==
    ASSUME NEW p \in Strings, NEW uri \in Strings
    PROVE  /\ Http!UriSlash(uri) \in Strings
           /\ Http!IsPrefix(p, Http!UriSlash(uri))
                  <=> Http!IsPrefix(p, uri) \/ p = Http!UriSlash(uri)
<1> DEFINE u == Http!UriSlash(uri)
<1>1. Slash \in Nat
    BY RoutingAssumption
<1>2. u = uri \/ u = uri \o <<Slash>>
    BY DEF Http!UriSlash, Http!Root
<1> HIDE DEF u
<1>3. CASE u = uri
    <2>1. Http!IsPrefix(uri, uri)
        <3>1. Len(uri) \in Nat
            BY DEF Strings
        <3> QED BY <3>1, Prefix
    <2> QED BY <1>3, <2>1 DEF u
<1>4. CASE u = uri \o <<Slash>>
    <2>1. /\ u \in Strings /\ Len(u) = Len(uri) + 1 /\ Len(uri) \in Nat /\ Len(p) \in Nat
          /\ \A j \in 1..Len(uri) : u[j] = uri[j]
        BY <1>1, <1>4 DEF Strings
    <2>2. Http!IsPrefix(p, uri) => Http!IsPrefix(p, u)
        BY <2>1, Prefix
    <2>3. Http!IsPrefix(u, u)
        BY <2>1, Prefix
    <2>4. ASSUME Http!IsPrefix(p, u), p # u PROVE Http!IsPrefix(p, uri)
        <3>1. Len(p) <= Len(u) /\ \A j \in 1..Len(p) : p[j] = u[j]
            BY <2>1, <2>4, Prefix
        <3>2. Len(p) # Len(u)
            <4> SUFFICES ASSUME Len(p) = Len(u) PROVE p = u
                BY <2>4
            <4>1. \A j \in 1..Len(p) : p[j] = u[j]
                BY <3>1
            <4>2. p \in Strings /\ u \in Strings
                BY <2>1
            <4> HIDE DEF u
            <4> QED BY <4>1, <4>2, SameString
        <3>3. Len(p) <= Len(uri) /\ \A j \in 1..Len(p) : p[j] = uri[j]
            BY <2>1, <3>1, <3>2
        <3> QED BY <3>3, Prefix
    <2> QED BY <2>1, <2>2, <2>3, <2>4 DEF u
<1> QED BY <1>2, <1>3, <1>4

-----------------------------------------------------------------------------
(* Sorting.                                                                *)

\* s has the members of P in descending order.
Descending(s, P) ==
    /\ s \in [1..Cardinality(P) -> P]
    /\ \A p \in P : \E i \in DOMAIN s : s[i] = p
    /\ \A i, j \in DOMAIN s : i < j => Http!Less(s[j], s[i])

\* A set without one of its members.
LEMMA OneLess ==
    ASSUME NEW S, NEW x \in S, NEW n \in Nat, IsFiniteSet(S), Cardinality(S) = n + 1
    PROVE  IsFiniteSet(S \ {x}) /\ Cardinality(S \ {x}) = n
<1>1. IsFiniteSet(S \ {x}) /\ Cardinality(S \ {x}) = Cardinality(S) - 1
    BY FS_RemoveElement
<1>2. (n + 1) - 1 = n
    OBVIOUS
<1> QED BY <1>1, <1>2

\* A finite set of strings has one that comes before all others.
LEMMA FirstString ==
    ASSUME NEW P \in SUBSET Strings, IsFiniteSet(P), P # {}
    PROVE  \E p \in P : \A q \in P \ {p} : Http!Less(p, q)
<1> DEFINE Good(Q) == \E p \in Q : \A q \in Q \ {p} : Http!Less(p, q)
           T == {n \in Nat : \A Q \in SUBSET Strings :
                    IsFiniteSet(Q) /\ Cardinality(Q) = n => Q = {} \/ Good(Q)}
<1>1. 0 \in T
    <2> SUFFICES ASSUME NEW Q \in SUBSET Strings, IsFiniteSet(Q), Cardinality(Q) = 0
                 PROVE  Q = {}
        OBVIOUS
    <2> QED BY FS_EmptySet
<1>2. ASSUME NEW n \in T PROVE n + 1 \in T
    <2> SUFFICES ASSUME NEW Q \in SUBSET Strings, IsFiniteSet(Q), Cardinality(Q) = n + 1,
                        NEW m \in Q
                 PROVE  Good(Q)
        OBVIOUS
    <2>1. n \in Nat
        OBVIOUS
    <2>2. IsFiniteSet(Q \ {m}) /\ Cardinality(Q \ {m}) = n
        <3> HIDE DEF T, Good
        <3> QED BY <2>1, OneLess
    <2>3. Q \ {m} = {} \/ Good(Q \ {m})
        BY <2>2
    <2>4. CASE Q \ {m} = {}
        BY <2>4
    <2>5. CASE Good(Q \ {m})
        <3>1. PICK p \in Q \ {m} : \A q \in (Q \ {m}) \ {p} : Http!Less(p, q)
            BY <2>5
        <3>2. CASE Http!Less(p, m)
            <4>1. \A q \in Q \ {p} : Http!Less(p, q)
                BY <3>1, <3>2
            <4> QED BY <3>1, <4>1
        <3>3. CASE Http!Less(m, p)
            <4>1. ASSUME NEW q \in Q \ {m} PROVE Http!Less(m, q)
                <5>1. CASE q = p
                    BY <5>1, <3>3
                <5>2. CASE q # p
                    <6>1. Http!Less(p, q) /\ m \in Strings /\ p \in Strings /\ q \in Strings
                        BY <3>1, <5>2
                    <6> QED BY <6>1, <3>3, LessTransitive
                <5> QED BY <5>1, <5>2
            <4> QED BY <4>1
        <3>4. Http!Less(p, m) \/ Http!Less(m, p)
            <4>1. p \in Strings /\ m \in Strings /\ p # m
                BY <3>1
            <4> QED BY <4>1, LessTotal
        <3> QED BY <3>2, <3>3, <3>4
    <2> QED BY <2>3, <2>4, <2>5
<1>3. T = Nat
    <2> HIDE DEF T
    <2>1. T \in SUBSET Nat
        BY DEF T
    <2> QED BY <1>1, <1>2, <2>1, NatInd
<1>4. Cardinality(P) \in Nat
    BY FS_CardinalityType
<1> QED BY <1>3, <1>4

\* A finite set of strings can be put in descending order.
LEMMA Sortable ==
    ASSUME NEW P \in SUBSET Strings, IsFiniteSet(P)
    PROVE  \E s : Descending(s, P)
<1> DEFINE T == {n \in Nat : \A Q \in SUBSET Strings :
                    IsFiniteSet(Q) /\ Cardinality(Q) = n => \E s : Descending(s, Q)}
<1>1. 0 \in T
    <2> SUFFICES ASSUME NEW Q \in SUBSET Strings, IsFiniteSet(Q), Cardinality(Q) = 0
                 PROVE  \E s : Descending(s, Q)
        OBVIOUS
    <2>1. Q = {}
        BY FS_EmptySet
    <2> DEFINE s == [i \in 1..0 |-> i]
    <2>2. DOMAIN s = {} /\ s \in [1..0 -> Q]
        BY <2>1
    <2> HIDE DEF s
    <2>3. Descending(s, Q)
        BY <2>1, <2>2 DEF Descending
    <2> QED BY <2>3
<1>2. ASSUME NEW n \in T PROVE n + 1 \in T
    <2> SUFFICES ASSUME NEW Q \in SUBSET Strings, IsFiniteSet(Q), Cardinality(Q) = n + 1
                 PROVE  \E s : Descending(s, Q)
        OBVIOUS
    <2>1. Q # {}
        BY FS_EmptySet
    <2>2. PICK m \in Q : \A q \in Q \ {m} : Http!Less(m, q)
        BY <2>1, FirstString
    <2>3. n \in Nat
        OBVIOUS
    <2>4. IsFiniteSet(Q \ {m}) /\ Cardinality(Q \ {m}) = n
        <3> HIDE DEF T
        <3> QED BY <2>3, OneLess
    <2>5. PICK s : Descending(s, Q \ {m})
        BY <2>4
    <2> DEFINE t == [i \in 1..(n + 1) |-> IF i = n + 1 THEN m ELSE s[i]]
    <2>6. /\ DOMAIN s = 1..n /\ (\A i \in 1..n : s[i] \in Q \ {m})
          /\ (\A p \in Q \ {m} : \E i \in 1..n : s[i] = p)
          /\ (\A i, j \in 1..n : i < j => Http!Less(s[j], s[i]))
        <3> DEFINE R == Q \ {m}
        <3>1. Descending(s, R) /\ Cardinality(R) = n
            BY <2>4, <2>5
        <3> HIDE DEF R, T
        <3>2. s \in [1..n -> R]
            BY <3>1 DEF Descending
        <3>3. DOMAIN s = 1..n /\ \A i \in 1..n : s[i] \in R
            BY <3>2
        <3> QED BY <3>1, <3>3 DEF Descending, R
    <2>7. \A i \in 1..(n + 1) : i \in 1..n \/ i = n + 1
        OBVIOUS
    <2>8. n + 1 \in 1..(n + 1) /\ n + 1 \notin 1..n /\ (\A i \in 1..n : i \in 1..(n + 1) /\ i # n + 1)
        OBVIOUS
    <2>9. /\ DOMAIN t = 1..(n + 1) /\ t[n + 1] = m
          /\ \A i \in 1..n : t[i] = s[i]
        BY <2>8
    <2>10. t \in [1..(n + 1) -> Q]
        BY <2>6, <2>7
    <2> HIDE DEF t
    <2>11. ASSUME NEW p \in Q PROVE \E i \in DOMAIN t : t[i] = p
        <3>1. CASE p = m
            BY <3>1, <2>8, <2>9
        <3>2. CASE p # m
            BY <3>2, <2>6, <2>8, <2>9
        <3> QED BY <3>1, <3>2
    <2>12. ASSUME NEW i \in DOMAIN t, NEW j \in DOMAIN t, i < j PROVE Http!Less(t[j], t[i])
        <3>1. i \in 1..n
            BY <2>7, <2>9, <2>12
        <3>2. CASE j = n + 1
            BY <2>2, <2>6, <2>9, <3>1, <3>2
        <3>3. CASE j \in 1..n
            BY <2>6, <2>9, <2>12, <3>1, <3>3
        <3> QED BY <2>7, <2>9, <3>2, <3>3
    <2>13. Descending(t, Q)
        BY <2>9, <2>10, <2>11, <2>12 DEF Descending
    <2> QED BY <2>13
<1>3. T = Nat
    <2> HIDE DEF T
    <2>1. T \in SUBSET Nat
        BY DEF T
    <2> QED BY <1>1, <1>2, <2>1, NatInd
<1>4. Cardinality(P) \in Nat
    BY FS_CardinalityType
<1> QED BY <1>3, <1>4

\* What sort returns.
LEMMA Sorted ==
    ASSUME NEW P \in SUBSET Strings, IsFiniteSet(P)
    PROVE  Descending(Http!sort(P), P)
<1>1. \E s : Descending(s, P)
    BY Sortable
<1>2. Http!Cardinality(P) = Cardinality(P)
    BY HttpCardinality
<1> QED BY <1>1, <1>2 DEF Descending, Http!sort

-----------------------------------------------------------------------------
(* The invariant of a virtual host.                                        *)

\* Mounts are of load balancers, at strings.
HistoryInv ==
    /\ history \in Seq([op : {"set", "remove"}, pth : Strings, lb : Balancers \cup {None}])
    /\ \A i \in 1..Len(history) : history[i].op = "set" => history[i].lb \in Balancers

\* The table has the paths with a mount that stands, each with the first of these.
PathsInv ==
    /\ DOMAIN paths = {p \in {history[i].pth : i \in 1..Len(history)} : Http!Standing(p) # {}}
    /\ IsFiniteSet(DOMAIN paths)
    /\ \A p \in DOMAIN paths : paths[p] = Http!FirstAt(p)

\* The sorted paths are those of the table.
SortedInv == Descending(sorted, DOMAIN paths)

\* What LongestMount says of an answer, by the table instead of the history.
Served(r, answer) ==
    LET covers == {p \in DOMAIN paths : Http!IsPrefix(p, Http!UriSlash(r.uri))}
        longest == CHOOSE p \in covers : \A q \in covers : Len(q) <= Len(p)
    IN  /\ answer = "not found" =>
              covers = {} /\ r.uri \notin {<<>>, Http!Root} /\ ~r.websocket
        /\ answer \in Balancers =>
              /\ longest \in covers /\ answer = paths[longest]
              /\ Auth[answer].enabled =>
                    <<r.credentials[1], r.credentials[2]>> \in
                        {<<u, Auth[answer].users[u]>> : u \in DOMAIN Auth[answer].users}

\* The last answer fits the table; there is none before.
Answered == Served(request, response)

HttpInv == HistoryInv /\ PathsInv /\ SortedInv /\ Answered

\* FirstAt is of the first of the standing mounts.
LEMMA FirstStanding ==
    ASSUME NEW p, Http!Standing(p) # {}
    PROVE  \E i \in Http!Standing(p) :
              /\ \A j \in Http!Standing(p) : i <= j
              /\ Http!FirstAt(p) = history[i].lb
<1>1. \E i \in Http!Standing(p) : \A j \in Http!Standing(p) : i <= j
    <2>1. Http!Standing(p) \in SUBSET Nat
        BY DEF Http!Standing
    <2> QED BY <2>1, NatMin
<1> QED BY <1>1 DEF Http!FirstAt

\* The table is one of strings and load balancers.
LEMMA MountsAreStrings ==
    ASSUME HistoryInv, PathsInv
    PROVE  /\ DOMAIN paths \in SUBSET Strings
           /\ \A p \in DOMAIN paths : paths[p] \in Balancers
<1>1. \A i \in 1..Len(history) : history[i].pth \in Strings
    <2> DEFINE R == [op : {"set", "remove"}, pth : Strings, lb : Balancers \cup {None}]
    <2>1. history \in Seq(R) /\ \A h \in R : h.pth \in Strings
        BY DEF HistoryInv
    <2> HIDE DEF R
    <2> QED BY <2>1
<1>2. ASSUME NEW p \in DOMAIN paths PROVE paths[p] \in Balancers
    <2>1. PICK i \in Http!Standing(p) : Http!FirstAt(p) = history[i].lb
        BY <1>2, FirstStanding DEF PathsInv
    <2>2. i \in 1..Len(history) /\ history[i].op = "set"
        BY <2>1 DEF Http!Standing
    <2> QED BY <1>2, <2>1, <2>2 DEF HistoryInv, PathsInv
<1> QED BY <1>1, <1>2 DEF PathsInv

\* What a mount or a removal does to the mounts that stand.
LEMMA StandingStep ==
    ASSUME HistoryInv, NEW op \in {"set", "remove"}, NEW pth, NEW lb, Http!Record(op, pth, lb),
           NEW p
    PROVE  Http!Standing(p)' =
              IF pth # p THEN Http!Standing(p)
              ELSE IF op = "remove" THEN {} ELSE Http!Standing(p) \cup {Len(history) + 1}
<1> DEFINE n == Len(history)  h == [op |-> op, pth |-> pth, lb |-> lb]
<1>1. /\ n \in Nat /\ Len(history)' = n + 1
      /\ (\A i \in 1..n : history'[i] = history[i]) /\ history'[n + 1] = h
    <2>1. history' = Append(history, h)
        BY DEF Http!Record
    <2>2. history \in Seq([op : {"set", "remove"}, pth : Strings, lb : Balancers \cup {None}])
        BY DEF HistoryInv
    <2> HIDE DEF h
    <2> QED BY <2>1, <2>2
<1>2. /\ n + 1 \in 1..(n + 1) /\ (\A i \in 1..(n + 1) : i \in 1..n \/ i = n + 1)
      /\ \A i \in 1..n : i \in 1..(n + 1) /\ n + 1 \in i..(n + 1)
                         /\ \A j \in i..(n + 1) : j \in i..n \/ j = n + 1
      /\ \A i \in 1..n : \A j \in i..n : j \in i..(n + 1) /\ j \in 1..n
      /\ \A j \in (n + 1)..(n + 1) : j = n + 1
    BY <1>1
<1>3. h.op = op /\ h.pth = pth
    OBVIOUS
<1> DEFINE Stands(i) ==
              /\ history'[i].op = "set" /\ history'[i].pth = p
              /\ \A j \in i..(n + 1) : ~(history'[j].op = "remove" /\ history'[j].pth = p)
<1>4. Http!Standing(p)' = {i \in 1..(n + 1) : Stands(i)}
    BY <1>1 DEF Http!Standing
<1>5. ASSUME NEW i \in 1..n
      PROVE  Stands(i) <=> i \in Http!Standing(p) /\ ~(op = "remove" /\ pth = p)
    <2> HIDE DEF n, h
    <2> QED BY <1>1, <1>2, <1>3 DEF Http!Standing, n
<1>6. Stands(n + 1) <=> op = "set" /\ pth = p
    <2> HIDE DEF n, h
    <2> QED BY <1>1, <1>2, <1>3
<1>7. \A i \in Http!Standing(p) : i \in 1..n
    BY DEF Http!Standing
<1> HIDE DEF Stands, n, h
<1> QED BY <1>2, <1>4, <1>5, <1>6, <1>7 DEF n

\* Nothing is mounted at first.
LEMMA HttpInitInv == Http!Init => HttpInv
<1> SUFFICES ASSUME Http!Init PROVE HttpInv
    OBVIOUS
<1>1. /\ paths = [p \in {} |-> None] /\ sorted = <<>> /\ response = None /\ history = <<>>
    BY DEF Http!Init
<1>2. DOMAIN paths = {} /\ Len(history) = 0
    BY <1>1
<1>3. HistoryInv
    BY <1>1 DEF HistoryInv
<1>4. PathsInv
    <2>1. IsFiniteSet(DOMAIN paths)
        BY <1>2, FS_EmptySet
    <2> QED BY <1>2, <2>1 DEF PathsInv
<1>5. SortedInv
    <2>1. Cardinality({}) = 0
        BY FS_EmptySet
    <2>2. DOMAIN sorted = {} /\ sorted \in [1..0 -> {}]
        BY <1>1
    <2> QED BY <1>2, <2>1, <2>2 DEF SortedInv, Descending
<1>6. Answered
    BY <1>1, RoutingAssumption DEF Answered, Served
<1> QED BY <1>3, <1>4, <1>5, <1>6 DEF HttpInv

\* A path of the table is a string.
LEMMA HttpPathString == ASSUME NEW pth \in Paths PROVE Http!HttpPath(pth) \in Strings
<1>1. pth \in Seq(Nat) /\ Slash \in Nat
    BY RoutingAssumption
<1>2. <<Slash>> \in Seq(Nat)
    BY <1>1
<1>3. pth \o <<Slash>> \in Seq(Nat)
    BY <1>1, <1>2
<1> DEFINE closed == IF pth = <<>> \/ Http!Last(pth) # Slash THEN pth \o <<Slash>> ELSE pth
<1>4. closed \in Seq(Nat)
    BY <1>1, <1>3
<1>5. Http!cleanPth(pth) = IF Head(closed) # Slash THEN <<Slash>> \o closed ELSE closed
    BY DEF Http!cleanPth, Http!Root
<1> HIDE DEF closed
<1>6. <<Slash>> \o closed \in Seq(Nat)
    BY <1>2, <1>4
<1> QED BY <1>1, <1>4, <1>5, <1>6 DEF Http!HttpPath, Strings

\* A mount keeps the table and its order, whether the path is mounted or not.
LEMMA SetInv ==
    ASSUME HttpInv, NEW pth \in Strings, NEW lb \in Balancers, Http!Set(pth, lb)
    PROVE  HistoryInv' /\ PathsInv' /\ SortedInv'
<1>1. HistoryInv /\ PathsInv /\ SortedInv
    BY DEF HttpInv
<1>2. Http!Record("set", pth, lb)
    BY DEF Http!Set
<1> DEFINE n == Len(history)
<1>3. /\ n \in Nat /\ Len(history)' = n + 1
      /\ \A i \in 1..n : history'[i] = history[i]
      /\ history'[n + 1] = [op |-> "set", pth |-> pth, lb |-> lb]
      /\ history' \in Seq([op : {"set", "remove"}, pth : Strings, lb : Balancers \cup {None}])
    <2> DEFINE h == [op |-> "set", pth |-> pth, lb |-> lb]
               R == [op : {"set", "remove"}, pth : Strings, lb : Balancers \cup {None}]
    <2>1. history' = Append(history, h) /\ h \in R /\ history \in Seq(R)
        BY <1>1, <1>2 DEF Http!Record, HistoryInv
    <2> HIDE DEF h, R
    <2> QED BY <2>1 DEF h, R
<1>4. (\A i \in 1..(n + 1) : i \in 1..n \/ i = n + 1) /\ n + 1 \in 1..(n + 1)
      /\ \A i \in 1..n : i \in 1..(n + 1)
    BY <1>3
<1>5. HistoryInv'
    BY <1>1, <1>3, <1>4 DEF HistoryInv
<1>6. \A p : Http!Standing(p)' = IF pth # p THEN Http!Standing(p)
                                 ELSE Http!Standing(p) \cup {n + 1}
    BY <1>1, <1>2, StandingStep
<1>7. DOMAIN paths' = DOMAIN paths \cup {pth}
    BY DEF Http!Set
<1>8. {history'[i].pth : i \in 1..Len(history)'} = {history[i].pth : i \in 1..n} \cup {pth}
    <2> HIDE DEF n
    <2> QED BY <1>3, <1>4
<1>9. ASSUME NEW p PROVE p \in DOMAIN paths <=> Http!Standing(p) # {}
    <2>1. Http!Standing(p) # {} => p \in {history[i].pth : i \in 1..n}
        BY DEF Http!Standing
    <2> QED BY <1>1, <2>1 DEF PathsInv
<1>10. DOMAIN paths' = {p \in {history'[i].pth : i \in 1..Len(history)'} : Http!Standing(p)' # {}}
    <2>1. ASSUME NEW p \in DOMAIN paths
          PROVE  p \in {history[i].pth : i \in 1..n} /\ Http!Standing(p) # {}
        BY <1>1, <2>1 DEF PathsInv
    <2>2. ASSUME NEW p, p # pth, Http!Standing(p)' # {} PROVE p \in DOMAIN paths
        BY <1>6, <1>9, <2>2
    <2>3. Http!Standing(pth)' # {}
        BY <1>6
    <2>4. ASSUME NEW p \in DOMAIN paths PROVE Http!Standing(p)' # {}
        BY <1>6, <2>1, <2>4
    <2> HIDE DEF n
    <2> QED BY <1>7, <1>8, <2>1, <2>2, <2>3, <2>4
<1>11. IsFiniteSet(DOMAIN paths')
    BY <1>1, <1>7, FS_AddElement DEF PathsInv
<1>12. ASSUME NEW p \in DOMAIN paths' PROVE paths'[p] = Http!FirstAt(p)'
    <2>1. CASE p \in DOMAIN paths
        <3>1. paths'[p] = paths[p] /\ paths[p] = Http!FirstAt(p)
            BY <1>1, <2>1 DEF Http!Set, PathsInv
        <3>2. PICK i \in Http!Standing(p) :
                  /\ \A j \in Http!Standing(p) : i <= j
                  /\ Http!FirstAt(p) = history[i].lb
            BY <1>9, <2>1, FirstStanding
        <3>3. i \in 1..n
            BY <3>2 DEF Http!Standing
        <3>4. i \in Http!Standing(p)' /\ \A j \in Http!Standing(p)' : j \in Nat /\ i <= j
            <4>1. i <= n + 1 /\ \A j \in Http!Standing(p) : j \in Nat
                BY <1>3, <3>3 DEF Http!Standing
            <4> HIDE DEF n
            <4> QED BY <1>3, <1>6, <3>2, <4>1
        <3>5. Http!FirstAt(p)' = history'[i].lb
            <4> DEFINE k == CHOOSE k \in Http!Standing(p)' : \A j \in Http!Standing(p)' : k <= j
            <4>1. k \in Http!Standing(p)' /\ \A j \in Http!Standing(p)' : k <= j
                BY <3>4
            <4>2. Http!FirstAt(p)' = history'[k].lb
                BY DEF Http!FirstAt
            <4> HIDE DEF k
            <4>3. k = i
                BY <3>3, <3>4, <4>1
            <4> QED BY <4>2, <4>3
        <3> QED BY <1>3, <3>1, <3>2, <3>3, <3>5
    <2>2. CASE p \notin DOMAIN paths
        <3>1. p = pth /\ paths'[p] = lb
            BY <1>7, <1>12, <2>2 DEF Http!Set
        <3>2. Http!Standing(p)' = {n + 1}
            BY <1>6, <1>9, <2>2, <3>1
        <3>3. Http!FirstAt(p)' = history'[n + 1].lb
            <4>1. n + 1 <= n + 1
                BY <1>3
            <4> QED BY <3>2, <4>1 DEF Http!FirstAt
        <3> QED BY <1>3, <3>1, <3>3
    <2> QED BY <2>1, <2>2
<1>13. PathsInv'
    BY <1>10, <1>11, <1>12 DEF PathsInv
<1>14. SortedInv'
    <2>1. CASE pth \in DOMAIN paths
        BY <1>1, <2>1 DEF Http!Set, SortedInv
    <2>2. CASE pth \notin DOMAIN paths
        <3>1. sorted' = Http!sort(DOMAIN paths')
            BY <2>2 DEF Http!Set
        <3>2. DOMAIN paths' \in SUBSET Strings
            BY <1>1, <1>7, MountsAreStrings
        <3>3. Descending(Http!sort(DOMAIN paths'), DOMAIN paths')
            BY <1>11, <3>2, Sorted
        <3> QED BY <3>1, <3>3 DEF SortedInv, Descending
    <2> QED BY <2>1, <2>2
<1> QED BY <1>5, <1>13, <1>14

\* A removal keeps them.
LEMMA UnmountInv ==
    ASSUME HttpInv, NEW pth \in Strings, Http!Unmount(pth)
    PROVE  HistoryInv' /\ PathsInv' /\ SortedInv'
<1>1. HistoryInv /\ PathsInv /\ SortedInv
    BY DEF HttpInv
<1>2. Http!Record("remove", pth, None)
    BY DEF Http!Unmount
<1> DEFINE n == Len(history)
<1>3. /\ n \in Nat /\ Len(history)' = n + 1
      /\ \A i \in 1..n : history'[i] = history[i]
      /\ history'[n + 1] = [op |-> "remove", pth |-> pth, lb |-> None]
      /\ history' \in Seq([op : {"set", "remove"}, pth : Strings, lb : Balancers \cup {None}])
    <2> DEFINE h == [op |-> "remove", pth |-> pth, lb |-> None]
               R == [op : {"set", "remove"}, pth : Strings, lb : Balancers \cup {None}]
    <2>1. history' = Append(history, h) /\ h \in R /\ history \in Seq(R)
        BY <1>1, <1>2 DEF Http!Record, HistoryInv
    <2> HIDE DEF h, R
    <2> QED BY <2>1 DEF h, R
<1>4. (\A i \in 1..(n + 1) : i \in 1..n \/ i = n + 1) /\ n + 1 \in 1..(n + 1)
      /\ \A i \in 1..n : i \in 1..(n + 1)
    BY <1>3
<1>5. HistoryInv'
    BY <1>1, <1>3, <1>4 DEF HistoryInv
<1>6. \A p : Http!Standing(p)' = IF pth # p THEN Http!Standing(p) ELSE {}
    BY <1>1, <1>2, StandingStep
<1>7. DOMAIN paths' = DOMAIN paths \ {pth} /\ \A p \in DOMAIN paths' : paths'[p] = paths[p]
    BY DEF Http!Unmount
<1>8. {history'[i].pth : i \in 1..Len(history)'} = {history[i].pth : i \in 1..n} \cup {pth}
    <2> HIDE DEF n
    <2> QED BY <1>3, <1>4
<1>9. DOMAIN paths' = {p \in {history'[i].pth : i \in 1..Len(history)'} : Http!Standing(p)' # {}}
    <2>1. DOMAIN paths = {p \in {history[i].pth : i \in 1..n} : Http!Standing(p) # {}}
        BY <1>1 DEF PathsInv
    <2> HIDE DEF n
    <2> QED BY <1>6, <1>7, <1>8, <2>1
<1>10. IsFiniteSet(DOMAIN paths')
    BY <1>1, <1>7, FS_RemoveElement DEF PathsInv
<1>11. ASSUME NEW p \in DOMAIN paths' PROVE paths'[p] = Http!FirstAt(p)'
    <2>1. p # pth /\ paths'[p] = Http!FirstAt(p) /\ Http!Standing(p) # {}
        BY <1>1, <1>7, <1>11 DEF PathsInv
    <2>2. Http!Standing(p)' = Http!Standing(p)
        BY <1>6, <2>1
    <2>3. \E i \in Http!Standing(p) : \A j \in Http!Standing(p) : i <= j
        BY <2>1, FirstStanding
    <2> DEFINE k == CHOOSE i \in Http!Standing(p) : \A j \in Http!Standing(p) : i <= j
    <2>4. k \in 1..n
        BY <2>3 DEF Http!Standing
    <2>5. Http!FirstAt(p) = history[k].lb /\ Http!FirstAt(p)' = history'[k].lb
        BY <2>2 DEF Http!FirstAt
    <2> HIDE DEF k
    <2> QED BY <1>3, <2>1, <2>4, <2>5
<1>12. PathsInv'
    BY <1>9, <1>10, <1>11 DEF PathsInv
<1>13. SortedInv'
    <2>1. sorted' = Http!sort(DOMAIN paths')
        BY DEF Http!Unmount
    <2>2. DOMAIN paths' \in SUBSET Strings
        BY <1>1, <1>7, MountsAreStrings
    <2>3. Descending(Http!sort(DOMAIN paths'), DOMAIN paths')
        BY <1>10, <2>2, Sorted
    <2> QED BY <2>1, <2>3 DEF SortedInv, Descending
<1> QED BY <1>5, <1>12, <1>13

-----------------------------------------------------------------------------
(* The way of a request.                                                   *)

\* The mount that is found is the longest one that covers the URI, if any does.
LEMMA MountIsLongest ==
    ASSUME HistoryInv, PathsInv, SortedInv, NEW uri \in Strings
    PROVE  LET covers == {p \in DOMAIN paths : Http!IsPrefix(p, Http!UriSlash(uri))}
               longest == CHOOSE p \in covers : \A q \in covers : Len(q) <= Len(p)
           IN  /\ covers = {} => Http!Mount(uri) = None
               /\ covers # {} => /\ longest \in covers /\ Http!Mount(uri) = paths[longest]
                                 /\ Http!Mount(uri) \in Balancers
<1> DEFINE u == Http!UriSlash(uri)
           covers == {p \in DOMAIN paths : Http!IsPrefix(p, u)}
           longest == CHOOSE p \in covers : \A q \in covers : Len(q) <= Len(p)
           found == {i \in DOMAIN sorted :
                        /\ Http!IsPrefix(sorted[i], uri) \/ sorted[i] = u
                        /\ Http!Get(sorted[i]) # None}
           first == CHOOSE i \in found : \A j \in found : i <= j
<1>1. DOMAIN paths \in SUBSET Strings /\ \A p \in DOMAIN paths : paths[p] \in Balancers
    BY MountsAreStrings
<1>2. /\ DOMAIN sorted = 1..Cardinality(DOMAIN paths)
      /\ \A i \in DOMAIN sorted : sorted[i] \in DOMAIN paths
      /\ \A p \in DOMAIN paths : \E i \in DOMAIN sorted : sorted[i] = p
      /\ \A i, j \in DOMAIN sorted : i < j => Http!Less(sorted[j], sorted[i])
    BY DEF SortedInv, Descending
<1>3. Cardinality(DOMAIN paths) \in Nat
    BY FS_CardinalityType DEF PathsInv
<1>4. ASSUME NEW i \in DOMAIN sorted PROVE Http!Get(sorted[i]) = paths[sorted[i]]
    <2>1. sorted # <<>>
        <3> SUFFICES ASSUME sorted = <<>> PROVE DOMAIN sorted = {}
            OBVIOUS
        <3> QED OBVIOUS
    <2> QED BY <1>2, <2>1 DEF Http!Get
<1>5. None \notin Balancers
    BY RoutingAssumption
<1>6. ASSUME NEW i \in DOMAIN sorted PROVE i \in found <=> sorted[i] \in covers
    <2>1. sorted[i] \in DOMAIN paths /\ sorted[i] \in Strings /\ Http!Get(sorted[i]) # None
        BY <1>1, <1>2, <1>4, <1>5
    <2>2. Http!IsPrefix(sorted[i], u) <=> Http!IsPrefix(sorted[i], uri) \/ sorted[i] = u
        BY <2>1, PrefixOfUri
    <2> HIDE DEF u
    <2> QED BY <2>1, <2>2
<1>7. Http!Mount(uri) = IF found = {} THEN None ELSE Http!Get(sorted[first])
    BY DEF Http!Mount
<1>8. \A i \in found : i \in DOMAIN sorted
    OBVIOUS
<1>9. u \in Strings
    BY PrefixOfUri
<1>10. \A p \in covers : p \in DOMAIN paths /\ p \in Strings /\ Http!IsPrefix(p, u)
    BY <1>1
<1> HIDE DEF u, found, covers
<1>11. CASE covers = {}
    <2>1. found = {}
        BY <1>6, <1>8, <1>11
    <2> QED BY <1>7, <1>11, <2>1 DEF covers, u
<1>12. CASE covers # {}
    <2>1. found # {}
        BY <1>2, <1>6, <1>10, <1>12
    <2>2. found \in SUBSET Nat
        BY <1>2, <1>3, <1>8
    <2>3. \E i \in found : \A j \in found : i <= j
        BY <2>1, <2>2, NatMin
    <2>4. first \in found /\ \A j \in found : first <= j
        BY <2>3
    <2> HIDE DEF first
    <2> DEFINE m == sorted[first]
    <2>5. m \in covers
        BY <1>6, <1>8, <2>4
    <2>6. ASSUME NEW q \in covers, q # m PROVE Len(q) < Len(m)
        <3>1. PICK j \in DOMAIN sorted : sorted[j] = q
            BY <1>2, <1>10
        <3>2. j \in found /\ first \in DOMAIN sorted /\ j # first /\ first <= j
            BY <1>6, <1>8, <2>4, <2>6, <3>1
        <3>3. first < j
            <4>1. first \in Nat /\ j \in Nat
                BY <2>2, <2>4, <3>2
            <4> QED BY <3>2, <4>1
        <3>4. Http!Less(q, m)
            BY <1>2, <3>1, <3>2, <3>3
        <3> HIDE DEF m
        <3> QED BY <1>9, <1>10, <2>5, <3>4, LessPrefix
    <2>7. \A q \in covers : Len(q) \in Nat
        BY <1>10 DEF Strings
    <2> HIDE DEF m
    <2>8. \A q \in covers : Len(q) <= Len(m)
        BY <2>5, <2>6, <2>7
    <2>9. longest \in covers /\ \A q \in covers : Len(q) <= Len(longest)
        BY <2>5, <2>8
    <2> HIDE DEF longest
    <2>10. longest = m
        <3> SUFFICES ASSUME longest # m PROVE FALSE
            OBVIOUS
        <3>1. Len(longest) < Len(m) /\ Len(m) <= Len(longest)
            BY <2>5, <2>6, <2>9
        <3> QED BY <2>5, <2>7, <2>9, <3>1
    <2>11. Http!Mount(uri) = paths[m] /\ paths[m] \in Balancers
        BY <1>1, <1>4, <1>7, <1>8, <1>10, <2>1, <2>4, <2>5 DEF m
    <2> QED BY <1>12, <2>9, <2>10, <2>11 DEF covers, longest, u
<1> QED BY <1>11, <1>12

\* Every answer fits the table.
LEMMA RespondServes ==
    ASSUME HistoryInv, PathsInv, SortedInv, NEW r \in Requests
    PROVE  Served(r, Http!Respond(r))
<1> DEFINE u == Http!UriSlash(r.uri)
           covers == {p \in DOMAIN paths : Http!IsPrefix(p, u)}
           longest == CHOOSE p \in covers : \A q \in covers : Len(q) <= Len(p)
           lb == Http!Mount(r.uri)
           answer == Http!Respond(r)
<1>1. r.uri \in Strings
    BY RoutingAssumption DEF Strings
<1>2. /\ covers = {} => lb = None
      /\ covers # {} => longest \in covers /\ lb = paths[longest] /\ lb \in Balancers
    BY <1>1, MountIsLongest
<1>3. answer = IF r.uri \in {<<>>, Http!Root} THEN "index"
               ELSE IF r.websocket THEN "tunnel"
               ELSE IF lb = None THEN "not found" ELSE Http!RoundTrip(lb, r)
    BY DEF Http!Respond
<1> HIDE DEF u, covers, longest, lb, answer
<1>4. /\ None \notin Balancers /\ "index" \notin Balancers /\ "tunnel" \notin Balancers
      /\ "not found" \notin Balancers /\ "bad gateway" \notin Balancers
      /\ "unauthorised" \notin Balancers
    BY RoutingAssumption
<1>5. Http!RoundTrip(lb, r) \in {"bad gateway", "unauthorised", lb}
    BY DEF Http!RoundTrip
<1>6. ASSUME answer = "not found"
      PROVE  covers = {} /\ r.uri \notin {<<>>, Http!Root} /\ ~r.websocket
    <2>1. r.uri \notin {<<>>, Http!Root} /\ ~r.websocket
        BY <1>3, <1>6
    <2>2. lb = None \/ Http!RoundTrip(lb, r) = "not found"
        BY <1>3, <1>6, <2>1
    <2>3. covers = {}
        <3> SUFFICES ASSUME covers # {} PROVE FALSE
            OBVIOUS
        <3>1. lb \in Balancers
            BY <1>2
        <3> QED BY <1>4, <1>5, <2>2, <3>1
    <2> QED BY <2>1, <2>3
<1>7. ASSUME answer \in Balancers
      PROVE  /\ longest \in covers /\ answer = paths[longest]
             /\ Auth[answer].enabled =>
                   <<r.credentials[1], r.credentials[2]>> \in
                       {<<v, Auth[answer].users[v]>> : v \in DOMAIN Auth[answer].users}
    <2>1. lb # None /\ answer = Http!RoundTrip(lb, r)
        BY <1>3, <1>4, <1>7
    <2>2. longest \in covers /\ lb = paths[longest] /\ lb \in Balancers
        BY <1>2, <2>1
    <2>3. answer = lb
        BY <1>4, <1>5, <1>7, <2>1
    <2>4. ~(Auth[lb].enabled /\ ~Http!Match(Auth[lb].users, r.credentials))
        BY <1>4, <1>7, <2>1 DEF Http!RoundTrip
    <2>5. ASSUME Auth[lb].enabled
          PROVE  <<r.credentials[1], r.credentials[2]>> \in
                     {<<v, Auth[lb].users[v]>> : v \in DOMAIN Auth[lb].users}
        <3>1. Http!Match(Auth[lb].users, r.credentials)
            BY <2>4, <2>5
        <3>2. /\ r.credentials[1] \in DOMAIN Auth[lb].users
              /\ Auth[lb].users[r.credentials[1]] = r.credentials[2]
            BY <3>1 DEF Http!Match
        <3> QED BY <3>2
    <2> QED BY <2>2, <2>3, <2>5
<1> QED BY <1>6, <1>7 DEF Served, answer, covers, longest, u

\* Nothing that is derived from the history changes unless it does.
LEMMA SameHistory ==
    ASSUME UNCHANGED history
    PROVE  \A p : Http!Standing(p)' = Http!Standing(p) /\ Http!FirstAt(p)' = Http!FirstAt(p)
<1>1. \A p : Http!Standing(p)' = Http!Standing(p)
    BY DEF Http!Standing
<1> QED BY <1>1 DEF Http!FirstAt

\* The table only changes with its variables.
LEMMA SamePaths ==
    ASSUME HistoryInv, PathsInv, SortedInv, UNCHANGED <<paths, sorted, history>>
    PROVE  HistoryInv' /\ PathsInv' /\ SortedInv'
<1>1. {history'[i].pth : i \in 1..Len(history)'} = {history[i].pth : i \in 1..Len(history)}
    OBVIOUS
<1>2. PathsInv'
    BY <1>1, SameHistory DEF PathsInv
<1> QED BY <1>2 DEF HistoryInv, SortedInv, Descending

\* An answer that fits the table fits the history.
LEMMA LongestIsServed == PathsInv /\ Answered => Http!LongestMount
<1> SUFFICES ASSUME PathsInv, Answered PROVE Http!LongestMount
    OBVIOUS
<1> DEFINE mounts == {p \in {history[i].pth : i \in 1..Len(history)} : Http!Standing(p) # {}}
           covers == {p \in mounts : Http!IsPrefix(p, Http!UriSlash(request.uri))}
           longest == CHOOSE p \in covers : \A q \in covers : Len(q) <= Len(p)
<1>1. mounts = DOMAIN paths /\ \A p \in DOMAIN paths : Http!FirstAt(p) = paths[p]
    BY DEF PathsInv
<1> HIDE DEF mounts
<1>2. /\ response = "not found" =>
            covers = {} /\ request.uri \notin {<<>>, Http!Root} /\ ~request.websocket
      /\ response \in Balancers =>
            /\ longest \in covers /\ response = paths[longest]
            /\ Auth[response].enabled =>
                  <<request.credentials[1], request.credentials[2]>> \in
                      {<<u, Auth[response].users[u]>> : u \in DOMAIN Auth[response].users}
    BY <1>1 DEF Answered, Served
<1>3. longest \in covers => longest \in DOMAIN paths
    BY <1>1
<1>4. /\ response = "not found" =>
            covers = {} /\ request.uri \notin {<<>>, Http!Root} /\ ~request.websocket
      /\ response \in Balancers =>
            /\ covers # {} /\ response = Http!FirstAt(longest)
            /\ Auth[response].enabled =>
                  <<request.credentials[1], request.credentials[2]>> \in
                      {<<u, Auth[response].users[u]>> : u \in DOMAIN Auth[response].users}
    <2> HIDE DEF covers, longest
    <2> QED BY <1>1, <1>2, <1>3
<1> QED BY <1>4, Zenon DEF Http!LongestMount, mounts, covers, longest

\* Every step of a virtual host keeps its invariant.
LEMMA HttpNextInv == HttpInv /\ [Http!Next]_httpVars => HttpInv'
<1> SUFFICES ASSUME HttpInv, [Http!Next]_httpVars PROVE HttpInv'
    OBVIOUS
<1>1. ASSUME NEW pth \in Paths, NEW lb \in Balancers, Http!Set(Http!HttpPath(pth), lb)
      PROVE  HistoryInv' /\ PathsInv' /\ SortedInv'
    BY <1>1, HttpPathString, SetInv
<1>2. ASSUME NEW pth \in Paths, Http!Unmount(Http!HttpPath(pth))
      PROVE  HistoryInv' /\ PathsInv' /\ SortedInv'
    BY <1>2, HttpPathString, UnmountInv
<1>3. CASE response = None /\ Http!Change
    <2>1. HistoryInv' /\ PathsInv' /\ SortedInv'
        BY <1>1, <1>2, <1>3 DEF Http!Change
    <2>2. response' = None
        BY <1>3 DEF Http!Change
    <2>3. Answered'
        BY <2>2, RoutingAssumption DEF Answered, Served
    <2> QED BY <2>1, <2>3 DEF HttpInv
<1>4. ASSUME NEW r \in Requests, Http!ServeHTTP(r) PROVE HttpInv'
    <2>1. /\ UNCHANGED <<paths, sorted, history>>
          /\ request' = r /\ response' = Http!Respond(r)
        BY <1>4 DEF Http!ServeHTTP
    <2>2. HistoryInv /\ PathsInv /\ SortedInv
        BY DEF HttpInv
    <2>3. Served(r, Http!Respond(r))
        BY <2>2, RespondServes
    <2>4. HistoryInv' /\ PathsInv' /\ SortedInv'
        BY <2>1, <2>2, SamePaths
    <2>5. Answered'
        BY <2>1, <2>3 DEF Answered, Served
    <2> QED BY <2>4, <2>5 DEF HttpInv
<1>5. CASE UNCHANGED httpVars
    <2>1. UNCHANGED <<paths, sorted, history>> /\ request' = request /\ response' = response
        BY <1>5 DEF httpVars
    <2>2. HistoryInv' /\ PathsInv' /\ SortedInv'
        BY <2>1, SamePaths DEF HttpInv
    <2>3. Answered'
        BY <2>1 DEF Answered, Served, HttpInv
    <2> QED BY <2>2, <2>3 DEF HttpInv
<1> QED BY <1>3, <1>4, <1>5 DEF Http!Next

-----------------------------------------------------------------------------
(* All behaviours.                                                         *)

\* What a behaviour is about does not change, and the connect command is over in
\* those that are about something else.
InputInv ==
    input \in ApInputs \cup ForwardInputs \cup {[command |-> "connect"], [command |-> "host"]}

ConnectInv == IF Is("connect") THEN IInv ELSE ~raw

CommandsInv == InputInv /\ ConnectInv /\ HttpInv

\* The command of an input tells what it is.
LEMMA Inputs ==
    ASSUME InputInv
    PROVE  (Is("ap") => input \in ApInputs) /\ (Is("forward") => input \in ForwardInputs)
<1>1. /\ \A a \in ApInputs : a.command = "ap"
      /\ \A a \in ForwardInputs : a.command = "forward"
    BY ApAssumption, ForwardAssumption
<1> QED BY <1>1 DEF InputInv, Is

\* It holds at first ...
LEMMA CommandsInitInv == CommandsInit => CommandsInv
<1> SUFFICES ASSUME CommandsInit PROVE CommandsInv
    OBVIOUS
<1>1. HttpInv
    BY HttpInitInv DEF CommandsInit
<1>2. InputInv
    BY DEF CommandsInit, InputInv
<1>3. ConnectInv
    <2>1. CASE Init
        <3>1. IInv /\ ~raw
            BY <2>1, InitIInv DEF Init
        <3> QED BY <3>1 DEF ConnectInv
    <2>2. CASE NoConnect /\ input \in ApInputs \cup ForwardInputs \cup {[command |-> "host"]}
        <3>1. ~Is("connect")
            BY <2>2, ApAssumption, ForwardAssumption DEF Is
        <3> QED BY <2>2, <3>1 DEF ConnectInv, NoConnect
    <2> QED BY <2>1, <2>2 DEF CommandsInit
<1> QED BY <1>1, <1>2, <1>3 DEF CommandsInv

\* ... and after every step.
LEMMA CommandsNextInv ==
    CommandsInv /\ [CommandsNext]_<<vars, httpVars, input>> => CommandsInv'
<1> SUFFICES ASSUME CommandsInv, [CommandsNext]_<<vars, httpVars, input>>
             PROVE  CommandsInv'
    OBVIOUS
<1>1. UNCHANGED input
    BY DEF CommandsNext
<1>2. InputInv' /\ (Is("connect")' <=> Is("connect"))
    BY <1>1 DEF CommandsInv, InputInv, Is
<1>3. HttpInv'
    <2>1. [Http!Next]_httpVars
        BY DEF CommandsNext
    <2> QED BY <2>1, HttpNextInv DEF CommandsInv
<1>4. ConnectInv'
    <2>1. [Next]_vars
        BY DEF CommandsNext
    <2>2. CASE Is("connect")
        <3>1. IInv'
            BY <2>1, <2>2, NextTypeOK, NextBeforeInv, NextModeInv, NextSshInv, NextRawOnlyIfCut
            DEF CommandsInv, ConnectInv, IInv
        <3> QED BY <1>2, <2>2, <3>1 DEF ConnectInv
    <2>3. CASE ~Is("connect")
        <3>1. UNCHANGED vars
            BY <2>3 DEF CommandsNext
        <3> QED BY <1>2, <2>3, <3>1 DEF CommandsInv, ConnectInv, vars, shellVars
    <2> QED BY <2>2, <2>3
<1> QED BY <1>2, <1>3, <1>4 DEF CommandsInv

LEMMA CommandsInvariant == CommandsSpec => []CommandsInv
BY CommandsInitInv, CommandsNextInv, PTL DEF CommandsSpec

\* Next to all other commands, too, the terminal is left raw only by a process whose
\* websocket was cut (connect.go:82, 214 and 239).
THEOREM CommandsRawOnlyIfCut == CommandsSpec => []RawOnlyIfCut
<1>1. CommandsInv => RawOnlyIfCut
    BY DEF CommandsInv, ConnectInv, IInv, RawOnlyIfCut
<1> QED BY <1>1, CommandsInvariant, PTL

\* Every connection of an accepted ap command serves something, and every service
\* has as many connections as were counted for it (ap.go:261, 277).
THEOREM CommandsApSlotsServe == CommandsSpec => []ApSlotsServe
<1>1. CommandsInv => ApSlotsServe
    BY Inputs, SlotsServe DEF CommandsInv, ApSlotsServe
<1> QED BY <1>1, CommandsInvariant, PTL

\* After any sequence of mounts and removals a request goes to the longest mount
\* that covers it, to the load balancer that was there first, and only with the
\* credentials of one of its users (http.go:45 and 73, http_serve.go:159).
THEOREM CommandsRequestLongestMount == CommandsSpec => []RequestLongestMount
<1>1. CommandsInv => RequestLongestMount
    BY LongestIsServed DEF CommandsInv, HttpInv, RequestLongestMount
<1> QED BY <1>1, CommandsInvariant, PTL
=============================================================================
