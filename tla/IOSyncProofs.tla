---------------------------- MODULE IOSyncProofs ----------------------------
(***************************************************************************)
(* The safety invariants of IOSync for every number of copiers.  The       *)
(* strengthening says where each original can be while s.close's winner    *)
(* works through them (OriginalInv), that nothing was closed before        *)
(* s.closed was set (FlagInv), and that whoever is past its private Close  *)
(* left the connections closed (EndsInv).  With two copiers, a goroutine   *)
(* still on its way to s.mu after the flag was set is the only one that    *)
(* is: the other one is the winner (LoserInv).                             *)
(***************************************************************************)
EXTENDS IOSync, TLAPS

Waiting == {"lock", "recheck"}

SnapInv ==
    \A g \in G :
        /\ g >= turn \/ (g = 0 /\ turn <= N) => pc[g] = "start"
        /\ pc[g] # "start" => "unread" \notin {snapClosed[g], snapLocked[g]}
        /\ "yes" \in {snapClosed[g], snapLocked[g]} => sclosed

FlagInv ==
    /\ \A g \in G : pc[g] \in Loop => sclosed
    /\ \A i \in G : closed[i] \/ locked[i] => sclosed
    /\ \A g \in G : pc[g] = "recheck" => smu = g
    /\ \A g \in G : smu = g /\ pc[g] # "recheck" => sclosed
    /\ ~sclosed => next = 0

OriginalInv ==
    /\ \A g, h \in G : pc[g] \in Loop /\ pc[h] \in Loop => g = h
    /\ \A g \in G : pc[g] \in {"mark", "unlock", "closers"} => next < N
    /\ \A i \in G : locked[i] =>
          i = next /\ \E g \in G : pc[g] \in {"mark", "unlock"}
    /\ \A i \in G : closed[i] =>
          \/ i < next
          \/ i = next /\ \E g \in G : pc[g] \in {"unlock", "closers"}

EndsInv ==
    /\ sclosed => ends = "closed"
    /\ \A g \in G : pc[g] \notin {"start", "copy", "close"} => ends = "closed"

LoserInv ==
    N = 2 =>
        /\ sclosed => \A g, h \in G :
               pc[g] \in Waiting /\ h # g => pc[h] \in Loop \cup {"returned", "check"}
        /\ \A g \in G : smu = g /\ pc[g] # "recheck" => \A h \in G : pc[h] # "lock"

IInv == TypeOK /\ SnapInv /\ FlagInv /\ OriginalInv /\ EndsInv /\ LoserInv

LEMMA InitIInv == Init => IInv
<1> USE NAssumption DEF Init, Places, Loop, Snap, Waiting, G, Free
<1> SUFFICES ASSUME Init PROVE IInv
    OBVIOUS
<1>1. TypeOK
    <2>1. pc \in [G -> Places]
        OBVIOUS
    <2>2. 1 \in 1..(N + 1) /\ 0 \in 0..N
        OBVIOUS
    <2> QED
        BY <2>1, <2>2 DEF TypeOK
<1>2. SnapInv
    BY DEF SnapInv
<1>5. FlagInv
    <2>1. \A g \in G : pc[g] = "start" /\ smu # g
        OBVIOUS
    <2>2. \A i \in G : closed[i] = FALSE /\ locked[i] = FALSE
        OBVIOUS
    <2> QED
        BY <2>1, <2>2 DEF FlagInv
<1>4. OriginalInv
    BY DEF OriginalInv
<1>3. EndsInv /\ LoserInv
    BY DEF EndsInv, LoserInv
<1> QED
    BY <1>1, <1>2, <1>3, <1>4, <1>5 DEF IInv

LEMMA NextIInv == IInv /\ [Next]_vars => IInv'
<1> USE NAssumption DEF G, Free, Places, Loop, Waiting, Goto, snapVars,
        syncVars, origVars
<1> SUFFICES ASSUME IInv, [Next]_vars PROVE IInv'
    OBVIOUS
<1>0. TypeOK /\ SnapInv /\ FlagInv /\ OriginalInv /\ EndsInv /\ LoserInv
    BY DEF IInv
<1>1. ASSUME NEW g \in G, ReadClosed(g) PROVE IInv'
    <2> USE <1>0, <1>1 DEF ReadClosed, Turn, YesNo, TypeOK
    <2>1. TypeOK'
        BY DEF Snap
    <2>2. SnapInv'
        BY DEF SnapInv, FlagInv, Snap
    <2>3. FlagInv'
        BY DEF SnapInv, FlagInv, OriginalInv
    <2>4. OriginalInv'
        BY DEF SnapInv, FlagInv, OriginalInv
    <2>5. EndsInv'
        BY DEF SnapInv, FlagInv, EndsInv
    <2>6. LoserInv'
        BY DEF SnapInv, FlagInv, OriginalInv, EndsInv, LoserInv
    <2> QED
        BY <2>1, <2>2, <2>3, <2>4, <2>5, <2>6 DEF IInv
<1>2. ASSUME NEW g \in G, ReadLocked(g) PROVE IInv'
    <2> USE <1>0, <1>2 DEF ReadLocked, Turn, YesNo, TypeOK
    <2>1. TypeOK'
        BY DEF Snap
    <2>2. SnapInv'
        BY DEF SnapInv, FlagInv, Snap
    <2>3. FlagInv'
        BY DEF SnapInv, FlagInv, OriginalInv
    <2>4. OriginalInv'
        BY DEF SnapInv, FlagInv, OriginalInv
    <2>5. EndsInv'
        BY DEF SnapInv, FlagInv, EndsInv
    <2>6. LoserInv'
        BY DEF SnapInv, FlagInv, OriginalInv, EndsInv, LoserInv
    <2> QED
        BY <2>1, <2>2, <2>3, <2>4, <2>5, <2>6 DEF IInv
<1>3. ASSUME NEW g \in G, Launch(g) PROVE IInv'
    <2> USE <1>0, <1>3 DEF Launch, Turn, TypeOK
    <2>1. TypeOK'
        BY DEF Snap
    <2>2. SnapInv'
        BY DEF SnapInv, FlagInv, Snap
    <2>3. FlagInv'
        BY DEF SnapInv, FlagInv, OriginalInv
    <2>4. OriginalInv'
        BY DEF SnapInv, FlagInv, OriginalInv
    <2>5. EndsInv'
        BY DEF SnapInv, FlagInv, EndsInv
    <2>6. LoserInv'
        BY DEF SnapInv, FlagInv, OriginalInv, EndsInv, LoserInv
    <2> QED
        BY <2>1, <2>2, <2>3, <2>4, <2>5, <2>6 DEF IInv
<1>4. ASSUME NEW g \in G, CopyReturns(g) PROVE IInv'
    <2> USE <1>0, <1>4 DEF CopyReturns, TypeOK
    <2>1. TypeOK'
        BY DEF Snap
    <2>2. SnapInv'
        BY DEF SnapInv, FlagInv, Snap
    <2>3. FlagInv'
        BY DEF SnapInv, FlagInv, OriginalInv
    <2>4. OriginalInv'
        BY DEF SnapInv, FlagInv, OriginalInv
    <2>5. EndsInv'
        BY DEF SnapInv, FlagInv, EndsInv
    <2>6. LoserInv'
        BY DEF SnapInv, FlagInv, OriginalInv, EndsInv, LoserInv
    <2> QED
        BY <2>1, <2>2, <2>3, <2>4, <2>5, <2>6 DEF IInv
<1>5. ASSUME NEW g \in G, PrivateSkip(g) PROVE IInv'
    <2> USE <1>0, <1>5 DEF PrivateSkip, TypeOK
    <2>1. TypeOK'
        BY DEF Snap
    <2>2. SnapInv'
        BY DEF SnapInv, FlagInv, Snap
    <2>3. FlagInv'
        BY DEF SnapInv, FlagInv, OriginalInv
    <2>4. OriginalInv'
        BY DEF SnapInv, FlagInv, OriginalInv
    <2>5. EndsInv'
        BY DEF SnapInv, FlagInv, EndsInv
    <2>6. LoserInv'
        BY DEF SnapInv, FlagInv, OriginalInv, EndsInv, LoserInv
    <2> QED
        BY <2>1, <2>2, <2>3, <2>4, <2>5, <2>6 DEF IInv
<1>6. ASSUME NEW g \in G, PrivateStuck(g) PROVE IInv'
    <2> USE <1>0, <1>6 DEF PrivateStuck, TypeOK
    <2>1. TypeOK'
        BY DEF Snap
    <2>2. SnapInv'
        BY DEF SnapInv, FlagInv, Snap
    <2>3. FlagInv'
        BY DEF SnapInv, FlagInv, OriginalInv
    <2>4. OriginalInv'
        BY DEF SnapInv, FlagInv, OriginalInv
    <2>5. EndsInv'
        BY DEF SnapInv, FlagInv, EndsInv
    <2>6. LoserInv'
        BY DEF SnapInv, FlagInv, OriginalInv, EndsInv, LoserInv
    <2> QED
        BY <2>1, <2>2, <2>3, <2>4, <2>5, <2>6 DEF IInv
<1>7. ASSUME NEW g \in G, PrivateClose(g) PROVE IInv'
    <2> USE <1>0, <1>7 DEF PrivateClose, TypeOK
    <2>1. TypeOK'
        BY DEF Snap
    <2>2. SnapInv'
        BY DEF SnapInv, FlagInv, Snap
    <2>3. FlagInv'
        BY DEF SnapInv, FlagInv, OriginalInv
    <2>4. OriginalInv'
        BY DEF SnapInv, FlagInv, OriginalInv
    <2>5. EndsInv'
        BY DEF SnapInv, FlagInv, EndsInv
    <2>6. LoserInv'
        BY DEF SnapInv, FlagInv, OriginalInv, EndsInv, LoserInv
    <2> QED
        BY <2>1, <2>2, <2>3, <2>4, <2>5, <2>6 DEF IInv
<1>8. ASSUME NEW g \in G, Check(g) PROVE IInv'
    <2> USE <1>0, <1>8 DEF Check, TypeOK
    <2>1. TypeOK'
        BY DEF Snap
    <2>2. SnapInv'
        BY DEF SnapInv, FlagInv, Snap
    <2>3. FlagInv'
        BY DEF SnapInv, FlagInv, OriginalInv
    <2>4. OriginalInv'
        BY DEF SnapInv, FlagInv, OriginalInv
    <2>5. EndsInv'
        BY DEF SnapInv, FlagInv, EndsInv
    <2>6. LoserInv'
        BY DEF SnapInv, FlagInv, OriginalInv, EndsInv, LoserInv
    <2> QED
        BY <2>1, <2>2, <2>3, <2>4, <2>5, <2>6 DEF IInv
<1>9. ASSUME NEW g \in G, Lock(g) PROVE IInv'
    <2> USE <1>0, <1>9 DEF Lock, TypeOK
    <2>1. TypeOK'
        BY DEF Snap
    <2>2. SnapInv'
        BY DEF SnapInv, FlagInv, Snap
    <2>3. FlagInv'
        BY DEF SnapInv, FlagInv, OriginalInv
    <2>4. OriginalInv'
        BY DEF SnapInv, FlagInv, OriginalInv
    <2>5. EndsInv'
        BY DEF SnapInv, FlagInv, EndsInv
    <2>6. LoserInv'
        BY DEF SnapInv, FlagInv, OriginalInv, EndsInv, LoserInv
    <2> QED
        BY <2>1, <2>2, <2>3, <2>4, <2>5, <2>6 DEF IInv
<1>10. ASSUME NEW g \in G, RecheckLoses(g) PROVE IInv'
    <2> USE <1>0, <1>10 DEF RecheckLoses, TypeOK
    <2>1. TypeOK'
        BY DEF Snap
    <2>2. SnapInv'
        BY DEF SnapInv, FlagInv, Snap
    <2>3. FlagInv'
        BY DEF SnapInv, FlagInv, OriginalInv
    <2>4. OriginalInv'
        BY DEF SnapInv, FlagInv, OriginalInv
    <2>5. EndsInv'
        BY DEF SnapInv, FlagInv, EndsInv
    <2>6. LoserInv'
        BY DEF SnapInv, FlagInv, OriginalInv, EndsInv, LoserInv
    <2> QED
        BY <2>1, <2>2, <2>3, <2>4, <2>5, <2>6 DEF IInv
<1>11. ASSUME NEW g \in G, RecheckWins(g) PROVE IInv'
    <2> USE <1>0, <1>11 DEF RecheckWins, TypeOK
    <2>1. TypeOK'
        BY DEF Snap
    <2>2. SnapInv'
        BY DEF SnapInv, FlagInv, Snap
    <2>3. FlagInv'
        BY DEF SnapInv, FlagInv, OriginalInv
    <2>4. OriginalInv'
        BY DEF SnapInv, FlagInv, OriginalInv
    <2>5. EndsInv'
        BY DEF SnapInv, FlagInv, EndsInv
    <2>6. LoserInv'
        BY DEF SnapInv, FlagInv, OriginalInv, EndsInv, LoserInv
    <2> QED
        BY <2>1, <2>2, <2>3, <2>4, <2>5, <2>6 DEF IInv
<1>12. ASSUME NEW g \in G, OriginalLock(g) PROVE IInv'
    <2> USE <1>0, <1>12 DEF OriginalLock, TypeOK
    <2>1. TypeOK'
        BY DEF Snap
    <2>2. SnapInv'
        BY DEF SnapInv, FlagInv, Snap
    <2>3. FlagInv'
        BY DEF SnapInv, FlagInv, OriginalInv
    <2>4. OriginalInv'
        BY DEF SnapInv, FlagInv, OriginalInv
    <2>5. EndsInv'
        BY DEF SnapInv, FlagInv, EndsInv
    <2>6. LoserInv'
        BY DEF SnapInv, FlagInv, OriginalInv, EndsInv, LoserInv
    <2> QED
        BY <2>1, <2>2, <2>3, <2>4, <2>5, <2>6 DEF IInv
<1>13. ASSUME NEW g \in G, OriginalMark(g) PROVE IInv'
    <2> USE <1>0, <1>13 DEF OriginalMark, TypeOK
    <2>1. TypeOK'
        BY DEF Snap
    <2>2. SnapInv'
        BY DEF SnapInv, FlagInv, Snap
    <2>3. FlagInv'
        BY DEF SnapInv, FlagInv, OriginalInv
    <2>4. OriginalInv'
        BY DEF SnapInv, FlagInv, OriginalInv
    <2>5. EndsInv'
        BY DEF SnapInv, FlagInv, EndsInv
    <2>6. LoserInv'
        BY DEF SnapInv, FlagInv, OriginalInv, EndsInv, LoserInv
    <2> QED
        BY <2>1, <2>2, <2>3, <2>4, <2>5, <2>6 DEF IInv
<1>14. ASSUME NEW g \in G, OriginalUnlock(g) PROVE IInv'
    <2> USE <1>0, <1>14 DEF OriginalUnlock, TypeOK
    <2>1. TypeOK'
        BY DEF Snap
    <2>2. SnapInv'
        BY DEF SnapInv, FlagInv, Snap
    <2>3. FlagInv'
        BY DEF SnapInv, FlagInv, OriginalInv
    <2>4. OriginalInv'
        BY DEF SnapInv, FlagInv, OriginalInv
    <2>5. EndsInv'
        BY DEF SnapInv, FlagInv, EndsInv
    <2>6. LoserInv'
        BY DEF SnapInv, FlagInv, OriginalInv, EndsInv, LoserInv
    <2> QED
        BY <2>1, <2>2, <2>3, <2>4, <2>5, <2>6 DEF IInv
<1>15. ASSUME NEW g \in G, OriginalClosers(g) PROVE IInv'
    <2> USE <1>0, <1>15 DEF OriginalClosers, TypeOK
    <2>1. TypeOK'
        BY DEF Snap, OriginalInv
    <2>2. SnapInv'
        BY DEF SnapInv, FlagInv, Snap
    <2>3. FlagInv'
        BY DEF SnapInv, FlagInv, OriginalInv
    <2>4. OriginalInv'
        BY DEF SnapInv, FlagInv, OriginalInv
    <2>5. EndsInv'
        BY DEF SnapInv, FlagInv, EndsInv
    <2>6. LoserInv'
        BY DEF SnapInv, FlagInv, OriginalInv, EndsInv, LoserInv
    <2> QED
        BY <2>1, <2>2, <2>3, <2>4, <2>5, <2>6 DEF IInv
<1>16. ASSUME NEW g \in G, LoopEnds(g) PROVE IInv'
    <2> USE <1>0, <1>16 DEF LoopEnds, TypeOK
    <2>1. TypeOK'
        BY DEF Snap
    <2>2. SnapInv'
        BY DEF SnapInv, FlagInv, Snap
    <2>3. FlagInv'
        BY DEF SnapInv, FlagInv, OriginalInv
    <2>4. OriginalInv'
        BY DEF SnapInv, FlagInv, OriginalInv
    <2>5. EndsInv'
        BY DEF SnapInv, FlagInv, EndsInv
    <2>6. LoserInv'
        BY DEF SnapInv, FlagInv, OriginalInv, EndsInv, LoserInv
    <2> QED
        BY <2>1, <2>2, <2>3, <2>4, <2>5, <2>6 DEF IInv
<1>17. CASE SyncDefer
    <2> USE <1>0, <1>17 DEF SyncDefer, TypeOK
    <2>1. TypeOK'
        BY DEF Snap
    <2>2. SnapInv'
        BY DEF SnapInv, FlagInv, Snap
    <2>3. FlagInv'
        BY DEF SnapInv, FlagInv, OriginalInv
    <2>4. OriginalInv'
        BY DEF SnapInv, FlagInv, OriginalInv
    <2>5. EndsInv'
        BY DEF SnapInv, FlagInv, EndsInv
    <2>6. LoserInv'
        BY DEF SnapInv, FlagInv, OriginalInv, EndsInv, LoserInv
    <2> QED
        BY <2>1, <2>2, <2>3, <2>4, <2>5, <2>6 DEF IInv
<1>18. CASE UNCHANGED vars
    BY <1>0, <1>18 DEF vars, IInv, TypeOK, SnapInv, FlagInv, OriginalInv, EndsInv,
       LoserInv
<1> QED
    BY <1>1, <1>2, <1>3, <1>4, <1>5, <1>6, <1>7, <1>8, <1>9, <1>10, <1>11,
       <1>12, <1>13, <1>14, <1>15, <1>16, <1>17, <1>18
       DEF Next, Start, Closing

\* The inductive invariant of the tunnel's copy loops.
THEOREM Invariance == Spec => []IInv
BY InitIInv, NextIInv, PTL DEF Spec

\* However the copies end, IOSync's state keeps its types.
THEOREM TypeCorrect == Spec => []TypeOK
<1>1. IInv => TypeOK
    BY DEF IInv
<1> QED
    BY Invariance, <1>1, PTL

\* The originals are closed by one goroutine, in order, each found open.
THEOREM SingleWinner == Spec => []OneWinner
<1>1. IInv => OneWinner
    BY NAssumption DEF IInv, TypeOK, OriginalInv, OneWinner, G, Loop
<1> QED
    BY Invariance, <1>1, PTL

\* A goroutine that is done, or stuck for ever, left the connections closed.
THEOREM NothingLeftOpen == Spec => []LeftClosed
<1>1. IInv => LeftClosed
    BY DEF IInv, EndsInv, LeftClosed
<1> QED
    BY Invariance, <1>1, PTL

\* With two copiers nobody waits for the mutex that is never given back.
THEOREM LeakIsHarmless == Spec => []LeakedMutexUnwanted
<1>1. IInv => LeakedMutexUnwanted
    BY DEF IInv, FlagInv, LoserInv, LeakedMutexUnwanted
<1> QED
    BY Invariance, <1>1, PTL
=============================================================================
