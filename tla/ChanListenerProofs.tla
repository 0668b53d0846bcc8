------------------------- MODULE ChanListenerProofs -------------------------
(***************************************************************************)
(* The safety invariants of ChanListener, for every number of dialers and  *)
(* of closers.  They are not inductive alone: what makes Close safe is     *)
(* that its second test of src runs under the mutex (LockInv), that the    *)
(* channel can be closed with src still set only while the closer that did *)
(* it holds the mutex (CloseInv), and that the accept loop only stops once *)
(* the channel is closed (AcceptInv).                                      *)
(***************************************************************************)
EXTENDS ChanListener, TLAPS

Holding == {"recheck", "clear", "callbacks", "unlock"}

LockInv == \A c \in Closers : cpc[c] \in Holding <=> mu = c

CloseInv ==
    /\ closes = (IF chan = "open" THEN 0 ELSE 1)
    /\ called <= closes
    /\ src = "nil" => chan = "closed"
    /\ src = "chan" => called = 0
    /\ chan = "closed" /\ src = "chan" => \E c \in Closers : cpc[c] = "clear"
    /\ \A c \in Closers :
          /\ cpc[c] = "clear" => chan = "closed" /\ src = "chan"
          /\ cpc[c] = "callbacks" => src = "nil" /\ called = 0

AcceptInv ==
    /\ apc \in {"ended", "hung"} => chan = "closed"
    /\ apc = "load" => seen = "chan"

IInv ==
    /\ TypeOK
    /\ LockInv
    /\ CloseInv
    /\ AcceptInv
    /\ NoForgottenPipe
    /\ NoSenderAtDeadListener

LEMMA InitIInv == Init => IInv
BY NobodyAssumption
   DEF Init, IInv, TypeOK, LockInv, CloseInv, AcceptInv, NoForgottenPipe,
       NoSenderAtDeadListener, Holding, AcceptStates, DialStates, CloseStates

LEMMA NextIInv == IInv /\ [Next]_vars => IInv'
<1> USE NobodyAssumption
        DEF IInv, TypeOK, LockInv, CloseInv, AcceptInv, NoForgottenPipe,
            NoSenderAtDeadListener, Holding, AcceptStates, DialStates,
            CloseStates, chanVars, acceptVars
<1> SUFFICES ASSUME IInv, [Next]_vars PROVE IInv'
    OBVIOUS
<1>1. CASE AcceptCheck
    BY <1>1 DEF AcceptCheck
<1>2. CASE AcceptLoad
    BY <1>2 DEF AcceptLoad
<1>3. CASE AcceptEOF
    BY <1>3 DEF AcceptEOF
<1>4. CASE AcceptRecheck
    BY <1>4 DEF AcceptRecheck
<1>5. ASSUME NEW d \in Dialers, AcceptRecv(d) PROVE IInv'
    BY <1>5 DEF AcceptRecv
<1>6. ASSUME NEW d \in Dialers, DialLoad(d) PROVE IInv'
    BY <1>6 DEF DialLoad
<1>7. ASSUME NEW d \in Dialers, DialSend(d) PROVE IInv'
    BY <1>7 DEF DialSend
<1>8. ASSUME NEW c \in Closers, CloseCheck(c) PROVE IInv'
    BY <1>8 DEF CloseCheck
<1>9. ASSUME NEW c \in Closers, CloseLock(c) PROVE IInv'
    BY <1>9 DEF CloseLock
<1>10. ASSUME NEW c \in Closers, CloseLate(c) PROVE IInv'
    BY <1>10 DEF CloseLate
<1>11. ASSUME NEW c \in Closers, CloseChan(c) PROVE IInv'
    BY <1>11 DEF CloseChan
<1>12. ASSUME NEW c \in Closers, CloseClear(c) PROVE IInv'
    BY <1>12 DEF CloseClear
<1>13. ASSUME NEW c \in Closers, CloseCallbacks(c) PROVE IInv'
    BY <1>13 DEF CloseCallbacks
<1>14. ASSUME NEW c \in Closers, CloseUnlock(c) PROVE IInv'
    BY <1>14 DEF CloseUnlock
<1>15. CASE UNCHANGED vars
    BY <1>15 DEF vars
<1> QED
    BY <1>1, <1>2, <1>3, <1>4, <1>5, <1>6, <1>7, <1>8, <1>9, <1>10, <1>11,
       <1>12, <1>13, <1>14, <1>15
       DEF Next, Accept, Dial, Close

\* The inductive invariant of the listener.
THEOREM Invariance == Spec => []IInv
BY InitIInv, NextIInv, PTL DEF Spec

\* However the goroutines interleave, ChanListener's state keeps its types.
THEOREM TypeCorrect == Spec => []TypeOK
<1>1. IInv => TypeOK
    BY DEF IInv
<1> QED
    BY Invariance, <1>1, PTL

\* Any number of goroutines may call Close: the channel is closed at most once.
THEOREM CloseIsSafe == Spec => []ClosedOnce
<1>1. IInv => ClosedOnce
    BY DEF IInv, CloseInv, ClosedOnce, TypeOK
<1> QED
    BY Invariance, <1>1, PTL

\* No far end of a pipe that Dial returned is ever forgotten.
THEOREM PipesAreOwned == Spec => []NoForgottenPipe
<1>1. IInv => NoForgottenPipe
    BY DEF IInv
<1> QED
    BY Invariance, <1>1, PTL

\* No sender is blocked on a closed channel or facing an accept loop that
\* has ended.
THEOREM SendersFaceAliveListener == Spec => []NoSenderAtDeadListener
<1>1. IInv => NoSenderAtDeadListener
    BY DEF IInv
<1> QED
    BY Invariance, <1>1, PTL

-----------------------------------------------------------------------------
(* Refinement: the safety part of VirtualListener.                         *)

LEMMA InitRefines == Init => VL!Init
BY DEF Init, VL!Init, AbstractCall, AbstractFar

LEMMA StepRefines == IInv /\ [Next]_vars => [VL!Next]_VL!vars
<1> USE NobodyAssumption
        DEF IInv, TypeOK, CloseInv, AcceptInv, NoForgottenPipe,
            NoSenderAtDeadListener, AcceptStates, DialStates, CloseStates,
            chanVars, acceptVars
<1> SUFFICES ASSUME IInv, [Next]_vars PROVE VL!Next \/ UNCHANGED VL!vars
    OBVIOUS
<1>1. ASSUME dpc' = dpc, rConn' = rConn, chan' = chan PROVE UNCHANGED VL!vars
    BY <1>1 DEF VL!vars, AbstractCall, AbstractFar
<1>2. CASE AcceptCheck \/ AcceptLoad \/ AcceptEOF
    BY <1>2, <1>1 DEF AcceptCheck, AcceptLoad, AcceptEOF
<1>3. CASE AcceptRecheck
    <2>1. acon \in Dialers /\ rConn[acon] = "inhand"
        BY <1>3 DEF AcceptRecheck
    <2>2. CASE src = "nil"
        <3>1. VL!Discard(acon)
            BY <1>3, <2>1, <2>2 DEF AcceptRecheck, VL!Discard, AbstractCall, AbstractFar
        <3> QED BY <3>1, <2>1 DEF VL!Next
    <2>3. CASE src # "nil"
        <3>1. VL!Deliver(acon)
            BY <1>3, <2>1, <2>3 DEF AcceptRecheck, VL!Deliver, AbstractCall, AbstractFar
        <3> QED BY <3>1, <2>1 DEF VL!Next
    <2> QED BY <2>2, <2>3
<1>4. ASSUME NEW d \in Dialers, AcceptRecv(d) PROVE VL!Next
    <2>1. VL!Connect(d)
        BY <1>4 DEF AcceptRecv, VL!Connect, AbstractCall, AbstractFar
    <2> QED BY <2>1 DEF VL!Next
<1>5. ASSUME NEW d \in Dialers, DialLoad(d) PROVE VL!Next \/ UNCHANGED VL!vars
    <2>1. CASE src = "nil"
        <3>1. VL!Miss(d)
            BY <1>5, <2>1 DEF DialLoad, VL!Miss, AbstractCall, AbstractFar
        <3> QED BY <3>1 DEF VL!Next
    <2>2. CASE src # "nil"
        BY <1>5, <2>2 DEF DialLoad, VL!vars, AbstractCall, AbstractFar
    <2> QED BY <2>1, <2>2
<1>6. ASSUME NEW d \in Dialers, DialSend(d) PROVE VL!Next
    <2>1. CASE chan = "closed"
        <3>1. VL!Miss(d)
            BY <1>6, <2>1 DEF DialSend, VL!Miss, AbstractCall, AbstractFar
        <3> QED BY <3>1 DEF VL!Next
    <2>2. CASE chan = "open"
        <3>1. VL!Offer(d)
            BY <1>6, <2>2 DEF DialSend, VL!Offer, AbstractCall, AbstractFar
        <3> QED BY <3>1 DEF VL!Next
    <2> QED BY <2>1, <2>2
<1>7. ASSUME NEW c \in Closers, CloseChan(c) PROVE VL!Next
    <2>1. chan = "open"
        BY <1>7 DEF CloseChan, LockInv, Holding
    <2>2. VL!Close
        BY <1>7, <2>1 DEF CloseChan, VL!Close, AbstractCall, AbstractFar
    <2> QED BY <2>2 DEF VL!Next
<1>8. ASSUME NEW c \in Closers,
             \/ CloseCheck(c) \/ CloseLock(c) \/ CloseLate(c)
             \/ CloseClear(c) \/ CloseCallbacks(c) \/ CloseUnlock(c)
      PROVE  UNCHANGED VL!vars
    BY <1>8, <1>1 DEF CloseCheck, CloseLock, CloseLate, CloseClear,
                      CloseCallbacks, CloseUnlock
<1>9. CASE UNCHANGED vars
    BY <1>9, <1>1 DEF vars
<1> QED
    BY <1>2, <1>3, <1>4, <1>5, <1>6, <1>7, <1>8, <1>9
       DEF Next, Accept, Dial, Close

\* Every step of the listener is a step of VirtualListener or a stutter.
THEOREM RefinesVirtualListener == Spec => VL!Init /\ [][VL!Next]_VL!vars
<1>1. Spec => []IInv /\ Init /\ [][Next]_vars
    BY Invariance, PTL DEF Spec
<1> QED
    BY <1>1, InitRefines, StepRefines, PTL
=============================================================================
