------------------------------- MODULE IOSync -------------------------------
(***************************************************************************)
(* common.IOSync and common.Copier (src/common/io.go): the copy loops of   *)
(* one tunnel, which must all end when any of them does.  Goroutine 0 is   *)
(* the caller of Sync; it starts the others and then copies itself.        *)
(*                                                                         *)
(* Copy has a value receiver: every goroutine works on a private copy of   *)
(* its Copier, mutex included, which goroutine 0 takes when it starts that *)
(* goroutine.  Those already started may be closing the originals then, so *)
(* the flag and the mutex may be read at two different moments.            *)
(***************************************************************************)
EXTENDS Naturals

CONSTANT N      \* number of copiers: 2 wherever the program uses an IOSync

ASSUME NAssumption == N \in Nat \ {0}

G == 0..(N - 1)                \* the goroutines, and the copiers they run
Free == N                      \* s.mu has no holder

VARIABLES
    pc,          \* each goroutine's place
    turn,        \* whose copy is taken next: 1, ..., N - 1, and N for 0
    snapClosed,  \* closed in each private copy, or "unread"
    snapLocked,  \* mu in each private copy, or "unread"
    sclosed,     \* s.closed
    smu,         \* holder of s.mu; one that returned holds it for ever
    closed,      \* closed, of each original copier
    locked,      \* mu, of each original copier
    next,        \* the copier that the winner of s.close closes next
    deferred,    \* whether Sync runs its own s.close
    ends         \* state of the two connections, which all copiers share

snapVars == <<turn, snapClosed, snapLocked>>
syncVars == <<sclosed, smu>>
origVars == <<closed, locked, next>>
vars == <<pc, snapVars, syncVars, origVars, deferred, ends>>

Loop == {"loop", "mark", "unlock", "closers"}
Places == {"start", "copy", "close", "stuck", "check", "lock", "recheck",
           "returned"} \cup Loop
Snap == {"unread", "yes", "no"}

Init ==
    /\ pc = [g \in G |-> "start"]
    /\ turn = 1
    /\ snapClosed = [g \in G |-> "unread"]
    /\ snapLocked = [g \in G |-> "unread"]
    /\ sclosed = FALSE
    /\ smu = Free
    /\ closed = [i \in G |-> FALSE]
    /\ locked = [i \in G |-> FALSE]
    /\ next = 0
    /\ deferred = FALSE
    /\ ends = "open"

Goto(g, place) == pc' = [pc EXCEPT ![g] = place]
YesNo(b) == IF b THEN "yes" ELSE "no"

-----------------------------------------------------------------------------
(* Sync: goroutine 0 copies each Copier and starts its goroutine, the      *)
(* first one last.  The fields are read in either order.                   *)

Turn(g) == turn <= N /\ g = (IF turn < N THEN turn ELSE 0)

ReadClosed(g) ==
    /\ Turn(g)
    /\ snapClosed[g] = "unread"
    /\ snapClosed' = [snapClosed EXCEPT ![g] = YesNo(closed[g])]
    /\ UNCHANGED <<pc, turn, snapLocked, syncVars, origVars, deferred, ends>>

ReadLocked(g) ==
    /\ Turn(g)
    /\ snapLocked[g] = "unread"
    /\ snapLocked' = [snapLocked EXCEPT ![g] = YesNo(locked[g])]
    /\ UNCHANGED <<pc, turn, snapClosed, syncVars, origVars, deferred, ends>>

Launch(g) ==
    /\ Turn(g)
    /\ "unread" \notin {snapClosed[g], snapLocked[g]}
    /\ turn' = turn + 1
    /\ Goto(g, "copy")
    /\ UNCHANGED <<snapClosed, snapLocked, syncVars, origVars, deferred, ends>>

Start(g) == ReadClosed(g) \/ ReadLocked(g) \/ Launch(g)

\* io.Copy returns: a peer hung up, or the connections were closed.
CopyReturns(g) ==
    /\ pc[g] = "copy"
    /\ Goto(g, "close")
    /\ UNCHANGED <<snapVars, syncVars, origVars, deferred, ends>>

-----------------------------------------------------------------------------
(* Close on the private copy.                                              *)

\* The copy was taken of a closed Copier: nothing to do.
PrivateSkip(g) ==
    /\ pc[g] = "close"
    /\ snapClosed[g] = "yes"
    /\ Goto(g, "returned")
    /\ UNCHANGED <<snapVars, syncVars, origVars, deferred, ends>>

\* It was taken of a locked Copier: nobody will ever unlock the copy.
PrivateStuck(g) ==
    /\ pc[g] = "close"
    /\ snapClosed[g] = "no"
    /\ snapLocked[g] = "yes"
    /\ Goto(g, "stuck")
    /\ UNCHANGED <<snapVars, syncVars, origVars, deferred, ends>>

\* Mutant of PrivateClose: s.close runs before the connections are closed.
PrivateCloseLate(g) ==
    /\ pc[g] = "close"
    /\ snapClosed[g] = "no"
    /\ snapLocked[g] = "no"
    /\ Goto(g, "check")
    /\ UNCHANGED <<snapVars, syncVars, origVars, deferred, ends>>

\* The closers: both connections, then s.close.
PrivateClose(g) ==
    /\ pc[g] = "close"
    /\ snapClosed[g] = "no"
    /\ snapLocked[g] = "no"
    /\ ends' = "closed"
    /\ Goto(g, "check")
    /\ UNCHANGED <<snapVars, syncVars, origVars, deferred>>

-----------------------------------------------------------------------------
(* s.close: test, lock, test again, set, and close every original.         *)

Check(g) ==
    /\ pc[g] = "check"
    /\ Goto(g, IF sclosed THEN "returned" ELSE "lock")
    /\ UNCHANGED <<snapVars, syncVars, origVars, deferred, ends>>

Lock(g) ==
    /\ pc[g] = "lock"
    /\ smu = Free
    /\ smu' = g
    /\ Goto(g, "recheck")
    /\ UNCHANGED <<snapVars, sclosed, origVars, deferred, ends>>

\* Somebody else closed meanwhile: the code returns without unlocking s.mu.
RecheckLoses(g) ==
    /\ pc[g] = "recheck"
    /\ sclosed
    /\ Goto(g, "returned")
    /\ UNCHANGED <<snapVars, syncVars, origVars, deferred, ends>>

\* Mutants of RecheckWins: no second test, and no unlock.
RecheckUntested(g) ==
    /\ pc[g] = "recheck"
    /\ sclosed' = TRUE
    /\ smu' = Free
    /\ Goto(g, "loop")
    /\ UNCHANGED <<snapVars, origVars, deferred, ends>>

RecheckKeepsLock(g) ==
    /\ pc[g] = "recheck"
    /\ ~sclosed
    /\ sclosed' = TRUE
    /\ Goto(g, "loop")
    /\ UNCHANGED <<snapVars, smu, origVars, deferred, ends>>

RecheckWins(g) ==
    /\ pc[g] = "recheck"
    /\ ~sclosed
    /\ sclosed' = TRUE
    /\ smu' = Free
    /\ Goto(g, "loop")
    /\ UNCHANGED <<snapVars, origVars, deferred, ends>>

\* c.Close() on the next original: lock, closed = true, unlock ...
OriginalLock(g) ==
    /\ pc[g] = "loop"
    /\ next < N
    /\ ~closed[next] /\ ~locked[next]
    /\ locked' = [locked EXCEPT ![next] = TRUE]
    /\ Goto(g, "mark")
    /\ UNCHANGED <<snapVars, syncVars, closed, next, deferred, ends>>

OriginalMark(g) ==
    /\ pc[g] = "mark"
    /\ closed' = [closed EXCEPT ![next] = TRUE]
    /\ Goto(g, "unlock")
    /\ UNCHANGED <<snapVars, syncVars, locked, next, deferred, ends>>

OriginalUnlock(g) ==
    /\ pc[g] = "unlock"
    /\ locked' = [locked EXCEPT ![next] = FALSE]
    /\ Goto(g, "closers")
    /\ UNCHANGED <<snapVars, syncVars, closed, next, deferred, ends>>

\* Mutant of OriginalClosers: the loop closes the first copier again.
OriginalClosersStay(g) ==
    /\ pc[g] = "closers"
    /\ ends' = "closed"
    /\ Goto(g, "loop")
    /\ UNCHANGED <<snapVars, syncVars, origVars, deferred>>

\* ... and its closers; the nested s.close sees its own flag and returns.
OriginalClosers(g) ==
    /\ pc[g] = "closers"
    /\ ends' = "closed"
    /\ next' = next + 1
    /\ Goto(g, "loop")
    /\ UNCHANGED <<snapVars, syncVars, closed, locked, deferred>>

LoopEnds(g) ==
    /\ pc[g] = "loop"
    /\ next = N
    /\ Goto(g, "returned")
    /\ UNCHANGED <<snapVars, syncVars, origVars, deferred, ends>>

\* Sync's own deferred s.close, after its Copy.
SyncDefer ==
    /\ pc[0] = "returned"
    /\ ~deferred
    /\ deferred' = TRUE
    /\ Goto(0, "check")
    /\ UNCHANGED <<snapVars, syncVars, origVars, ends>>

Closing(g) ==
    \/ PrivateSkip(g) \/ PrivateStuck(g) \/ PrivateClose(g)
    \/ Check(g) \/ Lock(g) \/ RecheckLoses(g) \/ RecheckWins(g)
    \/ OriginalLock(g) \/ OriginalMark(g) \/ OriginalUnlock(g)
    \/ OriginalClosers(g) \/ LoopEnds(g)

Next == SyncDefer \/ \E g \in G : Start(g) \/ CopyReturns(g) \/ Closing(g)

\* Goroutines that can run do; io.Copy returns once its connections are
\* closed, and otherwise when a peer chooses to end.
Fairness ==
    /\ WF_vars(SyncDefer)
    /\ \A g \in G :
          /\ WF_vars(Start(g))
          /\ WF_vars(Closing(g))
          /\ WF_vars(ends = "closed" /\ CopyReturns(g))

Spec == Init /\ [][Next]_vars /\ Fairness

-----------------------------------------------------------------------------
TypeOK ==
    /\ pc \in [G -> Places]
    /\ turn \in 1..(N + 1)
    /\ snapClosed \in [G -> Snap]
    /\ snapLocked \in [G -> Snap]
    /\ sclosed \in BOOLEAN
    /\ smu \in G \cup {Free}
    /\ closed \in [G -> BOOLEAN]
    /\ locked \in [G -> BOOLEAN]
    /\ next \in 0..N
    /\ deferred \in BOOLEAN
    /\ ends \in {"open", "closed"}

\* At most one goroutine ever closes the originals, however many copies end at
\* once, and it finds each of them open and unlocked (io.go, IOSync.close).
OneWinner ==
    \A g \in G : pc[g] \in Loop =>
        /\ \A h \in G : pc[h] \in Loop => h = g
        /\ \A i \in G : i > next => ~closed[i]
        /\ pc[g] = "loop" /\ next < N => ~closed[next] /\ ~locked[next]

\* No copy loop is left, and Sync does not return, while the connections are
\* open; even the goroutine that is stuck on its private mutex leaves them
\* closed (Copier.Close's order of closers, Sync's copies of the Copiers).
LeftClosed ==
    \A g \in G : pc[g] \in {"returned", "stuck"} => ends = "closed"

\* With two copiers, the mutex that the loser of s.close never gives back has
\* nobody waiting for it, nor will have: s.closed is set.
LeakedMutexUnwanted ==
    N = 2 =>
        \A g \in G : smu = g /\ pc[g] # "recheck" =>
            sclosed /\ \A h \in G : pc[h] # "lock"

\* When one direction of a tunnel ends, so does the other, and Sync returns,
\* unless its private copy was taken of a locked Copier.
OneEndEndsAll ==
    N = 2 => ((\E g \in G : pc[g] = "close")
                 ~> /\ pc[1] = "returned"
                    /\ pc[0] = "stuck" \/ (pc[0] = "returned" /\ deferred))
=============================================================================
