------------------------------- MODULE Connect -------------------------------
(***************************************************************************)
(* The connect command (src/cmd/connect.go): websocket calls of a service  *)
(* of an access point, from the process's own input and output, from an    *)
(* embedded ssh client, or from every connection of a local listener.      *)
(*                                                                         *)
(* Each call has two copy goroutines.  The one from the websocket closes   *)
(* done before it closes anything else, and the process ends on it: what   *)
(* other goroutines had still to do, the ssh client's terminal.Restore     *)
(* among it, may not be done.  A refused call of the listener is closed    *)
(* through a nil closer, which ends the process with all other calls.      *)
(***************************************************************************)
EXTENDS Naturals, FiniteSets

CONSTANTS
    Calls,      \* calls; without a listener there is one
    First,      \* the call of the process itself
    Arguments   \* the command lines that are tried

ASSUME FirstAssumption == First \in Calls

VARIABLES
    args,       \* the command line
    process,    \* "parse", "run", or how it ended
    mode,       \* what is connected: "none", "stdio", "ssh", "listener"
    target,     \* host and port of the server
    call,       \* place of the goroutine that made each call
    ws,         \* the websocket of each call
    near,       \* the local end of each call
    copyOut,    \* copy from the local end to the websocket
    copyIn,     \* copy from the websocket to the local end
    done,       \* calls whose done channel is closed
    shell,      \* place of the ssh client's goroutine
    raw,        \* the terminal is in raw mode
    cut         \* calls whose websocket the far end closed

callVars == <<call, ws, near, copyOut, copyIn, done, cut>>
shellVars == <<shell, raw>>
vars == <<args, process, mode, target, callVars, shellVars>>

Running == process = "run"
Ended == {"exit", "refused", "fatal", "panic"}

TypeOK ==
    /\ args \in Arguments
    /\ process \in {"parse", "run"} \cup Ended
    /\ mode \in {"none", "stdio", "ssh", "listener"}
    /\ call \in [Calls -> {"none", "dial", "wait", "close", "over"}]
    /\ ws \in [Calls -> {"none", "open", "closed"}]
    /\ near \in [Calls -> {"none", "open", "ended", "closed"}]
    /\ copyOut \in [Calls -> {"none", "copy", "closeNear", "closeWs", "over"}]
    /\ copyIn \in [Calls -> {"none", "copy", "done", "closeNear", "closeWs", "over"}]
    /\ done \subseteq Calls /\ cut \subseteq Calls
    /\ shell \in {"none", "handshake", "session", "restore", "closeNear", "closeWs", "over"}
    /\ raw \in BOOLEAN

-----------------------------------------------------------------------------
(* The command line: an argument SERVICE@AP, and flags.                    *)

\* The token flag, or else what the token file holds.
Token(a) ==
    IF a.token # "blank" \/ a.tokenFile = "none" THEN a.token ELSE a.tokenFile

Accepted(a) ==
    /\ a.pair                                    \* SERVICE@AP, neither blank
    /\ Token(a) \notin {"blank", "unread"}
    /\ a.https => a.certificate

Port(a) == IF a.port # 0 THEN a.port ELSE IF a.https THEN 2443 ELSE 2080
Host(a) == IF a.host = "" THEN "localhost" ELSE a.host
Mode(a) ==
    IF a.addr \notin {"", "-"} THEN "listener"
    ELSE IF a.service = "ssh" THEN "ssh" ELSE "stdio"

Init ==
    /\ args \in Arguments
    /\ process = "parse" /\ mode = "none" /\ target = <<"", 0>>
    /\ call = [c \in Calls |-> "none"] /\ ws = [c \in Calls |-> "none"]
    /\ near = [c \in Calls |-> "none"]
    /\ copyOut = [c \in Calls |-> "none"] /\ copyIn = [c \in Calls |-> "none"]
    /\ done = {} /\ cut = {} /\ shell = "none" /\ raw = FALSE

\* A listener that cannot be made ends the command as a bad argument does.
Parse ==
    /\ process = "parse"
    /\ \/ /\ Accepted(args)
          /\ mode' = Mode(args) /\ target' = <<Host(args), Port(args)>>
          /\ process' = "run"
          /\ call' = IF mode' = "listener" THEN call
                     ELSE [call EXCEPT ![First] = "dial"]
          /\ near' = IF mode' = "listener" THEN near
                     ELSE [near EXCEPT ![First] = "open"]
       \/ /\ ~Accepted(args) \/ Mode(args) = "listener"
          /\ process' = "refused"
          /\ UNCHANGED <<mode, target, call, near>>
    /\ UNCHANGED <<args, ws, copyOut, copyIn, done, cut, shellVars>>

-----------------------------------------------------------------------------
(* Calls.                                                                  *)

CloseNear(c) == near' = [near EXCEPT ![c] = "closed"]
CloseWs(c) == ws' = [ws EXCEPT ![c] = "closed"]

\* Every connection of the listener has a goroutine of its own.
AcceptLocal(c) ==
    /\ Running /\ mode = "listener" /\ call[c] = "none"
    /\ call' = [call EXCEPT ![c] = "dial"]
    /\ near' = [near EXCEPT ![c] = "open"]
    /\ UNCHANGED <<args, process, mode, target, ws, copyOut, copyIn, done, cut,
                   shellVars>>

\* An accept that fails ends the command.
AcceptFails ==
    /\ Running /\ mode = "listener"
    /\ process' = "refused"
    /\ UNCHANGED <<args, mode, target, callVars, shellVars>>

\* connect: the two copies are started; for ssh the client's goroutine, too.  The
\* server may refuse.
DialCall(c) ==
    /\ Running /\ call[c] = "dial"
    /\ \/ /\ ws' = [ws EXCEPT ![c] = "open"]
          /\ copyOut' = [copyOut EXCEPT ![c] = "copy"]
          /\ copyIn' = [copyIn EXCEPT ![c] = "copy"]
          /\ call' = [call EXCEPT ![c] = "wait"]
          /\ shell' = IF mode = "ssh" THEN "handshake" ELSE shell
          /\ UNCHANGED process
       \/ /\ process' = IF mode = "listener" THEN "panic" ELSE "refused"
          /\ UNCHANGED <<call, ws, copyOut, copyIn, shell>>
    /\ UNCHANGED <<args, mode, target, near, done, cut, raw>>

\* The goroutine that made the call waits for done; the websocket is closed, and
\* without a listener the process ends.
CallDone(c) ==
    /\ Running /\ call[c] = "wait" /\ c \in done
    /\ call' = [call EXCEPT ![c] = "close"]
    /\ UNCHANGED <<args, process, mode, target, ws, near, copyOut, copyIn, done,
                   cut, shellVars>>

CallEnds(c) ==
    /\ Running /\ call[c] = "close"
    /\ CloseWs(c)
    /\ call' = [call EXCEPT ![c] = "over"]
    /\ process' = IF mode = "listener" THEN process ELSE "exit"
    /\ UNCHANGED <<args, mode, target, near, copyOut, copyIn, done, cut, shellVars>>

\* The far end closes the websocket, or the local one hangs up: the peer of an
\* accepted connection, or the end of the process's input.
FarEnds(c) ==
    /\ Running /\ ws[c] = "open"
    /\ ws' = [ws EXCEPT ![c] = "closed"]
    /\ cut' = cut \cup {c}
    /\ UNCHANGED <<args, process, mode, target, call, near, copyOut, copyIn, done,
                   shellVars>>

NearEnds(c) ==
    /\ Running /\ mode # "ssh" /\ near[c] = "open" /\ copyOut[c] = "copy"
    /\ near' = [near EXCEPT ![c] = "ended"]
    /\ UNCHANGED <<args, process, mode, target, call, ws, copyOut, copyIn, done,
                   cut, shellVars>>

\* A read of the local end returns.  A process's input that is closed while it is
\* read does not.
ReadReturns(c) == near[c] = "ended" \/ (near[c] = "closed" /\ mode # "stdio")

\* A closed end also ends the copies that have something to write to it.
CopyOutEnds(c) ==
    /\ Running /\ copyOut[c] = "copy"
    /\ ReadReturns(c) \/ near[c] = "closed" \/ ws[c] = "closed"
    /\ copyOut' = [copyOut EXCEPT ![c] = "closeNear"]
    /\ UNCHANGED <<args, process, mode, target, call, ws, near, copyIn, done, cut,
                   shellVars>>

\* Mutant of CopyOutCloses: the websocket is left to the other copy.
CopyOutClosesNear(c) ==
    /\ Running /\ copyOut[c] = "closeNear"
    /\ CloseNear(c)
    /\ copyOut' = [copyOut EXCEPT ![c] = "over"]
    /\ UNCHANGED <<args, process, mode, target, call, ws, copyIn, done, cut,
                   shellVars>>

\* Deferred: the local end, then the websocket.
CopyOutCloses(c) ==
    /\ Running
    /\ \/ /\ copyOut[c] = "closeNear"
          /\ CloseNear(c)
          /\ copyOut' = [copyOut EXCEPT ![c] = "closeWs"]
          /\ UNCHANGED ws
       \/ /\ copyOut[c] = "closeWs"
          /\ CloseWs(c)
          /\ copyOut' = [copyOut EXCEPT ![c] = "over"]
          /\ UNCHANGED near
    /\ UNCHANGED <<args, process, mode, target, call, copyIn, done, cut, shellVars>>

CopyInEnds(c) ==
    /\ Running /\ copyIn[c] = "copy"
    /\ ws[c] = "closed" \/ near[c] # "open"
    /\ copyIn' = [copyIn EXCEPT ![c] = "done"]
    /\ UNCHANGED <<args, process, mode, target, call, ws, near, copyOut, done, cut,
                   shellVars>>

\* Deferred: done first, then the local end, then the websocket.
CopyInCloses(c) ==
    /\ Running
    /\ \/ /\ copyIn[c] = "done"
          /\ done' = done \cup {c}
          /\ copyIn' = [copyIn EXCEPT ![c] = "closeNear"]
          /\ UNCHANGED <<near, ws>>
       \/ /\ copyIn[c] = "closeNear"
          /\ CloseNear(c)
          /\ copyIn' = [copyIn EXCEPT ![c] = "closeWs"]
          /\ UNCHANGED <<done, ws>>
       \/ /\ copyIn[c] = "closeWs"
          /\ CloseWs(c)
          /\ copyIn' = [copyIn EXCEPT ![c] = "over"]
          /\ UNCHANGED <<done, near>>
    /\ UNCHANGED <<args, process, mode, target, call, copyOut, cut, shellVars>>

-----------------------------------------------------------------------------
(* The embedded ssh client, over two pipes that are the call's local end.  *)

\* A handshake that fails ends the process (log.Fatal); a session that cannot be
\* opened ends the goroutine.
Handshake ==
    /\ Running /\ shell = "handshake"
    /\ \/ /\ near[First] = "open" /\ shell' = "session" /\ raw' = TRUE
          /\ UNCHANGED process
       \/ /\ shell' = "closeNear" /\ UNCHANGED <<process, raw>>
       \/ /\ process' = "fatal" /\ UNCHANGED shellVars
    /\ UNCHANGED <<args, mode, target, callVars>>

\* The shell ends, or the pipes did.
SessionEnds ==
    /\ Running /\ shell = "session"
    /\ shell' = "restore"
    /\ UNCHANGED <<args, process, mode, target, callVars, raw>>

\* Mutant of Restore: the pipes are closed before the terminal is restored.
RestoreLate ==
    /\ Running
    /\ \/ /\ shell = "restore" /\ shell' = "closeNear"
          /\ CloseNear(First)
          /\ UNCHANGED <<raw, ws>>
       \/ /\ shell = "closeNear" /\ shell' = "closeWs"
          /\ raw' = FALSE
          /\ UNCHANGED <<near, ws>>
       \/ /\ shell = "closeWs" /\ shell' = "over"
          /\ CloseWs(First)
          /\ UNCHANGED <<raw, near>>
    /\ UNCHANGED <<args, process, mode, target, call, copyOut, copyIn, done, cut>>

\* Deferred: the terminal first, then the pipes and the websocket.
Restore ==
    /\ Running
    /\ \/ /\ shell = "restore" /\ shell' = "closeNear"
          /\ raw' = FALSE
          /\ UNCHANGED <<near, ws>>
       \/ /\ shell = "closeNear" /\ shell' = "closeWs"
          /\ CloseNear(First)
          /\ UNCHANGED <<raw, ws>>
       \/ /\ shell = "closeWs" /\ shell' = "over"
          /\ CloseWs(First)
          /\ UNCHANGED <<raw, near>>
    /\ UNCHANGED <<args, process, mode, target, call, copyOut, copyIn, done, cut>>

-----------------------------------------------------------------------------
CopyOut(c) == CopyOutEnds(c) \/ CopyOutCloses(c)
CopyIn(c) == CopyInEnds(c) \/ CopyInCloses(c)
Caller(c) == DialCall(c) \/ CallDone(c) \/ CallEnds(c)
Shell == Handshake \/ SessionEnds \/ Restore

Next ==
    \/ Parse \/ AcceptFails \/ Shell
    \/ \E c \in Calls :
          \/ AcceptLocal(c) \/ Caller(c) \/ FarEnds(c) \/ NearEnds(c)
          \/ CopyOut(c) \/ CopyIn(c)

\* Runnable goroutines run.  Nobody has to hang up, and a copy that reads an open
\* end need not get anything that it could write to a closed one.
Fairness ==
    /\ WF_vars(Handshake \/ Restore) /\ WF_vars(near[First] # "open" /\ SessionEnds)
    /\ \A c \in Calls :
          /\ WF_vars(Caller(c))
          /\ WF_vars(CopyOutCloses(c)) /\ WF_vars(ReadReturns(c) /\ CopyOutEnds(c))
          /\ WF_vars(CopyInCloses(c)) /\ WF_vars(ws[c] = "closed" /\ CopyInEnds(c))

Spec == Init /\ [][Next]_vars /\ Fairness

-----------------------------------------------------------------------------
(* Properties.                                                             *)

\* Whichever end hangs up first, a call ends whole (connect.go:73, 79): both copies
\* and the goroutine that made it, or the process does.
CallEndsWhole ==
    \A c \in Calls :
        call[c] = "wait" /\ (ws[c] = "closed" \/ near[c] # "open")
        ~> \/ call[c] = "over" /\ copyOut[c] = "over" /\ copyIn[c] = "over"
           \/ ~Running

\* The process ends on done (connect.go:239), which is closed before anything else
\* (connect.go:82): it leaves the terminal raw (connect.go:214) only when the far
\* end cut the websocket, never when the session ended by itself.
RawOnlyIfCut == process = "exit" /\ raw => First \in cut
=============================================================================
