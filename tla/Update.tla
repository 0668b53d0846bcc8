-------------------------------- MODULE Update --------------------------------
(***************************************************************************)
(* One fetch of an update (src/updater, src/server/updater, the session    *)
(* handler of src/server/sshserver.go, the messages of                     *)
(* src/common/upgrade.go).                                                 *)
(*                                                                         *)
(* Fetcher.Fetch opens a session of the server, writes its version to it   *)
(* and reads an answer.  Without an updater the server answers itself;     *)
(* with one it connects the session to a program or to a socket by two     *)
(* copiers (UpdaterClient.Sync), each of which closes the session when it  *)
(* ends.  The client's input ends right after the version, so that the     *)
(* copier towards the updater races with the one that brings the answer;   *)
(* and Cmd.Wait closes the program's output whether it was read or not.    *)
(*                                                                         *)
(* The answer is a sequence of digits: a boolean is one digit, a number is *)
(* written with a fixed count of digits and cut to it.                     *)
(***************************************************************************)
EXTENDS Naturals, Sequences, SequencesExt

CONSTANTS
    Base,        \* number of values of a byte
    LenWidth,    \* bytes of a uint16
    SizeWidth,   \* bytes of an int64
    MaxAlloc,    \* longest slice that make allocates
    Urls,        \* URLs of updates, each a sequence of bytes
    Streams,     \* updates sent in the session
    Texts        \* messages of refusals

ASSUME BaseAssumption == Base \in Nat /\ Base >= 2
ASSUME WidthAssumption ==
    /\ LenWidth \in Nat \ {0} /\ SizeWidth \in Nat
    /\ LenWidth < SizeWidth

\* Base to the power of n.
Power[n \in Nat] == IF n = 0 THEN 1 ELSE Base * Power[n - 1]

ASSUME MessageAssumption ==
    Urls \cup Streams \cup Texts \subseteq Seq(0..(Base - 1))

\* A stream's size is an int64.
ASSUME StreamAssumption == \A s \in Streams : Len(s) < Power[SizeWidth]

\* A message begins with a character, and no slice is as long as the number that
\* the first bytes of a message make when they are read as the end of a size.
ASSUME TextAssumption == \A t \in Texts : t # <<>> => t[1] # 0
ASSUME AllocAssumption ==
    MaxAlloc \in Nat /\ MaxAlloc < Power[SizeWidth - LenWidth - 1]

VARIABLES
    updater,     \* srv.Updater
    client,      \* place of Fetch
    connection,  \* the client's ssh connection: "none", "open" or "closed"
    session,     \* the session: "none", "open" or "closed"
    handler,     \* place of the session handler
    program,     \* the updater program, or the peer of the socket
    output,      \* where the handler reads it from: "open" or "closed"
    toClient,    \* copier session <- program
    toProgram,   \* Sync and its copier program <- session
    refusing,    \* the answer is ErrorF's, of the server or of the program
    answer,      \* all that will be written to the session, if it stays open
    written,     \* bytes of answer the program wrote
    delivered,   \* bytes of answer written to the session
    taken,       \* bytes of answer the client took
    wanted       \* bytes the client waits for after the header

clientVars == <<client, connection, taken, wanted>>
syncVars == <<toClient, toProgram>>
programVars == <<program, written>>
vars == <<updater, clientVars, session, handler, programVars, output, syncVars,
          refusing, answer, delivered>>

Results == {"unchanged", "url", "binary", "refused", "failed", "panic"}

TypeOK ==
    /\ updater \in {"none", "command", "net"}
    /\ client \in {"start", "header", "readUrl", "readText", "readStream"} \cup Results
    /\ connection \in {"none", "open", "closed"}
    /\ session \in {"none", "open", "closed"}
    /\ handler \in {"none", "version", "execute", "wait", "over"}
    /\ program \in {"none", "running", "over"}
    /\ output \in {"open", "closed"}
    /\ toClient \in {"none", "copy", "over"}
    /\ toProgram \in {"none", "start", "print", "copy", "over"}
    /\ refusing \in BOOLEAN
    /\ answer \in Seq(0..(Base - 1))
    /\ written \in Nat /\ delivered \in Nat /\ taken \in Nat /\ wanted \in Nat

-----------------------------------------------------------------------------
(* The messages.                                                           *)

Digits(n, width) == [i \in 1..width |-> (n \div Power[width - i]) % Base]
Number(digits) ==
    LET value[i \in 0..Len(digits)] ==
            IF i = 0 THEN 0 ELSE value[i - 1] * Base + digits[i]
    IN  value[Len(digits)]

\* Flags, then bytes after their number.
Message(flags, width, bytes) == flags \o Digits(Len(bytes), width) \o bytes

\* UpgradePayload.Write.
WriteUnchanged == <<1, 0>>
WriteUrl(url) == Message(<<1, 1, 0>>, LenWidth, url)
WriteStream(bytes) == Message(<<1, 1, 1>>, SizeWidth, bytes)

\* Mutant of ErrorF: the message is announced as an answer.
ErrorFOk(text) == Message(<<1>>, LenWidth, text)

\* The length of the message is written in LenWidth bytes ...
ErrorF(text) == Message(<<0>>, LenWidth, text)

\* ... and read in SizeWidth bytes.  A program of its own may write it so.
RefusalAsRead(text) == Message(<<0>>, SizeWidth, text)

ProgramAnswers ==
    {WriteUnchanged} \cup {WriteUrl(u) : u \in Urls}
    \cup {WriteStream(s) : s \in Streams} \cup {RefusalAsRead(t) : t \in Texts}
ProgramRefusals == {ErrorF(t) : t \in Texts}

\* The header that UpgradePayload.Read reads: flags, and a number where one
\* follows.  Flags is the number of flags of a message that begins with bs.
Flags(bs) == IF bs[1] = 0 THEN 1 ELSE IF bs[2] = 0 THEN 2 ELSE 3
NumberWidth(bs) ==
    CASE Flags(bs) = 1 -> SizeWidth
      [] Flags(bs) = 2 -> 0
      [] Flags(bs) = 3 -> IF bs[3] = 0 THEN LenWidth ELSE SizeWidth
HeaderLen(bs) == Flags(bs) + NumberWidth(bs)
\* All flags of the message are in bs, and its number.
HasHeader(bs) ==
    /\ Len(bs) >= 1
    /\ bs[1] # 0 => Len(bs) >= 2 /\ (bs[2] # 0 => Len(bs) >= 3)
    /\ Len(bs) >= HeaderLen(bs)
HeaderNumber(bs) == Number(SubSeq(bs, Flags(bs) + 1, HeaderLen(bs)))

\* What the client can read, and what is left of it.
Received == SubSeq(answer, 1, delivered)
Available == delivered - taken

-----------------------------------------------------------------------------
Init ==
    /\ updater \in {"none", "command", "net"}
    /\ client = "start" /\ connection = "none" /\ session = "none"
    /\ handler = "none" /\ program = "none" /\ output = "open"
    /\ toClient = "none" /\ toProgram = "none"
    /\ refusing = FALSE /\ answer = <<>>
    /\ written = 0 /\ delivered = 0 /\ taken = 0 /\ wanted = 0

\* The session's writes fail from now on, and the client's reads end.
CloseSession == session' = "closed"

(* The client.                                                             *)

\* Version, dial, session and start; the version follows as the input of the
\* session.  A failure after the dial closes the connection.
Start ==
    /\ client = "start"
    /\ \/ /\ client' = "header" /\ connection' = "open"
          /\ session' = "open" /\ handler' = "version"
       \/ /\ client' = "failed"
          /\ connection' \in {"none", "closed"}
          /\ UNCHANGED <<session, handler>>
    /\ UNCHANGED <<updater, programVars, output, syncVars, refusing, answer,
                   delivered, taken, wanted>>

\* The end of Fetch; the connection is closed by a failure, and by the reader of
\* a stream.
FetchEnds(result) ==
    /\ client' = result
    /\ connection' = IF result \in {"unchanged", "url"} THEN connection ELSE "closed"
    /\ session' = IF result \in {"unchanged", "url"} THEN session ELSE "closed"

\* The flags and the number.  A message longer than a slice can be, or of a
\* negative length, panics.
ReadHeader ==
    /\ client = "header" /\ HasHeader(Received)
    /\ taken' = HeaderLen(Received) /\ wanted' = HeaderNumber(Received)
    /\ CASE Flags(Received) = 2 -> FetchEnds("unchanged")
         [] Flags(Received) = 1 /\ wanted' = 0 -> FetchEnds("refused")
         [] Flags(Received) = 1 /\ wanted' > MaxAlloc -> FetchEnds("panic")
         [] OTHER ->
              /\ client' = IF Flags(Received) = 1 THEN "readText"
                           ELSE IF Received[3] = 0 THEN "readUrl" ELSE "readStream"
              /\ UNCHANGED <<connection, session>>
    /\ UNCHANGED <<updater, handler, programVars, output, syncVars, refusing,
                   answer, delivered>>

\* Mutant of ReadUrl: a short read is taken for the URL.
ReadUrlShort ==
    /\ client = "readUrl"
    /\ wanted = 0 \/ Available > 0
    /\ taken' = taken + (IF Available < wanted THEN Available ELSE wanted)
    /\ FetchEnds(IF wanted = 0 THEN "unchanged" ELSE "url")
    /\ UNCHANGED <<updater, handler, programVars, output, syncVars, refusing,
                   answer, delivered, wanted>>

\* One Read of the URL takes what is there; a blank URL is no update.
ReadUrl ==
    /\ client = "readUrl"
    /\ wanted = 0 \/ Available > 0
    /\ taken' = taken + (IF Available < wanted THEN Available ELSE wanted)
    /\ FetchEnds(CASE wanted = 0 -> "unchanged"
                   [] taken' = taken + wanted -> "url"
                   [] OTHER -> "failed")
    /\ UNCHANGED <<updater, handler, programVars, output, syncVars, refusing,
                   answer, delivered, wanted>>

\* One Read of the message; what it does not fill stays zero.
ReadText ==
    /\ client = "readText" /\ Available > 0
    /\ taken' = taken + (IF Available < wanted THEN Available ELSE wanted)
    /\ FetchEnds("refused")
    /\ UNCHANGED <<updater, handler, programVars, output, syncVars, refusing,
                   answer, delivered, wanted>>

\* The stream is read to its size or to the end of the session, which the limited
\* reader does not tell apart.
ReadStream ==
    /\ client = "readStream"
    /\ Available >= wanted \/ session = "closed"
    /\ taken' = taken + (IF Available < wanted THEN Available ELSE wanted)
    /\ FetchEnds("binary")
    /\ UNCHANGED <<updater, handler, programVars, output, syncVars, refusing,
                   answer, delivered, wanted>>

\* The session ended in the middle of a field.
ReadEnds ==
    /\ session = "closed"
    /\ \/ client = "header" /\ ~HasHeader(Received)
       \/ client = "readUrl" /\ wanted > 0 /\ Available = 0
       \/ client = "readText" /\ Available = 0
    /\ FetchEnds("failed")
    /\ UNCHANGED <<updater, handler, programVars, output, syncVars, refusing,
                   answer, delivered, taken, wanted>>

-----------------------------------------------------------------------------
(* The server.                                                             *)

\* The handler writes a whole answer and returns, which closes the session.
Answer(bytes, isRefusal) ==
    /\ answer' = bytes /\ refusing' = isRefusal
    /\ delivered' = IF session = "open" THEN Len(bytes) ELSE 0
    /\ handler' = "over" /\ CloseSession

\* Without an updater nothing changed.  Otherwise the version is read: the two
\* ends disagree on its format, and what is read is passed on.
Version ==
    /\ handler = "version"
    /\ IF updater = "none"
       THEN Answer(WriteUnchanged, FALSE)
       ELSE \/ \E t \in Texts : Answer(ErrorF(t), TRUE)
            \/ /\ handler' = "execute"
               /\ UNCHANGED <<session, refusing, answer, delivered>>
    /\ UNCHANGED <<updater, clientVars, programVars, output, syncVars>>

\* The program is started, or the socket dialled; Sync runs beside Cmd.Wait for a
\* program and in the handler for a socket.
Execute ==
    /\ handler = "execute"
    /\ \/ /\ \E t \in Texts : Answer(ErrorF(t), TRUE)
          /\ UNCHANGED <<program, toProgram>>
       \/ /\ handler' = "wait" /\ program' = "running" /\ toProgram' = "start"
          /\ \/ answer' \in ProgramAnswers /\ refusing' = FALSE
             \/ answer' \in ProgramRefusals /\ refusing' = TRUE
          /\ UNCHANGED <<session, delivered>>
    /\ UNCHANGED <<updater, clientVars, written, output, toClient>>

\* Sync: the copier of the answer is started, then the version is written.
SyncStart ==
    /\ toProgram = "start"
    /\ toClient' = "copy" /\ toProgram' = "print"
    /\ UNCHANGED <<updater, clientVars, session, handler, programVars, output,
                   refusing, answer, delivered>>

\* A program that is gone ends Sync here.
SyncPrint ==
    /\ toProgram = "print"
    /\ \/ toProgram' = "copy"
       \/ program = "over" /\ toProgram' = "over"
    /\ UNCHANGED <<updater, clientVars, session, handler, programVars, output,
                   toClient, refusing, answer, delivered>>

\* Mutant of ToProgramEnds: the session is left to the other copier.
ToProgramEndsAlone ==
    /\ toProgram = "copy"
    /\ toProgram' = "over"
    /\ output' = IF updater = "net" THEN "closed" ELSE output
    /\ UNCHANGED <<updater, clientVars, session, handler, programVars, toClient,
                   refusing, answer, delivered>>

\* The client's input has ended, or the session: the copier closes the session,
\* and the socket with it.
ToProgramEnds ==
    /\ toProgram = "copy"
    /\ toProgram' = "over"
    /\ CloseSession
    /\ output' = IF updater = "net" THEN "closed" ELSE output
    /\ UNCHANGED <<updater, clientVars, handler, programVars, toClient, refusing,
                   answer, delivered>>

\* The other copier moves a byte of the answer.
CopyAnswer ==
    /\ toClient = "copy" /\ session = "open" /\ output = "open"
    /\ delivered < written
    /\ delivered' = delivered + 1
    /\ UNCHANGED <<updater, clientVars, session, handler, programVars, output,
                   syncVars, refusing, answer>>

\* It ends with the program's output, or when it meets a closed end, and closes
\* both; a session that was closed shows when there is something to write to it.
ToClientEnds ==
    /\ toClient = "copy"
    /\ \/ output = "closed"
       \/ session = "closed" /\ delivered < written
       \/ program = "over" /\ delivered = written
    /\ toClient' = "over" /\ output' = "closed"
    /\ CloseSession
    /\ UNCHANGED <<updater, clientVars, handler, programVars, toProgram, refusing,
                   answer, delivered>>

\* Cmd.Wait returned, or Sync did: the output is closed and the handler returns.
HandlerEnds ==
    /\ handler = "wait"
    /\ IF updater = "command" THEN program = "over" ELSE toProgram = "over"
    /\ handler' = "over" /\ output' = "closed"
    /\ CloseSession
    /\ UNCHANGED <<updater, clientVars, programVars, syncVars, refusing, answer,
                   delivered>>

(* The updater program, and the network.                                   *)

\* It writes its answer at any pace; it may end before, and a closed output
\* ends it.
ProgramWrites ==
    /\ program = "running" /\ output = "open" /\ written < Len(answer)
    /\ written' = written + 1
    /\ UNCHANGED <<updater, clientVars, session, handler, program, output,
                   syncVars, refusing, answer, delivered>>

ProgramEnds ==
    /\ program = "running"
    /\ program' = "over"
    /\ UNCHANGED <<updater, clientVars, session, handler, written, output,
                   syncVars, refusing, answer, delivered>>

\* The connection is lost.
Lose ==
    /\ session = "open"
    /\ CloseSession
    /\ UNCHANGED <<updater, clientVars, handler, programVars, output, syncVars,
                   refusing, answer, delivered>>

-----------------------------------------------------------------------------
Fetch == Start \/ ReadHeader \/ ReadUrl \/ ReadText \/ ReadStream \/ ReadEnds
Sync == SyncStart \/ SyncPrint \/ ToProgramEnds \/ CopyAnswer \/ ToClientEnds
Handler == Version \/ Execute \/ HandlerEnds

Next == Fetch \/ Sync \/ Handler \/ ProgramWrites \/ ProgramEnds \/ Lose

\* Runnable goroutines run; the updater program owes nothing.
Fairness == WF_vars(Fetch) /\ WF_vars(Sync) /\ WF_vars(Handler)

Spec == Init /\ [][Next]_vars /\ Fairness

-----------------------------------------------------------------------------
(* Properties.                                                             *)

\* The last bytes the client took, up to the number it read in the header.
Payload == SubSeq(answer, HeaderLen(answer) + 1, taken)

\* Whatever part of the answer the two copiers and Cmd.Wait let through
\* (updater.go:45, updater_cmd.go:95), the client takes for a URL only a whole one,
\* cut to what its length field can say (upgrade.go:114), and for an update the
\* beginning of the one that was sent, whole if the session outlived it.
AnswerAsSent ==
    /\ client = "url" => \E u \in Urls :
          /\ answer = WriteUrl(u)
          /\ Payload = SubSeq(u, 1, Len(u) % Power[LenWidth])
    /\ client = "binary" => \E s \in Streams :
          /\ answer = WriteStream(s)
          /\ IsPrefix(Payload, s)
          /\ delivered = Len(answer) => Payload = s

\* A refusal of ErrorF, whose length Read expects in another width
\* (upgrade.go:71, 148), never passes for an answer, and its text never arrives:
\* the fetch fails, or the client dies allocating it.
RefusalNeverRead ==
    refusing /\ client \in Results => client \in {"failed", "panic"}

\* A fetch ends, even if the updater program never does: the copier towards it
\* closes the session when the client's input ends (updater.go:49).
FetchIsBounded == client = "header" ~> client \in Results
=============================================================================
