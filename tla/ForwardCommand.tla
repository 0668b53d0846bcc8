---------------------------- MODULE ForwardCommand ----------------------------
(***************************************************************************)
(* The forward and forward ssh commands (src/cmd/forward.go, forwardSsh.go, *)
(* src/forwarder/helper.go, NewService of src/forwarder/service.go): from   *)
(* the command line to the server and the forwarded services.               *)
(*                                                                         *)
(* A DSN and a service are strings, sequences of characters, which the code *)
(* splits at @ and at : only.                                               *)
(***************************************************************************)
EXTENDS Integers, Sequences, FiniteSets, FiniteSetsExt

CONSTANTS
    At, Colon,    \* characters
    Zero,         \* the string 0
    Loopback,     \* 127.0.0.1
    CurrentUser,  \* the name of the process's user
    SshService    \* what --ssh adds: ssh: and the flag -A

-----------------------------------------------------------------------------
Empty == <<>>
Places(c, text) == {i \in DOMAIN text : text[i] = c}

\* The parts of a string before and after the first c; without a c the first one
\* is all of it.
Before(c, text) ==
    IF Places(c, text) = {} THEN text ELSE SubSeq(text, 1, Min(Places(c, text)) - 1)
After(c, text) ==
    IF Places(c, text) = {} THEN Empty
    ELSE SubSeq(text, Min(Places(c, text)) + 1, Len(text))


\* The user and the access point.  With more than one : there is no user.
WhoOf(who) ==
    CASE Cardinality(Places(Colon, who)) = 0 -> [user |-> CurrentUser, ap |-> who]
      [] Cardinality(Places(Colon, who)) = 1 ->
            [user |-> IF Before(Colon, who) = Empty THEN CurrentUser
                      ELSE Before(Colon, who),
             ap |-> After(Colon, who)]
      [] OTHER -> [user |-> Empty, ap |-> Before(Colon, who)]

\* Anything but one @ leaves all three blank.
HostOf(dsn) == IF Cardinality(Places(At, dsn)) = 1 THEN After(At, dsn) ELSE Empty

GoodDSN(dsn) ==
    LET who == WhoOf(Before(At, dsn)) IN
    HostOf(dsn) # Empty /\ who.user # Empty /\ who.ap # Empty

Server(a) == [host |-> HostOf(a.dsn), port |-> IF a.port = 0 THEN 2220 ELSE a.port]

\* NewService splits an address at its first colon, and panics without one.
Panics(addr) == addr # Empty /\ Places(Colon, addr) = {}

\* A blank host is the loopback, a blank or zero port one that was free a moment
\* ago.
NewService(addr, free) ==
    [host |-> IF Before(Colon, addr) = Empty THEN Loopback ELSE Before(Colon, addr),
     port |-> IF After(Colon, addr) \in {Empty, Zero} THEN free ELSE After(Colon, addr)]

\* The services of the command: those named, then --ssh with its address.
Named(a) == a.services \o (IF a.ssh THEN <<SshService>> ELSE <<>>)

\* Creator.Create: its returns in their order ...
Outcome(a) ==
    LET named == Named(a)
        bad == {i \in DOMAIN named : \/ Before(Colon, named[i]) = Empty
                                     \/ Panics(After(Colon, named[i]))}
    IN  CASE named = <<>> -> "no services"
          [] a.timeout < 1 -> "bad timeout"
          [] ~GoodDSN(a.dsn) -> "bad dsn"
          [] bad # {} -> IF Before(Colon, named[Min(bad)]) = Empty THEN "blank name"
                         ELSE "panic"
          [] OTHER -> "created"

\* ... and the addresses of its services.  frees holds the port that the system
\* gives to each service that asks for one.
Locals(a, frees) ==
    [i \in DOMAIN Named(a) |-> NewService(After(Colon, Named(a)[i]), frees[i])]

-----------------------------------------------------------------------------
(* The format of the arguments, as the help of the command has it.         *)

\* [USER:]AP_NAME@XSSH_SERVER_HOST (forward.go:36).  The current user may be left
\* out, with or without the colon.
DSNs(user, ap, host) ==
    {u \o ap \o <<At>> \o host :
        u \in {user \o <<Colon>>}
              \cup (IF user = CurrentUser THEN {Empty, <<Colon>>} ELSE {})}

\* NAME:ADDR (forward.go:40): an address of HOST:PORT of which the loopback and a
\* free port may be left out.
ServiceTexts(name, local, free) ==
    {name \o <<Colon>> \o host \o <<Colon>> \o port :
        host \in {local.host} \cup (IF local.host = Loopback THEN {Empty} ELSE {}),
        port \in {local.port} \cup (IF local.port = free THEN {Empty, Zero} ELSE {})}
    \cup (IF local = [host |-> Loopback, port |-> free] THEN {name, name \o <<Colon>>}
          ELSE {})

\* Parts that a DSN may have.
Parts(dsn) ==
    {SubSeq(dsn, i, j) : i, j \in 1..Len(dsn)} \ {Empty}

\* What a created forwarder connects to and listens at is what its arguments say:
\* written again in the format of the help they are the arguments, for every way of
\* splitting them (helper.go:39 to 55 and 72, service.go:46); and a DSN of that
\* format is never refused.
ArgumentsAsWritten(a, frees) ==
    LET who == WhoOf(Before(At, a.dsn))
        plain(text) == Places(Colon, text) \cup Places(At, text) = {}
    IN  /\ Outcome(a) = "created" =>
              /\ a.dsn \in DSNs(who.user, who.ap, Server(a).host)
              /\ \A i \in DOMAIN Named(a) :
                    Named(a)[i] \in ServiceTexts(Before(Colon, Named(a)[i]),
                                                 Locals(a, frees)[i], frees[i])
        /\ Outcome(a) = "bad dsn" =>
              ~\E user \in Parts(a.dsn) \cup {CurrentUser}, ap, host \in Parts(a.dsn) :
                  /\ plain(user) /\ plain(ap) /\ Places(At, host) = {}
                  /\ a.dsn \in DSNs(user, ap, host)
=============================================================================
