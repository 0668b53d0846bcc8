------------------------------ MODULE ApCommand ------------------------------
(***************************************************************************)
(* The ap command (src/cmd/ap.go, ParseServiceDSN of src/ap/utils.go):     *)
(* from the command line to the server's address and to the services of    *)
(* each of the connections ("slots") that are made to it.                  *)
(*                                                                         *)
(* A string is split where the code splits it: a NAME@HOST:PORT argument,  *)
(* a HOST:PORT flag and a NAME/ADDR/COUNT argument are records.  Blank is  *)
(* an empty string, Bad one that does not parse as a number or an address. *)
(***************************************************************************)
EXTENDS Integers, Sequences, FiniteSets, FiniteSetsExt

CONSTANTS
    Blank, Bad, Absent,
    Localhost,     \* the name localhost
    DefaultPort    \* 2220, not 0

\* Why a command is refused, and Accepted.
Outcomes == {"server-addr", "server-port", "user-port", "timeout", "interval",
             "dsn", "twice", "none", "accepted"}

-----------------------------------------------------------------------------
(* The server's address: a.user = NAME[@HOST[:PORT]], a.serverAddr the flag *)
(* -S, a.host the flag -H and a.port the flag -p.                           *)

\* -S takes the place of -H, and of -p unless it names the default port.
AfterServerAddr(a) ==
    IF a.serverAddr = Blank THEN [host |-> a.host, port |-> a.port]
    ELSE [host |-> a.serverAddr.host,
          port |-> IF a.serverAddr.port = DefaultPort THEN a.port
                   ELSE a.serverAddr.port]

\* NAME@HOST:PORT takes the place of both.  An @ that comes first is not looked for,
\* and a : of an IPv6 address is taken for the port's.
HasHost(a) == a.user.name # Blank /\ a.user.host # Absent
HasPort(a) == HasHost(a) /\ a.user.host # Blank /\ a.user.port # Absent

\* Nor is a : that comes first: :PORT is a host, and the port is not this one.
NamedHost(a) ==
    IF a.user.host = Blank /\ a.user.port # Absent THEN <<":", a.user.port>>
    ELSE a.user.host

Server(a) ==
    LET flags == AfterServerAddr(a)
        host == IF HasHost(a) THEN NamedHost(a) ELSE flags.host
        port == IF HasPort(a) THEN a.user.port
                ELSE IF flags.port = 0 THEN DefaultPort ELSE flags.port
    IN  [host |-> IF host = Blank THEN Localhost ELSE host, port |-> port]

-----------------------------------------------------------------------------
(* The services: a.dsns is a sequence of [parts, name, addr, count], parts  *)
(* being the number of pieces between slashes.                              *)

BadDSN(dsn) ==
    \/ dsn.parts \notin {2, 3}
    \/ dsn.name = Blank \/ dsn.addr \in {Blank, Bad}
    \/ dsn.parts = 3 /\ dsn.count = Bad

\* No count and a greater one than the flag's give way to the flag's, which is at
\* least one; a negative count stays.
Count(a, dsn) ==
    LET most == IF a.connections < 1 THEN 1 ELSE a.connections IN
    IF dsn.parts = 2 \/ dsn.count = 0 \/ dsn.count > most THEN most ELSE dsn.count

\* The embedded ssh server is a service of one connection, before all others.
Configs(a) ==
    (IF a.ssh THEN <<[name |-> "ssh", count |-> 1]>> ELSE <<>>)
    \o [i \in 1..Len(a.dsns) |->
          [name |-> a.dsns[i].name, count |-> Count(a, a.dsns[i])]]

Twice(configs) ==
    \E i, j \in 1..Len(configs) : i # j /\ configs[i].name = configs[j].name

\* Mutant of Slots: as many slots as the first service wants.
SlotsOfFirst(configs) ==
    [i \in 1..configs[1].count |->
        {configs[k].name : k \in {k \in 1..Len(configs) : configs[k].count >= i}}]

\* One connection for each of the greatest count, with the services that want as
\* many.
Slots(configs) ==
    [i \in 1..Max({configs[k].count : k \in 1..Len(configs)}) |->
        {configs[k].name : k \in {k \in 1..Len(configs) : configs[k].count >= i}}]

\* The command's returns, in their order.
Outcome(a) ==
    CASE a.serverAddr = Bad -> "server-addr"
      [] a.serverAddr # Blank /\ a.serverAddr.port = Bad -> "server-port"
      [] HasPort(a) /\ a.user.port = Bad -> "user-port"
      [] a.timeout < 1 -> "timeout"
      [] ~a.interval -> "interval"
      [] (\E i \in 1..Len(a.dsns) : BadDSN(a.dsns[i])) \/ Twice(Configs(a)) ->
            LET bad == {i \in 1..Len(a.dsns) : BadDSN(a.dsns[i])}
                sub(n) == Configs([a EXCEPT !.dsns = SubSeq(a.dsns, 1, n)])
            IN  IF bad # {} /\ ~Twice(sub(Min(bad) - 1)) THEN "dsn" ELSE "twice"
      [] Configs(a) = <<>> -> "none"
      [] OTHER -> "accepted"

-----------------------------------------------------------------------------
(* Properties of a command line, checked for every one of an instance.      *)

\* Every connection serves something, and a service has as many connections as
\* were counted for it: none if its count is negative (ap.go:261, 286).
SlotsServe(a) ==
    Outcome(a) = "accepted" =>
        LET configs == Configs(a)  slots == Slots(configs) IN
        /\ \A i \in DOMAIN slots : slots[i] # {}
        /\ \A k \in 1..Len(configs) :
              Cardinality({i \in DOMAIN slots : configs[k].name \in slots[i]})
                  = IF configs[k].count < 0 THEN 0 ELSE configs[k].count

\* One server can be named in three ways, by NAME@HOST:PORT, by -S HOST:PORT and by
\* -H HOST -p PORT: they agree, if -S is blanked for the last one, which it is not by
\* default (ap.go:170, 331), and unless the port is 0, which only the argument means
\* as it stands (ap.go:183 comes before 190).
ServerWaysAgree(a) ==
    LET host == a.user.host  port == a.user.port
        bare == [a EXCEPT !.user = [name |-> a.user.name, host |-> Absent, port |-> Absent]]
    IN  Outcome(a) = "accepted" /\ HasPort(a) /\ port # 0 =>
            /\ Server(a) = Server([bare EXCEPT !.serverAddr = Blank,
                                              !.host = host, !.port = port])
            /\ Server(a) = Server([bare EXCEPT !.serverAddr = [host |-> host, port |-> port],
                                              !.port = DefaultPort])
=============================================================================
