------------------------------ MODULE MCCommands ------------------------------
(***************************************************************************)
(* TLC instance of the commands and of HTTP routing.                       *)
(***************************************************************************)
EXTENDS Commands, TLC

CONSTANTS c1, c2

-----------------------------------------------------------------------------
\* Connect: every way to a token and a server, with each mode.
TwoCalls == {c1, c2}
ConnectArguments ==
    [pair : BOOLEAN, service : {"ssh", "web"}, token : {"blank", "token"},
     tokenFile : {"none", "blank", "token", "unread"}, https : {FALSE},
     certificate : {FALSE}, port : {0}, host : {""}, addr : {"-", "local"}]
    \cup
    [pair : {TRUE}, service : {"web"}, token : {"token"}, tokenFile : {"none"},
     https : BOOLEAN, certificate : BOOLEAN, port : {0, 80}, host : {"", "h"},
     addr : {""}]

\* The ap command: what decides the server, with one service ...
MCUsers == [name : {Blank, "ap"}, host : {Absent, Blank, "h1"},
            port : {Absent, Bad, 0, 22, 2220}]
MCServerAddrs == {Blank, Bad} \cup [host : {Blank, "localhost", "h2"},
                                    port : {Bad, 2220, 23}]
MCHosts == {"localhost", "h3"}
OneDsn == [parts |-> 2, name |-> "a", addr |-> "tcp", count |-> Absent]
ApServers ==
    [command : {"ap"}, user : MCUsers, serverAddr : MCServerAddrs, host : MCHosts,
     port : {0, 2220, 24}, connections : {1}, ssh : {FALSE}, dsns : {<<OneDsn>>},
     timeout : {15}, interval : {TRUE}]
\* ... and what decides the slots.
MCDsns == [parts : {2}, name : {"a", "b"}, addr : {"tcp", Blank}, count : {Absent}]
          \cup [parts : {3}, name : {"a", "b", "ssh"}, addr : {"tcp"},
                count : {Bad, -1, 0, 1, 2, 4}]
          \cup [parts : {1, 4}, name : {"a"}, addr : {"tcp"}, count : {1}]
ApSlots ==
    [command : {"ap"}, user : {[name |-> "ap", host |-> Absent, port |-> Absent]},
     serverAddr : {Blank}, host : {"localhost"}, port : {2220},
     connections : {-1, 1, 3}, ssh : BOOLEAN,
     dsns : {<<>>} \cup {<<d>> : d \in MCDsns} \cup (MCDsns \X MCDsns),
     timeout : {0, 15}, interval : {TRUE}]

MCApInputs == ApServers \cup ApSlots

\* The forward command: every DSN and every service of some length; a name or a
\* number counts as one character.
Texts(characters, length) == UNION {[1..n -> characters] : n \in 0..length}

MCForwardInputs ==
    [command : {"forward"}, dsn : Texts({"@", ":", "u", "me"}, 5), ssh : {TRUE},
     services : {<<>>}, timeout : {15}, port : {0, 2220}, frees : {<<<<"9">>>>}]
    \cup
    [command : {"forward"}, dsn : {<<"ap", "@", "h">>}, ssh : BOOLEAN,
     services : {<<>>} \cup {<<s>> : s \in Texts({":", "s", "lo", "0", "9"}, 4)}
                \cup {<<<<"s">>, s>> : s \in Texts({":", "s", "lo", "0", "9"}, 4)},
     timeout : {0, 15}, port : {2220}, frees : [1..3 -> {<<"8">>, <<"9">>}]]

\* A virtual host that is changed three times; 0 and 2 are letters before and
\* after the slash.
MCPaths == {<<>>, <<1>>, <<2>>, <<1, 2>>, <<1, 2, 1, 0>>, <<1, 2, 2, 1>>}
MCBalancers == {"x", "y"}
MCAuth == "x" :> [enabled |-> TRUE, users |-> ("u" :> "p")]
          @@ "y" :> [enabled |-> FALSE, users |-> ("v" :> "p")]
Uris == {<<1>>, <<1, 2>>, <<1, 2, 1>>, <<1, 2, 0>>, <<1, 2, 1, 0>>, <<1, 2, 1, 0, 1, 2>>,
         <<1, 2, 2, 1, 2>>}
MCRequests ==
    [uri : Uris, websocket : {FALSE}, credentials : {None, <<"u", "p">>, <<"u", "q">>}]
    \cup [uri : {<<1>>, <<1, 2>>}, websocket : {TRUE}, credentials : {<<"v", "p">>}]
=============================================================================
