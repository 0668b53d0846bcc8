------------------------------- MODULE Commands -------------------------------
(***************************************************************************)
(* What the commands compute, next to what they do.  A behaviour is one    *)
(* connect command (Connect), or the command line of an ap or a forward    *)
(* command, from which ApCommand and ForwardCommand compute without steps, *)
(* or a virtual host and one request to it (Routing).                      *)
(***************************************************************************)
EXTENDS Connect, Integers, Sequences

CONSTANTS
    Blank, Bad, Absent, None,  \* as in ApCommand and Routing
    ApUsers,        \* arguments NAME@HOST:PORT
    ServerAddrs,    \* values of the flag -S
    Hosts,          \* values of the flag -H
    Dsns,           \* arguments NAME/ADDR/COUNT
    ApInputs,       \* command lines of ap
    ForwardInputs,  \* command lines of forward, with the ports that are free
    Slash, Paths, Balancers, Auth, Requests, MaxMounts

ASSUME ApAssumption ==
    ApInputs \subseteq
        [command : {"ap"}, user : ApUsers, serverAddr : ServerAddrs, host : Hosts,
         port : Nat, connections : Int, ssh : BOOLEAN, dsns : Seq(Dsns),
         timeout : Nat, interval : BOOLEAN]

\* A count that is there is a number or does not parse as one.
ASSUME DsnAssumption == \A d \in Dsns : d.parts = 3 => d.count \in Int \cup {Bad}

ASSUME ForwardAssumption == \A a \in ForwardInputs : a.command = "forward"

\* Characters are numbers; a load balancer is neither none nor a reply.
ASSUME RoutingAssumption ==
    /\ Slash \in Nat /\ Paths \subseteq Seq(Nat)
    /\ \A r \in Requests : r.uri \in Seq(Nat)
    /\ Balancers \cap {None, "index", "tunnel", "not found", "bad gateway",
                       "unauthorised"} = {}
    /\ None # "not found"

VARIABLES
    input,                                     \* what the behaviour is about
    paths, sorted, request, response, history  \* as in Routing

Ap == INSTANCE ApCommand WITH Localhost <- "localhost", DefaultPort <- 2220
Forward == INSTANCE ForwardCommand
              WITH At <- "@", Colon <- ":", Zero <- <<"0">>, Loopback <- <<"lo">>,
                   CurrentUser <- <<"me">>,
                   SshService <- <<"ssh", ":", "localhost", ":", "2222">>
Http == INSTANCE Routing

httpVars == <<paths, sorted, request, response, history>>

Is(command) == input.command = command

-----------------------------------------------------------------------------
\* Connect is over in the behaviours that are about something else.
NoConnect ==
    /\ args = CHOOSE a \in Arguments : TRUE
    /\ process = "exit" /\ mode = "none" /\ target = <<"", 0>>
    /\ call = [c \in Calls |-> "none"] /\ ws = [c \in Calls |-> "none"]
    /\ near = [c \in Calls |-> "none"]
    /\ copyOut = [c \in Calls |-> "none"] /\ copyIn = [c \in Calls |-> "none"]
    /\ done = {} /\ cut = {} /\ shell = "none" /\ raw = FALSE

CommandsInit ==
    /\ Http!Init
    /\ \/ Init /\ input = [command |-> "connect"]
       \/ NoConnect /\ input \in ApInputs \cup ForwardInputs \cup {[command |-> "host"]}

CommandsNext ==
    /\ UNCHANGED input
    /\ \/ Is("connect") /\ Next /\ UNCHANGED httpVars
       \/ Is("host") /\ Http!Next /\ UNCHANGED vars

CommandsSpec ==
    CommandsInit /\ [][CommandsNext]_<<vars, httpVars, input>> /\ Fairness

-----------------------------------------------------------------------------
(* Properties.                                                             *)

\* The connections of an ap command and their services fit each other
\* (ap.go:261, 277).
ApSlotsServe == Is("ap") => Ap!SlotsServe(input)


\* Requests go to the longest mount (http_serve.go:159).
RequestLongestMount == Is("host") => Http!LongestMount
=============================================================================
