-------------------------------- MODULE Routing --------------------------------
(***************************************************************************)
(* The paths of a virtual host and the way of an HTTP request (HostPaths   *)
(* and HttpUsers of src/server/http.go and db.go, ServeHTTP and RoundTrip  *)
(* of src/server/http_serve.go).                                           *)
(*                                                                         *)
(* A path is a sequence of characters, which are numbers in their order;   *)
(* Slash is one of them.                                                   *)
(***************************************************************************)
EXTENDS Naturals, Sequences, SequencesExt, FiniteSets

CONSTANTS
    Slash,      \* the character /
    None,       \* no load balancer, or no request
    Paths,      \* paths in the table of load balancers
    Balancers,  \* load balancers
    Auth,       \* [enabled, users] of each, or None when the database fails
    Requests,   \* requests, each a [uri, websocket, credentials]
    MaxMounts   \* how often the virtual host is changed

VARIABLES
    paths,      \* load balancer of each mounted path
    sorted,     \* the mounted paths in descending order
    request,    \* the request that was made
    response,   \* what became of it
    history     \* every mount and removal, each an [op, pth, lb]

vars == <<paths, sorted, request, response, history>>

-----------------------------------------------------------------------------
(* HostPaths.                                                              *)

Root == <<Slash>>

\* A slash at either end, added where it is missing.
cleanPth(pth) ==
    LET closed == IF pth = <<>> \/ Last(pth) # Slash THEN pth \o Root ELSE pth
    IN  IF Head(closed) # Slash THEN Root \o closed ELSE closed

\* Strings are ordered by their first difference, or a prefix comes first.
Less(s, t) ==
    \/ IsStrictPrefix(s, t)
    \/ \E i \in 1..Len(s) :
          /\ i <= Len(t) /\ s[i] < t[i]
          /\ \A j \in 1..(i - 1) : s[j] = t[j]

\* Mutant of sort: in ascending order.
sortUp(pths) ==
    CHOOSE s \in [1..Cardinality(pths) -> pths] :
        /\ \A p \in pths : \E i \in DOMAIN s : s[i] = p
        /\ \A i, j \in DOMAIN s : i < j => Less(s[i], s[j])

\* HostPaths.sort: in descending order.
sort(pths) ==
    CHOOSE s \in [1..Cardinality(pths) -> pths] :
        /\ \A p \in pths : \E i \in DOMAIN s : s[i] = p
        /\ \A i, j \in DOMAIN s : i < j => Less(s[j], s[i])

\* A path as it is in the table of load balancers is cleaned unless it is blank.
HttpPath(pth) == IF pth = <<>> THEN pth ELSE cleanPth(pth)

Record(op, pth, lb) == history' = Append(history, [op |-> op, pth |-> pth, lb |-> lb])

\* The first one mounted stays.
Set(pth, lb) ==
    /\ IF pth \in DOMAIN paths THEN UNCHANGED <<paths, sorted>>
       ELSE /\ paths' = [p \in DOMAIN paths \cup {pth} |-> IF p = pth THEN lb ELSE paths[p]]
            /\ sorted' = sort(DOMAIN paths')
    /\ Record("set", pth, lb)

\* HostPaths.Remove.
Unmount(pth) ==
    /\ paths' = [p \in DOMAIN paths \ {pth} |-> paths[p]]
    /\ sorted' = sort(DOMAIN paths')
    /\ Record("remove", pth, None)

\* Nothing is found while nothing is sorted.
Get(pth) == IF sorted # <<>> /\ pth \in DOMAIN paths THEN paths[pth] ELSE None

-----------------------------------------------------------------------------
(* ServeHTTP and RoundTrip.                                                *)

UriSlash(uri) == IF uri = <<>> \/ Last(uri) # Slash THEN uri \o Root ELSE uri

\* The first of the sorted paths that is a prefix of the URI, or the URI with a
\* slash.
Mount(uri) ==
    LET found == {i \in DOMAIN sorted :
                     /\ IsPrefix(sorted[i], uri) \/ sorted[i] = UriSlash(uri)
                     /\ Get(sorted[i]) # None}
    IN  IF found = {} THEN None
        ELSE Get(sorted[CHOOSE i \in found : \A j \in found : i <= j])

\* HttpUsers: names and passwords; a blank table matches nobody.
Match(users, credentials) ==
    /\ credentials # None
    /\ credentials[1] \in DOMAIN users
    /\ users[credentials[1]] = credentials[2]

\* The request is passed to the load balancer, if its users need not be known or
\* the credentials are one's.
RoundTrip(lb, r) ==
    IF Auth[lb] = None THEN "bad gateway"
    ELSE IF Auth[lb].enabled /\ ~Match(Auth[lb].users, r.credentials)
         THEN "unauthorised" ELSE lb

\* A websocket request is never proxied.
Respond(r) ==
    IF r.uri \in {<<>>, Root} THEN "index"
    ELSE IF r.websocket THEN "tunnel"
    ELSE IF Mount(r.uri) = None THEN "not found" ELSE RoundTrip(Mount(r.uri), r)

ServeHTTP(r) ==
    /\ request' = r /\ response' = Respond(r)
    /\ UNCHANGED <<paths, sorted, history>>

-----------------------------------------------------------------------------
Init ==
    /\ paths = [p \in {} |-> None] /\ sorted = <<>>
    /\ request = None /\ response = None /\ history = <<>>

\* The host is changed by a node that comes or goes.
Change ==
    /\ Len(history) < MaxMounts
    /\ \E pth \in Paths : \/ \E lb \in Balancers : Set(HttpPath(pth), lb)
                          \/ Unmount(HttpPath(pth))
    /\ UNCHANGED <<request, response>>

Next == response = None /\ (Change \/ \E r \in Requests : ServeHTTP(r))

-----------------------------------------------------------------------------
(* Properties.                                                             *)

\* The mounts of a path that no removal followed, and the first of them.
Standing(pth) ==
    {i \in 1..Len(history) :
        /\ history[i].op = "set" /\ history[i].pth = pth
        /\ \A j \in i..Len(history) :
              ~(history[j].op = "remove" /\ history[j].pth = pth)}
FirstAt(pth) ==
    history[CHOOSE i \in Standing(pth) : \A j \in Standing(pth) : i <= j].lb

\* A request that is passed on goes to the longest mount that covers its URI, up
\* to a closing slash, and there to the load balancer that came first and whose
\* users include the one that asks; http.go:45 sorts by characters, http.go:73
\* keeps the first and http_serve.go:161 takes the first path that fits.
LongestMount ==
    LET mounts == {p \in {history[i].pth : i \in 1..Len(history)} : Standing(p) # {}}
        covers == {p \in mounts : IsPrefix(p, UriSlash(request.uri))}
        longest == CHOOSE p \in covers : \A q \in covers : Len(q) <= Len(p)
    IN  /\ response = "not found" =>
              covers = {} /\ request.uri \notin {<<>>, Root} /\ ~request.websocket
        /\ response \in Balancers =>
              /\ covers # {} /\ response = FirstAt(longest)
              /\ Auth[response].enabled =>
                    <<request.credentials[1], request.credentials[2]>> \in
                        {<<u, Auth[response].users[u]>> : u \in DOMAIN Auth[response].users}
=============================================================================
