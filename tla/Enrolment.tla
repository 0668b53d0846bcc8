------------------------------ MODULE Enrolment ------------------------------
(***************************************************************************)
(* Users, their keys and their roles (src/server/users.go, the             *)
(* authentication callbacks of sshserver.go, the users commands of         *)
(* src/cmd).                                                               *)
(*                                                                         *)
(* A row of the users table holds one public key.  A user whose update_key *)
(* flag is set may log in with any key: CheckUser stores it and clears the *)
(* flag.  It reads the row in one statement and writes it in another, and  *)
(* the commands change the table from other processes in between.          *)
(***************************************************************************)
EXTENDS Naturals, Sequences, FiniteSets

CONSTANTS
    Users,       \* names of users
    Keys,        \* public keys
    Logins,      \* authentication requests
    None,        \* no row, no key
    MaxGrants,   \* bound on the permissions to store a key
    MaxRows      \* bound on the rows inserted

ASSUME NoneAssumption == None \notin Keys
ASSUME BoundsAssumption == MaxGrants \in Nat /\ MaxRows \in Nat

VARIABLES
    rows,       \* the users table: a row or None for each name
    adding,     \* the add command in progress: names left, flags of the rows
    place,      \* place of each login
    who,        \* user and key of each login
    snapshot,   \* row that the login's select returned
    answered,   \* logins that were answered when a login's select ran
    enrolled,   \* permission a login stored its key under, or 0
    stored,     \* keys ever stored in the row's lifetime, by lifetime
    gone,       \* lifetimes of removed rows
    granted,    \* forwards granted: <<login, kind>>
    grants,     \* permissions given so far
    born        \* rows inserted so far

tableVars == <<rows, stored, gone, grants, born>>
loginVars == <<place, who, snapshot, answered, enrolled>>
vars == <<tableVars, adding, loginVars, granted>>

\* The columns is_ap, update_key and pub_key; the number of the permission that
\* update_key stands for, and of the row itself, are history.
Row == [isAp : BOOLEAN, updateKey : BOOLEAN, pubKey : Keys \cup {None},
        grant : 0..MaxGrants, life : 1..MaxRows]
ASSUME NoRowAssumption == None \notin Row
Idle == [names |-> <<>>, isAp |-> FALSE, updateKey |-> FALSE]

TypeOK ==
    /\ rows \in [Users -> Row \cup {None}]
    /\ adding \in [names : Seq(Users), isAp : BOOLEAN, updateKey : BOOLEAN]
    /\ place \in [Logins -> {"new", "read", "in", "out"}]
    /\ who \in [Logins -> (Users \X Keys) \cup {None}]
    /\ snapshot \in [Logins -> Row \cup {None}]
    /\ answered \in [Logins -> SUBSET Logins]
    /\ enrolled \in [Logins -> 0..MaxGrants]
    /\ stored \in [1..MaxRows -> SUBSET Keys]
    /\ gone \subseteq 1..MaxRows
    /\ granted \subseteq Logins \X {"reverse", "direct"}
    /\ grants \in 0..MaxGrants /\ born \in 0..MaxRows

Init ==
    /\ rows = [u \in Users |-> None] /\ adding = Idle
    /\ place = [l \in Logins |-> "new"] /\ who = [l \in Logins |-> None]
    /\ snapshot = [l \in Logins |-> None]
    /\ answered = [l \in Logins |-> {}] /\ enrolled = [l \in Logins |-> 0]
    /\ stored = [r \in 1..MaxRows |-> {}] /\ gone = {}
    /\ granted = {} /\ grants = 0 /\ born = 0

-----------------------------------------------------------------------------
(* The users commands.                                                     *)

AddUsers(names, isAp, updateKey) ==
    /\ adding = Idle
    /\ adding' = [names |-> names, isAp |-> isAp, updateKey |-> updateKey]
    /\ UNCHANGED <<tableVars, loginVars, granted>>

\* One insert per name; the first that fails ends the command, with the rows
\* before it in the table: the name is taken, or the database refuses.
AddOne ==
    /\ adding.names # <<>>
    /\ LET u == Head(adding.names) IN
       \/ /\ adding' = Idle
          /\ UNCHANGED tableVars
       \/ /\ rows[u] = None
          /\ born < MaxRows
          /\ adding.updateKey => grants < MaxGrants
          /\ born' = born + 1
          /\ grants' = grants + (IF adding.updateKey THEN 1 ELSE 0)
          /\ rows' = [rows EXCEPT ![u] =
                [isAp |-> adding.isAp, updateKey |-> adding.updateKey,
                 pubKey |-> None, grant |-> grants', life |-> born']]
          /\ adding' = IF Tail(adding.names) = <<>> THEN Idle
                       ELSE [adding EXCEPT !.names = Tail(@)]
          /\ UNCHANGED <<stored, gone>>
    /\ UNCHANGED <<loginVars, granted>>

\* One delete for all names.
RemoveUsers(names) ==
    /\ gone' = gone \cup {rows[u].life : u \in {n \in names : rows[n] # None}}
    /\ rows' = [u \in Users |-> IF u \in names THEN None ELSE rows[u]]
    /\ UNCHANGED <<stored, grants, born, adding, loginVars, granted>>

\* One update for all names: a command gives one permission to each of them.
SetUpdateKeyFlag(value, names) ==
    /\ value => grants < MaxGrants
    /\ grants' = grants + (IF value THEN 1 ELSE 0)
    /\ rows' = [u \in Users |->
          IF u \in names /\ rows[u] # None
          THEN [rows[u] EXCEPT !.updateKey = value,
                               !.grant = IF value THEN grants' ELSE @]
          ELSE rows[u]]
    /\ UNCHANGED <<stored, gone, born, adding, loginVars, granted>>

-----------------------------------------------------------------------------
(* PublicKeyAuth and CheckUser.                                            *)

Answers == {l \in Logins : place[l] \in {"in", "out"}}

\* A blank user or access point name is refused without a look at the table.
RefuseBlank(l) ==
    /\ place[l] = "new"
    /\ place' = [place EXCEPT ![l] = "out"]
    /\ UNCHANGED <<tableVars, adding, who, snapshot, answered, enrolled, granted>>

\* The select.  An unknown user and a failing database refuse the login.
Select(l, u, k) ==
    /\ place[l] = "new"
    /\ who' = [who EXCEPT ![l] = <<u, k>>]
    /\ answered' = [answered EXCEPT ![l] = Answers]
    /\ \/ /\ place' = [place EXCEPT ![l] = "out"]
          /\ UNCHANGED snapshot
       \/ /\ rows[u] # None
          /\ place' = [place EXCEPT ![l] = "read"]
          /\ snapshot' = [snapshot EXCEPT ![l] = rows[u]]
    /\ UNCHANGED <<tableVars, adding, enrolled, granted>>

\* The key is the stored one.
Match(l) ==
    /\ place[l] = "read"
    /\ snapshot[l].pubKey = who[l][2]
    /\ place' = [place EXCEPT ![l] = "in"]
    /\ UNCHANGED <<tableVars, adding, who, snapshot, answered, enrolled, granted>>

Mismatch(l) ==
    /\ place[l] = "read"
    /\ snapshot[l].pubKey # who[l][2] /\ ~snapshot[l].updateKey
    /\ place' = [place EXCEPT ![l] = "out"]
    /\ UNCHANGED <<tableVars, adding, who, snapshot, answered, enrolled, granted>>

\* Mutant of Enrol: update_key stays set.
EnrolKeepsFlag(l) ==
    LET u == who[l][1]  k == who[l][2] IN
    /\ place[l] = "read"
    /\ snapshot[l].pubKey # k /\ snapshot[l].updateKey
    /\ place' = [place EXCEPT ![l] = "in"]
    /\ enrolled' = [enrolled EXCEPT ![l] = snapshot[l].grant]
    /\ IF rows[u] = None
       THEN UNCHANGED <<rows, stored>>
       ELSE /\ rows' = [rows EXCEPT ![u].pubKey = k]
            /\ stored' = [stored EXCEPT ![rows[u].life] = @ \cup {k}]
    /\ UNCHANGED <<gone, grants, born, adding, who, snapshot, answered, granted>>

\* Mutant of Enrol: the login is accepted and the key never stored.
EnrolForgetsKey(l) ==
    LET u == who[l][1]  k == who[l][2] IN
    /\ place[l] = "read"
    /\ snapshot[l].pubKey # k /\ snapshot[l].updateKey
    /\ place' = [place EXCEPT ![l] = "in"]
    /\ enrolled' = [enrolled EXCEPT ![l] = snapshot[l].grant]
    /\ rows' = [rows EXCEPT ![u] =
                  IF @ = None THEN None ELSE [@ EXCEPT !.updateKey = FALSE]]
    /\ UNCHANGED <<stored, gone, grants, born, adding, who, snapshot, answered,
                   granted>>

\* The update: it changes whatever row has the name by now, or none, and is not
\* told which.  A failing database refuses the login.
Enrol(l) ==
    LET u == who[l][1]  k == who[l][2] IN
    /\ place[l] = "read"
    /\ snapshot[l].pubKey # k /\ snapshot[l].updateKey
    /\ \/ /\ place' = [place EXCEPT ![l] = "in"]
          /\ enrolled' = [enrolled EXCEPT ![l] = snapshot[l].grant]
          /\ IF rows[u] = None
             THEN UNCHANGED <<rows, stored>>
             ELSE /\ rows' = [rows EXCEPT ![u].pubKey = k, ![u].updateKey = FALSE]
                  /\ stored' = [stored EXCEPT ![rows[u].life] = @ \cup {k}]
       \/ /\ place' = [place EXCEPT ![l] = "out"]
          /\ UNCHANGED <<enrolled, rows, stored>>
    /\ UNCHANGED <<gone, grants, born, adding, who, snapshot, answered, granted>>

\* Mutant of Forward: direct forwards are granted to everybody.
ForwardAny(l, kind) ==
    /\ place[l] = "in"
    /\ kind = "reverse" => snapshot[l].isAp
    /\ granted' = granted \cup {<<l, kind>>}
    /\ UNCHANGED <<tableVars, adding, loginVars>>

\* The socket forwarding callbacks look at the role the login was given: an
\* access point offers services, anybody else uses them.
Forward(l, kind) ==
    /\ place[l] = "in"
    /\ (kind = "reverse") = snapshot[l].isAp
    /\ granted' = granted \cup {<<l, kind>>}
    /\ UNCHANGED <<tableVars, adding, loginVars>>

-----------------------------------------------------------------------------
Check(l) == Match(l) \/ Mismatch(l) \/ Enrol(l)
Login(l) ==
    \/ RefuseBlank(l)
    \/ \E u \in Users, k \in Keys : Select(l, u, k)
    \/ Check(l)
    \/ \E kind \in {"reverse", "direct"} : Forward(l, kind)

NameLists == {<<u>> : u \in Users} \cup (Users \X Users)
Commands ==
    \/ \E names \in NameLists, isAp, updateKey \in BOOLEAN :
          AddUsers(names, isAp, updateKey)
    \/ AddOne
    \/ \E names \in SUBSET Users \ {{}} :
          RemoveUsers(names) \/ \E value \in BOOLEAN : SetUpdateKeyFlag(value, names)

Next == Commands \/ \E l \in Logins : Login(l)

Spec == Init /\ [][Next]_vars

-----------------------------------------------------------------------------
(* Properties.                                                             *)

\* One permission lets one key in: two logins store a key under the same
\* permission only if each read the row before the other was answered
\* (users.go:164 and 187 are two statements).
OneKeyPerGrant ==
    \A l, m \in Logins :
        l # m /\ enrolled[l] # 0 /\ enrolled[l] = enrolled[m] /\ who[l][1] = who[m][1]
        => l \notin answered[m] /\ m \notin answered[l]

\* A login is accepted with a key that was stored in the row it read, unless that
\* row was removed before the login was answered: the update's count of rows is
\* not looked at (users.go:187).
AcceptedWasStored ==
    \A l \in Logins : place[l] = "in" =>
        \/ who[l][2] \in stored[snapshot[l].life]
        \/ snapshot[l].life \in gone

\* As long as its row exists a user is either an access point or a client on all
\* of its connections (sshserver.go:101, 104): only a user that was removed and
\* added again is seen in both roles.
OneRole ==
    \A x, y \in granted :
        snapshot[x[1]].life = snapshot[y[1]].life => x[2] = y[2]
=============================================================================
