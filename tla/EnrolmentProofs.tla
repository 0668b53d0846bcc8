--------------------------- MODULE EnrolmentProofs ---------------------------
(***************************************************************************)
(* The safety properties of Enrolment, for every set of users, keys and    *)
(* logins and every number of rows and permissions.                        *)
(*                                                                         *)
(* GrantInv: a permission under which a key was stored is not the one of   *)
(* the user's row any more, nor of a row read since.  LifeInv: a login     *)
(* read the row that has its user's name, or one that was removed since;   *)
(* a row's key was stored in the row.  RoleInv: rows and copies of rows    *)
(* of one lifetime have one role.                                          *)
(***************************************************************************)
EXTENDS Enrolment, SequenceTheorems, TLAPS

LoginInv ==
    \A l \in Logins :
        /\ place[l] \in {"read", "in"} => snapshot[l] # None
        /\ snapshot[l] # None => who[l] \in Users \X Keys /\ place[l] # "new"
        /\ enrolled[l] # 0 => place[l] = "in"
        /\ \A m \in answered[l] : place[m] \in {"in", "out"}

RowInv ==
    /\ \A u \in Users : rows[u] # None =>
          rows[u].grant <= grants /\ rows[u].life <= born
    /\ \A l \in Logins : snapshot[l] # None =>
          snapshot[l].grant <= grants /\ snapshot[l].life <= born
    /\ \A l \in Logins : enrolled[l] <= grants

GrantInv ==
    /\ \A l \in Logins : enrolled[l] # 0 =>
          LET row == rows[who[l][1]]
          IN  row # None /\ row.updateKey => row.grant # enrolled[l]
    /\ \A m \in Logins : place[m] = "read" /\ snapshot[m].updateKey =>
          \A l \in answered[m] :
              enrolled[l] # 0 /\ who[l][1] = who[m][1] =>
                  snapshot[m].grant # enrolled[l]

LifeInv ==
    /\ \A u \in Users : rows[u] # None =>
          rows[u].pubKey = None \/ rows[u].pubKey \in stored[rows[u].life]
    /\ \A l \in Logins : snapshot[l] # None =>
          /\ \/ snapshot[l].pubKey = None
             \/ snapshot[l].pubKey \in stored[snapshot[l].life]
          /\ \/ snapshot[l].life \in gone
             \/ /\ rows[who[l][1]] # None
                /\ rows[who[l][1]].life = snapshot[l].life

RoleInv ==
    /\ \A u, v \in Users :
          rows[u] # None /\ rows[v] # None /\ rows[u].life = rows[v].life
          => rows[u].isAp = rows[v].isAp
    /\ \A u \in Users, l \in Logins :
          rows[u] # None /\ snapshot[l] # None /\ rows[u].life = snapshot[l].life
          => rows[u].isAp = snapshot[l].isAp
    /\ \A l, m \in Logins :
          snapshot[l] # None /\ snapshot[m] # None
          /\ snapshot[l].life = snapshot[m].life
          => snapshot[l].isAp = snapshot[m].isAp
    /\ \A x \in granted :
          /\ place[x[1]] = "in"
          /\ x[2] = "reverse" <=> snapshot[x[1]].isAp

IInv ==
    /\ TypeOK /\ LoginInv /\ RowInv /\ GrantInv /\ LifeInv /\ RoleInv
    /\ OneKeyPerGrant /\ AcceptedWasStored

-----------------------------------------------------------------------------
(* What the steps do to the table and to the logins.                       *)

\* A row is only read as a row.
LEMMA RowType ==
    ASSUME TypeOK
    PROVE  /\ \A u \in Users : rows[u] # None => rows[u] \in Row
           /\ \A l \in Logins : snapshot[l] # None => snapshot[l] \in Row
BY DEF TypeOK

\* AddOne inserts a row with a lifetime of its own; a permission is new.
LEMMA AddOneRow ==
    ASSUME TypeOK, AddOne, ~UNCHANGED tableVars
    PROVE  \E u \in Users :
              /\ rows[u] = None /\ rows'[u] \in Row /\ rows'[u].pubKey = None
              /\ rows'[u].life = born + 1 /\ born' = born + 1
              /\ born + 1 \in 1..MaxRows
              /\ rows'[u].grant = grants' /\ grants' \in 0..MaxGrants
              /\ grants' \in {grants, grants + 1}
              /\ rows'[u].updateKey => grants' = grants + 1
              /\ \A v \in Users \ {u} : rows'[v] = rows[v]
              /\ rows' \in [Users -> Row \cup {None}]
              /\ UNCHANGED <<stored, gone>>
<1> DEFINE u == Head(adding.names)
<1>1. u \in Users
    BY HeadTailProperties DEF AddOne, TypeOK
<1>2. /\ rows[u] = None /\ born < MaxRows
      /\ adding.updateKey => grants < MaxGrants
      /\ born' = born + 1
      /\ grants' = grants + (IF adding.updateKey THEN 1 ELSE 0)
      /\ UNCHANGED <<stored, gone>>
    BY DEF AddOne, tableVars
<1> DEFINE row == [isAp |-> adding.isAp, updateKey |-> adding.updateKey,
                   pubKey |-> None, grant |-> grants', life |-> born']
<1>3. rows' = [rows EXCEPT ![u] = row]
    BY DEF AddOne, tableVars
<1>4. /\ born + 1 \in 1..MaxRows
      /\ grants' \in 0..MaxGrants /\ grants' \in {grants, grants + 1}
      /\ adding.updateKey => grants' = grants + 1
    BY <1>2, BoundsAssumption DEF TypeOK
<1>5. row \in Row
    BY <1>2, <1>4 DEF Row, TypeOK
<1>6. /\ row.pubKey = None /\ row.life = born + 1 /\ row.grant = grants'
      /\ row.updateKey => grants' = grants + 1
    BY <1>2, <1>4
<1> HIDE DEF row
<1>7. /\ rows'[u] = row /\ \A v \in Users \ {u} : rows'[v] = rows[v]
      /\ rows' \in [Users -> Row \cup {None}]
    BY <1>1, <1>3, <1>5 DEF TypeOK
<1> HIDE DEF u
<1> QED
    BY <1>1, <1>2, <1>4, <1>5, <1>6, <1>7

\* SetUpdateKeyFlag changes flags, and permissions to new ones.
LEMMA SetFlagRows ==
    ASSUME TypeOK, NEW value \in BOOLEAN, NEW names \in SUBSET Users,
           SetUpdateKeyFlag(value, names)
    PROVE  /\ rows' \in [Users -> Row \cup {None}]
           /\ grants' \in 0..MaxGrants /\ grants' \in {grants, grants + 1}
           /\ \A u \in Users :
                 /\ rows[u] = None <=> rows'[u] = None
                 /\ rows[u] # None =>
                       /\ rows'[u] \in Row /\ rows'[u].isAp = rows[u].isAp
                       /\ rows'[u].pubKey = rows[u].pubKey
                       /\ rows'[u].life = rows[u].life
                       /\ \/ rows'[u].grant = grants + 1 /\ grants' = grants + 1
                          \/ /\ rows'[u].grant = rows[u].grant
                             /\ rows'[u].updateKey => rows[u].updateKey
<1>1. /\ grants' \in 0..MaxGrants /\ grants' \in {grants, grants + 1}
      /\ value => grants' = grants + 1
    <2>1. grants \in 0..MaxGrants /\ MaxGrants \in Nat
        BY BoundsAssumption DEF TypeOK
    <2>2. /\ value => grants < MaxGrants
          /\ grants' = grants + (IF value THEN 1 ELSE 0)
        BY Zenon DEF SetUpdateKeyFlag
    <2> QED
        BY ONLY <2>1, <2>2, value \in BOOLEAN
<1>2. ASSUME NEW u \in Users
      PROVE  /\ rows[u] = None => rows'[u] = None
             /\ rows[u] # None =>
                   /\ rows'[u] \in Row /\ rows'[u].isAp = rows[u].isAp
                   /\ rows'[u].pubKey = rows[u].pubKey
                   /\ rows'[u].life = rows[u].life
                   /\ \/ rows'[u].grant = grants + 1 /\ grants' = grants + 1
                      \/ /\ rows'[u].grant = rows[u].grant
                         /\ rows'[u].updateKey => rows[u].updateKey
    <2>1. CASE rows[u] = None
        BY <2>1 DEF SetUpdateKeyFlag
    <2>2. CASE rows[u] # None
        <3>1. rows[u] \in Row
            BY <2>2 DEF TypeOK
        <3>2. CASE u \in names
            <4> DEFINE g == IF value THEN grants' ELSE rows[u].grant
            <4>1. g \in 0..MaxGrants
                <5>1. rows[u].grant \in 0..MaxGrants
                    BY <3>1 DEF Row
                <5> QED
                    BY <1>1, <5>1
            <4>2. rows'[u] = [rows[u] EXCEPT !.updateKey = value, !.grant = g]
                BY <2>2, <3>2 DEF SetUpdateKeyFlag
            <4>3. /\ (value => g = grants') /\ (~value => g = rows[u].grant)
                OBVIOUS
            <4> HIDE DEF g
            <4>4. /\ rows'[u] \in Row /\ rows'[u].isAp = rows[u].isAp
                  /\ rows'[u].pubKey = rows[u].pubKey
                  /\ rows'[u].life = rows[u].life
                  /\ rows'[u].grant = g /\ rows'[u].updateKey = value
                <5> DEFINE y == [rows[u] EXCEPT !.updateKey = value, !.grant = g]
                <5>1. /\ y \in Row /\ y.isAp = rows[u].isAp
                      /\ y.pubKey = rows[u].pubKey /\ y.life = rows[u].life
                      /\ y.grant = g /\ y.updateKey = value
                    BY ONLY <3>1, <4>1, value \in BOOLEAN DEF Row
                <5>2. rows'[u] = y
                    BY <4>2
                <5> HIDE DEF y
                <5> QED
                    BY <5>1, <5>2
            <4>5. CASE value
                BY ONLY <1>1, <2>2, <4>3, <4>4, <4>5
            <4>6. CASE ~value
                BY ONLY <2>2, <4>3, <4>4, <4>6
            <4> QED
                BY <4>5, <4>6
        <3>3. CASE u \notin names
            BY <3>1, <3>3 DEF SetUpdateKeyFlag
        <3> QED
            BY <3>2, <3>3
    <2> QED
        BY <2>1, <2>2
<1>3. \A u \in Users : rows[u] = None <=> rows'[u] = None
    BY <1>2, NoRowAssumption
<1>4. rows' \in [Users -> Row \cup {None}]
    <2>1. \A u \in Users : rows'[u] \in Row \cup {None}
        BY <1>2
    <2>2. rows' = [u \in Users |-> rows'[u]]
        BY DEF SetUpdateKeyFlag
    <2> QED
        BY <2>1, <2>2
<1> QED
    BY <1>1, <1>2, <1>3, <1>4

\* The effect of an Enrol on the logins: it is refused, or finds no row, or
\* changes one.
LEMMA EnrolLogins ==
    ASSUME TypeOK, LoginInv, NEW l \in Logins, Enrol(l)
    PROVE  /\ UNCHANGED <<grants, born, who, snapshot, answered, gone, granted>>
           /\ place[l] = "read" /\ snapshot[l] # None /\ snapshot[l].updateKey
           /\ \/ place'[l] = "in" /\ enrolled'[l] = snapshot[l].grant
              \/ place'[l] = "out" /\ enrolled'[l] = enrolled[l]
           /\ \/ UNCHANGED <<rows, stored>>
              \/ place'[l] = "in" /\ rows[who[l][1]] # None
           /\ \A m \in Logins \ {l} : place'[m] = place[m] /\ enrolled'[m] = enrolled[m]
<1>1. /\ UNCHANGED <<grants, born, who, snapshot, answered, gone, granted>>
      /\ place[l] = "read" /\ snapshot[l] # None /\ snapshot[l].updateKey
    BY DEF Enrol, LoginInv
<1>2. CASE /\ place' = [place EXCEPT ![l] = "in"]
           /\ enrolled' = [enrolled EXCEPT ![l] = snapshot[l].grant]
           /\ UNCHANGED <<rows, stored>> \/ rows[who[l][1]] # None
    <2>1. /\ place'[l] = "in" /\ enrolled'[l] = snapshot[l].grant
          /\ \A m \in Logins \ {l} : place'[m] = place[m] /\ enrolled'[m] = enrolled[m]
        BY ONLY TypeOK, <1>2 DEF TypeOK
    <2> QED
        BY <1>1, <1>2, <2>1
<1>3. CASE place' = [place EXCEPT ![l] = "out"] /\ UNCHANGED <<enrolled, rows, stored>>
    <2>1. /\ place'[l] = "out"
          /\ \A m \in Logins \ {l} : place'[m] = place[m] /\ enrolled'[m] = enrolled[m]
        BY ONLY TypeOK, <1>3 DEF TypeOK
    <2> QED
        BY <1>1, <1>3, <2>1
<1> QED
    BY <1>2, <1>3 DEF Enrol

\* An update stores the key in the row and takes the permission away.
LEMMA EnrolRow ==
    ASSUME TypeOK, LoginInv, NEW l \in Logins, Enrol(l),
           place'[l] = "in", rows[who[l][1]] # None
    PROVE  \E u \in Users, k \in Keys :
              /\ who[l] = <<u, k>> /\ rows[u] # None /\ rows'[u] \in Row
              /\ rows'[u].pubKey = k /\ rows'[u].updateKey = FALSE
              /\ rows'[u].life = rows[u].life /\ rows'[u].grant = rows[u].grant
              /\ rows'[u].isAp = rows[u].isAp
              /\ \A v \in Users \ {u} : rows'[v] = rows[v]
              /\ rows' \in [Users -> Row \cup {None}]
              /\ k \in stored'[rows[u].life]
              /\ \A x \in 1..MaxRows : stored[x] \subseteq stored'[x]
              /\ stored' \in [1..MaxRows -> SUBSET Keys]
<1>1. PICK u \in Users, k \in Keys : who[l] = <<u, k>>
    BY DEF Enrol, LoginInv
<1> DEFINE row == [rows[u] EXCEPT !.pubKey = k, !.updateKey = FALSE]
<1>2. /\ rows[u] # None
      /\ rows' = [rows EXCEPT ![u].pubKey = k, ![u].updateKey = FALSE]
      /\ stored' = [stored EXCEPT ![rows[u].life] = @ \cup {k}]
    <2>1. place' # [place EXCEPT ![l] = "out"]
        BY DEF TypeOK
    <2> QED
        BY <1>1, <2>1 DEF Enrol
<1>3. rows[u] \in Row /\ row \in Row
    <2>1. rows[u] \in Row
        BY <1>2 DEF TypeOK
    <2> QED
        BY <2>1 DEF Row
<1>4. rows' = [rows EXCEPT ![u] = row]
    BY <1>2 DEF TypeOK
<1>5. /\ row.pubKey = k /\ row.updateKey = FALSE /\ row.isAp = rows[u].isAp
      /\ row.life = rows[u].life /\ row.grant = rows[u].grant
      /\ rows[u].life \in 1..MaxRows
    BY <1>3 DEF Row
<1> HIDE DEF row
<1>6. /\ rows'[u] = row /\ \A v \in Users \ {u} : rows'[v] = rows[v]
      /\ rows' \in [Users -> Row \cup {None}]
    BY <1>3, <1>4 DEF TypeOK
<1>7. /\ k \in stored'[rows[u].life]
      /\ \A x \in 1..MaxRows : stored[x] \subseteq stored'[x]
      /\ stored' \in [1..MaxRows -> SUBSET Keys]
    BY <1>2, <1>5 DEF TypeOK
<1> QED
    BY <1>1, <1>2, <1>3, <1>5, <1>6, <1>7

-----------------------------------------------------------------------------
(* Every step keeps each part of the invariant.                            *)

LEMMA InitIInv == Init => IInv
<1> SUFFICES ASSUME Init PROVE IInv
    OBVIOUS
<1> USE DEF Init
<1>1. TypeOK
    <2>1. adding \in [names : Seq(Users), isAp : BOOLEAN, updateKey : BOOLEAN]
        BY EmptySeq DEF Idle
    <2> QED
        BY <2>1, BoundsAssumption DEF TypeOK
<1>2. LoginInv /\ GrantInv /\ LifeInv /\ RoleInv
    BY DEF LoginInv, GrantInv, LifeInv, RoleInv
<1>3. RowInv /\ OneKeyPerGrant /\ AcceptedWasStored
    BY DEF RowInv, OneKeyPerGrant, AcceptedWasStored
<1> QED
    BY <1>1, <1>2, <1>3 DEF IInv

LEMMA NextTypeOK == TypeOK /\ LoginInv /\ [Next]_vars => TypeOK'
<1> SUFFICES ASSUME TypeOK, LoginInv, [Next]_vars PROVE TypeOK'
    OBVIOUS
<1>1. ASSUME NEW names \in NameLists, NEW isAp \in BOOLEAN, NEW updateKey \in BOOLEAN,
             AddUsers(names, isAp, updateKey)
      PROVE  TypeOK'
    <2>1. names \in Seq(Users)
        <3>1. CASE \E u \in Users : names = <<u>>
            BY <3>1
        <3>2. CASE \E u, v \in Users : names = <<u, v>>
            BY <3>2
        <3> QED
            BY <3>1, <3>2 DEF NameLists
    <2> QED
        BY <1>1, <2>1 DEF AddUsers, tableVars, loginVars, TypeOK
<1>2. CASE AddOne
    <2>1. adding' \in [names : Seq(Users), isAp : BOOLEAN, updateKey : BOOLEAN]
        <3>1. Idle \in [names : Seq(Users), isAp : BOOLEAN, updateKey : BOOLEAN]
            BY EmptySeq DEF Idle
        <3>2. Tail(adding.names) \in Seq(Users)
            BY <1>2, HeadTailProperties DEF AddOne, TypeOK
        <3>3. adding' = Idle \/ adding' = [adding EXCEPT !.names = Tail(@)]
            BY <1>2 DEF AddOne
        <3> QED
            BY <3>1, <3>2, <3>3 DEF TypeOK
    <2>2. UNCHANGED <<loginVars, granted>>
        BY <1>2 DEF AddOne
    <2>3. CASE UNCHANGED tableVars
        BY <2>1, <2>2, <2>3 DEF tableVars, loginVars, TypeOK
    <2>4. CASE ~UNCHANGED tableVars
        <3>1. /\ rows' \in [Users -> Row \cup {None}]
              /\ born' = born + 1 /\ born + 1 \in 1..MaxRows
              /\ grants' \in 0..MaxGrants /\ UNCHANGED <<stored, gone>>
            BY <1>2, <2>4, AddOneRow
        <3>2. born' \in 0..MaxRows
            BY <3>1, BoundsAssumption
        <3> QED
            BY <2>1, <2>2, <3>1, <3>2 DEF loginVars, TypeOK
    <2> QED
        BY <2>3, <2>4
<1>3. ASSUME NEW names \in SUBSET Users, RemoveUsers(names) PROVE TypeOK'
    <2>1. gone' \subseteq 1..MaxRows
        <3>1. \A u \in Users : rows[u] # None => rows[u].life \in 1..MaxRows
            BY DEF Row, TypeOK
        <3>2. ASSUME NEW x \in gone' PROVE x \in 1..MaxRows
            <4>1. x \in gone \/ \E u \in names : rows[u] # None /\ x = rows[u].life
                BY <1>3 DEF RemoveUsers
            <4> QED
                BY <3>1, <4>1 DEF TypeOK
        <3> QED
            BY <3>2
    <2>2. rows' \in [Users -> Row \cup {None}]
        BY <1>3 DEF RemoveUsers, TypeOK
    <2> QED
        BY <1>3, <2>1, <2>2 DEF RemoveUsers, loginVars, TypeOK
<1>4. ASSUME NEW names \in SUBSET Users, NEW value \in BOOLEAN,
             SetUpdateKeyFlag(value, names)
      PROVE  TypeOK'
    <2>1. rows' \in [Users -> Row \cup {None}] /\ grants' \in 0..MaxGrants
        BY <1>4, SetFlagRows
    <2> QED
        BY <1>4, <2>1 DEF SetUpdateKeyFlag, loginVars, TypeOK
<1>5. ASSUME NEW l \in Logins, RefuseBlank(l) \/ Match(l) \/ Mismatch(l) PROVE TypeOK'
    BY <1>5 DEF RefuseBlank, Match, Mismatch, tableVars, TypeOK
<1>6. ASSUME NEW l \in Logins, NEW u \in Users, NEW k \in Keys, Select(l, u, k)
      PROVE  TypeOK'
    <2>1. answered' \in [Logins -> SUBSET Logins]
        BY <1>6 DEF Select, Answers, TypeOK
    <2>2. snapshot' \in [Logins -> Row \cup {None}]
        BY <1>6 DEF Select, TypeOK
    <2>3. /\ place' \in [Logins -> {"new", "read", "in", "out"}]
          /\ who' \in [Logins -> (Users \X Keys) \cup {None}]
        BY <1>6 DEF Select, TypeOK
    <2>4. UNCHANGED <<tableVars, adding, enrolled, granted>>
        BY <1>6 DEF Select
    <2> QED
        BY <2>1, <2>2, <2>3, <2>4 DEF tableVars, TypeOK
<1>7. ASSUME NEW l \in Logins, Enrol(l) PROVE TypeOK'
    <2>2. snapshot[l].grant \in 0..MaxGrants
        BY <1>7 DEF Enrol, LoginInv, TypeOK, Row
    <2>3. rows' \in [Users -> Row \cup {None}] /\ stored' \in [1..MaxRows -> SUBSET Keys]
        <3>1. CASE UNCHANGED <<rows, stored>>
            BY <3>1 DEF TypeOK
        <3>2. CASE ~UNCHANGED <<rows, stored>>
            BY <1>7, <3>2, EnrolLogins, EnrolRow
        <3> QED
            BY <3>1, <3>2
    <2>4. /\ enrolled' \in [Logins -> 0..MaxGrants]
          /\ place' \in [Logins -> {"new", "read", "in", "out"}]
        BY <1>7, <2>2 DEF Enrol, TypeOK
    <2>5. UNCHANGED <<gone, grants, born, adding, who, snapshot, answered, granted>>
        BY <1>7 DEF Enrol
    <2> QED
        BY <2>3, <2>4, <2>5 DEF TypeOK
<1>8. ASSUME NEW l \in Logins, NEW kind \in {"reverse", "direct"}, Forward(l, kind)
      PROVE  TypeOK'
    BY <1>8 DEF Forward, tableVars, loginVars, TypeOK
<1>9. CASE UNCHANGED vars
    BY <1>9 DEF vars, tableVars, loginVars, TypeOK
<1> QED
    BY <1>1, <1>2, <1>3, <1>4, <1>5, <1>6, <1>7, <1>8, <1>9
    DEF Next, Commands, Login, Check

LEMMA NextLoginInv == TypeOK /\ LoginInv /\ [Next]_vars => LoginInv'
<1> SUFFICES ASSUME TypeOK, LoginInv, [Next]_vars PROVE LoginInv'
    OBVIOUS
<1>1. ASSUME UNCHANGED loginVars PROVE LoginInv'
    BY <1>1 DEF loginVars, LoginInv
<1>2. ASSUME NEW l \in Logins, RefuseBlank(l) \/ Match(l) \/ Mismatch(l) PROVE LoginInv'
    <2>1. /\ UNCHANGED <<who, snapshot, answered, enrolled>>
          /\ place[l] \in {"new", "read"} /\ place'[l] \in {"in", "out"}
          /\ place'[l] = "in" => place[l] = "read"
          /\ \A m \in Logins \ {l} : place'[m] = place[m]
        BY <1>2 DEF RefuseBlank, Match, Mismatch, TypeOK
    <2>2. \A m \in Logins : answered[m] \subseteq Logins
        BY DEF TypeOK
    <2> QED
        BY <2>1, <2>2 DEF LoginInv
<1>3. ASSUME NEW l \in Logins, NEW u \in Users, NEW k \in Keys, Select(l, u, k)
      PROVE  LoginInv'
    <2>1. /\ place[l] = "new" /\ UNCHANGED enrolled
          /\ who'[l] \in Users \X Keys /\ answered'[l] = Answers
          /\ \/ snapshot'[l] = snapshot[l] /\ place'[l] = "out"
             \/ snapshot'[l] # None /\ place'[l] = "read"
        BY <1>3 DEF Select, TypeOK
    <2>2. \A m \in Logins \ {l} :
              /\ place'[m] = place[m] /\ who'[m] = who[m]
              /\ answered'[m] = answered[m] /\ snapshot'[m] = snapshot[m]
        BY <1>3 DEF Select, TypeOK
    <2>3. \A m \in Logins : m \in Answers => place[m] \in {"in", "out"}
        BY DEF Answers
    <2>4. Answers \subseteq Logins /\ \A m \in Logins : answered[m] \subseteq Logins
        BY DEF Answers, TypeOK
    <2>5. ASSUME NEW m \in Logins, NEW n \in answered'[m]
          PROVE  place'[n] \in {"in", "out"}
        <3>1. n \in Logins /\ place[n] \in {"in", "out"}
            BY <2>1, <2>2, <2>3, <2>4 DEF LoginInv
        <3> QED
            BY <2>1, <2>2, <3>1
    <2>6. ASSUME NEW m \in Logins
          PROVE  /\ place'[m] \in {"read", "in"} => snapshot'[m] # None
                 /\ snapshot'[m] # None => who'[m] \in Users \X Keys /\ place'[m] # "new"
                 /\ enrolled'[m] # 0 => place'[m] = "in"
        BY <2>1, <2>2 DEF LoginInv
    <2> QED
        BY <2>5, <2>6 DEF LoginInv
<1>4. ASSUME NEW l \in Logins, Enrol(l) PROVE LoginInv'
    <2>1. /\ place[l] = "read" /\ UNCHANGED <<who, snapshot, answered>>
          /\ \/ place'[l] = "in"
             \/ place'[l] = "out" /\ enrolled'[l] = enrolled[l]
          /\ \A m \in Logins \ {l} : place'[m] = place[m] /\ enrolled'[m] = enrolled[m]
        BY <1>4 DEF Enrol, TypeOK
    <2>2. \A m \in Logins : answered[m] \subseteq Logins
        BY DEF TypeOK
    <2> QED
        BY <2>1, <2>2 DEF LoginInv
<1> QED
    BY <1>1, <1>2, <1>3, <1>4
    DEF Next, Commands, Login, Check, AddUsers, AddOne, RemoveUsers, SetUpdateKeyFlag,
        Forward, vars

\* The steps of a login that leave the table, the copies and the keys alone.
LEMMA QuietSteps ==
    ASSUME NEW l \in Logins, RefuseBlank(l) \/ Match(l) \/ Mismatch(l)
    PROVE  UNCHANGED <<tableVars, snapshot, enrolled, who, answered, granted>>
BY DEF RefuseBlank, Match, Mismatch

LEMMA NextRowInv == TypeOK /\ LoginInv /\ RowInv /\ [Next]_vars => RowInv'
<1> SUFFICES ASSUME TypeOK, LoginInv, RowInv, [Next]_vars PROVE RowInv'
    OBVIOUS
<1>0. grants \in Nat /\ born \in Nat
    BY BoundsAssumption DEF TypeOK
<1>t. /\ \A u \in Users : rows[u] # None => rows[u].grant \in Nat /\ rows[u].life \in Nat
      /\ \A l \in Logins : snapshot[l] # None =>
            snapshot[l].grant \in Nat /\ snapshot[l].life \in Nat
      /\ \A l \in Logins : enrolled[l] \in Nat
    BY RowType, BoundsAssumption DEF Row, TypeOK
<1>1. ASSUME UNCHANGED <<tableVars, snapshot, enrolled>> PROVE RowInv'
    BY <1>1 DEF tableVars, RowInv
<1>2. ASSUME AddOne, ~UNCHANGED tableVars PROVE RowInv'
    <2>1. PICK u \in Users :
              /\ rows'[u].life = born + 1 /\ born' = born + 1
              /\ rows'[u].grant = grants' /\ grants' \in {grants, grants + 1}
              /\ \A v \in Users \ {u} : rows'[v] = rows[v]
        BY <1>2, AddOneRow
    <2>2. UNCHANGED <<snapshot, enrolled>>
        BY <1>2 DEF AddOne, loginVars
    <2> QED
        BY <1>0, <1>t, <2>1, <2>2 DEF RowInv
<1>3. ASSUME NEW names \in SUBSET Users, RemoveUsers(names) PROVE RowInv'
    BY <1>3 DEF RemoveUsers, loginVars, RowInv
<1>4. ASSUME NEW names \in SUBSET Users, NEW value \in BOOLEAN,
             SetUpdateKeyFlag(value, names)
      PROVE  RowInv'
    <2>1. UNCHANGED <<born, snapshot, enrolled>>
        BY <1>4 DEF SetUpdateKeyFlag, loginVars
    <2>2. /\ grants' \in {grants, grants + 1}
          /\ \A u \in Users :
                 /\ rows[u] = None <=> rows'[u] = None
                 /\ rows[u] # None =>
                       /\ rows'[u].life = rows[u].life
                       /\ \/ rows'[u].grant = grants + 1 /\ grants' = grants + 1
                          \/ rows'[u].grant = rows[u].grant
        BY <1>4, SetFlagRows
    <2> QED
        BY <1>0, <1>t, <2>1, <2>2 DEF RowInv
<1>5. ASSUME NEW l \in Logins, NEW u \in Users, NEW k \in Keys, Select(l, u, k)
      PROVE  RowInv'
    BY <1>5 DEF Select, tableVars, RowInv, TypeOK
<1>6. ASSUME NEW l \in Logins, Enrol(l) PROVE RowInv'
    <2>1. /\ UNCHANGED <<grants, born, snapshot>> /\ snapshot[l] # None
          /\ \/ enrolled' = [enrolled EXCEPT ![l] = snapshot[l].grant]
             \/ UNCHANGED enrolled
        BY <1>6 DEF Enrol, LoginInv
    <2>2. \A m \in Logins : enrolled'[m] <= grants
        BY <2>1 DEF RowInv, TypeOK
    <2>3. CASE UNCHANGED <<rows, stored>>
        BY <2>1, <2>2, <2>3 DEF RowInv
    <2>4. CASE ~UNCHANGED <<rows, stored>>
        <3>1. PICK u \in Users :
                  /\ rows[u] # None
                  /\ rows'[u].life = rows[u].life /\ rows'[u].grant = rows[u].grant
                  /\ \A v \in Users \ {u} : rows'[v] = rows[v]
            BY <1>6, <2>4, EnrolLogins, EnrolRow
        <3> QED
            BY <2>1, <2>2, <3>1 DEF RowInv
    <2> QED
        BY <2>3, <2>4
<1>7. ASSUME UNCHANGED <<tableVars, loginVars>> PROVE RowInv'
    BY <1>1, <1>7 DEF loginVars
<1> QED
    BY <1>1, <1>2, <1>3, <1>4, <1>5, <1>6, <1>7, QuietSteps
    DEF Next, Commands, Login, Check, AddUsers, Forward, vars, AddOne

\* The effect of a Select, login by login.
LEMMA SelectLogins ==
    ASSUME TypeOK, LoginInv, NEW l \in Logins, NEW u \in Users, NEW k \in Keys,
           Select(l, u, k)
    PROVE  /\ UNCHANGED <<tableVars, enrolled, granted>>
           /\ place[l] = "new" /\ snapshot[l] = None
           /\ who'[l] = <<u, k>> /\ answered'[l] = Answers
           /\ \/ snapshot'[l] = None /\ place'[l] = "out"
              \/ rows[u] # None /\ snapshot'[l] = rows[u] /\ place'[l] = "read"
           /\ \A m \in Logins \ {l} :
                 /\ place'[m] = place[m] /\ who'[m] = who[m]
                 /\ answered'[m] = answered[m] /\ snapshot'[m] = snapshot[m]
BY DEF Select, LoginInv, TypeOK

LEMMA NextGrantInv ==
    TypeOK /\ LoginInv /\ RowInv /\ GrantInv /\ [Next]_vars => GrantInv'
<1> SUFFICES ASSUME TypeOK, LoginInv, RowInv, GrantInv, [Next]_vars PROVE GrantInv'
    OBVIOUS
<1>0. grants \in Nat /\ \A l \in Logins : enrolled[l] \in Nat /\ answered[l] \subseteq Logins
    BY BoundsAssumption DEF TypeOK
<1>u. \A l \in Logins : enrolled[l] # 0 => who[l][1] \in Users
    BY DEF LoginInv
<1>1. ASSUME UNCHANGED <<tableVars, loginVars>> PROVE GrantInv'
    BY <1>1 DEF tableVars, loginVars, GrantInv
<1>2. ASSUME AddOne, ~UNCHANGED tableVars PROVE GrantInv'
    <2>1. PICK u \in Users :
              /\ rows'[u].grant = grants' /\ grants' \in {grants, grants + 1}
              /\ rows'[u].updateKey => grants' = grants + 1
              /\ \A v \in Users \ {u} : rows'[v] = rows[v]
        BY <1>2, AddOneRow
    <2>2. UNCHANGED loginVars
        BY <1>2 DEF AddOne
    <2> QED
        BY <1>0, <1>u, <2>1, <2>2 DEF GrantInv, RowInv, loginVars
<1>3. ASSUME NEW names \in SUBSET Users, RemoveUsers(names) PROVE GrantInv'
    BY <1>u, <1>3 DEF RemoveUsers, loginVars, GrantInv
<1>4. ASSUME NEW names \in SUBSET Users, NEW value \in BOOLEAN,
             SetUpdateKeyFlag(value, names)
      PROVE  GrantInv'
    <2>1. UNCHANGED loginVars
        BY <1>4 DEF SetUpdateKeyFlag
    <2>2. \A u \in Users :
              /\ rows[u] = None <=> rows'[u] = None
              /\ rows[u] # None =>
                    \/ rows'[u].grant = grants + 1
                    \/ /\ rows'[u].grant = rows[u].grant
                       /\ rows'[u].updateKey => rows[u].updateKey
        BY <1>4, SetFlagRows
    <2> QED
        BY <1>0, <1>u, <2>1, <2>2 DEF GrantInv, RowInv, loginVars
<1>5. ASSUME NEW l \in Logins, RefuseBlank(l) \/ Match(l) \/ Mismatch(l) PROVE GrantInv'
    <2>1. \A m \in Logins : place'[m] = "read" => place[m] = "read"
        BY <1>5 DEF RefuseBlank, Match, Mismatch, TypeOK
    <2> QED
        BY <1>5, <2>1, QuietSteps DEF GrantInv, tableVars
<1>6. ASSUME NEW l \in Logins, NEW u \in Users, NEW k \in Keys, Select(l, u, k)
      PROVE  GrantInv'
    <2>1. rows' = rows /\ enrolled' = enrolled /\ enrolled[l] = 0
        BY <1>6, SelectLogins DEF tableVars, LoginInv
    <2>2. ASSUME NEW m \in Logins, place'[m] = "read", snapshot'[m].updateKey,
                 NEW n \in answered'[m], enrolled'[n] # 0, who'[n][1] = who'[m][1]
          PROVE  snapshot'[m].grant # enrolled'[n]
        <3>1. n \in Logins \ {l}
            BY <1>0, <1>6, <2>1, <2>2, SelectLogins DEF Answers
        <3>2. who'[n] = who[n]
            BY <1>6, <3>1, SelectLogins
        <3>3. CASE m = l
            <4>1. rows[u] # None /\ snapshot'[l] = rows[u] /\ who'[l][1] = u
                BY <1>6, <2>2, <3>3, SelectLogins
            <4> QED
                BY <2>1, <2>2, <3>1, <3>2, <3>3, <4>1 DEF GrantInv
        <3>4. CASE m # l
            <4>1. /\ place'[m] = place[m] /\ who'[m] = who[m]
                  /\ answered'[m] = answered[m] /\ snapshot'[m] = snapshot[m]
                BY <1>6, <3>4, SelectLogins
            <4> QED
                BY <2>1, <2>2, <3>2, <4>1 DEF GrantInv
        <3> QED
            BY <3>3, <3>4
    <2>3. \A m \in Logins : enrolled[m] # 0 => who'[m] = who[m]
        BY <1>6, <2>1, SelectLogins
    <2> QED
        BY <2>1, <2>2, <2>3 DEF GrantInv
<1>7. ASSUME NEW l \in Logins, Enrol(l) PROVE GrantInv'
    <2>1. ASSUME NEW m \in Logins, enrolled'[m] # 0,
                 rows'[who[m][1]] # None, rows'[who[m][1]].updateKey
          PROVE  rows'[who[m][1]].grant # enrolled'[m]
        <3>1. CASE rows[who[l][1]] # None /\ place'[l] = "in"
            <4>1. PICK u \in Users, k \in Keys :
                      /\ who[l] = <<u, k>> /\ rows'[u].updateKey = FALSE
                      /\ \A v \in Users \ {u} : rows'[v] = rows[v]
                BY <1>7, <3>1, EnrolRow
            <4>2. who[m][1] # u /\ m # l
                BY <2>1, <4>1
            <4>3. enrolled'[m] = enrolled[m]
                BY <1>7, <4>2, EnrolLogins
            <4>4. who[m][1] \in Users
                BY <1>u, <2>1, <4>3
            <4> QED
                BY <2>1, <4>1, <4>2, <4>3, <4>4 DEF GrantInv
        <3>2. CASE ~(rows[who[l][1]] # None /\ place'[l] = "in")
            <4>1. UNCHANGED <<rows, stored>>
                BY <1>7, <3>2, EnrolLogins
            <4>2. m # l \/ place'[l] = "out"
                BY <1>7, <2>1, <3>2, <4>1, EnrolLogins
            <4>3. enrolled'[m] = enrolled[m]
                BY <1>7, <4>2, EnrolLogins
            <4> QED
                BY <2>1, <4>1, <4>3 DEF GrantInv
        <3> QED
            BY <3>1, <3>2
    <2>2. ASSUME NEW m \in Logins, place'[m] = "read", snapshot[m].updateKey,
                 NEW n \in answered[m], enrolled'[n] # 0, who[n][1] = who[m][1]
          PROVE  snapshot[m].grant # enrolled'[n]
        <3>1. m # l /\ n # l /\ n \in Logins
            BY <1>0, <1>7, <2>2, EnrolLogins DEF LoginInv
        <3>2. place'[m] = place[m] /\ enrolled'[n] = enrolled[n]
            BY <1>7, <3>1, EnrolLogins
        <3> QED
            BY <2>2, <3>2 DEF GrantInv
    <2>3. UNCHANGED <<who, snapshot, answered>>
        BY <1>7, EnrolLogins
    <2> QED
        BY <2>1, <2>2, <2>3 DEF GrantInv
<1> QED
    BY <1>1, <1>2, <1>3, <1>4, <1>5, <1>6, <1>7
    DEF Next, Commands, Login, Check, AddUsers, Forward, vars, AddOne

LEMMA NextLifeInv ==
    TypeOK /\ LoginInv /\ LifeInv /\ [Next]_vars => LifeInv'
<1> SUFFICES ASSUME TypeOK, LoginInv, LifeInv, [Next]_vars PROVE LifeInv'
    OBVIOUS
<1>u. \A l \in Logins : snapshot[l] # None =>
          who[l][1] \in Users /\ snapshot[l].life \in 1..MaxRows
    BY RowType DEF LoginInv, Row
<1>r. \A u \in Users : rows[u] # None => rows[u].life \in 1..MaxRows
    BY RowType DEF Row
<1>1. ASSUME UNCHANGED <<tableVars, loginVars>> PROVE LifeInv'
    BY <1>1 DEF tableVars, loginVars, LifeInv
<1>2. ASSUME AddOne, ~UNCHANGED tableVars PROVE LifeInv'
    <2>1. PICK u \in Users :
              /\ rows[u] = None /\ rows'[u].pubKey = None
              /\ \A v \in Users \ {u} : rows'[v] = rows[v]
              /\ UNCHANGED <<stored, gone>>
        BY <1>2, AddOneRow
    <2>2. UNCHANGED <<who, snapshot>>
        BY <1>2 DEF AddOne, loginVars
    <2> QED
        BY <1>u, <2>1, <2>2 DEF LifeInv
<1>3. ASSUME NEW names \in SUBSET Users, RemoveUsers(names) PROVE LifeInv'
    <2>1. /\ UNCHANGED <<stored, who, snapshot>> /\ gone \subseteq gone'
          /\ \A u \in Users :
                \/ rows'[u] = rows[u]
                \/ rows'[u] = None /\ (rows[u] # None => rows[u].life \in gone')
        BY <1>3 DEF RemoveUsers, loginVars
    <2> QED
        BY <1>u, <2>1 DEF LifeInv
<1>4. ASSUME NEW names \in SUBSET Users, NEW value \in BOOLEAN,
             SetUpdateKeyFlag(value, names)
      PROVE  LifeInv'
    <2>1. UNCHANGED <<stored, gone, who, snapshot>>
        BY <1>4 DEF SetUpdateKeyFlag, loginVars
    <2>2. \A u \in Users :
              /\ rows[u] = None <=> rows'[u] = None
              /\ rows[u] # None =>
                    rows'[u].pubKey = rows[u].pubKey /\ rows'[u].life = rows[u].life
        BY <1>4, SetFlagRows
    <2> QED
        BY <1>u, <2>1, <2>2 DEF LifeInv
<1>5. ASSUME NEW l \in Logins, RefuseBlank(l) \/ Match(l) \/ Mismatch(l) PROVE LifeInv'
    BY <1>5, QuietSteps DEF LifeInv, tableVars
<1>6. ASSUME NEW l \in Logins, NEW u \in Users, NEW k \in Keys, Select(l, u, k)
      PROVE  LifeInv'
    <2>1. /\ UNCHANGED <<rows, stored, gone>> /\ who'[l][1] = u
          /\ snapshot'[l] = None \/ (rows[u] # None /\ snapshot'[l] = rows[u])
          /\ \A m \in Logins \ {l} : who'[m] = who[m] /\ snapshot'[m] = snapshot[m]
        BY <1>6, SelectLogins DEF tableVars
    <2> QED
        BY <2>1 DEF LifeInv
<1>7. ASSUME NEW l \in Logins, Enrol(l) PROVE LifeInv'
    <2>1. UNCHANGED <<who, snapshot, gone>>
        BY <1>7, EnrolLogins
    <2>2. CASE UNCHANGED <<rows, stored>>
        BY <2>1, <2>2 DEF LifeInv
    <2>3. CASE place'[l] = "in" /\ rows[who[l][1]] # None
        <3>1. PICK u \in Users, k \in Keys :
                  /\ rows[u] # None /\ rows'[u] \in Row /\ rows'[u].pubKey = k
                  /\ rows'[u].life = rows[u].life
                  /\ \A v \in Users \ {u} : rows'[v] = rows[v]
                  /\ k \in stored'[rows[u].life]
                  /\ \A x \in 1..MaxRows : stored[x] \subseteq stored'[x]
            BY <1>7, <2>3, EnrolRow
        <3>2. rows'[u] # None
            BY <3>1, NoRowAssumption
        <3> QED
            BY <1>u, <1>r, <2>1, <3>1, <3>2 DEF LifeInv
    <2> QED
        BY <1>7, <2>2, <2>3, EnrolLogins
<1> QED
    BY <1>1, <1>2, <1>3, <1>4, <1>5, <1>6, <1>7
    DEF Next, Commands, Login, Check, AddUsers, Forward, vars, AddOne

LEMMA NextRoleInv ==
    TypeOK /\ LoginInv /\ RowInv /\ RoleInv /\ [Next]_vars => RoleInv'
<1> SUFFICES ASSUME TypeOK, LoginInv, RowInv, RoleInv, [Next]_vars PROVE RoleInv'
    OBVIOUS
<1>g. \A x \in granted : x[1] \in Logins
    BY DEF TypeOK
<1>1. ASSUME UNCHANGED <<tableVars, loginVars, granted>> PROVE RoleInv'
    BY <1>1 DEF tableVars, loginVars, RoleInv
<1>2. ASSUME AddOne, ~UNCHANGED tableVars PROVE RoleInv'
    <2>1. PICK u \in Users :
              /\ rows'[u].life = born + 1
              /\ \A v \in Users \ {u} : rows'[v] = rows[v]
        BY <1>2, AddOneRow
    <2>2. UNCHANGED <<place, snapshot, granted>>
        BY <1>2 DEF AddOne, loginVars
    <2>3. /\ \A v \in Users \ {u} : rows[v] # None => rows[v].life # born + 1
          /\ \A l \in Logins : snapshot[l] # None => snapshot[l].life # born + 1
        <3>1. /\ born \in Nat
              /\ \A v \in Users : rows[v] # None => rows[v].life \in Nat
              /\ \A l \in Logins : snapshot[l] # None => snapshot[l].life \in Nat
            BY RowType, BoundsAssumption DEF Row, TypeOK
        <3> QED
            BY <3>1 DEF RowInv
    <2> QED
        BY <2>1, <2>2, <2>3 DEF RoleInv
<1>3. ASSUME NEW names \in SUBSET Users, RemoveUsers(names) PROVE RoleInv'
    BY <1>3 DEF RemoveUsers, loginVars, RoleInv
<1>4. ASSUME NEW names \in SUBSET Users, NEW value \in BOOLEAN,
             SetUpdateKeyFlag(value, names)
      PROVE  RoleInv'
    <2>1. UNCHANGED <<place, snapshot, granted>>
        BY <1>4 DEF SetUpdateKeyFlag, loginVars
    <2>2. \A u \in Users :
              /\ rows[u] = None <=> rows'[u] = None
              /\ rows[u] # None =>
                    rows'[u].isAp = rows[u].isAp /\ rows'[u].life = rows[u].life
        BY <1>4, SetFlagRows
    <2> QED
        BY <2>1, <2>2 DEF RoleInv
<1>5. ASSUME NEW l \in Logins, RefuseBlank(l) \/ Match(l) \/ Mismatch(l) PROVE RoleInv'
    <2>1. \A m \in Logins : place[m] = "in" => place'[m] = "in"
        BY <1>5 DEF RefuseBlank, Match, Mismatch, TypeOK
    <2> QED
        BY <1>5, <1>g, <2>1, QuietSteps DEF RoleInv, tableVars
<1>6. ASSUME NEW l \in Logins, NEW u \in Users, NEW k \in Keys, Select(l, u, k)
      PROVE  RoleInv'
    <2>1. /\ UNCHANGED <<rows, granted>> /\ place[l] = "new"
          /\ snapshot'[l] = None \/ (rows[u] # None /\ snapshot'[l] = rows[u])
          /\ \A m \in Logins \ {l} : place'[m] = place[m] /\ snapshot'[m] = snapshot[m]
        BY <1>6, SelectLogins DEF tableVars
    <2>2. \A x \in granted : x[1] # l
        BY <2>1 DEF RoleInv
    <2> QED
        BY <1>g, <2>1, <2>2 DEF RoleInv
<1>7. ASSUME NEW l \in Logins, Enrol(l) PROVE RoleInv'
    <2>1. /\ UNCHANGED <<snapshot, granted>>
          /\ \A m \in Logins : place[m] = "in" => place'[m] = "in"
        BY <1>7, EnrolLogins
    <2>2. CASE UNCHANGED <<rows, stored>>
        BY <1>g, <2>1, <2>2 DEF RoleInv
    <2>3. CASE place'[l] = "in" /\ rows[who[l][1]] # None
        <3>1. PICK u \in Users :
                  /\ rows[u] # None
                  /\ rows'[u].life = rows[u].life /\ rows'[u].isAp = rows[u].isAp
                  /\ \A v \in Users \ {u} : rows'[v] = rows[v]
            BY <1>7, <2>3, EnrolRow
        <3> QED
            BY <1>g, <2>1, <3>1 DEF RoleInv
    <2> QED
        BY <1>7, <2>2, <2>3, EnrolLogins
<1>8. ASSUME NEW l \in Logins, NEW kind \in {"reverse", "direct"}, Forward(l, kind)
      PROVE  RoleInv'
    <2>1. /\ UNCHANGED <<rows, snapshot, place>> /\ granted' = granted \cup {<<l, kind>>}
          /\ place[l] = "in" /\ (kind = "reverse" <=> snapshot[l].isAp)
        <3>1. snapshot[l].isAp \in BOOLEAN
            BY <1>8, RowType DEF Forward, LoginInv, Row
        <3> QED
            BY <1>8, <3>1 DEF Forward, tableVars, loginVars
    <2> QED
        BY <2>1 DEF RoleInv
<1> QED
    BY <1>1, <1>2, <1>3, <1>4, <1>5, <1>6, <1>7, <1>8
    DEF Next, Commands, Login, Check, AddUsers, vars, AddOne

LEMMA NextOneKeyPerGrant ==
    TypeOK /\ LoginInv /\ GrantInv /\ OneKeyPerGrant /\ [Next]_vars => OneKeyPerGrant'
<1> SUFFICES ASSUME TypeOK, LoginInv, GrantInv, OneKeyPerGrant, [Next]_vars
             PROVE  OneKeyPerGrant'
    OBVIOUS
<1>1. ASSUME UNCHANGED <<who, answered, enrolled>> PROVE OneKeyPerGrant'
    BY <1>1 DEF OneKeyPerGrant
<1>2. ASSUME NEW l \in Logins, NEW u \in Users, NEW k \in Keys, Select(l, u, k)
      PROVE  OneKeyPerGrant'
    <2>1. /\ UNCHANGED enrolled /\ enrolled[l] = 0
          /\ \A m \in Logins \ {l} : who'[m] = who[m] /\ answered'[m] = answered[m]
        BY <1>2, SelectLogins DEF LoginInv
    <2> QED
        BY <2>1 DEF OneKeyPerGrant
<1>3. ASSUME NEW l \in Logins, Enrol(l) PROVE OneKeyPerGrant'
    <2>1. ASSUME NEW m \in Logins \ {l}, place'[l] = "in",
                 enrolled'[l] # 0, enrolled'[l] = enrolled[m], who[l][1] = who[m][1]
          PROVE  l \notin answered[m] /\ m \notin answered[l]
        <3>1. /\ place[l] = "read" /\ snapshot[l].updateKey
              /\ enrolled'[l] = snapshot[l].grant
            BY <1>3, <2>1, EnrolLogins
        <3>2. l \notin answered[m]
            BY <3>1 DEF LoginInv
        <3>3. m \notin answered[l]
            <4>1. SUFFICES ASSUME m \in answered[l] PROVE FALSE
                OBVIOUS
            <4>2. enrolled[m] # 0 /\ who[m][1] = who[l][1]
                BY <2>1
            <4>3. snapshot[l].grant # enrolled[m]
                BY <3>1, <4>1, <4>2 DEF GrantInv
            <4> QED
                BY <2>1, <3>1, <4>3
        <3> QED
            BY <3>2, <3>3
    <2>2. /\ UNCHANGED <<who, answered>>
          /\ place'[l] = "in" \/ enrolled'[l] = enrolled[l]
          /\ \A m \in Logins \ {l} : enrolled'[m] = enrolled[m]
        BY <1>3, EnrolLogins
    <2> QED
        BY <2>1, <2>2 DEF OneKeyPerGrant
<1> QED
    BY <1>1, <1>2, <1>3, QuietSteps
    DEF Next, Commands, Login, Check, AddUsers, AddOne, RemoveUsers, SetUpdateKeyFlag,
        Forward, vars, loginVars

LEMMA NextAcceptedWasStored ==
    TypeOK /\ LoginInv /\ LifeInv /\ AcceptedWasStored /\ [Next]_vars
    => AcceptedWasStored'
<1> SUFFICES ASSUME TypeOK, LoginInv, LifeInv, AcceptedWasStored, [Next]_vars
             PROVE  AcceptedWasStored'
    OBVIOUS
<1>u. \A l \in Logins : snapshot[l] # None =>
          who[l][1] \in Users /\ who[l][2] \in Keys /\ snapshot[l].life \in 1..MaxRows
    BY RowType DEF LoginInv, Row
<1>1. ASSUME UNCHANGED <<loginVars, stored>>, gone \subseteq gone'
      PROVE  AcceptedWasStored'
    BY <1>1 DEF loginVars, AcceptedWasStored
<1>2. ASSUME NEW l \in Logins, RefuseBlank(l) \/ Mismatch(l) PROVE AcceptedWasStored'
    <2>1. \A m \in Logins : place'[m] = "in" => place[m] = "in"
        BY <1>2 DEF RefuseBlank, Mismatch, TypeOK
    <2> QED
        BY <1>2, <2>1, QuietSteps DEF AcceptedWasStored, tableVars
<1>3. ASSUME NEW l \in Logins, Match(l) PROVE AcceptedWasStored'
    <2>1. /\ place[l] = "read" /\ snapshot[l].pubKey = who[l][2]
          /\ \A m \in Logins \ {l} : place'[m] = place[m]
        BY <1>3 DEF Match, TypeOK
    <2>2. snapshot[l].pubKey \in stored[snapshot[l].life]
        BY <1>u, <2>1, NoneAssumption DEF LoginInv, LifeInv
    <2> QED
        BY <1>3, <2>1, <2>2, QuietSteps DEF AcceptedWasStored, tableVars
<1>4. ASSUME NEW l \in Logins, NEW u \in Users, NEW k \in Keys, Select(l, u, k)
      PROVE  AcceptedWasStored'
    <2>1. /\ UNCHANGED <<stored, gone>> /\ place'[l] # "in"
          /\ \A m \in Logins \ {l} :
                /\ place'[m] = place[m] /\ who'[m] = who[m]
                /\ snapshot'[m] = snapshot[m]
        BY <1>4, SelectLogins DEF tableVars
    <2> QED
        BY <2>1 DEF AcceptedWasStored
<1>5. ASSUME NEW l \in Logins, Enrol(l) PROVE AcceptedWasStored'
    <2>1. /\ UNCHANGED <<who, snapshot, gone>> /\ snapshot[l] # None
          /\ \A m \in Logins \ {l} : place'[m] = place[m]
        BY <1>5, EnrolLogins
    <2>2. \A m \in Logins : place[m] = "in" => snapshot[m].life \in 1..MaxRows
        BY <1>u DEF LoginInv
    <2>3. CASE place'[l] = "in" /\ rows[who[l][1]] # None
        <3>1. PICK u \in Users, k \in Keys :
                  /\ who[l] = <<u, k>> /\ k \in stored'[rows[u].life]
                  /\ \A x \in 1..MaxRows : stored[x] \subseteq stored'[x]
            BY <1>5, <2>3, EnrolRow
        <3> QED
            BY <2>1, <2>2, <3>1 DEF AcceptedWasStored, LifeInv
    <2>4. CASE ~(place'[l] = "in" /\ rows[who[l][1]] # None)
        <3>1. UNCHANGED stored
            BY <1>5, <2>4, EnrolLogins
        <3> QED
            BY <2>1, <2>4, <3>1 DEF AcceptedWasStored, LifeInv
    <2> QED
        BY <2>3, <2>4
<1> QED
    <2>1. \A names \in SUBSET Users : RemoveUsers(names) => gone \subseteq gone'
        BY DEF RemoveUsers
    <2>2. AddOne => UNCHANGED <<stored, gone>>
        BY DEF AddOne, tableVars
    <2> QED
        BY <1>1, <1>2, <1>3, <1>4, <1>5, <2>1, <2>2
        DEF Next, Commands, Login, Check, AddUsers, AddOne, RemoveUsers,
            SetUpdateKeyFlag, Forward, vars, tableVars

LEMMA InvariantHolds == Spec => []IInv
<1>1. IInv /\ [Next]_vars => IInv'
    BY NextTypeOK, NextLoginInv, NextRowInv, NextGrantInv, NextLifeInv, NextRoleInv,
       NextOneKeyPerGrant, NextAcceptedWasStored DEF IInv
<1> QED
    BY <1>1, InitIInv, PTL DEF Spec

-----------------------------------------------------------------------------
(* The theorems.                                                           *)

\* The users table, the logins and what they read keep their types (users.go).
THEOREM EnrolmentTypeOK == Spec => []TypeOK
<1>1. IInv => TypeOK
    BY DEF IInv
<1> QED
    BY <1>1, InvariantHolds, PTL

\* However many logins race, one permission lets in two of them only if neither
\* was answered when the other read the row (users.go:164 and 187).
THEOREM EnrolmentOneKeyPerGrant == Spec => []OneKeyPerGrant
<1>1. IInv => OneKeyPerGrant
    BY DEF IInv
<1> QED
    BY <1>1, InvariantHolds, PTL

\* A login is accepted with a key of its row, or of one that was removed while it
\* was checked (users.go:187).
THEOREM EnrolmentAcceptedWasStored == Spec => []AcceptedWasStored
<1>1. IInv => AcceptedWasStored
    BY DEF IInv
<1> QED
    BY <1>1, InvariantHolds, PTL

\* A row's user never both offers and uses services (sshserver.go:101, 104).
THEOREM EnrolmentOneRole == Spec => []OneRole
<1>1. IInv => OneRole
    <2> SUFFICES ASSUME IInv, NEW x \in granted, NEW y \in granted,
                        snapshot[x[1]].life = snapshot[y[1]].life
                 PROVE  x[2] = y[2]
        BY DEF OneRole
    <2>1. /\ x[1] \in Logins /\ x[2] \in {"reverse", "direct"}
          /\ y[1] \in Logins /\ y[2] \in {"reverse", "direct"}
        BY DEF IInv, TypeOK
    <2>2. snapshot[x[1]] # None /\ snapshot[y[1]] # None
        BY <2>1 DEF IInv, RoleInv, LoginInv
    <2>3. snapshot[x[1]].isAp = snapshot[y[1]].isAp
        BY <2>1, <2>2 DEF IInv, RoleInv
    <2>4. x[2] = "reverse" <=> y[2] = "reverse"
        BY <2>3 DEF IInv, RoleInv
    <2> QED
        BY <2>1, <2>4
<1> QED
    BY <1>1, InvariantHolds, PTL
=============================================================================
