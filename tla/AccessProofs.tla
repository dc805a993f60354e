---------------------------- MODULE AccessProofs ----------------------------
(***************************************************************************)
(* Theorems about the access resolver and its cache, for every set of      *)
(* users, roles, checks and changes.                                       *)
(***************************************************************************)
EXTENDS AccessCache, FiniteSetTheorems, TLAPS

\* Every row of the user and of the roles it holds has a level.
Graded(rowsOf, rolesOf, user) ==
    \A g \in {<<"user", user>>} \cup {<<"role", r>> : r \in rolesOf[user]} :
        \A row \in rowsOf[g] : row.level \in Levels

-----------------------------------------------------------------------------
\* A level that satisfies a stronger demand satisfies a weaker one.
LEMMA SatisfiesWeaker ==
    ASSUME NEW level \in Levels, NEW strong \in Levels, NEW weak \in Levels,
           Satisfies(strong, weak), Satisfies(level, strong)
    PROVE  Satisfies(level, weak)
BY DEF Satisfies, Levels, accessLevelRank

\* resolveAnyRole that allows the stronger demand allows the weaker one.
LEMMA RolesAllowWeaker ==
    ASSUME NEW strong \in Levels, NEW weak \in Levels, Satisfies(strong, weak),
           NEW pick, \A r \in DOMAIN pick : pick[r].level \in Levels,
           ResolveAnyRole(pick, strong) = "allow"
    PROVE  ResolveAnyRole(pick, weak) = "allow"
BY SatisfiesWeaker DEF ResolveAnyRole, Accepts

\* So does what the caller's own rows and roles say, whose undecided outcome
\* does not depend on the demand at all.
LEMMA OwnAllowsWeaker ==
    ASSUME NEW strong \in Levels, NEW weak \in Levels, Satisfies(strong, weak),
           NEW rowsOf, NEW rolesOf, NEW user, NEW type, NEW resource,
           Graded(rowsOf, rolesOf, user)
    PROVE  /\ "allow" \in OwnAccess(rowsOf, rolesOf, user, type, resource, strong)
              => "allow" \in OwnAccess(rowsOf, rolesOf, user, type, resource, weak)
           /\ "undecided" \in OwnAccess(rowsOf, rolesOf, user, type, resource, strong)
              => "undecided" \in OwnAccess(rowsOf, rolesOf, user, type, resource, weak)
<1> DEFINE own == FindGrant(rowsOf[<<"user", user>>], type, resource)
           Served(r) == FindGrant(rowsOf[<<"role", r>>], type, resource)
           having == {r \in rolesOf[user] : Served(r) # {}}
           picks == {p \in [having -> UNION {Served(r) : r \in having}] :
                         \A r \in having : p[r] \in Served(r)}
           Own(required) == OwnAccess(rowsOf, rolesOf, user, type, resource, required)
<1>1. \A required : Own(required) =
          IF own # {} THEN {IF Accepts(g, required) THEN "allow" ELSE "deny" : g \in own}
          ELSE {ResolveAnyRole(p, required) : p \in picks}
    BY DEF OwnAccess
<1>2. /\ \A g \in own : g.level \in Levels
      /\ \A r \in having : \A g \in Served(r) : g.level \in Levels
    BY DEF Graded, FindGrant, Rows
<1> HIDE DEF Own
<1>3. CASE own # {}
    <2>1. "undecided" \notin Own(strong)
        BY <1>1, <1>3
    <2>2. ASSUME "allow" \in Own(strong) PROVE "allow" \in Own(weak)
        <3>1. PICK g \in own : Accepts(g, strong)
            BY <1>1, <1>3, <2>2
        <3>2. Accepts(g, weak)
            BY <1>2, <3>1, SatisfiesWeaker DEF Accepts
        <3> QED BY <1>1, <1>3, <3>2
    <2> QED BY <2>1, <2>2 DEF Own
<1>4. CASE own = {}
    <2>1. \A required : Own(required) = {ResolveAnyRole(p, required) : p \in picks}
        BY <1>1, <1>4
    <2>2. \A p \in picks : \A r \in DOMAIN p : p[r].level \in Levels
        <3> TAKE p \in picks
        <3> TAKE r \in DOMAIN p
        <3>1. r \in having /\ p[r] \in Served(r)
            OBVIOUS
        <3> QED BY <3>1, <1>2
    <2>3. ASSUME "allow" \in Own(strong) PROVE "allow" \in Own(weak)
        <3>1. PICK p \in picks : ResolveAnyRole(p, strong) = "allow"
            BY <2>1, <2>3
        <3>2. ResolveAnyRole(p, weak) = "allow"
            BY <2>2, <3>1, RolesAllowWeaker
        <3> QED BY <2>1, <3>2
    <2>4. ASSUME "undecided" \in Own(strong) PROVE "undecided" \in Own(weak)
        <3>1. PICK p \in picks : ResolveAnyRole(p, strong) = "undecided"
            BY <2>1, <2>4
        <3>2. DOMAIN p = {}
            BY <3>1 DEF ResolveAnyRole
        <3>3. ResolveAnyRole(p, weak) = "undecided"
            BY <3>2 DEF ResolveAnyRole
        <3> QED BY <2>1, <3>3
    <2> QED BY <2>3, <2>4 DEF Own
<1> QED BY <1>3, <1>4

\* Whoever may be allowed to manage may be allowed to write, and whoever may be
\* allowed to write to read, through direct grants, roles and the cascade alike:
\* the search of MyLevel (manage, then write, then read) stops at the highest
\* level a user has, and a route that demands "read" lets in who may "manage".
THEOREM WeakerIsAllowed ==
    ASSUME NEW strong \in Levels, NEW weak \in Levels, Satisfies(strong, weak),
           NEW rowsOf, NEW rolesOf, NEW user, NEW type, NEW resource,
           Graded(rowsOf, rolesOf, user),
           TRUE \in HasAccessLevel(rowsOf, rolesOf, user, type, resource, strong)
    PROVE  TRUE \in HasAccessLevel(rowsOf, rolesOf, user, type, resource, weak)
<1> DEFINE Own(required) == OwnAccess(rowsOf, rolesOf, user, type, resource, required)
           Reach(r, required) == OwnAccess(rowsOf, rolesOf, user, "role", r, required)
           cascade == IF type = "user" THEN rolesOf[resource] ELSE {}
<1>1. \A required : TRUE \in HasAccessLevel(rowsOf, rolesOf, user, type, resource, required)
          <=> \/ "allow" \in Own(required)
              \/ "undecided" \in Own(required) /\ \E r \in cascade : "allow" \in Reach(r, required)
    BY DEF HasAccessLevel
<1>2. /\ "allow" \in Own(strong) => "allow" \in Own(weak)
      /\ "undecided" \in Own(strong) => "undecided" \in Own(weak)
    BY OwnAllowsWeaker
<1>3. \A r : "allow" \in Reach(r, strong) => "allow" \in Reach(r, weak)
    BY OwnAllowsWeaker
<1> HIDE DEF Own, Reach, cascade
<1> QED BY <1>1, <1>2, <1>3

\* A prohibited row for the exact user and resource decides: no role, wildcard
\* or cascade lets that user in (step 1 of HasAccessLevel).
THEOREM ProhibitedIsRefused ==
    ASSUME NEW required \in Levels, NEW rowsOf, NEW rolesOf, NEW user, NEW type, NEW resource,
           Rows(rowsOf[<<"user", user>>], type, resource) # {},
           \A g \in Rows(rowsOf[<<"user", user>>], type, resource) : g.effect = "prohibited"
    PROVE  HasAccessLevel(rowsOf, rolesOf, user, type, resource, required) = {FALSE}
<1>1. OwnAccess(rowsOf, rolesOf, user, type, resource, required) = {"deny"}
    BY DEF OwnAccess, FindGrant, Accepts
<1> QED BY <1>1 DEF HasAccessLevel

-----------------------------------------------------------------------------
\* The rows of the table and those a change is about to write or delete. A key
\* of the table never passes from one grantee to another, nor from one resource to
\* another, which is why the DEL for the grantee of the row that was looked up
\* reaches the cached list that the write made stale.
AllRows == table \cup UNION {change[w].row : w \in Changes}

SameTuple(t, row) ==
    /\ t.grant.no = row.grant.no
    /\ t.grantee = row.grantee /\ t.grant.resource = row.grant.resource

Numbered ==
    /\ created \in Nat
    /\ \A row \in table : row.grant.no # 0
    /\ \A row \in AllRows : row.grant.no \in 0 .. created

OneTuple ==
    \A row, other \in AllRows :
        row.grant.no = other.grant.no /\ row.grant.no # 0 =>
            row.grantee = other.grantee /\ row.grant.resource = other.grant.resource

\* A change is a record with these fields whose rows are rows of the table.
IsChange(k) ==
    /\ {"at", "row", "key", "seen", "commits"} \subseteq DOMAIN k
    /\ k.row \subseteq Row

AllChanges ==
    /\ change = [w \in Changes |-> change[w]]
    /\ \A w \in Changes : IsChange(change[w])

Shape ==
    /\ table \subseteq Row
    /\ cache = [key \in Keys |-> cache[key]]
    /\ AllChanges

FreshInv == Shape /\ Numbered /\ OneTuple /\ FreshUnlessRaced

\* The keys of different grantees, and the one of the roles, are different.
LEMMA KeysDiffer ==
    /\ \A g \in Grantees : AccessKey(g) \in Keys /\ AccessKey(g) # RolesKey
    /\ \A g \in Grantees : AccessKey(g)[2] = g
    /\ RolesKey \in Keys
    /\ \A key \in Keys : key = RolesKey \/ \E g \in Grantees : key = AccessKey(g)
BY DEF Keys, AccessKey, RolesKey

LEMMA NoChangeShape == IsChange(NoChange) /\ NoChange.row = {}
BY DEF NoChange, IsChange

LEMMA InitFresh == Init => FreshInv
<1> SUFFICES ASSUME Init PROVE FreshInv
    OBVIOUS
<1>1. /\ table \subseteq Row
      /\ IsFiniteSet(table)
      /\ \A row \in table : row.grant.no \in 1 .. Cardinality(table)
      /\ \A row, other \in table : row.grant.no = other.grant.no => row = other
    BY AccessAssumption DEF Init, AccessAssumption
<1>2. Cardinality(table) \in Nat
    BY <1>1, FS_CardinalityType
<1>3. AllRows = table
    BY NoChangeShape DEF AllRows, Init
<1>4. Numbered /\ OneTuple
    BY <1>1, <1>2, <1>3 DEF Numbered, OneTuple, Init
<1>5. Shape
    BY <1>1, NoChangeShape DEF Shape, AllChanges, Init
<1>6. FreshUnlessRaced
    BY DEF FreshUnlessRaced, Init
<1> QED BY <1>4, <1>5, <1>6 DEF FreshInv

\* A committed change of key: every other key still caches what the tables say,
\* and key has the DEL before it or is known to have gone astray.
LEMMA CommittedFresh ==
    Shape /\ FreshUnlessRaced =>
        \A w \in Changes, key \in Keys :
            /\ change[w].at # "invalidate"
            /\ \A other \in Keys \ {key} : Query(other)' = Query(other)
            /\ Committed(w, key) /\ UNCHANGED cache
            => /\ AllChanges'
               /\ \A v \in Changes : change'[v].row \subseteq change[v].row
               /\ FreshUnlessRaced'
<1> SUFFICES ASSUME Shape, FreshUnlessRaced, NEW w \in Changes, NEW key \in Keys,
                    change[w].at # "invalidate",
                    \A other \in Keys \ {key} : Query(other)' = Query(other),
                    Committed(w, key), UNCHANGED cache
             PROVE  /\ AllChanges'
                    /\ \A v \in Changes : change'[v].row \subseteq change[v].row
                    /\ FreshUnlessRaced'
    OBVIOUS
<1> DEFINE witnessed == [v \in Changes |-> IF v \in Unfinished THEN Witness(change[v], w)
                                           ELSE change[v]]
           begun == Witness([NoChange EXCEPT !.at = "invalidate", !.key = key,
                                             !.seen = Truths], w)
           ended == [NoChange EXCEPT !.at = "done"]
<1>1. \A k : IsChange(k) => /\ IsChange(Witness(k, w))
                            /\ Witness(k, w).at = k.at /\ Witness(k, w).key = k.key
                            /\ Witness(k, w).row = k.row
    BY DEF Witness, IsChange
<1>2. \A v \in Changes : /\ IsChange(witnessed[v])
                         /\ witnessed[v].at = change[v].at
                         /\ witnessed[v].key = change[v].key
                         /\ witnessed[v].row = change[v].row
    BY <1>1 DEF Shape, AllChanges
<1>3. /\ IsChange(begun) /\ begun.at = "invalidate" /\ begun.key = key
      /\ begun.row = {}
    <2> DEFINE fresh == [NoChange EXCEPT !.at = "invalidate", !.key = key, !.seen = Truths]
    <2>1. /\ IsChange(fresh) /\ fresh.row = {}
          /\ fresh.at = "invalidate" /\ fresh.key = key
        BY DEF NoChange, IsChange
    <2> QED BY <1>1, <2>1
<1>4. IsChange(ended) /\ ended.row = {} /\ ended.at = "done"
    BY DEF NoChange, IsChange
<1>5. \/ change' = [witnessed EXCEPT ![w] = begun] /\ astray' = astray
      \/ change' = [witnessed EXCEPT ![w] = ended] /\ astray' = astray \cup {key}
    BY DEF Committed
<1>6. witnessed = [v \in Changes |-> witnessed[v]]
    OBVIOUS
<1> HIDE DEF witnessed, begun, ended
<1>7. AllChanges'
    BY <1>2, <1>3, <1>4, <1>5, <1>6 DEF AllChanges
<1>8. \A v \in Changes : change'[v].row \subseteq change[v].row
    BY <1>2, <1>3, <1>4, <1>5, <1>6
<1>9. \A v \in Changes \ {w} : change'[v].at = change[v].at /\ change'[v].key = change[v].key
    BY <1>2, <1>5, <1>6
<1>10. \A other \in Keys : Pending(other) => Pending(other)'
    BY <1>9 DEF Pending, Unfinished
<1>11. Pending(key)' \/ key \in astray'
    BY <1>3, <1>5, <1>6 DEF Pending, Unfinished
<1>12. astray \subseteq astray'
    BY <1>5
<1>13. FreshUnlessRaced'
    BY <1>10, <1>11, <1>12 DEF FreshUnlessRaced
<1> QED BY <1>7, <1>8, <1>13

\* A write of rows of one grantee leaves what the other keys cache alone.
LEMMA OtherKeysKeep ==
    ASSUME NEW g \in Grantees, UNCHANGED holds,
           \A other \in Grantees \ {g} : RowsOf(other)' = RowsOf(other)
    PROVE  \A key \in Keys \ {AccessKey(g)} : Query(key)' = Query(key)
<1> SUFFICES ASSUME NEW key \in Keys \ {AccessKey(g)} PROVE Query(key)' = Query(key)
    OBVIOUS
<1>1. CASE key = RolesKey
    BY <1>1 DEF Query
<1>2. CASE \E other \in Grantees : key = AccessKey(other)
    <2>1. PICK other \in Grantees : key = AccessKey(other)
        BY <1>2
    <2>2. other # g /\ key[2] = other /\ key # RolesKey
        BY <2>1, KeysDiffer
    <2>3. RowsOf(other)' = RowsOf(other)
        BY <2>2
    <2> QED BY <2>2, <2>3 DEF Query
<1> QED BY <1>1, <1>2, KeysDiffer

\* What a change leaves of its rows, and the rows it leaves in the table, are
\* numbered as before.
LEMMA RowsRemain ==
    Numbered /\ OneTuple /\ AllRows' \subseteq AllRows /\ table' \subseteq table /\ UNCHANGED created
        => Numbered' /\ OneTuple'
BY DEF Numbered, OneTuple

LEMMA GrantFresh == FreshInv => \A w \in Changes : GrantWrite(w) => FreshInv'
<1> SUFFICES ASSUME FreshInv, NEW w \in Changes, GrantWrite(w) PROVE FreshInv'
    OBVIOUS
<1>1. PICK row \in change[w].row :
          /\ IF row.grant.no = 0
             THEN created' = created + 1 /\ table' = table \cup {[row EXCEPT !.grant.no = created + 1]}
             ELSE UNCHANGED created /\ table' = {t \in table : t.grant.no # row.grant.no} \cup {row}
          /\ UNCHANGED holds /\ Committed(w, AccessKey(row.grantee)) /\ UNCHANGED cache
    BY DEF GrantWrite
<1>2. row \in Row /\ row \in AllRows /\ row.grantee \in Grantees
    BY DEF FreshInv, Shape, AllChanges, IsChange, AllRows, Row
<1>3. created \in Nat /\ row.grant.no \in 0 .. created
    BY <1>2 DEF FreshInv, Numbered
<1> DEFINE new == IF row.grant.no = 0 THEN [row EXCEPT !.grant.no = created + 1] ELSE row
<1>4. /\ new \in Row /\ new.grantee = row.grantee
      /\ new.grant.resource = row.grant.resource
      /\ new.grant.no = IF row.grant.no = 0 THEN created + 1 ELSE row.grant.no
    BY <1>2, <1>3 DEF Row, Grant
<1>5. /\ created' = IF row.grant.no = 0 THEN created + 1 ELSE created
      /\ table' = {t \in table : t.grant.no # new.grant.no} \cup {new}
    <2>1. CASE row.grant.no = 0
        <3>1. \A t \in table : t.grant.no # created + 1
            BY <1>3 DEF FreshInv, Numbered, AllRows
        <3> QED BY <1>1, <1>4, <2>1, <3>1
    <2>2. CASE row.grant.no # 0
        BY <1>1, <2>2
    <2> QED BY <2>1, <2>2
<1> HIDE DEF new
<1>6. \A t \in table : t.grant.no = new.grant.no => t.grantee = row.grantee
    BY <1>2, <1>3, <1>4 DEF FreshInv, Numbered, OneTuple, AllRows
<1>7. \A other \in Grantees \ {row.grantee} : RowsOf(other)' = RowsOf(other)
    BY <1>4, <1>5, <1>6 DEF RowsOf
<1>8. \A key \in Keys \ {AccessKey(row.grantee)} : Query(key)' = Query(key)
    BY <1>1, <1>2, <1>7, OtherKeysKeep
<1>9. change[w].at # "invalidate"
    BY DEF GrantWrite
<1>10. /\ AllChanges' /\ FreshUnlessRaced'
       /\ \A v \in Changes : change'[v].row \subseteq change[v].row
    BY <1>1, <1>2, <1>8, <1>9, CommittedFresh, KeysDiffer DEF FreshInv
<1>11. Shape'
    BY <1>1, <1>4, <1>5, <1>10 DEF FreshInv, Shape
<1>12. AllRows' \subseteq AllRows \cup {new}
    BY <1>5, <1>10 DEF AllRows
<1>13. Numbered'
    BY <1>3, <1>4, <1>5, <1>12 DEF FreshInv, Numbered
<1>14. OneTuple'
    <2> SUFFICES ASSUME NEW a \in AllRows', NEW b \in AllRows',
                        a.grant.no = b.grant.no, a.grant.no # 0
                 PROVE  a.grantee = b.grantee /\ a.grant.resource = b.grant.resource
        BY DEF OneTuple
    <2>1. CASE row.grant.no = 0
        <3>1. \A other \in AllRows : other.grant.no # new.grant.no
            BY <1>3, <1>4, <2>1 DEF FreshInv, Numbered
        <3> QED BY <1>12, <3>1 DEF FreshInv, OneTuple
    <2>2. CASE row.grant.no # 0
        <3>1. new = row
            BY <2>2 DEF new
        <3> QED BY <1>2, <1>12, <3>1 DEF FreshInv, OneTuple
    <2> QED BY <2>1, <2>2
<1> QED BY <1>10, <1>11, <1>13, <1>14 DEF FreshInv

LEMMA RevokeFresh == FreshInv => \A w \in Changes : RevokeDelete(w) => FreshInv'
<1> SUFFICES ASSUME FreshInv, NEW w \in Changes, RevokeDelete(w) PROVE FreshInv'
    OBVIOUS
<1>1. PICK row \in change[w].row :
          IF \E t \in table : t.grant.no = row.grant.no
          THEN /\ table' = {t \in table : t.grant.no # row.grant.no}
               /\ UNCHANGED <<holds, created>>
               /\ Committed(w, AccessKey(row.grantee))
          ELSE /\ change' = [change EXCEPT ![w] = [NoChange EXCEPT !.at = "done"]]
               /\ UNCHANGED <<table, holds, created, check, astray, faults>>
    BY DEF RevokeDelete
<1>2. row \in AllRows /\ row.grantee \in Grantees /\ UNCHANGED cache /\ change[w].at \in {"delete", "blind"}
    BY DEF FreshInv, Shape, AllChanges, IsChange, AllRows, Row, RevokeDelete
<1>3. CASE \E t \in table : t.grant.no = row.grant.no
    <2>1. /\ table' = {t \in table : t.grant.no # row.grant.no}
          /\ UNCHANGED <<holds, created>> /\ Committed(w, AccessKey(row.grantee))
        BY <1>1, <1>3
    <2>2. \A t \in table : t.grant.no = row.grant.no => t.grantee = row.grantee
        BY <1>2 DEF FreshInv, Numbered, OneTuple, AllRows
    <2>3. \A other \in Grantees \ {row.grantee} : RowsOf(other)' = RowsOf(other)
        BY <2>1, <2>2 DEF RowsOf
    <2>4. \A key \in Keys \ {AccessKey(row.grantee)} : Query(key)' = Query(key)
        BY <1>2, <2>1, <2>3, OtherKeysKeep
    <2>5. /\ AllChanges' /\ FreshUnlessRaced'
          /\ \A v \in Changes : change'[v].row \subseteq change[v].row
        BY <1>2, <2>1, <2>4, CommittedFresh, KeysDiffer DEF FreshInv
    <2>6. Shape'
        BY <1>2, <2>1, <2>5 DEF FreshInv, Shape
    <2>7. AllRows' \subseteq AllRows /\ table' \subseteq table
        BY <2>1, <2>5 DEF AllRows
    <2> QED BY <2>1, <2>5, <2>6, <2>7, RowsRemain DEF FreshInv
<1>4. CASE ~\E t \in table : t.grant.no = row.grant.no
    <2> DEFINE ended == [NoChange EXCEPT !.at = "done"]
    <2>1. IsChange(ended) /\ ended.row = {} /\ ended.at = "done"
        BY DEF NoChange, IsChange
    <2>2. /\ change' = [change EXCEPT ![w] = ended]
          /\ UNCHANGED <<table, holds, created, cache, astray>>
        BY <1>1, <1>2, <1>4
    <2> HIDE DEF ended
    <2>3. AllChanges' /\ \A v \in Changes : change'[v].row \subseteq change[v].row
        BY <2>1, <2>2 DEF FreshInv, Shape, AllChanges
    <2>4. \A key \in Keys : (Pending(key) => Pending(key)') /\ Query(key)' = Query(key)
        BY <1>2, <2>1, <2>2 DEF FreshInv, Shape, AllChanges, Pending, Unfinished, Query, RowsOf
    <2>5. FreshUnlessRaced'
        BY <2>2, <2>4 DEF FreshInv, FreshUnlessRaced
    <2>6. AllRows' \subseteq AllRows /\ Shape'
        BY <2>2, <2>3 DEF AllRows, FreshInv, Shape
    <2> QED BY <2>2, <2>5, <2>6, RowsRemain DEF FreshInv
<1> QED BY <1>3, <1>4

LEMMA AssignFresh == FreshInv => \A w \in Changes : AssignRole(w) => FreshInv'
<1> SUFFICES ASSUME FreshInv, NEW w \in Changes, AssignRole(w) PROVE FreshInv'
    OBVIOUS
<1>1. /\ UNCHANGED <<table, created, cache>> /\ change[w].at # "invalidate"
      /\ Committed(w, RolesKey)
    BY DEF AssignRole
<1>2. \A key \in Keys \ {RolesKey} : Query(key)' = Query(key)
    BY <1>1 DEF Query, RowsOf
<1>3. /\ AllChanges' /\ FreshUnlessRaced'
      /\ \A v \in Changes : change'[v].row \subseteq change[v].row
    BY <1>1, <1>2, CommittedFresh, KeysDiffer DEF FreshInv
<1>4. Shape' /\ AllRows' \subseteq AllRows
    BY <1>1, <1>3 DEF FreshInv, Shape, AllRows
<1> QED BY <1>1, <1>3, <1>4, RowsRemain DEF FreshInv

\* The lookups of the two kinds of change: the row they go on with is one of
\* the grantee's, or a new one.
LEMMA LookupFresh ==
    FreshInv => \A w \in Changes : GrantLookup(w) \/ RevokeLookup(w) => FreshInv'
<1> SUFFICES ASSUME FreshInv, NEW w \in Changes, GrantLookup(w) \/ RevokeLookup(w)
             PROVE  FreshInv'
    OBVIOUS
<1>1. /\ UNCHANGED <<table, holds, created, cache, astray>>
      /\ \E row \in Row, at \in {"write", "delete", "blind"} :
             /\ row.grant.no = 0 \/ \E t \in table : SameTuple(t, row)
             /\ change' = [change EXCEPT ![w] = [NoChange EXCEPT !.at = at, !.row = {row}]]
    <2>1. CASE GrantLookup(w)
        <3>1. PICK g \in Grantees, resource \in {Resource, Wildcard}, level \in Given,
                   effect \in Effects :
              \E no \in IF Rows(RowsOf(g), Type, resource) = {} THEN {0}
                        ELSE {first.no : first \in First(Rows(RowsOf(g), Type, resource))} :
                  change' = [change EXCEPT ![w] = [NoChange EXCEPT
                      !.at = "write",
                      !.row = {[grantee |-> g,
                                grant |-> [no |-> no, type |-> Type, resource |-> resource,
                                           level |-> level, effect |-> effect]]}]]
            BY <2>1 DEF GrantLookup
        <3>6. PICK no \in IF Rows(RowsOf(g), Type, resource) = {} THEN {0}
                          ELSE {first.no : first \in First(Rows(RowsOf(g), Type, resource))} :
                  change' = [change EXCEPT ![w] = [NoChange EXCEPT
                      !.at = "write",
                      !.row = {[grantee |-> g,
                                grant |-> [no |-> no, type |-> Type, resource |-> resource,
                                           level |-> level, effect |-> effect]]}]]
            BY <3>1
        <3> DEFINE row == [grantee |-> g,
                           grant |-> [no |-> no, type |-> Type, resource |-> resource,
                                      level |-> level, effect |-> effect]]
        <3>2. no = 0 \/ \E t \in table : /\ t.grant.no = no /\ t.grantee = g
                                         /\ t.grant.resource = resource
            <4>1. \A first \in First(Rows(RowsOf(g), Type, resource)) :
                      first \in RowsOf(g) /\ first.resource = resource
                BY DEF First, Rows
            <4>2. no = 0 \/ \E first \in RowsOf(g) : no = first.no /\ first.resource = resource
                BY <4>1
            <4> QED BY <4>2 DEF RowsOf
        <3>3. no \in Nat
            BY <3>2 DEF FreshInv, Shape, Row, Grant
        <3>4. row \in Row
            BY <3>3, AccessAssumption DEF Row, Grant, AccessAssumption
        <3>5. row.grant.no = no /\ row.grantee = g /\ row.grant.resource = resource
            OBVIOUS
        <3> QED BY <2>1, <3>6, <3>2, <3>4, <3>5 DEF GrantLookup, SameTuple
    <2>2. CASE RevokeLookup(w)
        BY <2>2 DEF RevokeLookup, FreshInv, Shape, SameTuple
    <2> QED BY <2>1, <2>2
<1>2. PICK row \in Row, at \in {"write", "delete", "blind"} :
          /\ row.grant.no = 0 \/ \E t \in table : SameTuple(t, row)
          /\ change' = [change EXCEPT ![w] = [NoChange EXCEPT !.at = at, !.row = {row}]]
    BY <1>1
<1> DEFINE next == [NoChange EXCEPT !.at = at, !.row = {row}]
<1>3. IsChange(next) /\ next.row = {row} /\ next.at = at
    BY DEF NoChange, IsChange
<1>4. change' = [change EXCEPT ![w] = next]
    BY <1>2
<1>5. change[w].at = "idle"
    BY DEF GrantLookup, RevokeLookup
<1> HIDE DEF next
<1>6. AllChanges' /\ Shape'
    BY <1>1, <1>3, <1>4 DEF FreshInv, Shape, AllChanges
<1>7. \A key \in Keys : (Pending(key) => Pending(key)') /\ Query(key)' = Query(key)
    BY <1>1, <1>3, <1>4, <1>5 DEF FreshInv, Shape, AllChanges, Pending, Unfinished, Query, RowsOf
<1>8. FreshUnlessRaced'
    BY <1>1, <1>7 DEF FreshInv, FreshUnlessRaced
<1>9. AllRows' \subseteq AllRows \cup {row}
    <2>1. \A v \in Changes : change'[v].row \subseteq change[v].row \cup {row}
        BY <1>3, <1>4 DEF FreshInv, Shape, AllChanges
    <2>2. table' = table
        BY <1>1
    <2> QED BY <2>1, <2>2 DEF AllRows
<1>10. Numbered'
    BY <1>1, <1>2, <1>9 DEF FreshInv, Numbered, AllRows, SameTuple
<1>11. OneTuple'
    BY <1>2, <1>9 DEF FreshInv, OneTuple, AllRows, SameTuple
<1> QED BY <1>6, <1>8, <1>10, <1>11 DEF FreshInv

LEMMA InvalidateFresh == FreshInv => \A w \in Changes : Invalidate(w) => FreshInv'
<1> SUFFICES ASSUME FreshInv, NEW w \in Changes, Invalidate(w) PROVE FreshInv'
    OBVIOUS
<1> DEFINE ended == [NoChange EXCEPT !.at = "done"]
           key == change[w].key
<1>1. IsChange(ended) /\ ended.row = {} /\ ended.at = "done"
    BY DEF NoChange, IsChange
<1>2. /\ change' = [change EXCEPT ![w] = ended]
      /\ UNCHANGED <<table, holds, created>>
      /\ \/ cache' = [cache EXCEPT ![key] = {}] /\ astray' = astray \ {key}
         \/ cache' = cache /\ astray' = astray \cup {key}
    BY DEF Invalidate
<1> HIDE DEF ended
<1>3. AllChanges' /\ \A v \in Changes : change'[v].row \subseteq change[v].row
    BY <1>1, <1>2 DEF FreshInv, Shape, AllChanges
<1>4. \A other \in Keys \ {key} : Pending(other) => Pending(other)'
    BY <1>2 DEF Pending, Unfinished, FreshInv, Shape, AllChanges
<1>5. \A other \in Keys : Query(other)' = Query(other)
    BY <1>2 DEF Query, RowsOf
<1>6. FreshUnlessRaced'
    BY <1>2, <1>4, <1>5 DEF FreshInv, Shape, FreshUnlessRaced
<1>7. AllRows' \subseteq AllRows /\ Shape'
    BY <1>2, <1>3 DEF AllRows, FreshInv, Shape
<1> QED BY <1>2, <1>6, <1>7, RowsRemain DEF FreshInv

\* A step that changes neither the tables nor a change, and what a key caches
\* only to nothing or with the key's place in astray settled.
LEMMA CacheStepFresh ==
    FreshInv /\ UNCHANGED <<table, holds, created, change>> =>
        \A key : \/ UNCHANGED <<cache, astray>>
                 \/ cache' = [cache EXCEPT ![key] = {}] /\ astray' = astray \ {key}
                 \/ \E value :
                      /\ cache' = [cache EXCEPT ![key] = {value}]
                      /\ astray' = IF value = Query(key) THEN astray \ {key} ELSE astray \cup {key}
                 => FreshInv'
<1> SUFFICES ASSUME FreshInv, UNCHANGED <<table, holds, created, change>>, NEW key,
                    \/ UNCHANGED <<cache, astray>>
                    \/ cache' = [cache EXCEPT ![key] = {}] /\ astray' = astray \ {key}
                    \/ \E value :
                         /\ cache' = [cache EXCEPT ![key] = {value}]
                         /\ astray' = IF value = Query(key) THEN astray \ {key} ELSE astray \cup {key}
             PROVE  FreshInv'
    OBVIOUS
<1>1. \A other : (Pending(other)' <=> Pending(other)) /\ Query(other)' = Query(other)
    BY DEF Pending, Unfinished, Query, RowsOf
<1>2. cache = [other \in Keys |-> cache[other]]
    BY DEF FreshInv, Shape
<1>3. cache' = [other \in Keys |-> cache'[other]]
    BY <1>2
<1>4. FreshUnlessRaced'
    BY <1>1, <1>2 DEF FreshInv, FreshUnlessRaced
<1> QED BY <1>3, <1>4 DEF FreshInv, Shape, AllChanges, Numbered, OneTuple, AllRows

\* Every step keeps it.
LEMMA NextFresh == FreshInv /\ [Next]_vars => FreshInv'
<1> SUFFICES ASSUME FreshInv, [Next]_vars PROVE FreshInv'
    OBVIOUS
<1>1. ASSUME NEW c \in Checks, StartCheck(c) PROVE FreshInv'
    BY <1>1, CacheStepFresh DEF StartCheck
<1>2. ASSUME NEW c \in Checks, CacheGet(c) PROVE FreshInv'
    BY <1>2, CacheStepFresh DEF CacheGet
<1>3. ASSUME NEW c \in Checks, QueryDatabase(c) PROVE FreshInv'
    BY <1>3, CacheStepFresh DEF QueryDatabase
<1>4. ASSUME NEW c \in Checks, CacheSet(c) PROVE FreshInv'
    BY <1>4, CacheStepFresh DEF CacheSet
<1>5. ASSUME NEW key \in Keys, Expire(key) PROVE FreshInv'
    BY <1>5, CacheStepFresh DEF Expire
<1>6. CASE UNCHANGED vars
    BY <1>6, CacheStepFresh DEF vars
<1> QED
    BY <1>1, <1>2, <1>3, <1>4, <1>5, <1>6, GrantFresh, RevokeFresh, AssignFresh, LookupFresh,
       InvalidateFresh DEF Next

\* Redis never holds anything but what the tables hold, save under a key whose
\* DEL is still to come or that a raced fill or a lost DEL left behind.
THEOREM CacheStaysFresh == Spec => []FreshUnlessRaced
<1>1. Init => FreshInv
    BY InitFresh
<1>2. FreshInv /\ [Next]_vars => FreshInv'
    BY NextFresh
<1>3. FreshInv => FreshUnlessRaced
    BY DEF FreshInv
<1> QED BY <1>1, <1>2, <1>3, PTL DEF Spec

-----------------------------------------------------------------------------
(***************************************************************************)
(* A check reads the tables bit by bit. What it has read so far is         *)
(* compared with a view of them, the rows of every grantee and the roles   *)
(* of the caller: R and H below.                                           *)
(***************************************************************************)
RowsNow == [g \in Grantees |-> RowsOf(g)]

QueryIn(R, H, key) == IF key = RolesKey THEN H ELSE R[key[2]]

TruthsOf(R, H) ==
    HasAccessLevel(R, [u \in {Caller} |-> H], Caller, Type, Resource, Required)

UserGrantee == <<"user", Caller>>
RoleGrantee(r) == <<"role", r>>
Exact(R, g) == Rows(R[g], Type, Resource)
Wild(R, g) == Rows(R[g], Type, Wildcard)
Served(R, r) == FindGrant(R[RoleGrantee(r)], Type, Resource)

\* The roles in D may have been served rows none of which prohibits, and accept
\* says whether one of them accepts.
Weighed(R, D, accept, pick) ==
    /\ \A r \in D : Served(R, r) # {} =>
           pick[r] \in Served(R, r) /\ pick[r].effect # "prohibited"
    /\ accept <=> \E r \in D : Served(R, r) # {} /\ Accepts(pick[r], Required)

Decided(R, D, accept) == \E pick : Weighed(R, D, accept, pick)

\* The check k may have come where it stands by reading the view R, H alone.
Progress(k, R, H) ==
    /\ k.at # "userExact" => Exact(R, UserGrantee) = {}
    /\ k.at \notin {"userExact", "userWildcard"} => Wild(R, UserGrantee) = {}
    /\ k.at \in {"userExact", "userWildcard", "roles"} => k.accept = FALSE
    /\ k.at \in {"roleExact", "roleWildcard"} =>
           \E r \in H \ k.left :
               /\ k.role = {r} /\ k.left \subseteq H /\ k.accept \in BOOLEAN
               /\ Decided(R, H \ (k.left \cup {r}), k.accept)
               /\ k.at = "roleWildcard" => Exact(R, RoleGrantee(r)) = {}

\* ... or may have ended as it did.
Follows(k, R, H) ==
    \/ k.at \in Lookups /\ Progress(k, R, H)
    \/ k.at \in {"allowed", "denied"} /\ (k.at = "allowed") \in TruthsOf(R, H)

IsCheck(k) ==
    /\ {"at", "phase", "read", "left", "role", "accept", "misled", "seen", "commits"}
           \subseteq DOMAIN k
    /\ k.accept \in BOOLEAN

\* k goes on from old within the same window.
SameWindow(k, old) ==
    /\ IsCheck(k)
    /\ k.misled = old.misled /\ k.seen = old.seen /\ k.commits = old.commits
    /\ k.at \in Lookups \cup {"allowed", "denied"}
    /\ k.at \in Lookups => k.phase = "get"

LEMMA AtIs ==
    ASSUME NEW k, IsCheck(k), NEW lookup \in Lookups
    PROVE  /\ SameWindow(At(k, lookup), k) /\ At(k, lookup).at = lookup
           /\ At(k, lookup).left = k.left /\ At(k, lookup).role = k.role
           /\ At(k, lookup).accept = k.accept
  BY DEF At, IsCheck, SameWindow

LEMMA VerdictIs ==
    ASSUME NEW k, IsCheck(k), NEW allowed \in BOOLEAN
    PROVE  /\ SameWindow(Verdict(k, allowed), k)
           /\ Verdict(k, allowed).at \in {"allowed", "denied"}
           /\ (Verdict(k, allowed).at = "allowed") = allowed
  BY DEF Verdict, IsCheck, SameWindow, NoCheck, Lookups

\* The three ways a check ends: by a row of the user's own, by a role's that
\* prohibits, or by all the roles.
LEMMA OwnRowAnswers ==
    ASSUME NEW R, NEW H, NEW g \in FindGrant(R[UserGrantee], Type, Resource)
    PROVE  Accepts(g, Required) \in TruthsOf(R, H)
<1> DEFINE own == OwnAccess(R, [u \in {Caller} |-> H], Caller, Type, Resource, Required)
<1>1. (IF Accepts(g, Required) THEN "allow" ELSE "deny") \in own
  BY DEF OwnAccess, UserGrantee
<1>2. Accepts(g, Required) \in BOOLEAN
  BY DEF Accepts
<1> HIDE DEF own
<1>3. QED
  BY <1>1, <1>2 DEF TruthsOf, HasAccessLevel, own

\* A full pick of served rows gives one of the answers.
LEMMA PickAnswers ==
    ASSUME NEW R, NEW H, Exact(R, UserGrantee) = {}, Wild(R, UserGrantee) = {},
           NEW pick, \A r \in H : Served(R, r) # {} => pick[r] \in Served(R, r)
    PROVE  ResolveAnyRole([r \in {s \in H : Served(R, s) # {}} |-> pick[r]], Required)
               \in OwnAccess(R, [u \in {Caller} |-> H], Caller, Type, Resource, Required)
<1> DEFINE having == {s \in H : Served(R, s) # {}}
           q == [r \in having |-> pick[r]]
<1>1. FindGrant(R[<<"user", Caller>>], Type, Resource) = {}
  BY DEF FindGrant, Exact, Wild, UserGrantee
<1>2. q \in [having -> UNION {Served(R, r) : r \in having}] /\ \A r \in having : q[r] \in Served(R, r)
  OBVIOUS
<1> HIDE DEF q
<1>3. QED
  BY <1>1, <1>2 DEF OwnAccess, Served, RoleGrantee, q

LEMMA RolesAnswer ==
    ASSUME NEW R, NEW H, Exact(R, UserGrantee) = {}, Wild(R, UserGrantee) = {},
           NEW accept \in BOOLEAN, Decided(R, H, accept)
    PROVE  accept \in TruthsOf(R, H)
<1>1. PICK pick : Weighed(R, H, accept, pick)
  BY DEF Decided
<1> DEFINE having == {s \in H : Served(R, s) # {}}
           q == [r \in having |-> pick[r]]
           own == OwnAccess(R, [u \in {Caller} |-> H], Caller, Type, Resource, Required)
<1>2. ResolveAnyRole(q, Required) \in own
  BY <1>1, PickAnswers DEF Weighed
<1>3. ResolveAnyRole(q, Required) \in IF accept THEN {"allow"} ELSE {"deny", "undecided"}
  <2>1. DOMAIN q = having /\ \A r \in having : q[r] = pick[r] /\ q[r].effect # "prohibited"
    BY <1>1 DEF Weighed
  <2>2. accept <=> \E r \in having : Accepts(q[r], Required)
    BY <1>1, <2>1 DEF Weighed
  <2> HIDE DEF q
  <2>3. QED
    BY <2>1, <2>2 DEF ResolveAnyRole
<1> HIDE DEF q, own
<1>4. QED
  BY <1>2, <1>3, AccessAssumption DEF TruthsOf, HasAccessLevel, own, AccessAssumption

LEMMA VetoAnswers ==
    ASSUME NEW R, NEW H, Exact(R, UserGrantee) = {}, Wild(R, UserGrantee) = {},
           NEW r \in H, NEW g \in Served(R, r), g.effect = "prohibited"
    PROVE  FALSE \in TruthsOf(R, H)
<1> DEFINE pick == [s \in H |-> IF s = r THEN g ELSE CHOOSE x : x \in Served(R, s)]
           having == {s \in H : Served(R, s) # {}}
           q == [s \in having |-> pick[s]]
           own == OwnAccess(R, [u \in {Caller} |-> H], Caller, Type, Resource, Required)
<1>1. \A s \in H : Served(R, s) # {} => pick[s] \in Served(R, s)
  OBVIOUS
<1> HIDE DEF pick
<1>2. ResolveAnyRole(q, Required) \in own
  BY <1>1, PickAnswers
<1>3. q[r].effect = "prohibited" /\ r \in DOMAIN q
  BY DEF pick
<1> HIDE DEF q, own
<1>4. "deny" \in own
  BY <1>2, <1>3 DEF ResolveAnyRole
<1>5. QED
  BY <1>4 DEF TruthsOf, HasAccessLevel, own

LEMMA NextRoleFollows ==
    ASSUME NEW R, NEW H, NEW k, IsCheck(k), k.left \subseteq H, k.accept \in BOOLEAN,
           Exact(R, UserGrantee) = {}, Wild(R, UserGrantee) = {},
           Decided(R, H \ k.left, k.accept), NEW next \in NextRole(k)
    PROVE  Follows(next, R, H)
<1>1. CASE k.left = {}
  <2>1. next = Verdict(k, k.accept) /\ H \ k.left = H
    BY <1>1 DEF NextRole
  <2>2. QED
    BY <2>1, RolesAnswer, VerdictIs DEF Follows
<1>2. CASE k.left # {}
  <2>1. PICK r \in k.left : next = [At(k, "roleExact") EXCEPT !.role = {r}, !.left = @ \ {r}]
    BY <1>2 DEF NextRole
  <2>2. /\ next.at = "roleExact" /\ next.role = {r} /\ next.left = k.left \ {r}
        /\ next.accept = k.accept
    BY <2>1, AtIs DEF Lookups, SameWindow, IsCheck
  <2>3. H \ (next.left \cup {r}) = H \ k.left /\ r \in H \ next.left
    BY <2>2
  <2>4. Progress(next, R, H)
    BY <2>2, <2>3 DEF Progress
  <2>5. QED
    BY <2>2, <2>4 DEF Follows, Lookups
<1>3. QED
  BY <1>1, <1>2

\* The cases of Missing and Serving, for the lookup of a grantee's row.
LEMMA RowFollows ==
    ASSUME NEW R, NEW H, NEW k, IsCheck(k), k.at \in Lookups \ {"roles"},
           Progress(k, R, H), NEW next,
           LET value == QueryIn(R, H, KeyOf(k))
           IN  IF Found(k, value) = {} THEN next \in Missing(k)
               ELSE \E g \in Found(k, value) : next \in Serving(k, g)
    PROVE  Follows(next, R, H)
<1> DEFINE value == QueryIn(R, H, KeyOf(k))
<1>1. CASE k.at \in {"userExact", "userWildcard"}
  <2>1. value = R[UserGrantee]
    BY <1>1 DEF KeyOf, AccessKey, RolesKey, QueryIn, UserGrantee
  <2>2. Found(k, value) = IF k.at = "userExact" THEN Exact(R, UserGrantee)
                          ELSE Wild(R, UserGrantee)
    BY <1>1, <2>1 DEF Found, Exact, Wild
  <2>3. CASE Found(k, value) = {}
    <3>1. next \in Missing(k)
      BY <2>3
    <3>2. k.accept = FALSE
      BY <1>1 DEF Progress
    <3>3. CASE k.at = "userExact"
      <4>1. next = At(k, "userWildcard")
        BY <3>1, <3>3 DEF Missing
      <4>2. next.at = "userWildcard" /\ next.accept = FALSE
        BY <3>2, <4>1, AtIs DEF Lookups
      <4>3. QED
        BY <2>2, <2>3, <3>3, <4>2 DEF Follows, Progress, Lookups
    <3>4. CASE k.at = "userWildcard"
      <4>1. next = At(k, "roles")
        BY <3>1, <3>4 DEF Missing
      <4>2. next.at = "roles" /\ next.accept = FALSE
        BY <3>2, <4>1, AtIs DEF Lookups
      <4>3. Exact(R, UserGrantee) = {}
        BY <3>4 DEF Progress
      <4>4. QED
        BY <2>2, <2>3, <3>4, <4>2, <4>3 DEF Follows, Progress, Lookups
    <3>5. QED
      BY <1>1, <3>3, <3>4
  <2>4. CASE Found(k, value) # {}
    <3>1. PICK g \in Found(k, value) : next \in Serving(k, g)
      BY <2>4
    <3>2. next = Verdict(k, Accepts(g, Required))
      BY <1>1, <3>1 DEF Serving
    <3>3. g \in FindGrant(R[UserGrantee], Type, Resource)
      BY <1>1, <2>2, <3>1 DEF Progress, FindGrant, Exact, Wild
    <3>4. Accepts(g, Required) \in TruthsOf(R, H) /\ Accepts(g, Required) \in BOOLEAN
      BY <3>3, OwnRowAnswers DEF Accepts
    <3>5. QED
      BY <3>2, <3>4, VerdictIs DEF Follows
  <2>5. QED
    BY <2>3, <2>4
<1>2. CASE k.at \in {"roleExact", "roleWildcard"}
  <2>1. PICK r \in H \ k.left :
            /\ k.role = {r} /\ k.left \subseteq H /\ k.accept \in BOOLEAN
            /\ Decided(R, H \ (k.left \cup {r}), k.accept)
            /\ k.at = "roleWildcard" => Exact(R, RoleGrantee(r)) = {}
    BY <1>2 DEF Progress
  <2>2. Exact(R, UserGrantee) = {} /\ Wild(R, UserGrantee) = {}
    BY <1>2 DEF Progress
  <2>3. (CHOOSE s \in k.role : TRUE) = r
    BY <2>1
  <2>4. value = R[RoleGrantee(r)]
    BY <1>2, <2>3 DEF KeyOf, AccessKey, RolesKey, QueryIn, RoleGrantee
  <2>5. Found(k, value) = IF k.at = "roleExact" THEN Exact(R, RoleGrantee(r))
                          ELSE Wild(R, RoleGrantee(r))
    BY <1>2, <2>4 DEF Found, Exact, Wild
  <2>6. PICK pick : Weighed(R, H \ (k.left \cup {r}), k.accept, pick)
    BY <2>1 DEF Decided
  <2> DEFINE rest == H \ (k.left \cup {r})
  <2>7. H \ k.left = rest \cup {r} /\ r \notin rest
    BY <2>1
  <2> HIDE DEF rest
  <2>8. CASE Found(k, value) = {} /\ k.at = "roleExact"
    <3>1. next = At(k, "roleWildcard")
      BY <2>8 DEF Missing
    <3>2. /\ next.at = "roleWildcard" /\ next.accept = k.accept
          /\ next.left = k.left /\ next.role = k.role
      BY <3>1, AtIs DEF Lookups
    <3>3. Exact(R, RoleGrantee(r)) = {}
      BY <2>5, <2>8
    <3>4. Progress(next, R, H)
      BY <2>1, <2>2, <3>2, <3>3 DEF Progress
    <3>5. QED
      BY <3>2, <3>4 DEF Follows, Lookups
  \* The role has no row: what the others said stands.
  <2>9. CASE Found(k, value) = {} /\ k.at = "roleWildcard"
    <3>1. next \in NextRole(k)
      BY <2>9 DEF Missing
    <3>2. Served(R, r) = {}
      BY <2>1, <2>5, <2>9 DEF Served, FindGrant, Exact, Wild
    <3>3. Weighed(R, H \ k.left, k.accept, pick)
      BY <2>6, <2>7, <3>2 DEF Weighed, rest
    <3>4. QED
      BY <2>1, <2>2, <3>1, <3>3, NextRoleFollows DEF Decided
  <2>10. CASE Found(k, value) # {}
    <3>1. PICK g \in Found(k, value) : next \in Serving(k, g)
      BY <2>10
    <3>2. g \in Served(R, r)
      BY <1>2, <2>1, <2>5, <3>1 DEF Served, FindGrant, Exact, Wild
    <3>3. CASE g.effect = "prohibited"
      <4>1. next = Verdict(k, FALSE)
        BY <1>2, <3>1, <3>3 DEF Serving
      <4>2. FALSE \in TruthsOf(R, H)
        BY <2>1, <2>2, <3>2, <3>3, VetoAnswers
      <4>3. QED
        BY <4>1, <4>2, VerdictIs DEF Follows
    <3>4. CASE g.effect # "prohibited"
      <4> DEFINE also == [k EXCEPT !.accept = @ \/ Accepts(g, Required)]
      <4>1. next \in NextRole(also)
        BY <1>2, <3>1, <3>4 DEF Serving
      <4>2. /\ IsCheck(also) /\ also.left = k.left
            /\ also.accept = (k.accept \/ Accepts(g, Required))
        BY DEF IsCheck
      <4> HIDE DEF also
      <4> DEFINE all == [s \in H |-> IF s = r THEN g ELSE pick[s]]
      <4>3. all[r] = g /\ \A s \in rest : all[s] = pick[s]
        BY <2>1, <2>7 DEF rest
      <4> HIDE DEF all
      <4>4. \A s \in H \ k.left : Served(R, s) # {} =>
                all[s] \in Served(R, s) /\ all[s].effect # "prohibited"
        BY <2>6, <2>7, <3>2, <3>4, <4>3 DEF Weighed, rest
      <4>5. also.accept <=> \E s \in H \ k.left : Served(R, s) # {} /\ Accepts(all[s], Required)
        <5>1. k.accept <=> \E s \in rest : Served(R, s) # {} /\ Accepts(pick[s], Required)
          BY <2>6 DEF Weighed, rest
        <5>2. QED
          BY <2>7, <3>2, <4>2, <4>3, <5>1
      <4>6. Decided(R, H \ k.left, also.accept)
        BY <4>4, <4>5 DEF Decided, Weighed
      <4>7. also.accept \in BOOLEAN
        BY <4>2
      <4>8. QED
        BY <2>1, <2>2, <4>1, <4>2, <4>6, <4>7, NextRoleFollows
    <3>5. QED
      BY <3>3, <3>4
  <2>11. QED
    BY <1>2, <2>8, <2>9, <2>10
<1>3. QED
  BY <1>1, <1>2 DEF Lookups

\* A check that reads the view on goes on within it.
LEMMA AfterFollows ==
    ASSUME NEW R, NEW H, NEW k, IsCheck(k), k.at \in Lookups, Progress(k, R, H),
           NEW next \in After(k, QueryIn(R, H, KeyOf(k)))
    PROVE  Follows(next, R, H)
<1>1. CASE k.at = "roles"
  <2> DEFINE now == [k EXCEPT !.left = H]
  <2>1. QueryIn(R, H, KeyOf(k)) = H
    BY <1>1 DEF KeyOf, QueryIn
  <2>2. next \in NextRole(now)
    BY <1>1, <2>1 DEF After
  <2>3. IsCheck(now) /\ now.left = H /\ now.accept = k.accept
    BY DEF IsCheck
  <2> HIDE DEF now
  <2>4. /\ k.accept = FALSE
        /\ Exact(R, UserGrantee) = {} /\ Wild(R, UserGrantee) = {}
    BY <1>1 DEF Progress
  <2>5. H \ now.left = {}
    BY <2>3
  <2>6. Decided(R, {}, FALSE)
    BY DEF Decided, Weighed
  <2>7. QED
    BY <2>2, <2>3, <2>4, <2>5, <2>6, NextRoleFollows
<1>2. CASE k.at # "roles"
  BY <1>2, RowFollows DEF After
<1>3. QED
  BY <1>1, <1>2

\* Whatever it reads, it goes on within its window.
LEMMA AfterKeepsWindow ==
    ASSUME NEW k, IsCheck(k), k.at \in Lookups, NEW value, NEW next \in After(k, value)
    PROVE  SameWindow(next, k)
<1>1. ASSUME NEW j, IsCheck(j), j.misled = k.misled, j.seen = k.seen, j.commits = k.commits,
             NEW n \in NextRole(j)
      PROVE  SameWindow(n, k)
  <2>1. CASE j.left = {}
    <3>1. n = Verdict(j, j.accept) /\ j.accept \in BOOLEAN
      BY <1>1, <2>1 DEF NextRole, IsCheck
    <3>2. SameWindow(n, j)
      BY <1>1, <3>1, VerdictIs
    <3>3. QED
      BY <1>1, <3>2 DEF SameWindow
  <2>2. CASE j.left # {}
    <3>1. PICK r \in j.left : n = [At(j, "roleExact") EXCEPT !.role = {r}, !.left = @ \ {r}]
      BY <1>1, <2>2 DEF NextRole
    <3>2. SameWindow(At(j, "roleExact"), j) /\ At(j, "roleExact").at = "roleExact"
      BY <1>1, AtIs DEF Lookups
    <3>3. QED
      BY <1>1, <3>1, <3>2 DEF SameWindow, IsCheck
  <2>3. QED
    BY <2>1, <2>2
<1>2. CASE k.at = "roles"
  <2> DEFINE now == [k EXCEPT !.left = value]
  <2>1. next \in NextRole(now)
    BY <1>2 DEF After
  <2>2. /\ IsCheck(now) /\ now.misled = k.misled
        /\ now.seen = k.seen /\ now.commits = k.commits
    BY DEF IsCheck
  <2> HIDE DEF now
  <2>3. QED
    BY <1>1, <2>1, <2>2
<1>3. CASE k.at # "roles" /\ Found(k, value) = {}
  <2>1. next \in Missing(k)
    BY <1>3 DEF After
  <2>2. CASE k.at \in {"userExact", "userWildcard", "roleExact"}
    BY <2>1, <2>2, AtIs DEF Missing, Lookups
  <2>3. CASE k.at = "roleWildcard"
    BY <1>1, <2>1, <2>3 DEF Missing
  <2>4. QED
    BY <1>3, <2>2, <2>3 DEF Lookups
<1>4. CASE k.at # "roles" /\ Found(k, value) # {}
  <2>1. PICK g \in Found(k, value) : next \in Serving(k, g)
    BY <1>4 DEF After
  <2>2. \/ \E allowed \in BOOLEAN : next = Verdict(k, allowed)
        \/ next \in NextRole([k EXCEPT !.accept = @ \/ Accepts(g, Required)])
    BY <2>1 DEF Serving, Accepts
  <2>3. CASE \E allowed \in BOOLEAN : next = Verdict(k, allowed)
    BY <2>3, VerdictIs
  <2>4. CASE next \in NextRole([k EXCEPT !.accept = @ \/ Accepts(g, Required)])
    <3> DEFINE also == [k EXCEPT !.accept = @ \/ Accepts(g, Required)]
    <3>1. /\ IsCheck(also) /\ also.misled = k.misled
          /\ also.seen = k.seen /\ also.commits = k.commits
      BY DEF IsCheck
    <3> HIDE DEF also
    <3>2. QED
      BY <1>1, <2>4, <3>1 DEF also
  <2>5. QED
    BY <2>2, <2>3, <2>4
<1>5. QED
  BY <1>2, <1>3, <1>4

-----------------------------------------------------------------------------
\* One change changes the roles, or the rows of one grantee for one resource:
\* what one of the lookups of a check finds, and no other's.
OneDiffers(R, H, S, J) ==
    \/ R = S
    \/ /\ H = J
       /\ \E g \in Grantees, resource \in {Resource, Wildcard} :
              /\ \A other \in Grantees \ {g} : R[other] = S[other]
              /\ \A other \in {Resource, Wildcard} \ {resource} :
                     Rows(R[g], Type, other) = Rows(S[g], Type, other)

LEMMA OneDiffersBack ==
    ASSUME NEW R, NEW H, NEW S, NEW J, OneDiffers(R, H, S, J) PROVE OneDiffers(S, J, R, H)
<1>1. CASE R = S
  BY <1>1 DEF OneDiffers
<1>2. CASE R # S
  <2>1. PICK g \in Grantees, resource \in {Resource, Wildcard} :
            /\ \A other \in Grantees \ {g} : R[other] = S[other]
            /\ \A other \in {Resource, Wildcard} \ {resource} :
                   Rows(R[g], Type, other) = Rows(S[g], Type, other)
    BY <1>2 DEF OneDiffers
  <2>2. H = J
    BY <1>2 DEF OneDiffers
  <2>3. /\ \A other \in Grantees \ {g} : S[other] = R[other]
        /\ \A other \in {Resource, Wildcard} \ {resource} :
               Rows(S[g], Type, other) = Rows(R[g], Type, other)
    BY <2>1
  <2>4. QED
    BY <2>2, <2>3 DEF OneDiffers
<1>3. QED
  BY <1>1, <1>2

LEMMA KeyOfKnown ==
    ASSUME NEW R, NEW H, H \subseteq Roles, NEW k, k.at \in Lookups, Progress(k, R, H)
    PROVE  /\ KeyOf(k) \in Keys
           /\ k.at = "roles" <=> KeyOf(k) = RolesKey
           /\ k.at \in {"userExact", "userWildcard"} => KeyOf(k) = AccessKey(UserGrantee)
           /\ k.at \in {"roleExact", "roleWildcard"} =>
                  \E r \in H \ k.left :
                      k.role = {r} /\ KeyOf(k) = AccessKey(RoleGrantee(r))
<1>0. AccessKey(UserGrantee) # RolesKey /\ \A r : AccessKey(RoleGrantee(r)) # RolesKey
  BY DEF AccessKey, RolesKey
<1>1. CASE k.at \in {"userExact", "userWildcard"}
  BY <1>0, <1>1 DEF KeyOf, Keys, Grantees, UserGrantee
<1>2. CASE k.at = "roles"
  BY <1>2 DEF KeyOf, Keys
<1>3. CASE k.at \in {"roleExact", "roleWildcard"}
  <2>1. PICK r \in H \ k.left : k.role = {r}
    BY <1>3 DEF Progress
  <2>2. (CHOOSE s \in k.role : TRUE) = r
    BY <2>1
  <2>3. KeyOf(k) = AccessKey(RoleGrantee(r)) /\ r \in Roles
    BY <1>3, <2>1, <2>2 DEF KeyOf, RoleGrantee
  <2>4. QED
    BY <1>0, <1>3, <2>1, <2>3 DEF Keys, Grantees, RoleGrantee
<1>4. QED
  BY <1>1, <1>2, <1>3 DEF Lookups

\* Where the two views differ in what this lookup finds, they agree on all that
\* was read before.
LEMMA SameBefore ==
    ASSUME NEW R, NEW H, NEW S, NEW J, OneDiffers(R, H, S, J), H \subseteq Roles,
           NEW k, k.at \in Lookups, Progress(k, R, H),
           IF k.at = "roles" THEN H # J
           ELSE Found(k, QueryIn(R, H, KeyOf(k))) # Found(k, QueryIn(S, J, KeyOf(k)))
    PROVE  Progress(k, S, J)
<1>1. CASE k.at = "roles"
  BY <1>1 DEF OneDiffers, Progress
<1>2. CASE k.at # "roles"
  <2>1. PICK g \in Grantees, resource \in {Resource, Wildcard} :
            /\ \A other \in Grantees \ {g} : R[other] = S[other]
            /\ \A other \in {Resource, Wildcard} \ {resource} :
                   Rows(R[g], Type, other) = Rows(S[g], Type, other)
    BY <1>2, KeyOfKnown DEF OneDiffers, QueryIn
  <2>2. H = J
    BY <1>2, KeyOfKnown DEF OneDiffers, QueryIn
  <2>3. Resource # Wildcard
    BY AccessAssumption DEF AccessAssumption
  <2>4. CASE k.at \in {"userExact", "userWildcard"}
    <3>1. KeyOf(k) # RolesKey /\ KeyOf(k)[2] = UserGrantee
      BY <2>4, KeyOfKnown DEF AccessKey
    <3>2. UserGrantee \in Grantees
      BY DEF Grantees, UserGrantee
    <3>3. g = UserGrantee
      BY <1>2, <2>1, <3>1, <3>2 DEF QueryIn, Found
    <3>4. k.at = "userWildcard" => Exact(R, UserGrantee) = Exact(S, UserGrantee)
      <4>1. SUFFICES ASSUME k.at = "userWildcard" PROVE Exact(R, g) = Exact(S, g)
        BY <3>3
      <4>2. resource = Wildcard
        BY <2>1, <2>3, <3>1, <3>3, <4>1, <1>2 DEF QueryIn, Found
      <4>3. QED
        BY <2>1, <2>3, <4>2 DEF Exact
    <3>5. QED
      BY <2>4, <3>4 DEF Progress
  <2>5. CASE k.at \in {"roleExact", "roleWildcard"}
    <3>1. PICK r \in H \ k.left :
              /\ k.role = {r} /\ k.left \subseteq H /\ k.accept \in BOOLEAN
              /\ Decided(R, H \ (k.left \cup {r}), k.accept)
              /\ k.at = "roleWildcard" => Exact(R, RoleGrantee(r)) = {}
      BY <2>5 DEF Progress
    <3>2. KeyOf(k) # RolesKey /\ KeyOf(k)[2] = RoleGrantee(r)
      <4>1. KeyOf(k) = AccessKey(RoleGrantee(r))
        BY <2>5, <3>1, KeyOfKnown
      <4>2. QED
        BY <4>1 DEF AccessKey, RolesKey
    <3>3. RoleGrantee(r) \in Grantees /\ UserGrantee \in Grantees
          /\ UserGrantee # RoleGrantee(r)
      BY <3>1 DEF Grantees, RoleGrantee, UserGrantee
    <3>4. g = RoleGrantee(r)
      BY <1>2, <2>1, <3>2, <3>3 DEF QueryIn, Found
    <3>5. R[UserGrantee] = S[UserGrantee]
      BY <2>1, <3>3, <3>4
    <3>6. \A s \in H \ {r} : Served(R, s) = Served(S, s)
      <4> SUFFICES ASSUME NEW s \in H \ {r} PROVE Served(R, s) = Served(S, s)
        OBVIOUS
      <4>1. RoleGrantee(s) \in Grantees \ {g}
        BY <3>4 DEF Grantees, RoleGrantee
      <4>2. QED
        BY <2>1, <4>1 DEF Served
    <3>7. Decided(S, H \ (k.left \cup {r}), k.accept)
      BY <3>1, <3>6 DEF Decided, Weighed
    <3>8. k.at = "roleWildcard" => Exact(S, RoleGrantee(r)) = {}
      <4>1. SUFFICES ASSUME k.at = "roleWildcard" PROVE Exact(R, g) = Exact(S, g)
        BY <3>1, <3>4
      <4>2. resource = Wildcard
        BY <2>1, <2>3, <3>2, <3>4, <4>1, <1>2 DEF QueryIn, Found
      <4>3. QED
        BY <2>1, <2>3, <4>2 DEF Exact
    <3>9. QED
      BY <2>2, <2>5, <3>1, <3>5, <3>7, <3>8 DEF Progress, Exact, Wild
  <2>6. QED
    BY <1>2, <2>4, <2>5 DEF Lookups
<1>3. QED
  BY <1>1, <1>2

\* So a check that has read one view and now reads the other goes on within one
\* of the two: it mixes nothing.
LEMMA OtherViewFollows ==
    ASSUME NEW R, NEW H, NEW S, NEW J, OneDiffers(R, H, S, J), H \subseteq Roles,
           NEW k, IsCheck(k), k.at \in Lookups, Progress(k, R, H),
           NEW next \in After(k, QueryIn(S, J, KeyOf(k)))
    PROVE  Follows(next, R, H) \/ Follows(next, S, J)
<1>1. CASE Progress(k, S, J)
  BY <1>1, AfterFollows
<1>2. CASE ~Progress(k, S, J)
  <2>1. IF k.at = "roles" THEN H = J
        ELSE Found(k, QueryIn(R, H, KeyOf(k))) = Found(k, QueryIn(S, J, KeyOf(k)))
    BY <1>2, SameBefore
  <2>2. next \in After(k, QueryIn(R, H, KeyOf(k)))
    <3>1. CASE k.at = "roles"
      <4>1. QueryIn(R, H, KeyOf(k)) = QueryIn(S, J, KeyOf(k))
        BY <2>1, <3>1, KeyOfKnown DEF QueryIn
      <4>2. QED
        BY <4>1
    <3>2. CASE k.at # "roles"
      BY <2>1, <3>2 DEF After
    <3>3. QED
      BY <3>1, <3>2
  <2>3. QED
    BY <2>2, AfterFollows
<1>3. QED
  BY <1>1, <1>2

-----------------------------------------------------------------------------
(***************************************************************************)
(* The views a check may have read: the tables as they are and, if a       *)
(* change was made in its window, as they were before the last one.        *)
(***************************************************************************)
Now == [rows |-> RowsNow, roles |-> holds]

Asked(v) == TruthsOf(v.rows, v.roles)
Listed(v, key) == QueryIn(v.rows, v.roles, key)
Reached(k, v) == Progress(k, v.rows, v.roles)

Views(commits, last, now) == {now} \cup IF commits = {} THEN {} ELSE {last}

\* The changes made so far, and those in the window of an unfinished one.
Past == {w \in Changes : change[w].at \in {"invalidate", "done"}}
Open == UNION {change[w].commits : w \in Unfinished}

AnswerTrue(k) ==
    k.at \in {"allowed", "denied"} /\ AtMostOne(k.commits) /\ ~k.misled =>
        (k.at = "allowed") \in k.seen

\* A check on its way has seen the answers of all its views, and has read but
\* one of them, with at most one change in its window.
CheckTrue(k, open, past, last, now) ==
    /\ IsCheck(k)
    /\ AnswerTrue(k)
    /\ k.at \in Lookups =>
           /\ open \subseteq k.commits /\ k.commits \subseteq past
           /\ AtMostOne(k.commits) =>
                  /\ \A v \in Views(k.commits, last, now) : Asked(v) \subseteq k.seen
                  /\ ~k.misled => \E v \in Views(k.commits, last, now) : Reached(k, v)
                  /\ ~k.misled /\ k.phase = "fill" =>
                         \E v \in Views(k.commits, last, now) : k.read = {Listed(v, KeyOf(k))}

ChangeTrue(w, past, last, now) ==
    /\ w \in change[w].commits /\ change[w].commits \subseteq past
    /\ AtMostOne(change[w].commits) => \A v \in {last, now} : Asked(v) \subseteq change[w].seen

\* What is cached for a key is of now, or of before the change whose DEL is to
\* come, or else the key has gone astray.
KeyTrue(key, last) ==
    \/ key \in astray
    \/ \A value \in cache[key] : value = Query(key)
    \/ \E w \in Unfinished :
           /\ change[w].key = key
           /\ AtMostOne(change[w].commits) => \A value \in cache[key] : value = Listed(last, key)

ViewsNear(last, now) ==
    /\ last.roles \subseteq Roles /\ now.roles \subseteq Roles
    /\ OneDiffers(last.rows, last.roles, now.rows, now.roles)

ToldBy(last) ==
    /\ ViewsNear(last, Now)
    /\ check = [c \in Checks |-> check[c]]
    /\ \A c \in Checks : CheckTrue(check[c], Open, Past, last, Now)
    /\ \A w \in Unfinished : ChangeTrue(w, Past, last, Now)
    /\ \A key \in Keys : KeyTrue(key, last)

LEMMA NowIs ==
    /\ Now.rows = RowsNow /\ Now.roles = holds
    /\ Asked(Now) = Truths
    /\ \A key \in Keys : Listed(Now, key) = Query(key)
<1>1. Now.rows = RowsNow /\ Now.roles = holds
  BY DEF Now
<1>2. Asked(Now) = Truths
  BY <1>1 DEF Asked, TruthsOf, Truths, RowsNow
<1>3. ASSUME NEW key \in Keys PROVE Listed(Now, key) = Query(key)
  <2>1. CASE key = RolesKey
    BY <1>1, <2>1 DEF Listed, QueryIn, Query
  <2>2. CASE key # RolesKey
    <3>1. key[2] \in Grantees
      BY <2>2, KeysDiffer
    <3>2. QED
      BY <1>1, <2>2, <3>1 DEF Listed, QueryIn, Query, RowsNow
  <2>3. QED
    BY <2>1, <2>2
<1>4. QED
  BY <1>1, <1>2, <1>3

\* A check that goes on with a value of one of its views goes on within one.
LEMMA ReadFollows ==
    ASSUME NEW last, NEW now, ViewsNear(last, now), NEW commits,
           NEW k, IsCheck(k), k.at \in Lookups,
           NEW v \in Views(commits, last, now), Reached(k, v),
           NEW u \in Views(commits, last, now), NEW next \in After(k, Listed(u, KeyOf(k)))
    PROVE  \E x \in Views(commits, last, now) : Follows(next, x.rows, x.roles)
<1>1. v.roles \subseteq Roles /\ v \in {last, now} /\ u \in {last, now}
  BY DEF Views, ViewsNear
<1>2. OneDiffers(v.rows, v.roles, u.rows, u.roles)
  <2>1. CASE v = u
    BY <2>1 DEF OneDiffers
  <2>2. CASE v = last /\ u = now
    BY <2>2 DEF ViewsNear
  <2>3. CASE v = now /\ u = last
    BY <2>3, OneDiffersBack DEF ViewsNear
  <2>4. QED
    BY <1>1, <2>1, <2>2, <2>3
<1>3. Follows(next, v.rows, v.roles) \/ Follows(next, u.rows, u.roles)
  BY <1>1, <1>2, OtherViewFollows DEF Reached, Listed
<1>4. QED
  BY <1>3

LEMMA KeyKnown ==
    ASSUME NEW last, NEW now, ViewsNear(last, now), NEW commits, NEW k, k.at \in Lookups,
           NEW v \in Views(commits, last, now), Reached(k, v)
    PROVE  KeyOf(k) \in Keys
<1>1. v.roles \subseteq Roles
  BY DEF Views, ViewsNear
<1>2. QED
  BY <1>1, KeyOfKnown DEF Reached

\* Where a lookup returns what some view of the window lists, if the check is
\* not misled, the check stays true.
LEMMA ReturnTrue ==
    ASSUME NEW open, NEW past, NEW last, NEW now, ViewsNear(last, now),
           NEW k, k.at \in Lookups, CheckTrue(k, open, past, last, now),
           NEW value, NEW after \in After(k, value), NEW next, IsCheck(next),
           next.at = after.at, next.phase = after.phase, next.left = after.left,
           next.role = after.role, next.accept = after.accept,
           next.seen = after.seen, next.commits = after.commits,
           ~next.misled => ~k.misled,
           ~next.misled /\ AtMostOne(k.commits) =>
               \E u \in Views(k.commits, last, now) : value = Listed(u, KeyOf(k))
    PROVE  CheckTrue(next, open, past, last, now)
<1> DEFINE views == Views(k.commits, last, now)
<1>1. IsCheck(k) /\ SameWindow(after, k)
  BY AfterKeepsWindow DEF CheckTrue
<1>2. /\ next.seen = k.seen /\ next.commits = k.commits
      /\ next.at \in Lookups => next.phase = "get"
  BY <1>1 DEF SameWindow
<1>3. /\ open \subseteq k.commits /\ k.commits \subseteq past
      /\ AtMostOne(k.commits) => \A v \in views : Asked(v) \subseteq k.seen
      /\ AtMostOne(k.commits) /\ ~k.misled => \E v \in views : Reached(k, v)
  BY DEF CheckTrue
<1> HIDE DEF views
<1>4. ASSUME AtMostOne(k.commits), ~next.misled
      PROVE  \E v \in views : Follows(after, v.rows, v.roles)
  <2>1. PICK u \in views : value = Listed(u, KeyOf(k))
    BY <1>4 DEF views
  <2>2. PICK v \in views : Reached(k, v)
    BY <1>3, <1>4
  <2>3. QED
    BY <1>1, <2>1, <2>2, ReadFollows DEF views
<1>5. \A v : Follows(after, v.rows, v.roles) =>
          \/ next.at \in Lookups /\ Reached(next, v)
          \/ next.at \in {"allowed", "denied"} /\ (next.at = "allowed") \in Asked(v)
  BY DEF Follows, Reached, Progress, Asked
<1>6. \A at \in {"allowed", "denied"} : at \notin Lookups
  BY DEF Lookups
<1>7. AnswerTrue(next)
  BY <1>2, <1>3, <1>4, <1>5, <1>6 DEF AnswerTrue
<1>8. AtMostOne(k.commits) /\ ~next.misled /\ next.at \in Lookups =>
          \E v \in views : Reached(next, v)
  BY <1>4, <1>5, <1>6
<1>9. QED
  BY <1>2, <1>3, <1>7, <1>8 DEF CheckTrue, views

\* More views of the window, or fewer changes to wait for, take nothing away.
LEMMA CheckKeeps ==
    ASSUME NEW open, NEW past, NEW last, NEW now, NEW k, CheckTrue(k, open, past, last, now),
           NEW fewer \in SUBSET open, NEW more, past \subseteq more
    PROVE  CheckTrue(k, fewer, more, last, now)
BY DEF CheckTrue

\* Steps that change neither the tables nor what an unfinished change has seen.
LEMMA QuietKeeps ==
    ASSUME NEW last, ToldBy(last), UNCHANGED <<table, holds>>,
           Past \subseteq Past', Unfinished' \subseteq Unfinished,
           \A w \in Unfinished' : change'[w] = change[w]
    PROVE  /\ Now' = Now /\ ViewsNear(last, Now)'
           /\ \A key : Query(key)' = Query(key)
           /\ \A k : CheckTrue(k, Open, Past, last, Now) => CheckTrue(k, Open', Past', last, Now')
           /\ \A w \in Unfinished' : ChangeTrue(w, Past, last, Now)'
<1>1. Now' = Now /\ \A key : Query(key)' = Query(key)
  BY DEF Now, RowsNow, RowsOf, Query
<1>2. Open' \in SUBSET Open
  BY DEF Open
<1>3. \A k : CheckTrue(k, Open, Past, last, Now) => CheckTrue(k, Open', Past', last, Now')
  BY <1>1, <1>2, CheckKeeps
<1>4. \A w \in Unfinished' : ChangeTrue(w, Past, last, Now)'
  BY <1>1 DEF ChangeTrue, ToldBy
<1>5. ViewsNear(last, Now)'
  BY <1>1 DEF ToldBy
<1>6. QED
  BY <1>1, <1>3, <1>4, <1>5

\* A step of one check that leaves it true, and the cache too.
LEMMA StepTold ==
    ASSUME NEW last, ToldBy(last), UNCHANGED <<table, holds, change>>,
           NEW c \in Checks, NEW next, CheckTrue(next, Open, Past, last, Now),
           check' = [check EXCEPT ![c] = next],
           \A key \in Keys : KeyTrue(key, last)'
    PROVE  ToldBy(last)'
<1>1. Past' = Past /\ Unfinished' = Unfinished
  BY DEF Past, Unfinished
<1>2. /\ ViewsNear(last, Now)'
      /\ \A k : CheckTrue(k, Open, Past, last, Now) => CheckTrue(k, Open', Past', last, Now')
      /\ \A w \in Unfinished' : ChangeTrue(w, Past, last, Now)'
  BY <1>1, QuietKeeps
<1>3. check = [d \in Checks |-> check[d]] /\ \A d \in Checks : CheckTrue(check[d], Open, Past, last, Now)
  BY DEF ToldBy
<1>4. /\ check' = [d \in Checks |-> check'[d]]
      /\ \A d \in Checks : CheckTrue(check'[d], Open, Past, last, Now)
  BY <1>3
<1>5. \A d \in Checks : CheckTrue(check'[d], Open', Past', last, Now')
  BY <1>2, <1>4
<1>6. QED
  BY <1>2, <1>4, <1>5 DEF ToldBy

\* The cache where a step leaves cache, astray and the tables alone, or empties a
\* key, or fills it with what may be of old.
LEMMA CacheKeeps ==
    ASSUME NEW last, ToldBy(last), Shape, UNCHANGED <<table, holds, change>>, NEW key,
           \/ UNCHANGED <<cache, astray>>
           \/ cache' = [cache EXCEPT ![key] = {}] /\ astray' = astray \ {key}
           \/ \E value :
                  /\ cache' = [cache EXCEPT ![key] = {value}]
                  /\ astray' = IF value = Query(key) THEN astray \ {key} ELSE astray \cup {key}
    PROVE  \A other \in Keys : KeyTrue(other, last)'
<1> SUFFICES ASSUME NEW other \in Keys PROVE KeyTrue(other, last)'
  OBVIOUS
<1>1. Unfinished' = Unfinished /\ Query(other)' = Query(other)
  BY DEF Unfinished, Query, RowsOf
<1>2. cache = [k \in Keys |-> cache[k]]
  BY DEF Shape
<1>3. KeyTrue(other, last)
  BY DEF ToldBy
<1>4. CASE UNCHANGED <<cache, astray>> \/ other # key
  <2>1. cache'[other] = cache[other] /\ (other \in astray' <=> other \in astray)
    BY <1>2, <1>4
  <2>2. QED
    BY <1>1, <1>3, <2>1 DEF KeyTrue
<1>5. CASE cache' = [cache EXCEPT ![key] = {}] /\ other = key
  BY <1>2, <1>5 DEF KeyTrue
<1>6. CASE /\ other = key
           /\ \E value :
                  /\ cache' = [cache EXCEPT ![key] = {value}]
                  /\ astray' = IF value = Query(key) THEN astray \ {key} ELSE astray \cup {key}
  <2>1. PICK value :
            /\ cache' = [cache EXCEPT ![key] = {value}]
            /\ astray' = IF value = Query(key) THEN astray \ {key} ELSE astray \cup {key}
    BY <1>6
  <2>2. cache'[other] = {value} /\ (value = Query(key) \/ other \in astray')
    BY <1>2, <1>6, <2>1
  <2>3. QED
    BY <1>1, <1>6, <2>2 DEF KeyTrue
<1>7. QED
  BY <1>4, <1>5, <1>6

LEMMA StartTold ==
    ASSUME NEW last, ToldBy(last), Shape, NEW c \in Checks, StartCheck(c)
    PROVE  ToldBy(last)'
<1> DEFINE next == [NoCheck EXCEPT
                      !.at = "userExact",
                      !.seen = Truths \cup UNION {change[w].seen : w \in Unfinished},
                      !.commits = UNION {change[w].commits : w \in Unfinished}]
<1>1. /\ next.at = "userExact" /\ next.phase = "get" /\ next.accept = FALSE /\ IsCheck(next)
      /\ next.seen = Truths \cup UNION {change[w].seen : w \in Unfinished}
      /\ next.commits = Open
  BY DEF NoCheck, IsCheck, Open
<1>2. check' = [check EXCEPT ![c] = next] /\ UNCHANGED <<table, holds, created, cache, change, astray>>
  BY DEF StartCheck, Becomes
<1> HIDE DEF next
<1>3. Open \subseteq Past
  BY DEF Open, ToldBy, ChangeTrue
<1>4. ASSUME AtMostOne(Open), NEW v \in Views(Open, last, Now) PROVE Asked(v) \subseteq next.seen
  <2>1. CASE v = Now
    BY <1>1, <2>1, NowIs
  <2>2. CASE v = last /\ Open # {}
    <3>1. PICK w \in Unfinished : change[w].commits # {}
      BY <2>2 DEF Open
    <3>2. change[w].commits \subseteq Open
      BY DEF Open
    <3>3. AtMostOne(change[w].commits)
      BY <1>4, <3>2 DEF AtMostOne
    <3>4. Asked(last) \subseteq change[w].seen
      BY <3>3 DEF ToldBy, ChangeTrue
    <3>5. QED
      BY <1>1, <2>2, <3>4
  <2>3. QED
    BY <1>4, <2>1, <2>2 DEF Views
<1>5. Now \in Views(Open, last, Now) /\ Reached(next, Now)
  BY <1>1 DEF Views, Reached, Progress
<1>6. CheckTrue(next, Open, Past, last, Now)
  BY <1>1, <1>3, <1>4, <1>5 DEF CheckTrue, AnswerTrue, Lookups
<1>7. \A key \in Keys : KeyTrue(key, last)'
  BY <1>2, CacheKeeps
<1>8. QED
  BY <1>2, <1>6, <1>7, StepTold

\* What a check not misled finds cached is of one of its views.
LEMMA CachedIsOfView ==
    ASSUME NEW last, ToldBy(last), NEW k, k.at \in Lookups, CheckTrue(k, Open, Past, last, Now),
           AtMostOne(k.commits), ~k.misled, KeyOf(k) \notin astray,
           NEW value \in cache[KeyOf(k)]
    PROVE  \E u \in Views(k.commits, last, Now) : value = Listed(u, KeyOf(k))
<1>1. PICK v \in Views(k.commits, last, Now) : Reached(k, v)
  BY DEF CheckTrue
<1>2. KeyOf(k) \in Keys
  BY <1>1, KeyKnown DEF ToldBy
<1>3. KeyTrue(KeyOf(k), last)
  BY <1>2 DEF ToldBy
<1>4. CASE value = Query(KeyOf(k))
  BY <1>2, <1>4, NowIs DEF Views
<1>5. CASE \E w \in Unfinished :
               AtMostOne(change[w].commits) => value = Listed(last, KeyOf(k))
  <2>1. PICK w \in Unfinished : AtMostOne(change[w].commits) => value = Listed(last, KeyOf(k))
    BY <1>5
  <2>2. w \in change[w].commits /\ change[w].commits \subseteq k.commits
    BY DEF ToldBy, ChangeTrue, CheckTrue, Open
  <2>3. AtMostOne(change[w].commits)
    BY <2>2 DEF AtMostOne
  <2>4. last \in Views(k.commits, last, Now)
    BY <2>2 DEF Views
  <2>5. QED
    BY <2>1, <2>3, <2>4
<1>6. QED
  BY <1>3, <1>4, <1>5 DEF KeyTrue

\* A lookup that goes on to its next phase.
LEMMA PhaseTrue ==
    ASSUME NEW open, NEW past, NEW last, NEW now,
           NEW k, k.at \in Lookups, CheckTrue(k, open, past, last, now), NEW next, IsCheck(next),
           next.at = k.at, next.left = k.left, next.role = k.role, next.accept = k.accept,
           next.misled = k.misled, next.seen = k.seen, next.commits = k.commits,
           next.phase = "fill" /\ AtMostOne(k.commits) /\ ~k.misled =>
               \E v \in Views(k.commits, last, now) : next.read = {Listed(v, KeyOf(k))}
    PROVE  CheckTrue(next, open, past, last, now)
<1>1. KeyOf(next) = KeyOf(k) /\ \A v : Reached(next, v) <=> Reached(k, v)
  BY DEF KeyOf, Reached, Progress
<1>2. AnswerTrue(next)
  BY DEF AnswerTrue, Lookups
<1>3. QED
  BY <1>1, <1>2 DEF CheckTrue

LEMMA GetTold ==
    ASSUME NEW last, ToldBy(last), Shape, NEW c \in Checks, CacheGet(c)
    PROVE  ToldBy(last)'
<1> DEFINE k == check[c]
           key == KeyOf(k)
<1>1. /\ UNCHANGED <<table, holds, created, cache, change, astray>> /\ k.at \in Lookups
      /\ \/ \E value \in cache[key] : \E after \in After(k, value) :
                check' = [check EXCEPT ![c] = [after EXCEPT !.misled = @ \/ key \in astray]]
         \/ check' = [check EXCEPT ![c] = [k EXCEPT !.phase = "query"]]
         \/ check' = [check EXCEPT ![c] = [k EXCEPT !.phase = "bypass"]]
  BY DEF CacheGet, Becomes
<1>2. CheckTrue(k, Open, Past, last, Now) /\ IsCheck(k) /\ ViewsNear(last, Now)
  BY DEF ToldBy, CheckTrue
<1>3. \A other \in Keys : KeyTrue(other, last)'
  BY <1>1, CacheKeeps
<1> HIDE DEF k, key
<1>4. ASSUME NEW value \in cache[key], NEW after \in After(k, value),
             check' = [check EXCEPT ![c] = [after EXCEPT !.misled = @ \/ key \in astray]]
      PROVE  ToldBy(last)'
  <2> DEFINE next == [after EXCEPT !.misled = @ \/ key \in astray]
  <2>1. SameWindow(after, k)
    BY <1>1, <1>2, <1>4, AfterKeepsWindow
  <2>2. /\ IsCheck(next)
        /\ next.at = after.at /\ next.phase = after.phase /\ next.left = after.left
        /\ next.role = after.role /\ next.accept = after.accept
        /\ next.seen = after.seen /\ next.commits = after.commits
        /\ ~next.misled => ~k.misled /\ key \notin astray
    BY <2>1 DEF SameWindow, IsCheck
  <2>3. check' = [check EXCEPT ![c] = next]
    BY <1>4
  <2> HIDE DEF next
  <2>4. ~next.misled /\ AtMostOne(k.commits) =>
            \E u \in Views(k.commits, last, Now) : value = Listed(u, KeyOf(k))
    BY <1>1, <1>2, <1>4, <2>2, CachedIsOfView DEF key
  <2>5. CheckTrue(next, Open, Past, last, Now)
    BY <1>1, <1>2, <1>4, <2>2, <2>4, ReturnTrue
  <2>6. QED
    BY <1>1, <1>3, <2>3, <2>5, StepTold
<1>5. ASSUME NEW phase \in {"query", "bypass"}, check' = [check EXCEPT ![c] = [k EXCEPT !.phase = phase]]
      PROVE  ToldBy(last)'
  <2> DEFINE next == [k EXCEPT !.phase = phase]
  <2>1. /\ IsCheck(next) /\ next.phase = phase
        /\ next.at = k.at /\ next.left = k.left /\ next.role = k.role /\ next.accept = k.accept
        /\ next.misled = k.misled /\ next.seen = k.seen /\ next.commits = k.commits
    BY <1>2 DEF IsCheck
  <2>2. check' = [check EXCEPT ![c] = next]
    BY <1>5
  <2> HIDE DEF next
  <2>3. CheckTrue(next, Open, Past, last, Now)
    BY <1>1, <1>2, <2>1, PhaseTrue
  <2>4. QED
    BY <1>1, <1>3, <2>2, <2>3, StepTold
<1>6. QED
  BY <1>1, <1>4, <1>5

LEMMA QueryTold ==
    ASSUME NEW last, ToldBy(last), Shape, NEW c \in Checks, QueryDatabase(c)
    PROVE  ToldBy(last)'
<1> DEFINE k == check[c]
           value == Query(KeyOf(k))
<1>1. /\ UNCHANGED <<table, holds, created, cache, change, astray>> /\ k.at \in Lookups
      /\ \/ check' = [check EXCEPT ![c] = [k EXCEPT !.phase = "fill", !.read = {value}]]
         \/ \E after \in After(k, value) : check' = [check EXCEPT ![c] = after]
         \/ check' = [check EXCEPT ![c] = [NoCheck EXCEPT !.at = "error"]]
  BY DEF QueryDatabase, Becomes, Returns
<1>2. CheckTrue(k, Open, Past, last, Now) /\ IsCheck(k) /\ ViewsNear(last, Now)
  BY DEF ToldBy, CheckTrue
<1>3. \A other \in Keys : KeyTrue(other, last)'
  BY <1>1, CacheKeeps
<1>4. ~k.misled /\ AtMostOne(k.commits) =>
          \E u \in Views(k.commits, last, Now) : value = Listed(u, KeyOf(k))
  <2> SUFFICES ASSUME ~k.misled, AtMostOne(k.commits)
               PROVE  Now \in Views(k.commits, last, Now) /\ value = Listed(Now, KeyOf(k))
    OBVIOUS
  <2>1. PICK v \in Views(k.commits, last, Now) : Reached(k, v)
    BY <1>1, <1>2 DEF CheckTrue
  <2>2. KeyOf(k) \in Keys
    BY <1>1, <1>2, <2>1, KeyKnown
  <2>3. QED
    BY <2>2, NowIs DEF Views
<1> HIDE DEF k, value
<1>5. CASE check' = [check EXCEPT ![c] = [k EXCEPT !.phase = "fill", !.read = {value}]]
  <2> DEFINE next == [k EXCEPT !.phase = "fill", !.read = {value}]
  <2>1. /\ IsCheck(next) /\ next.read = {value}
        /\ next.at = k.at /\ next.left = k.left /\ next.role = k.role /\ next.accept = k.accept
        /\ next.misled = k.misled /\ next.seen = k.seen /\ next.commits = k.commits
    BY <1>2 DEF IsCheck
  <2>2. check' = [check EXCEPT ![c] = next]
    BY <1>5
  <2> HIDE DEF next
  <2>3. CheckTrue(next, Open, Past, last, Now)
    BY <1>1, <1>2, <1>4, <2>1, PhaseTrue
  <2>4. QED
    BY <1>1, <1>3, <2>2, <2>3, StepTold
<1>6. ASSUME NEW after \in After(k, value), check' = [check EXCEPT ![c] = after]
      PROVE  ToldBy(last)'
  <2>1. SameWindow(after, k)
    BY <1>1, <1>2, <1>6, AfterKeepsWindow
  <2>2. IsCheck(after) /\ after.misled = k.misled
    BY <2>1 DEF SameWindow
  <2>3. CheckTrue(after, Open, Past, last, Now)
    BY <1>1, <1>2, <1>4, <1>6, <2>2, ReturnTrue
  <2>4. QED
    BY <1>1, <1>3, <1>6, <2>3, StepTold
<1>7. CASE check' = [check EXCEPT ![c] = [NoCheck EXCEPT !.at = "error"]]
  <2> DEFINE next == [NoCheck EXCEPT !.at = "error"]
  <2>1. IsCheck(next) /\ next.at = "error"
    BY DEF NoCheck, IsCheck
  <2> HIDE DEF next
  <2>2. CheckTrue(next, Open, Past, last, Now)
    BY <2>1 DEF CheckTrue, AnswerTrue, Lookups
  <2>3. QED
    BY <1>1, <1>3, <1>7, <2>2, StepTold DEF next
<1>8. QED
  BY <1>1, <1>5, <1>6, <1>7

LEMMA SetTold ==
    ASSUME NEW last, ToldBy(last), Shape, NEW c \in Checks, CacheSet(c)
    PROVE  ToldBy(last)'
<1> DEFINE k == check[c]
           key == KeyOf(k)
<1>1. PICK value \in k.read :
          /\ \E after \in After(k, value) : check' = [check EXCEPT ![c] = after]
          /\ \/ /\ cache' = [cache EXCEPT ![key] = {value}]
                /\ astray' = IF value = Query(key) THEN astray \ {key} ELSE astray \cup {key}
             \/ UNCHANGED <<cache, astray>>
  BY DEF CacheSet, Returns, Becomes
<1>2. UNCHANGED <<table, holds, created, change>> /\ k.at \in Lookups /\ k.phase = "fill"
  BY DEF CacheSet
<1>3. CheckTrue(k, Open, Past, last, Now) /\ IsCheck(k) /\ ViewsNear(last, Now)
  BY DEF ToldBy, CheckTrue
<1>4. \A other \in Keys : KeyTrue(other, last)'
  BY <1>1, <1>2, CacheKeeps
<1> HIDE DEF k, key
<1>5. PICK after \in After(k, value) : check' = [check EXCEPT ![c] = after]
  BY <1>1
<1>6. SameWindow(after, k)
  BY <1>2, <1>3, <1>5, AfterKeepsWindow
<1>7. IsCheck(after) /\ after.misled = k.misled
  BY <1>6 DEF SameWindow
<1>8. ~k.misled /\ AtMostOne(k.commits) =>
          \E u \in Views(k.commits, last, Now) : value = Listed(u, KeyOf(k))
  BY <1>1, <1>2, <1>3 DEF CheckTrue
<1>9. CheckTrue(after, Open, Past, last, Now)
  BY <1>2, <1>3, <1>7, <1>8, ReturnTrue
<1>10. QED
  BY <1>2, <1>4, <1>5, <1>9, StepTold

\* Steps without a check of their own.
LEMMA ExpireTold ==
    ASSUME NEW last, ToldBy(last), Shape, NEW key \in Keys, Expire(key)
    PROVE  ToldBy(last)'
<1>1. /\ UNCHANGED <<table, holds, created, check, change>>
      /\ cache' = [cache EXCEPT ![key] = {}] /\ astray' = astray \ {key}
  BY DEF Expire
<1>2. Past' = Past /\ Unfinished' = Unfinished
  BY <1>1 DEF Past, Unfinished
<1>3. \A other \in Keys : KeyTrue(other, last)'
  BY <1>1, CacheKeeps
<1>4. QED
  BY <1>1, <1>2, <1>3, QuietKeeps DEF ToldBy

LEMMA LookupTold ==
    ASSUME NEW last, ToldBy(last), Shape, NEW w \in Changes, GrantLookup(w) \/ RevokeLookup(w)
    PROVE  ToldBy(last)'
<1>1. UNCHANGED <<table, holds, created, cache, check, astray>> /\ change[w].at = "idle"
  BY DEF GrantLookup, RevokeLookup
<1>2. change = [v \in Changes |-> change[v]]
  BY DEF Shape, AllChanges
<1>3. ASSUME change'[w].at \in {"write", "delete", "blind"},
             \A v \in Changes \ {w} : change'[v] = change[v]
      PROVE  ToldBy(last)'
  <2>1. /\ Past' = Past /\ Unfinished' = Unfinished /\ w \notin Unfinished
        /\ \A v \in Unfinished : change'[v] = change[v]
    BY <1>1, <1>2, <1>3 DEF Past, Unfinished
  <2>2. /\ Now' = Now /\ ViewsNear(last, Now)'
        /\ \A key : Query(key)' = Query(key)
        /\ \A k : CheckTrue(k, Open, Past, last, Now) => CheckTrue(k, Open', Past', last, Now')
        /\ \A v \in Unfinished' : ChangeTrue(v, Past, last, Now)'
    BY <1>1, <2>1, QuietKeeps
  <2>3. \A key \in Keys : KeyTrue(key, last)'
    BY <1>1, <2>1, <2>2 DEF KeyTrue, ToldBy
  <2>4. QED
    BY <1>1, <2>2, <2>3 DEF ToldBy
<1>4. ASSUME NEW at \in {"write", "delete", "blind"}, NEW row,
             change' = [change EXCEPT ![w] = [NoChange EXCEPT !.at = at, !.row = row]]
      PROVE  ToldBy(last)'
  <2> DEFINE looked == [NoChange EXCEPT !.at = at, !.row = row]
  <2>1. looked.at \in {"write", "delete", "blind"}
    BY DEF NoChange
  <2>2. change' = [change EXCEPT ![w] = looked]
    BY <1>4
  <2> HIDE DEF looked
  <2>3. QED
    BY <1>2, <1>3, <2>1, <2>2
<1>5. CASE RevokeLookup(w)
  BY <1>4, <1>5 DEF RevokeLookup
<1>6. CASE GrantLookup(w)
  <2>1. PICK row : change' = [change EXCEPT ![w] = [NoChange EXCEPT !.at = "write", !.row = row]]
    <3>1. PICK g \in Grantees, resource \in {Resource, Wildcard}, level \in Given,
               effect \in Effects :
          \E no \in IF Rows(RowsOf(g), Type, resource) = {} THEN {0}
                    ELSE {first.no : first \in First(Rows(RowsOf(g), Type, resource))} :
              change' = [change EXCEPT ![w] = [NoChange EXCEPT
                  !.at = "write",
                  !.row = {[grantee |-> g,
                            grant |-> [no |-> no, type |-> Type, resource |-> resource,
                                       level |-> level, effect |-> effect]]}]]
      BY <1>6 DEF GrantLookup
    <3>2. PICK no :
              change' = [change EXCEPT ![w] = [NoChange EXCEPT
                  !.at = "write",
                  !.row = {[grantee |-> g,
                            grant |-> [no |-> no, type |-> Type, resource |-> resource,
                                       level |-> level, effect |-> effect]]}]]
      BY <3>1
    <3>3. QED
      BY <3>2
  <2>2. QED
    BY <1>4, <2>1
<1>7. QED
  BY <1>5, <1>6

LEMMA InvalidateTold ==
    ASSUME NEW last, ToldBy(last), Shape, NEW w \in Changes, Invalidate(w)
    PROVE  ToldBy(last)'
<1> DEFINE ended == [NoChange EXCEPT !.at = "done"]
           key == change[w].key
<1>1. ended.at = "done"
  BY DEF NoChange
<1>2. /\ change' = [change EXCEPT ![w] = ended] /\ change[w].at = "invalidate"
      /\ UNCHANGED <<table, holds, created, check>>
      /\ \/ cache' = [cache EXCEPT ![key] = {}] /\ astray' = astray \ {key}
         \/ cache' = cache /\ astray' = astray \cup {key}
  BY DEF Invalidate
<1> HIDE DEF ended
<1>3. /\ change = [v \in Changes |-> change[v]] /\ cache = [k \in Keys |-> cache[k]]
  BY DEF Shape, AllChanges
<1>4. /\ Past' = Past /\ Unfinished' = Unfinished \ {w}
      /\ \A v \in Unfinished' : change'[v] = change[v]
  BY <1>1, <1>2, <1>3 DEF Past, Unfinished
<1>5. /\ Now' = Now /\ ViewsNear(last, Now)'
      /\ \A other : Query(other)' = Query(other)
      /\ \A k : CheckTrue(k, Open, Past, last, Now) => CheckTrue(k, Open', Past', last, Now')
      /\ \A v \in Unfinished' : ChangeTrue(v, Past, last, Now)'
  BY <1>2, <1>4, QuietKeeps
<1>6. ASSUME NEW other \in Keys PROVE KeyTrue(other, last)'
  <2>1. CASE other = key
    BY <1>2, <1>3, <2>1 DEF KeyTrue
  <2>2. CASE other # key
    <3>1. cache'[other] = cache[other] /\ (other \in astray' <=> other \in astray)
      BY <1>2, <1>3, <2>2
    <3>2. KeyTrue(other, last)
      BY DEF ToldBy
    <3>3. QED
      BY <1>4, <1>5, <2>2, <3>1, <3>2 DEF KeyTrue
  <2>3. QED
    BY <2>1, <2>2
<1>7. QED
  BY <1>2, <1>5, <1>6 DEF ToldBy

\* The window of a check or a change with the change w in it too.
LEMMA WitnessIs ==
    ASSUME NEW w, NEW k, {"seen", "commits"} \subseteq DOMAIN k
    PROVE  /\ Witness(k, w).commits = k.commits \cup {w}
           /\ Witness(k, w).seen = k.seen \cup Asked(Now)'
           /\ DOMAIN Witness(k, w) = DOMAIN k
           /\ \A field \in DOMAIN k \ {"seen", "commits"} : Witness(k, w)[field] = k[field]
<1>1. Asked(Now)' = Truths'
  <2>1. Now'.rows = RowsNow' /\ Now'.roles = holds'
    BY DEF Now
  <2>2. QED
    BY <2>1 DEF Asked, TruthsOf, Truths, RowsNow
<1>2. QED
  BY <1>1 DEF Witness

\* A check has one change more in its window. If that is the only one, it has
\* read nothing but what the tables were until now.
LEMMA WitnessTrue ==
    ASSUME NEW open, NEW past, NEW last, NEW now, NEW next, NEW w, w \notin past,
           NEW k, k.at \in Lookups, CheckTrue(k, open, past, last, now),
           NEW more, more \subseteq open \cup {w}, NEW later, past \cup {w} \subseteq later,
           NEW seen, IsCheck(seen), seen.commits = k.commits \cup {w},
           seen.seen = k.seen \cup Asked(next),
           seen.at = k.at, seen.phase = k.phase, seen.read = k.read, seen.left = k.left,
           seen.role = k.role, seen.accept = k.accept, seen.misled = k.misled
    PROVE  CheckTrue(seen, more, later, now, next)
<1>1. KeyOf(seen) = KeyOf(k) /\ \A v : Reached(seen, v) <=> Reached(k, v)
  BY DEF KeyOf, Reached, Progress
<1>2. AnswerTrue(seen)
  BY DEF AnswerTrue, Lookups
<1>3. Views(seen.commits, now, next) = {now, next}
  BY DEF Views
<1>4. more \subseteq seen.commits /\ seen.commits \subseteq later
  BY DEF CheckTrue
<1>5. ASSUME AtMostOne(seen.commits) PROVE Views(k.commits, last, now) = {now} /\ AtMostOne(k.commits)
  <2>1. k.commits \subseteq past
    BY DEF CheckTrue
  <2>2. k.commits = {}
    BY <1>5, <2>1 DEF AtMostOne
  <2>3. QED
    BY <2>2 DEF Views, AtMostOne
<1>6. ASSUME AtMostOne(seen.commits)
      PROVE  /\ Asked(now) \subseteq k.seen
             /\ ~k.misled => Reached(k, now)
             /\ ~k.misled /\ k.phase = "fill" => k.read = {Listed(now, KeyOf(k))}
  BY <1>5, <1>6 DEF CheckTrue
<1>7. QED
  BY <1>1, <1>2, <1>3, <1>4, <1>6 DEF CheckTrue

\* A commit: the tables of before become the last view.
LEMMA CommitTold ==
    ASSUME NEW last, ToldBy(last), Shape, NEW w \in Changes, w \notin Past, NEW key \in Keys,
           Committed(w, key), UNCHANGED cache,
           \A other \in Keys \ {key} : Query(other)' = Query(other),
           NEW before, before = Now, ViewsNear(before, Now')
    PROVE  ToldBy(before)'
<1> DEFINE witnessed == [v \in Changes |-> IF v \in Unfinished THEN Witness(change[v], w)
                                           ELSE change[v]]
           begun == Witness([NoChange EXCEPT !.at = "invalidate", !.key = key,
                                             !.seen = Truths], w)
           ended == [NoChange EXCEPT !.at = "done"]
<1>1. \A v \in Unfinished :
          /\ witnessed[v].at = change[v].at /\ witnessed[v].key = change[v].key
          /\ witnessed[v].commits = change[v].commits \cup {w}
  BY WitnessIs DEF Shape, AllChanges, IsChange, Unfinished
<1>2. /\ begun.at = "invalidate" /\ begun.key = key
      /\ begun.commits = {w} /\ begun.seen = Asked(before) \cup Asked(Now)'
  <2> DEFINE fresh == [NoChange EXCEPT !.at = "invalidate", !.key = key, !.seen = Truths]
  <2>1. /\ {"seen", "commits", "at", "key"} \subseteq DOMAIN fresh /\ fresh.seen = Truths
        /\ fresh.at = "invalidate" /\ fresh.key = key /\ fresh.commits = {}
    BY DEF NoChange
  <2>2. Truths = Asked(before)
    BY NowIs
  <2>3. begun = Witness(fresh, w)
    OBVIOUS
  <2> HIDE DEF fresh, begun
  <2>4. QED
    BY <2>1, <2>2, <2>3, WitnessIs
<1>3. ended.at = "done"
  BY DEF NoChange
<1>4. \/ change' = [witnessed EXCEPT ![w] = begun] /\ astray' = astray
      \/ change' = [witnessed EXCEPT ![w] = ended] /\ astray' = astray \cup {key}
  BY DEF Committed
<1>5. w \notin Unfinished
  BY DEF Unfinished, Past
<1>6. witnessed = [v \in Changes |-> witnessed[v]]
  OBVIOUS
<1>7. \A v \in Changes \ Unfinished : witnessed[v] = change[v]
  OBVIOUS
<1> HIDE DEF witnessed, begun, ended
<1>8. /\ \A v \in Changes \ {w} : change'[v] = witnessed[v]
      /\ \/ change'[w] = begun /\ astray' = astray
         \/ change'[w] = ended /\ astray' = astray \cup {key}
  BY <1>4, <1>6
<1>9. /\ Unfinished \subseteq Unfinished' /\ Unfinished' \subseteq Unfinished \cup {w}
      /\ w \in Unfinished' \/ key \in astray'
      /\ Past' = Past \cup {w}
  BY <1>1, <1>2, <1>3, <1>5, <1>7, <1>8 DEF Unfinished, Past
<1>10. /\ \A v \in Unfinished : change'[v].commits = change[v].commits \cup {w}
       /\ w \in Unfinished' => change'[w] = begun
  BY <1>1, <1>3, <1>5, <1>8 DEF Unfinished
<1>11. Open' \subseteq Open \cup {w}
  BY <1>2, <1>9, <1>10 DEF Open
<1>12. ASSUME NEW c \in Checks PROVE CheckTrue(check'[c], Open', Past', before, Now')
  <2> DEFINE k == check[c]
             seen == Witness(k, w)
  <2>1. check'[c] = IF k.at \in Lookups THEN seen ELSE k
    BY DEF Committed
  <2>2. CheckTrue(k, Open, Past, last, Now) /\ IsCheck(k)
    BY DEF ToldBy, CheckTrue
  <2>3. /\ seen.commits = k.commits \cup {w} /\ seen.seen = k.seen \cup Asked(Now)'
        /\ IsCheck(seen)
        /\ seen.at = k.at /\ seen.phase = k.phase /\ seen.read = k.read /\ seen.left = k.left
        /\ seen.role = k.role /\ seen.accept = k.accept /\ seen.misled = k.misled
    BY <2>2, WitnessIs DEF IsCheck
  <2> HIDE DEF k, seen
  <2>4. CASE k.at \in Lookups
    <3>1. CheckTrue(seen, Open', Past', before, Now')
      BY <1>9, <1>11, <2>2, <2>3, <2>4, WitnessTrue
    <3>2. QED
      BY <2>1, <2>4, <3>1
  <2>5. CASE k.at \notin Lookups
    BY <2>1, <2>2, <2>5 DEF CheckTrue
  <2>6. QED
    BY <2>4, <2>5
<1>13. ASSUME NEW v \in Unfinished' PROVE ChangeTrue(v, Past, before, Now)'
  <2>1. CASE v = w
    <3>1. change'[w] = begun
      BY <1>10, <1>13, <2>1
    <3>2. QED
      BY <1>2, <1>9, <2>1, <3>1 DEF ChangeTrue
  <2>2. CASE v # w
    <3>1. v \in Unfinished /\ v \in change[v].commits /\ change[v].commits \subseteq Past
      BY <1>9, <1>13, <2>2 DEF ToldBy, ChangeTrue
    <3>2. change'[v].commits = change[v].commits \cup {w}
      BY <1>10, <3>1
    <3>3. ~AtMostOne(change'[v].commits)
      BY <2>2, <3>1, <3>2 DEF AtMostOne
    <3>4. QED
      BY <1>9, <3>1, <3>2, <3>3 DEF ChangeTrue
  <2>3. QED
    BY <2>1, <2>2
<1>14. ASSUME NEW other \in Keys PROVE KeyTrue(other, before)'
  <2>1. CASE other \in astray \/ (other = key /\ key \in astray')
    BY <1>8, <2>1 DEF KeyTrue
  <2>2. CASE \E v \in Unfinished : change[v].key = other
    <3>1. PICK v \in Unfinished : change[v].key = other
      BY <2>2
    <3>2. v \in Unfinished' /\ change'[v].key = other /\ v # w
      BY <1>1, <1>5, <1>8, <1>9, <3>1 DEF Unfinished
    <3>3. v \in change[v].commits
      BY <3>1 DEF ToldBy, ChangeTrue
    <3>4. ~AtMostOne(change'[v].commits)
      BY <1>10, <3>1, <3>2, <3>3 DEF AtMostOne
    <3>5. QED
      BY <3>2, <3>4 DEF KeyTrue
  <2>3. CASE /\ \A value \in cache[other] : value = Query(other)
             /\ other = key /\ w \in Unfinished'
    <3>1. change'[w].key = other
      BY <1>2, <1>10, <2>3
    <3>2. Query(other) = Listed(before, other)
      BY <2>3, NowIs
    <3>3. QED
      BY <2>3, <3>1, <3>2 DEF KeyTrue
  <2>4. CASE (\A value \in cache[other] : value = Query(other)) /\ other # key
    BY <2>4 DEF KeyTrue
  <2>5. KeyTrue(other, last)
    BY DEF ToldBy
  <2>6. QED
    BY <1>9, <2>1, <2>2, <2>3, <2>4, <2>5 DEF KeyTrue
<1>15. check' = [c \in Checks |-> check'[c]]
  BY DEF Committed
<1>16. QED
  BY <1>12, <1>13, <1>14, <1>15 DEF ToldBy

\* A commit changes the roles, or the rows of one grantee for one resource.
LEMMA RolesCommitNear ==
    ASSUME UNCHANGED table, holds \subseteq Roles, holds' \subseteq Roles
    PROVE  ViewsNear(Now, Now')
<1>1. RowsNow' = RowsNow
  BY DEF RowsNow, RowsOf
<1>2. QED
  BY <1>1 DEF ViewsNear, OneDiffers, Now

LEMMA RowCommitNear ==
    ASSUME UNCHANGED holds, holds \subseteq Roles,
           NEW g \in Grantees, NEW resource,
           \A other \in Grantees \ {g} : RowsOf(other)' = RowsOf(other),
           \A t \in table \cup table' :
               ~(t \in table /\ t \in table') => t.grant.resource = resource
    PROVE  ViewsNear(Now, Now')
<1>1. \A other \in Grantees : RowsNow[other] = RowsOf(other) /\ RowsNow'[other] = RowsOf(other)'
  BY DEF RowsNow
<1>2. \A other \in {Resource, Wildcard} \ {resource} :
          Rows(RowsNow[g], Type, other) = Rows(RowsNow'[g], Type, other)
  <2> SUFFICES ASSUME NEW other \in {Resource, Wildcard} \ {resource}
               PROVE  Rows(RowsOf(g), Type, other) = Rows(RowsOf(g)', Type, other)
    BY <1>1
  <2>1. \A t : t.grant.resource = other => (t \in table <=> t \in table')
    OBVIOUS
  <2>2. \A row : row.resource = other => (row \in RowsOf(g) <=> row \in RowsOf(g)')
    BY <2>1 DEF RowsOf
  <2>3. QED
    BY <2>2 DEF Rows
<1>3. PICK r \in {Resource, Wildcard} : \A other \in {Resource, Wildcard} \ {r} :
          Rows(RowsNow[g], Type, other) = Rows(RowsNow'[g], Type, other)
  BY <1>2
<1>4. OneDiffers(RowsNow, holds, RowsNow', holds')
  BY <1>1, <1>3 DEF OneDiffers
<1>5. QED
  BY <1>4 DEF ViewsNear, Now

LEMMA GrantTold ==
    ASSUME FreshInv, NEW last, ToldBy(last), NEW w \in Changes, GrantWrite(w)
    PROVE  \E before : ToldBy(before)'
<1>1. PICK row \in change[w].row :
          /\ IF row.grant.no = 0
             THEN created' = created + 1 /\ table' = table \cup {[row EXCEPT !.grant.no = created + 1]}
             ELSE UNCHANGED created /\ table' = {t \in table : t.grant.no # row.grant.no} \cup {row}
          /\ UNCHANGED holds /\ Committed(w, AccessKey(row.grantee)) /\ UNCHANGED cache
  BY DEF GrantWrite
<1>2. row \in Row /\ row \in AllRows /\ row.grantee \in Grantees
  BY DEF FreshInv, Shape, AllChanges, IsChange, AllRows, Row
<1>3. ASSUME NEW t \in table \cup table', ~(t \in table /\ t \in table')
      PROVE  t.grantee = row.grantee /\ t.grant.resource = row.grant.resource
  <2>1. CASE row.grant.no = 0
    <3> DEFINE new == [row EXCEPT !.grant.no = created + 1]
    <3>1. t = new
      BY <1>1, <1>3, <2>1
    <3>2. new.grantee = row.grantee /\ new.grant.resource = row.grant.resource
      BY <1>2 DEF Row, Grant
    <3>3. QED
      BY <3>1, <3>2
  <2>2. CASE row.grant.no # 0
    <3>1. t = row \/ (t \in table /\ t.grant.no = row.grant.no)
      BY <1>1, <1>3, <2>2
    <3>2. QED
      BY <1>2, <2>2, <3>1 DEF FreshInv, OneTuple, AllRows
  <2>3. QED
    BY <2>1, <2>2
<1>4. \A other \in Grantees \ {row.grantee} : RowsOf(other)' = RowsOf(other)
  BY <1>3 DEF RowsOf
<1>5. holds \subseteq Roles
  BY NowIs DEF ToldBy, ViewsNear
<1>6. ViewsNear(Now, Now')
  BY <1>1, <1>2, <1>3, <1>4, <1>5, RowCommitNear
<1>7. \A key \in Keys \ {AccessKey(row.grantee)} : Query(key)' = Query(key)
  BY <1>1, <1>2, <1>4, OtherKeysKeep
<1>8. w \notin Past /\ AccessKey(row.grantee) \in Keys /\ Shape
  BY <1>2, KeysDiffer DEF GrantWrite, Past, FreshInv
<1>9. PICK before : before = Now
  OBVIOUS
<1>10. QED
  BY <1>1, <1>6, <1>7, <1>8, <1>9, CommitTold

LEMMA RevokeTold ==
    ASSUME FreshInv, NEW last, ToldBy(last), NEW w \in Changes, RevokeDelete(w)
    PROVE  \E before : ToldBy(before)'
<1>1. PICK row \in change[w].row :
          IF \E t \in table : t.grant.no = row.grant.no
          THEN /\ table' = {t \in table : t.grant.no # row.grant.no}
               /\ UNCHANGED <<holds, created>>
               /\ Committed(w, AccessKey(row.grantee))
          ELSE /\ change' = [change EXCEPT ![w] = [NoChange EXCEPT !.at = "done"]]
               /\ UNCHANGED <<table, holds, created, check, astray, faults>>
  BY DEF RevokeDelete
<1>2. row \in AllRows /\ row.grantee \in Grantees /\ UNCHANGED cache /\ change[w].at \in {"delete", "blind"}
  BY DEF FreshInv, Shape, AllChanges, IsChange, AllRows, Row, RevokeDelete
<1>3. CASE \E t \in table : t.grant.no = row.grant.no
  <2>1. /\ table' = {t \in table : t.grant.no # row.grant.no}
        /\ UNCHANGED <<holds, created>> /\ Committed(w, AccessKey(row.grantee))
    BY <1>1, <1>3
  <2>2. ASSUME NEW t \in table \cup table', ~(t \in table /\ t \in table')
        PROVE  t.grantee = row.grantee /\ t.grant.resource = row.grant.resource
    BY <1>2, <2>1, <2>2 DEF FreshInv, Numbered, OneTuple, AllRows
  <2>3. \A other \in Grantees \ {row.grantee} : RowsOf(other)' = RowsOf(other)
    BY <2>2 DEF RowsOf
  <2>4. holds \subseteq Roles
    BY NowIs DEF ToldBy, ViewsNear
  <2>5. ViewsNear(Now, Now')
    BY <1>2, <2>1, <2>2, <2>3, <2>4, RowCommitNear
  <2>6. \A key \in Keys \ {AccessKey(row.grantee)} : Query(key)' = Query(key)
    BY <1>2, <2>1, <2>3, OtherKeysKeep
  <2>7. w \notin Past /\ AccessKey(row.grantee) \in Keys /\ Shape
    BY <1>2, KeysDiffer DEF Past, FreshInv
  <2>8. PICK before : before = Now
    OBVIOUS
  <2>9. QED
    BY <1>2, <2>1, <2>5, <2>6, <2>7, <2>8, CommitTold
\* Another change deleted the row: this one was in nobody's window.
<1>4. CASE ~\E t \in table : t.grant.no = row.grant.no
  <2> DEFINE ended == [NoChange EXCEPT !.at = "done"]
  <2>1. ended.at = "done"
    BY DEF NoChange
  <2>2. change' = [change EXCEPT ![w] = ended] /\ UNCHANGED <<table, holds, cache, check, astray>>
    BY <1>1, <1>2, <1>4
  <2> HIDE DEF ended
  <2>3. change = [v \in Changes |-> change[v]]
    BY DEF FreshInv, Shape, AllChanges
  <2>4. /\ Past \subseteq Past' /\ Unfinished' = Unfinished
        /\ \A v \in Unfinished' : change'[v] = change[v]
    BY <1>2, <2>1, <2>2, <2>3 DEF Past, Unfinished
  <2>5. /\ Now' = Now /\ ViewsNear(last, Now)'
        /\ \A key : Query(key)' = Query(key)
        /\ \A k : CheckTrue(k, Open, Past, last, Now) => CheckTrue(k, Open', Past', last, Now')
        /\ \A v \in Unfinished' : ChangeTrue(v, Past, last, Now)'
    BY <2>2, <2>4, QuietKeeps
  <2>6. \A key \in Keys : KeyTrue(key, last)'
    BY <2>2, <2>4, <2>5 DEF KeyTrue, ToldBy
  <2>7. ToldBy(last)'
    BY <2>2, <2>5, <2>6 DEF ToldBy
  <2>8. QED
    BY <2>7
<1>5. QED
  BY <1>3, <1>4

LEMMA AssignTold ==
    ASSUME FreshInv, NEW last, ToldBy(last), NEW w \in Changes, AssignRole(w)
    PROVE  \E before : ToldBy(before)'
<1>1. /\ UNCHANGED <<table, created, cache>> /\ change[w].at = "idle" /\ Committed(w, RolesKey)
      /\ \E r \in Roles \ holds : holds' = holds \cup {r}
  BY DEF AssignRole
<1>2. holds \subseteq Roles /\ holds' \subseteq Roles
  BY <1>1, NowIs DEF ToldBy, ViewsNear
<1>3. ViewsNear(Now, Now')
  BY <1>1, <1>2, RolesCommitNear
<1>4. \A key \in Keys \ {RolesKey} : Query(key)' = Query(key)
  BY <1>1 DEF Query, RowsOf
<1>5. w \notin Past /\ RolesKey \in Keys /\ Shape
  BY <1>1, KeysDiffer DEF Past, FreshInv
<1>6. PICK before : before = Now
  OBVIOUS
<1>7. QED
  BY <1>1, <1>3, <1>4, <1>5, <1>6, CommitTold

\* With the freshness of the cache, this is kept by every step.
TrueInv == FreshInv /\ \E last : ToldBy(last)

LEMMA InitTrue == Init => TrueInv
<1> SUFFICES ASSUME Init PROVE \E last : ToldBy(last)
  BY InitFresh DEF TrueInv
<1>1. PICK last : last = Now
  OBVIOUS
<1>2. ViewsNear(last, Now)
  BY <1>1, NowIs DEF ViewsNear, OneDiffers, Init
<1>3. /\ IsCheck(NoCheck) /\ NoCheck.at = "idle"
      /\ NoChange.at = "idle"
  BY DEF IsCheck, NoCheck, NoChange
<1>4. \A c \in Checks : CheckTrue(check[c], Open, Past, last, Now)
  BY <1>3 DEF Init, CheckTrue, AnswerTrue, Lookups
<1>5. Unfinished = {}
  BY <1>3 DEF Init, Unfinished
<1>6. \A key \in Keys : KeyTrue(key, last)
  BY DEF Init, KeyTrue
<1>7. check = [c \in Checks |-> check[c]]
  BY DEF Init
<1>8. ToldBy(last)
  BY <1>2, <1>4, <1>5, <1>6, <1>7 DEF ToldBy
<1>9. QED
  BY <1>8

LEMMA NextTrue == TrueInv /\ [Next]_vars => TrueInv'
<1> SUFFICES ASSUME TrueInv, [Next]_vars PROVE \E before : ToldBy(before)'
  BY NextFresh DEF TrueInv
<1>1. PICK last : ToldBy(last)
  BY DEF TrueInv
<1>2. FreshInv /\ Shape
  BY DEF TrueInv, FreshInv
<1>3. ASSUME NEW c \in Checks, StartCheck(c) \/ CacheGet(c) \/ QueryDatabase(c) \/ CacheSet(c)
      PROVE  ToldBy(last)'
  BY <1>1, <1>2, <1>3, StartTold, GetTold, QueryTold, SetTold
<1>4. ASSUME NEW w \in Changes, GrantLookup(w) \/ RevokeLookup(w) \/ Invalidate(w)
      PROVE  ToldBy(last)'
  BY <1>1, <1>2, <1>4, LookupTold, InvalidateTold
<1>5. ASSUME NEW w \in Changes, GrantWrite(w) \/ RevokeDelete(w) \/ AssignRole(w)
      PROVE  \E before : ToldBy(before)'
  BY <1>1, <1>2, <1>5, GrantTold, RevokeTold, AssignTold
<1>6. ASSUME NEW key \in Keys, Expire(key) PROVE ToldBy(last)'
  BY <1>1, <1>2, <1>6, ExpireTold
<1>7. CASE UNCHANGED vars
  <2>1. UNCHANGED <<table, holds, cache, check, change, astray>>
    BY <1>7 DEF vars
  <2>2. Past' = Past /\ Unfinished' = Unfinished
    BY <2>1 DEF Past, Unfinished
  <2>3. \A key \in Keys : KeyTrue(key, last)'
    BY <1>1, <1>2, <2>1, CacheKeeps
  <2>4. ToldBy(last)'
    BY <1>1, <2>1, <2>2, <2>3, QuietKeeps DEF ToldBy
  <2>5. QED
    BY <2>4
<1>8. QED
  BY <1>3, <1>4, <1>5, <1>6, <1>7 DEF Next

\* A check never mixes a grant of before with a role of after: where at most one
\* change falls in its window and no key it read had gone astray, what it answers
\* is what the resolver says of the tables at some moment of the window, however
\* its lookups, the changes, their DELs, the fills and the faults interleave.
THEOREM AnswersWereTrue == Spec => []AnswerWasTrue
<1>1. Init => TrueInv
  BY InitTrue
<1>2. TrueInv /\ [Next]_vars => TrueInv'
  BY NextTrue
<1>3. TrueInv => AnswerWasTrue
  BY DEF TrueInv, ToldBy, CheckTrue, AnswerTrue, AnswerWasTrue, Answered
<1>4. QED
  BY <1>1, <1>2, <1>3, PTL DEF Spec
=============================================================================
