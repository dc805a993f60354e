----------------------------- MODULE AccessCache -----------------------------
(***************************************************************************)
(* Access checks and the changes of grants they race with, through the     *)
(* Redis read-through cache of rbac/cached_repository.go.  Each lookup a   *)
(* check makes is a GET, on a miss a query and a SET; each change of a     *)
(* grant is a lookup, a write and a DEL of the grantee's key.  Checks and  *)
(* changes run in request goroutines of any server, step by step.          *)
(*                                                                         *)
(* The checks modelled ask one question, whether Caller holds Required on  *)
(* Resource, of a type other than "user" (for which HasAccessLevel goes on *)
(* to the roles of the target: see AccessResolver).                        *)
(***************************************************************************)
EXTENDS AccessResolver, FiniteSets

CONSTANTS Checks,        \* requests that check access
          Changes,       \* requests that change a grant or a role
          Caller, Type, Resource, Required,   \* the question
          Roles,         \* the roles there are
          Given,         \* the levels the changes grant
          InitialTables, \* the tables there may be at first
          MaxRows,       \* bound: rows ever created
          MaxFaults      \* bound: Redis or database errors

Grantees == {<<"user", Caller>>} \cup {<<"role", r>> : r \in Roles}
AccessKey(g) == <<"access", g>>
RolesKey == <<"roles", Caller>>
Keys == {AccessKey(g) : g \in Grantees} \cup {RolesKey}

Row == [grantee: Grantees, grant: Grant({Type}, {Resource})]

ASSUME AccessAssumption ==
    /\ Type # "user"
    /\ Resource # Wildcard
    /\ Required \in Levels
    /\ Given \subseteq Levels
    /\ \A rows \in InitialTables :
           /\ rows \subseteq Row /\ IsFiniteSet(rows)
           /\ \A row \in rows : row.grant.no \in 1 .. Cardinality(rows)
           /\ \A row, other \in rows : row.grant.no = other.grant.no => row = other
    /\ MaxRows \in Nat
    /\ MaxFaults \in Nat

VARIABLES table,    \* the live rows of resource_access
          holds,    \* the roles user_roles gives Caller
          created,  \* the sequence behind the primary key
          cache,    \* Redis: per key {}, or the one value cached
          check,    \* each check: the lookup it is at and what it knows
          change,   \* each change: what it does and how far it is
          faults,
          astray    \* history: keys left stale, by a raced SET or for want of a DEL

vars == <<table, holds, created, cache, check, change, faults, astray>>

RowsOf(g) == {row.grant : row \in {t \in table : t.grantee = g}}
Query(key) == IF key = RolesKey THEN holds ELSE RowsOf(key[2])
Values(key) == IF key = RolesKey THEN SUBSET Roles ELSE SUBSET Grant({Type}, {Resource})

\* What a check that saw the tables as they are now might answer.
Truths == HasAccessLevel([g \in Grantees |-> RowsOf(g)], [u \in {Caller} |-> holds],
                        Caller, Type, Resource, Required)

Lookups == {"userExact", "userWildcard", "roles", "roleExact", "roleWildcard"}
Verdicts == {"allowed", "denied", "error"}

TypeOK ==
    /\ table \subseteq Row
    /\ \A row, other \in table : row.grant.no = other.grant.no => row = other
    /\ holds \subseteq Roles
    /\ created \in Nat
    /\ \A key \in Keys : cache[key] \subseteq Values(key) /\ Cardinality(cache[key]) <= 1
    /\ \A c \in Checks :
           /\ check[c].at \in Lookups \cup Verdicts \cup {"idle"}
           /\ check[c].phase \in {"get", "query", "fill", "bypass"}
           /\ check[c].left \subseteq Roles
           /\ check[c].commits \subseteq Changes
    /\ \A w \in Changes : change[w].at \in {"idle", "write", "delete", "blind", "invalidate", "done"}
    /\ faults \in 0 .. MaxFaults
    /\ astray \subseteq Keys

-----------------------------------------------------------------------------
NoCheck == [at |-> "idle", phase |-> "get", read |-> {}, left |-> {}, role |-> {},
            accept |-> FALSE, misled |-> FALSE, seen |-> {}, commits |-> {}]
NoChange == [at |-> "idle", row |-> {}, key |-> RolesKey, seen |-> {}, commits |-> {}]

Init ==
    /\ table \in InitialTables
    /\ holds \in SUBSET Roles
    /\ created = Cardinality(table)   \* InitialTables number their rows from 1
    /\ cache = [key \in Keys |-> {}]
    /\ check = [c \in Checks |-> NoCheck]
    /\ change = [w \in Changes |-> NoChange]
    /\ faults = 0
    /\ astray = {}

Fault == faults < MaxFaults /\ faults' = faults + 1
NoFault == UNCHANGED faults

-----------------------------------------------------------------------------
\* The lookup a check is at: its key in Redis, and the row it is after.
KeyOf(k) == CASE k.at \in {"userExact", "userWildcard"} -> AccessKey(<<"user", Caller>>)
              [] k.at = "roles" -> RolesKey
              [] OTHER -> AccessKey(<<"role", CHOOSE r \in k.role : TRUE>>)

Found(k, list) ==
    Rows(list, Type, IF k.at \in {"userExact", "roleExact"} THEN Resource ELSE Wildcard)

At(k, lookup) == [k EXCEPT !.at = lookup, !.phase = "get", !.read = {}]

Verdict(k, allowed) ==
    [NoCheck EXCEPT !.at = IF allowed THEN "allowed" ELSE "denied",
                    !.misled = k.misled, !.seen = k.seen, !.commits = k.commits]

\* resolveAnyRole goes on to one of the roles left (in no particular order).
NextRole(k) ==
    IF k.left = {} THEN {Verdict(k, k.accept)}
    ELSE {[At(k, "roleExact") EXCEPT !.role = {r}, !.left = @ \ {r}] : r \in k.left}

\* findGrant finds no row at the lookup k is at ...
Missing(k) ==
    CASE k.at = "userExact" -> {At(k, "userWildcard")}
      [] k.at = "userWildcard" -> {At(k, "roles")}
      [] k.at = "roleExact" -> {At(k, "roleWildcard")}
      [] k.at = "roleWildcard" -> NextRole(k)

\* ... or the row g: the user's decides, so does a role's that prohibits.
Serving(k, g) ==
    CASE k.at \in {"userExact", "userWildcard"} -> {Verdict(k, Accepts(g, Required))}
      [] k.at \in {"roleExact", "roleWildcard"} /\ g.effect = "prohibited" ->
             {Verdict(k, FALSE)}
      [] OTHER -> NextRole([k EXCEPT !.accept = @ \/ Accepts(g, Required)])

\* The lookup has returned value: where the check may go next.
After(k, value) ==
    IF k.at = "roles" THEN NextRole([k EXCEPT !.left = value])
    ELSE IF Found(k, value) = {} THEN Missing(k)
    ELSE UNION {Serving(k, g) : g \in Found(k, value)}

Becomes(c, k) == check' = [check EXCEPT ![c] = k]
Returns(c, value) == \E k \in After(check[c], value) : Becomes(c, k)

\* Changes that are written but still have their DEL before them.
Unfinished == {w \in Changes : change[w].at = "invalidate"}
Pending(key) == \E w \in Unfinished : change[w].key = key

\* A request comes to a check. Its window begins before every change that is
\* still unfinished: seen collects what the tables have said in it, commits the
\* changes made in it.
StartCheck(c) ==
    /\ check[c].at \in Verdicts \cup {"idle"}
    /\ Becomes(c, [NoCheck EXCEPT
                      !.at = "userExact",
                      !.seen = Truths \cup UNION {change[w].seen : w \in Unfinished},
                      !.commits = UNION {change[w].commits : w \in Unfinished}])
    /\ UNCHANGED <<table, holds, created, cache, change, faults, astray>>

\* cache.Get: a hit, a miss, or Redis is broken and the check goes round it.
CacheGet(c) ==
    LET key == KeyOf(check[c])
    IN  /\ check[c].at \in Lookups
        /\ check[c].phase = "get"
        /\ \/ /\ \E value \in cache[key] : \E k \in After(check[c], value) :
                     Becomes(c, [k EXCEPT !.misled = @ \/ key \in astray])
              /\ NoFault
           \/ cache[key] = {} /\ Becomes(c, [check[c] EXCEPT !.phase = "query"]) /\ NoFault
           \/ Becomes(c, [check[c] EXCEPT !.phase = "bypass"]) /\ Fault
        /\ UNCHANGED <<table, holds, created, cache, change, astray>>

\* The query of the inner repository; its error is the check's.
QueryDatabase(c) ==
    LET value == Query(KeyOf(check[c]))
    IN  /\ check[c].at \in Lookups
        /\ check[c].phase \in {"query", "bypass"}
        /\ \/ /\ check[c].phase = "query" /\ NoFault
              /\ Becomes(c, [check[c] EXCEPT !.phase = "fill", !.read = {value}])
           \/ check[c].phase = "bypass" /\ Returns(c, value) /\ NoFault
           \/ Becomes(c, [NoCheck EXCEPT !.at = "error"]) /\ Fault
        /\ UNCHANGED <<table, holds, created, cache, change, astray>>

\* cache.Set, whose error is ignored.
CacheSet(c) ==
    LET key == KeyOf(check[c])
    IN  /\ check[c].at \in Lookups
        /\ check[c].phase = "fill"
        /\ \E value \in check[c].read :
               /\ Returns(c, value)
               /\ \/ /\ cache' = [cache EXCEPT ![key] = {value}]
                     /\ astray' = IF value = Query(key) THEN astray \ {key} ELSE astray \cup {key}
                     /\ NoFault
                  \/ UNCHANGED <<cache, astray>> /\ Fault
        /\ UNCHANGED <<table, holds, created, change>>

-----------------------------------------------------------------------------
\* The window of k has one change more in it, that of w.
Witness(k, w) == [k EXCEPT !.seen = @ \cup Truths', !.commits = @ \cup {w}]

\* A change of what key caches is committed: it goes on to the DEL, or returns
\* because its reply was lost (an error) or because it does not know the key.
Committed(w, key) ==
    LET witnessed == [v \in Changes |-> IF v \in Unfinished THEN Witness(change[v], w)
                                       ELSE change[v]]
    IN  /\ check' = [c \in Checks |->
                        IF check[c].at \in Lookups THEN Witness(check[c], w) ELSE check[c]]
        /\ \/ /\ change[w].at # "blind"
              /\ change' = [witnessed EXCEPT ![w] =
                               Witness([NoChange EXCEPT !.at = "invalidate", !.key = key,
                                                        !.seen = Truths], w)]
              /\ UNCHANGED astray /\ NoFault
           \/ /\ change' = [witnessed EXCEPT ![w] = [NoChange EXCEPT !.at = "done"]]
              /\ astray' = astray \cup {key}
              /\ Fault \/ (change[w].at = "blind" /\ NoFault)

\* UpsertResourceAccess: the lookup of an existing row ...
GrantLookup(w) ==
    /\ change[w].at = "idle"
    /\ \E g \in Grantees, resource \in {Resource, Wildcard}, level \in Given, effect \in Effects :
           LET old == Rows(RowsOf(g), Type, resource)
           IN  \E no \in IF old = {} THEN {0} ELSE {first.no : first \in First(old)} :
                  change' = [change EXCEPT ![w] = [NoChange EXCEPT
                      !.at = "write",
                      !.row = {[grantee |-> g,
                                grant |-> [no |-> no, type |-> Type, resource |-> resource,
                                           level |-> level, effect |-> effect]]}]]
    /\ UNCHANGED <<table, holds, created, cache, check, faults, astray>>

\* Mutant of GrantWrite: an insert where Save updates.
GrantInserts(w) ==
    /\ change[w].at = "write"
    /\ \E row \in change[w].row :
           /\ created < MaxRows
           /\ created' = created + 1
           /\ table' = table \cup {IF row.grant.no = 0 THEN [row EXCEPT !.grant.no = created + 1]
                                 ELSE row}
           /\ UNCHANGED holds
           /\ Committed(w, AccessKey(row.grantee))
    /\ UNCHANGED cache

\* ... and, in another statement, its update or the new row. Save brings back a
\* row that was deleted since (INSERT .. ON CONFLICT UPDATE).
GrantWrite(w) ==
    /\ change[w].at = "write"
    /\ \E row \in change[w].row :
           /\ IF row.grant.no = 0
              THEN /\ created < MaxRows
                   /\ created' = created + 1
                   /\ table' = table \cup {[row EXCEPT !.grant.no = created + 1]}
              ELSE /\ UNCHANGED created
                   /\ table' = {t \in table : t.grant.no # row.grant.no} \cup {row}
           /\ UNCHANGED holds
           /\ Committed(w, AccessKey(row.grantee))
    /\ UNCHANGED cache

\* DeleteResourceAccess: first look up whose row it is, which may fail ...
RevokeLookup(w) ==
    /\ change[w].at = "idle"
    /\ \E row \in table, at \in {"delete", "blind"} :
           /\ IF at = "blind" THEN Fault ELSE NoFault
           /\ change' = [change EXCEPT ![w] = [NoChange EXCEPT !.at = at, !.row = {row}]]
    /\ UNCHANGED <<table, holds, created, cache, check, astray>>

\* Mutant of RevokeDelete: the grantee is not invalidated.
RevokeUncached(w) ==
    /\ change[w].at \in {"delete", "blind"}
    /\ \E row \in change[w].row :
           table' = {t \in table : t.grant.no # row.grant.no}
    /\ UNCHANGED <<holds, created, cache, astray, faults>>
    /\ check' = [c \in Checks |->
                    IF check[c].at \in Lookups THEN Witness(check[c], w) ELSE check[c]]
    /\ change' = [change EXCEPT ![w] = [NoChange EXCEPT !.at = "done"]]

\* ... then delete it all the same. If the lookup failed nobody is invalidated; if
\* another request deleted the row in between, this one returns "not found".
RevokeDelete(w) ==
    /\ change[w].at \in {"delete", "blind"}
    /\ \E row \in change[w].row :
           IF \E t \in table : t.grant.no = row.grant.no
           THEN /\ table' = {t \in table : t.grant.no # row.grant.no}
                /\ UNCHANGED <<holds, created>>
                /\ Committed(w, AccessKey(row.grantee))
           ELSE /\ change' = [change EXCEPT ![w] = [NoChange EXCEPT !.at = "done"]]
                /\ UNCHANGED <<table, holds, created, check, astray, faults>>
    /\ UNCHANGED cache

\* AssignRoleToUser, of a role the user does not hold yet.
AssignRole(w) ==
    /\ change[w].at = "idle"
    /\ \E r \in Roles \ holds : holds' = holds \cup {r}
    /\ UNCHANGED <<table, created>>
    /\ Committed(w, RolesKey)
    /\ UNCHANGED cache

\* Mutant of Invalidate: the DEL is sent for the roles of the caller only.
InvalidateRolesOnly(w) ==
    /\ change[w].at = "invalidate"
    /\ change' = [change EXCEPT ![w] = [NoChange EXCEPT !.at = "done"]]
    /\ cache' = [cache EXCEPT ![RolesKey] = {}]
    /\ UNCHANGED <<table, holds, created, check, astray, faults>>

\* The DEL, whose error is ignored.
Invalidate(w) ==
    /\ change[w].at = "invalidate"
    /\ change' = [change EXCEPT ![w] = [NoChange EXCEPT !.at = "done"]]
    /\ \/ /\ cache' = [cache EXCEPT ![change[w].key] = {}]
          /\ astray' = astray \ {change[w].key}
          /\ NoFault
       \/ UNCHANGED cache /\ astray' = astray \cup {change[w].key} /\ Fault
    /\ UNCHANGED <<table, holds, created, check>>

\* accessCacheTTL runs out.
Expire(key) ==
    /\ cache[key] # {}
    /\ cache' = [cache EXCEPT ![key] = {}]
    /\ astray' = astray \ {key}
    /\ UNCHANGED <<table, holds, created, check, change, faults>>

Next ==
    \/ \E c \in Checks : StartCheck(c) \/ CacheGet(c) \/ QueryDatabase(c) \/ CacheSet(c)
    \/ \E w \in Changes : \/ GrantLookup(w) \/ GrantWrite(w) \/ RevokeLookup(w)
                           \/ RevokeDelete(w) \/ AssignRole(w) \/ Invalidate(w)
    \/ \E key \in Keys : Expire(key)

Spec == Init /\ [][Next]_vars

-----------------------------------------------------------------------------
\* "Invalidation on every write is the actual correctness mechanism"
\* (cached_repository.go:14-18): what Redis holds is what the tables hold, but
\* for a write whose DEL is still to come, a DEL lost or not sent and a fill that
\* raced a write; and these last only until the next DEL, fill or expiry.
FreshUnlessRaced ==
    \A key \in Keys :
        cache[key] \notin {{}, {Query(key)}} => key \in astray \/ Pending(key)

AtMostOne(S) == \A a, b \in S : a = b

Answered(c) == check[c].at \in {"allowed", "denied"}

\* A check is several lookups, each on its own. Where at most one change falls
\* in its window and no key it read had gone astray, its answer was nevertheless
\* right at some moment of the window: it does not mix a grant of before with a
\* role of after.
AnswerWasTrue ==
    \A c \in Checks :
        Answered(c) /\ AtMostOne(check[c].commits) /\ ~check[c].misled =>
            (check[c].at = "allowed") \in check[c].seen

=============================================================================
