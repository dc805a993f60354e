--------------------------- MODULE AccessResolver ---------------------------
(***************************************************************************)
(* Who may do what (Service.HasAccessLevel of internal/platform/rbac), as  *)
(* a function of the resource_access and user_roles tables.  A grant is a  *)
(* row with the primary key no; rowsOf maps a grantee, <<"user", id>> or   *)
(* <<"role", id>>, to its rows, rolesOf a user to the roles it holds.      *)
(***************************************************************************)
EXTENDS Naturals

CONSTANT Wildcard   \* shared.WildcardResourceID

Levels == {"read", "write", "manage"}
Effects == {"accepted", "prohibited"}

accessLevelRank == [read |-> 1, write |-> 2, manage |-> 3]

Satisfies(level, required) == accessLevelRank[level] >= accessLevelRank[required]

Grant(Types, Resources) ==
    [no: Nat, type: Types, resource: Resources \cup {Wildcard},
     level: Levels, effect: Effects]

Rows(list, type, resource) == {g \in list : g.type = type /\ g.resource = resource}

\* The row the lookup of UpsertResourceAccess takes: the one of least key.
First(list) == {g \in list : \A h \in list : g.no <= h.no}

Accepts(g, required) == g.effect = "accepted" /\ Satisfies(g.level, required)

\* findGrant: the grantee's exact row, else its wildcard row. The cached list
\* has no order, so of several rows for the tuple any may be served.
FindGrant(list, type, resource) ==
    IF Rows(list, type, resource) # {} THEN Rows(list, type, resource)
    ELSE Rows(list, type, Wildcard)

\* resolveAnyRole, where the roles in pick are those that have a row and pick
\* gives the row served: a prohibited one vetoes, else one that accepts allows.
ResolveAnyRole(pick, required) ==
    IF DOMAIN pick = {} THEN "undecided"
    ELSE IF /\ \A r \in DOMAIN pick : pick[r].effect # "prohibited"
            /\ \E r \in DOMAIN pick : Accepts(pick[r], required)
         THEN "allow"
         ELSE "deny"

\* Steps 1 to 3 of HasAccessLevel, what the caller's own rows and roles say: the
\* set of the outcomes there may be.
OwnAccess(rowsOf, rolesOf, user, type, resource, required) ==
    LET own == FindGrant(rowsOf[<<"user", user>>], type, resource)
        Served(r) == FindGrant(rowsOf[<<"role", r>>], type, resource)
        having == {r \in rolesOf[user] : Served(r) # {}}
        picks == {p \in [having -> UNION {Served(r) : r \in having}] :
                      \A r \in having : p[r] \in Served(r)}
    IN  IF own # {}
        THEN {IF Accepts(g, required) THEN "allow" ELSE "deny" : g \in own}
        ELSE {ResolveAnyRole(p, required) : p \in picks}

\* HasAccessLevel, as the set of its possible answers. On a user nothing decides
\* about, access to a role that user holds is access to the user; the resource
\* "role" is no user, so that goes one level deep.
HasAccessLevel(rowsOf, rolesOf, user, type, resource, required) ==
    LET own == OwnAccess(rowsOf, rolesOf, user, type, resource, required)
        Reach(r) == OwnAccess(rowsOf, rolesOf, user, "role", r, required)
        cascade == IF type = "user" THEN rolesOf[resource] ELSE {}
    IN  {answer \in BOOLEAN :
            \/ answer /\ "allow" \in own
            \/ ~answer /\ "deny" \in own
            \/ /\ "undecided" \in own
               /\ IF answer THEN \E r \in cascade : "allow" \in Reach(r)
                  ELSE \A r \in cascade : Reach(r) # {"allow"}}
=============================================================================
