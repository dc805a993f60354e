------------------------------- MODULE ApiSteps -------------------------------
(***************************************************************************)
(* What the HTTP endpoints of internal/platform are made of.  An endpoint  *)
(* is a sequence of steps, each one statement, access check or early       *)
(* return of its handlers; Api runs them, one step at a time.  A step that *)
(* ends the request names the status it replies with.  Every table is      *)
(* reached through GenericRepository or a WHERE on a key column.           *)
(***************************************************************************)
EXTENDS Naturals, Sequences

\* Something that has to do with the body, the path or the outside, and may fail.
May(status) == <<[do |-> "may", refuse |-> status]>>
Bind == May(400)          \* ShouldBindJSON, ShouldBindQuery
RequireIDParam == May(400)
Encrypt == May(500)

\* An access check: on "any" (the wildcard), on the "id" of the path, or on the
\* row of the given type that the row in hand, or the body, "names".
Check(on, type, level, status) ==
    <<[do |-> "check", on |-> on, type |-> type, level |-> level, refuse |-> status]>>

RequireAccessLevelWildcard(type, level) == Check("any", type, level, 403)
RequireAccessLevelOnParam(type, level) ==
    RequireIDParam \o Check("id", type, level, 404)

\* GenericRepository. FindByID takes the row in hand, Seek the first one with the
\* key of the request; Save writes every column of the row in hand.
FindByID(table, missing) == <<[do |-> "find", table |-> table, refuse |-> missing]>>
Seek(table) == <<[do |-> "seek", table |-> table]>>
IfFound(status) == <<[do |-> "unless", refuse |-> status]>>
IfMissing(status) == <<[do |-> "must", refuse |-> status]>>
Create(table) == <<[do |-> "create", table |-> table]>>

\* A transaction: the row, and one of another table that has its id for a key.
CreateBoth(table, other) ==
    <<[do |-> "both", table |-> table, other |-> other]>>
Save(table) == <<[do |-> "save", table |-> table]>>

\* Upsert: a lookup, and then Save of the row found or Create.
Upsert(table) == Seek(table) \o <<[do |-> "put", table |-> table]>>

\* One DELETE: of the row with the id, of all rows with the key of the request, or
\* of the row with the id if it has that key, too. Where it matters, none is an error.
DeleteWhere(table, by, missing) ==
    <<[do |-> "delete", by |-> by, table |-> table, refuse |-> missing]>>
Delete(table, missing) == DeleteWhere(table, "id", missing)
EvenIfNone == 0

\* A page of rows: of all, of those with the key of the request, of everybody's, or
\* of the caller's grants. They are added to those already read.
ListWhere(table, by) == <<[do |-> "list", by |-> by, table |-> table]>>
List(table) == ListWhere(table, "all")

\* ListForCaller: who may read all rows gets them unchecked; for the others each
\* row is checked by itself, in memory, unless it is public.
ListForCaller(table, type) ==
    <<[do |-> "all", type |-> type]>> \o List(table)
        \o <<[do |-> "sift", table |-> table, type |-> type]>>

Reply(status) == <<[do |-> "reply", refuse |-> status]>>

\* The handlers of crud_handler.go.
CreateHandler(create) == Bind \o create \o Reply(201)
UpdateHandler(update) == RequireIDParam \o Bind \o update \o Reply(200)
GetByIDHandler(get) == RequireIDParam \o get \o Reply(200)
DeleteHandler(delete) == RequireIDParam \o delete \o Reply(200)
ListHandler(list) == Bind \o list \o Reply(200)

\* The grant of "manage" a creator gets, on the row it has just created: its key is
\* not the one of the request (Api!KeyFor).
GrantCreatorAccess == Upsert("access")

\* What the API documents about an endpoint: the access its caller needs, on what.
\* "self" needs none, for it concerns the caller's own rows only.
Needs(on, type, level) == [on |-> on, type |-> type, level |-> level]
Self == Needs("self", "none", "read")
Endpoint(needs, steps) == [needs |-> needs, steps |-> steps]

\* A body: the columns it must give, and those it may give.
Body(required, optional) == [required |-> required, optional |-> optional]
NoBody == Body({}, {})

Authentication == <<[do |-> "auth", refuse |-> 401]>>

\* A route: the table its id is of, what its key is, its body, and what runs. The
\* key is given by the "body" or the "path", or is the caller ("mine") or nobody
\* ("global"), by itself ("+id": the path has an id as well) or with what the path
\* names.
WithId == {"path", "path/role", "mine/path", "global/path", "mine+id", "global+id"}
PublicRoute(name, table, keyed, body, endpoint) ==
    [name |-> name, table |-> table, keyed |-> keyed, body |-> body,
     needs |-> endpoint.needs, steps |-> endpoint.steps]

Route(name, table, keyed, body, guard, endpoint) ==
    PublicRoute(name, table, keyed, body,
                [endpoint EXCEPT !.steps = Authentication \o guard \o @])
=============================================================================
