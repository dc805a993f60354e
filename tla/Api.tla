--------------------------------- MODULE Api ---------------------------------
(***************************************************************************)
(* The HTTP API of internal/platform, with several requests in progress    *)
(* at once.  A request is a goroutine that runs the steps of its route one *)
(* after another (ApiSteps says what a step is, ConnectionApi to           *)
(* ConversationApi which steps each endpoint has); a step is at most one   *)
(* statement of the database.  A deleted row stays in its table, marked.   *)
(* The ghosts say what each request was allowed to do, which rows were     *)
(* gone when it began, what the requests meant each row to say, and where  *)
(* two of them met.                                                        *)
(***************************************************************************)
EXTENDS AccessResolver, ApiConventions

CONSTANTS Clients,       \* as many requests are in progress at most
          Users, Ids,    \* callers, and primary keys of all tables
          Parts,         \* parts of the API: routes, first rows, and what bodies hold
          MaxRequests,   \* bound on the requests that start
          MaxFaults      \* bound on the statements that fail

ASSUME ApiAssumption ==
    /\ Users \subseteq Ids /\ Ids \subseteq Nat \ {0} /\ Wildcard = 0
    /\ MaxRequests \in Nat /\ MaxFaults \in Nat

\* The steps of a route are about the tables of its part.
ASSUME RoutesAssumption ==
    \A p \in DOMAIN Parts : \A name \in DOMAIN Parts[p].routes :
        LET route == Parts[p].routes[name]
            s == route.steps
        IN  /\ EndsWithReply(s)
            /\ \A n \in DOMAIN s :
                   /\ s[n].do \in OnTables => s[n].table \in DOMAIN Parts[p].rows
                   /\ s[n].do = "both" => s[n].other \in DOMAIN Parts[p].rows \ {s[n].table}
            /\ SavesWhatItFound(s) /\ LooksForKey(route, s)
            /\ PartsComeAfter(route, s) /\ GrantsCreator(route, s)
            /\ IssuesToFound(route, s) /\ ListsOneTable(s)
            /\ KeepsKeys(route, s) /\ TouchesItsOwn(route, s) /\ ChecksItsNeeds(route, s)

\* The first rows are nobody's, each with its own key, and parts have their whole.
ASSUME RowsAssumption ==
    \A p \in DOMAIN Parts :
        LET rows == Parts[p].rows
            Begun(t) == {i \in Ids : rows[t][i].life = "live"}
        IN  /\ "access" \in DOMAIN rows
            /\ rows = [t \in DOMAIN rows |-> [i \in Ids |->
                          [life |-> rows[t][i].life, by |-> 0, cols |-> rows[t][i].cols]]]
            /\ \A t \in (KeyTables \cup FixedKeys) \cap DOMAIN rows, i \in Ids :
                   rows[t][i].life # "free" => "key" \in DOMAIN rows[t][i].cols
            /\ \A t \in KeyTables \cap DOMAIN rows :
                   \A i, j \in Begun(t) : i # j => rows[t][i].cols.key # rows[t][j].cols.key
            /\ \A x \in Wholes : x[1] \in DOMAIN rows =>
                   /\ x[2] \in DOMAIN rows
                   /\ \A i \in Begun(x[1]) : rows[x[1]][i].cols.key \in Begun(x[2])

VARIABLES part,      \* the part in question, chosen at the start
          tables,    \* table |-> id |-> row
          run,       \* client |-> its request, or Idle
          served, faults,
          could,     \* client |-> what its request was at some instant allowed
          gone,      \* client |-> the rows that are deleted since before it began
          meant,     \* table |-> id |-> the columns, as the requests meant them
          crossed    \* rows and keys changed while another request was about them

vars == <<part, tables, run, served, faults, could, gone, meant, crossed>>
ghosts == <<could, gone, meant, crossed>>

Idle == [busy |-> FALSE]
Free == [life |-> "free", by |-> 0, cols |-> <<>>]
NoRow == [table |-> "none", id |-> 0, cols |-> [key |-> 0]]

\* The route of the request of client c.
Route(c) == Parts[part].routes[run[c].name]

Slots == (DOMAIN tables) \X Ids
Busy == {c \in Clients : run[c].busy}
Live(t) == {i \in Ids : tables[t][i].life = "live"}
Stored(t) == {i \in Ids : tables[t][i].life # "free"}
Cols(t, i) == tables[t][i].cols
WithKey(t, key) == {i \in Live(t) : Cols(t, i).key = key}

Init ==
    /\ part \in DOMAIN Parts
    /\ tables = Parts[part].rows
    /\ run = [c \in Clients |-> Idle]
    /\ served = 0 /\ faults = 0
    /\ could = [c \in Clients |-> {}] /\ gone = [c \in Clients |-> {}]
    /\ meant = [t \in DOMAIN tables |-> [i \in Ids |-> Cols(t, i)]]
    /\ crossed = {}

-----------------------------------------------------------------------------
(* Access, as the tables have it now. *)

RowsOf ==
    [g \in {"user", "role"} \X Ids |->
        {[no |-> i, type |-> Cols("access", i).key[2],
          resource |-> Cols("access", i).key[3], level |-> Cols("access", i).level,
          effect |-> Cols("access", i).effect] :
             i \in {j \in Live("access") : Cols("access", j).key[1] = g}}]

RolesOf ==
    [u \in Ids \cup {Wildcard} |->
        {Cols("user_role", i).key[2] :
             i \in {j \in Live("user_role") : Cols("user_role", j).key[1] = u}}]

Access(user, type, id, level) ==
    HasAccessLevel(RowsOf, RolesOf, user, type, id, level)

\* canAccess of the conversation service.
CanAccess(user, id, owner, level) ==
    IF owner = user THEN {TRUE}
    ELSE {a \/ b : a \in Access(user, "conversation", id, level),
                   b \in Access(user, "user", owner, level)}

\* The resource that a rule or a grant is about.
Named(t, key) ==
    IF t = "access" THEN <<key[2], key[3]>> ELSE <<"ssh_connection", key>>

\* What the needs of a request are about, and whether they are met.
Asked(c) ==
    LET r == run[c]
        t == Route(c).table
    IN  IF ~r.busy THEN {}
        ELSE CASE Route(c).needs.on = "self" -> {r.user}
               [] Route(c).needs.on = "any" -> {Wildcard}
               [] Route(c).needs.on = "listed" -> Ids
               [] Route(c).needs.on \in {"id", "held"} -> {r.id}
               [] Route(c).needs.on = "named" ->
                      {Named(t, k) : k \in IF r.id = 0 THEN {r.key}
                                           ELSE {Cols(t, i).key : i \in {r.id} \cap Stored(t)}}

Met(c, x) ==
    LET r == run[c]
        needs == Route(c).needs
    IN  CASE needs.on = "self" -> TRUE
          [] needs.on = "held" ->
                 TRUE \in CanAccess(r.user, x, Cols("conversation", x).key, needs.level)
          [] needs.on = "named" -> TRUE \in Access(r.user, x[1], x[2], needs.level)
          [] needs.on = "listed" ->
                 \/ TRUE \in Access(r.user, needs.type, x, needs.level)
                 \/ TRUE \in Access(r.user, needs.type, Wildcard, needs.level)
                 \/ "visibility" \in DOMAIN Cols(needs.type, x)
                    /\ Cols(needs.type, x).visibility = "public"
          [] OTHER -> TRUE \in Access(r.user, needs.type, x, needs.level)

Allowed(c) == {x \in Asked(c) : Met(c, x)}

\* Who owns a row of the caller's own.
Owner(t, key) ==
    CASE t = "provider_key" -> key[1]
      [] t = "chat_setting" -> Cols("conversation", key).key
      [] OTHER -> key

\* What the needs of a request say about row i of table t.
Of(c, t, i) ==
    LET on == Route(c).needs.on
        key == Cols(t, i).key
    IN  CASE on = "any" -> Wildcard
          [] on = "listed" -> i
          [] on = "self" -> Owner(t, key)
          [] on = "named" -> Named(t, key)
          [] OTHER -> IF t = Route(c).table THEN i
                      ELSE IF t = "user_role" THEN key[1] ELSE key

\* The table whose rows a request lists.
Listed(c) ==
    {Route(c).steps[n].table : n \in {m \in DOMAIN Route(c).steps : Route(c).steps[m].do = "list"}}

-----------------------------------------------------------------------------
(* The steps of a request. *)

Step(c) == Route(c).steps[run[c].at]
At(c, do) == run[c].busy /\ Step(c).do = do

\* A record or a row in which these columns are others.
With(changes, old) ==
    [x \in DOMAIN changes \cup DOMAIN old |-> IF x \in DOMAIN changes THEN changes[x] ELSE old[x]]

Go(c, changes) == run' = [run EXCEPT ![c] = With(changes, With([at |-> run[c].at + 1], run[c]))]
Continue(c) == run' = [run EXCEPT ![c].at = @ + 1]
End(c) == run' = [run EXCEPT ![c] = Idle]

\* Mutant of KeyFor: the grant of a creator is on the id of the path.
KeyOfPath(c, t) ==
    IF t = "access" /\ Route(c).table # "access"
    THEN <<<<"user", run[c].user>>, Route(c).table, run[c].id>> ELSE run[c].key

\* The key a statement on table t uses: the grant of a creator and the settings of
\* a new conversation have their own.
KeyFor(c, t) ==
    CASE t = "access" /\ Route(c).table # "access" ->
             <<<<"user", run[c].user>>, Route(c).table, run[c].new>>
      [] t = "chat_setting" /\ Route(c).table # t /\ run[c].id = 0 -> run[c].new
      [] OTHER -> run[c].key

Given(c, t) ==
    IF t = "access" /\ Route(c).table # "access"
    THEN [level |-> "manage", effect |-> "accepted"] ELSE run[c].arg

\* Unique indexes hold for deleted rows, too.
UniqueKey == {"role", "user", "custom_tool", "agent_tool", "chat_setting"}
Taken(t, i, cols) ==
    \E j \in Ids \ {i} :
        /\ tables[t][j].life # "free"
        /\ Cols(t, j).key = cols.key
        /\ t \in UniqueKey \/ (t = "tool_version" /\ Cols(t, j).version = cols.version)

\* A row of t gets these columns, where the requests so far meant those of wanted.
Store(t, i, by, cols, wanted) ==
    /\ tables' = [tables EXCEPT ![t][i] = [life |-> "live", by |-> by, cols |-> cols]]
    /\ meant' = [meant EXCEPT ![t][i] = wanted]

\* The next primary key of a table; the model ends where there is none.
Fresh(t) == {i \in Ids : /\ tables[t][i].life = "free"
                         /\ \A j \in Ids : tables[t][j].life = "free" => i <= j}

\* A token, a body or an id that is refused, a test, an encryption or a hash that fails.
May(c) ==
    (At(c, "may") \/ At(c, "auth")) /\ (Continue(c) \/ End(c))
        /\ UNCHANGED <<tables, meant>>

\* Mutant of Check: the handler goes on after it has replied.
CheckWithoutReturn(c) == At(c, "check") /\ Continue(c) /\ UNCHANGED <<tables, meant>>

Check(c) ==
    /\ At(c, "check")
    /\ LET s == Step(c)
           r == run[c]
           x == Named(Route(c).table, IF r.row.id = 0 THEN r.key ELSE r.row.cols.key)
           answers ==
               CASE s.on = "any" -> Access(r.user, s.type, Wildcard, s.level)
                 [] s.on = "id" -> Access(r.user, s.type, r.id, s.level)
                 [] s.on = "named" -> Access(r.user, x[1], x[2], s.level)
                 [] s.on = "held" -> CanAccess(r.user, r.id, r.row.cols.key, s.level)
       IN  \E answer \in answers : IF answer THEN Continue(c) ELSE End(c)
    /\ UNCHANGED <<tables, meant>>

Take(c, t, i) == Go(c, [row |-> [table |-> t, id |-> i, cols |-> Cols(t, i)]])

\* Mutant of FindByID: deleted rows are found, too.
FindUnscoped(c) ==
    /\ At(c, "find")
    /\ IF tables[Step(c).table][run[c].id].life # "free" THEN Take(c, Step(c).table, run[c].id)
       ELSE End(c)
    /\ UNCHANGED <<tables, meant>>

FindByID(c) ==
    /\ At(c, "find")
    /\ IF run[c].id \in Live(Step(c).table) THEN Take(c, Step(c).table, run[c].id)
       ELSE End(c)
    /\ UNCHANGED <<tables, meant>>

Seek(c) ==
    /\ At(c, "seek")
    /\ LET t == Step(c).table
           found == WithKey(t, KeyFor(c, t))
       IN  IF found = {} THEN Go(c, [row |-> NoRow])
           ELSE \E i \in found : (\A j \in found : i <= j) /\ Take(c, t, i)
    /\ UNCHANGED <<tables, meant>>

Decide(c) ==
    /\ At(c, "unless") \/ At(c, "must")
    /\ IF (run[c].row.id = 0) = At(c, "unless") THEN Continue(c) ELSE End(c)
    /\ UNCHANGED <<tables, meant>>

Insert(c, t) ==
    \E i \in Fresh(t) :
        LET arg == With([key |-> KeyFor(c, t)], Given(c, t))
        IN  IF Taken(t, i, arg) THEN End(c) /\ UNCHANGED <<tables, meant>>
            ELSE /\ Store(t, i, run[c].user, arg, arg)
                 /\ Go(c, IF t = Route(c).table THEN [new |-> i] ELSE [new |-> run[c].new])

Create(c) == At(c, "create") /\ Insert(c, Step(c).table)

\* CreateConversation: both rows in one transaction.
CreateBoth(c) ==
    /\ At(c, "both")
    /\ LET t == Step(c).table
           o == Step(c).other
           arg == With([key |-> run[c].key], run[c].arg)
           New(cols) == [life |-> "live", by |-> run[c].user, cols |-> cols]
       IN  \E i \in Fresh(t), j \in Fresh(o) :
               /\ tables' = [tables EXCEPT ![t][i] = New(arg), ![o][j] = New([key |-> i, text |-> 0])]
               /\ meant' = [meant EXCEPT ![t][i] = arg, ![o][j] = [key |-> i, text |-> 0]]
               /\ Go(c, [new |-> i])

\* Mutant of Overwrite: columns the request left out are lost.
OverwriteAll(c, t) ==
    LET row == run[c].row
    IN  /\ Store(t, row.id, tables[t][row.id].by, With(Given(c, t), [key |-> row.cols.key]),
                 With(Given(c, t), meant[t][row.id]))
        /\ Continue(c)

\* Save writes every column, and brings a row back that was deleted meanwhile.
Overwrite(c, t) ==
    LET row == run[c].row
        cols == With(Given(c, t), row.cols)
    IN  IF Taken(t, row.id, cols) THEN End(c) /\ UNCHANGED <<tables, meant>>
        ELSE /\ Store(t, row.id, tables[t][row.id].by, cols,
                   With(Given(c, t), meant[t][row.id]))
             /\ Continue(c)

Save(c) == At(c, "save") /\ Overwrite(c, Step(c).table)

\* Mutant of Put: an upsert that always inserts.
PutAnew(c) == At(c, "put") /\ Insert(c, Step(c).table)

Put(c) ==
    /\ At(c, "put")
    /\ IF run[c].row.id = 0 THEN Insert(c, Step(c).table) ELSE Overwrite(c, Step(c).table)

\* Mutant of Delete: whatever the WHERE, it is about the id.
DeleteByID(c) ==
    /\ At(c, "delete")
    /\ tables' = [tables EXCEPT ![Step(c).table] =
           [i \in Ids |-> IF i \in Live(Step(c).table) \cap {run[c].id}
                          THEN [@[i] EXCEPT !.life = "deleted"] ELSE @[i]]]
    /\ Continue(c)
    /\ UNCHANGED meant

Delete(c) ==
    /\ At(c, "delete")
    /\ LET s == Step(c)
           these == Live(s.table)
                        \cap (IF s.by = "key" THEN Ids ELSE {run[c].id})
                        \cap (IF s.by = "id" THEN Ids ELSE WithKey(s.table, run[c].key))
       IN  /\ tables' = [tables EXCEPT ![s.table] =
                  [i \in Ids |-> IF i \in these THEN [@[i] EXCEPT !.life = "deleted"]
                                 ELSE @[i]]]
           /\ IF these = {} /\ s.refuse # 0 THEN End(c) ELSE Continue(c)
    /\ UNCHANGED meant

\* ListForCaller asks first whether the caller may read everything.
SeesAll(c) ==
    /\ At(c, "all")
    /\ \E answer \in Access(run[c].user, Step(c).type, Wildcard, "read") :
           Go(c, [all |-> answer])
    /\ UNCHANGED <<tables, meant>>

List(c) ==
    /\ At(c, "list")
    /\ LET s == Step(c)
           t == s.table
           Wanted(key) ==
               CASE s.by = "all" -> TRUE
                 [] s.by = "key" -> key = run[c].key
                 [] s.by = "owner" -> key[1] = run[c].key[1]
                 [] s.by = "global" -> key = 0
                 [] s.by = "granted" ->
                        key[1] \in {<<"user", run[c].user>>}
                                       \cup {<<"role", r>> : r \in RolesOf[run[c].user]}
           page == {i \in Live(t) : Wanted(Cols(t, i).key)}
           public == {i \in page : "visibility" \in DOMAIN Cols(t, i)
                                      /\ Cols(t, i).visibility = "public"}
       IN  Go(c, [shown |-> run[c].shown \cup page,
                  passed |-> IF run[c].all THEN page ELSE public])
    /\ UNCHANGED <<tables, meant>>

\* Mutant of Sift: no row is checked.
SiftNothing(c) == At(c, "sift") /\ Continue(c) /\ UNCHANGED <<tables, meant>>

\* One row of the page is checked; public rows have passed.
Sift(c) ==
    /\ At(c, "sift")
    /\ LET r == run[c]
           left == r.shown \ r.passed
       IN  IF left = {} THEN Continue(c)
           ELSE \E i \in left :
                    /\ \A j \in left : i <= j
                    /\ \E answer \in Access(r.user, Step(c).type, i, "read") :
                           run' = [run EXCEPT
                                       ![c].passed = IF answer THEN @ \cup {i} ELSE @,
                                       ![c].shown = IF answer THEN @ ELSE @ \ {i}]
    /\ UNCHANGED <<tables, meant>>

IssueTokens(c) == At(c, "issue") /\ Continue(c) /\ UNCHANGED <<tables, meant>>

Reply(c) == At(c, "reply") /\ End(c) /\ UNCHANGED <<tables, meant>>

\* A statement fails: 500, and what was done so far stays done.
Fail(c) ==
    /\ run[c].busy
    /\ Step(c).do \in {"check", "find", "seek", "create", "both", "save", "put",
                       "delete", "all", "list", "sift"}
    /\ faults < MaxFaults
    /\ faults' = faults + 1
    /\ End(c)
    /\ UNCHANGED <<tables, meant>>

-----------------------------------------------------------------------------
(* A request comes in. *)

Value(c, column) ==
    IF column \in DOMAIN Parts[part].values THEN Parts[part].values[column] ELSE c

\* The bodies of a route: the required columns, and any of the optional ones.
Bodies(c, route) ==
    LET columns == {route.body.required \cup some :
                       some \in {s \in SUBSET route.body.optional :
                                     s # {} \/ route.body.optional = {}}}
        keys == IF "key" \in route.body.required \cup route.body.optional
                THEN Parts[part].keys[route.table] ELSE {0}
    IN  {[x \in given |-> IF x = "key" THEN key ELSE Value(c, x)] :
             given \in columns, key \in keys}

Key(route, user, id, arg) ==
    CASE route.keyed = "body" -> arg.key
      [] route.keyed = "path" -> id
      [] route.keyed = "path/role" -> <<id, arg.role>>
      [] route.keyed \in {"mine", "mine+id"} -> user
      [] route.keyed = "mine/path" -> <<user, id>>
      [] route.keyed = "global/path" -> <<0, id>>
      [] OTHER -> 0

Start(c) ==
    /\ ~run[c].busy
    /\ served < MaxRequests
    /\ served' = served + 1
    /\ \E name \in DOMAIN Parts[part].routes, user \in Users :
       LET route == Parts[part].routes[name]
       IN  \E id \in IF route.keyed \in KeyedById THEN Parts[part].ids ELSE {0},
              arg \in Bodies(c, route) :
           run' = [run EXCEPT ![c] =
                      [busy |-> TRUE, name |-> name, at |-> 1, user |-> user, id |-> id,
                       key |-> Key(route, user, id, arg), arg |-> arg, row |-> NoRow,
                       new |-> 0, all |-> FALSE, shown |-> {}, passed |-> {}]]
    /\ UNCHANGED <<tables, meant, faults>>

-----------------------------------------------------------------------------
(* The ghosts. *)

Changed == {x \in Slots : tables'[x[1]][x[2]] # tables[x[1]][x[2]]}

Things(t, i, cols) == {<<t, "id", i>>, <<t, "key", cols.key>>}

\* What a request is about: the row of its path, the rows with its key in the
\* tables it looks through by key, the row in hand.
About(c) ==
    LET r == run[c]
        keyed == {t \in DOMAIN tables :
                     \E n \in DOMAIN Route(c).steps :
                         LET s == Route(c).steps[n]
                         IN  /\ s.do \in {"seek", "create", "delete", "list"}
                             /\ s.table = t
                             /\ "by" \in DOMAIN s => s.by \in {"key", "owner"}}
    IN  {<<Route(c).table, "id", r.id>>} \cup {<<t, "key", KeyFor(c, t)>> : t \in keyed}
            \cup Things(r.row.table, r.row.id, r.row.cols)

Watch(c) ==
    /\ crossed' = crossed \cup UNION {Things(x[1], x[2], tables'[x[1]][x[2]].cols)
                                          \cap UNION {About(d) : d \in Busy \ {c}} :
                                      x \in Changed}
    /\ could' = [d \in Clients |-> (IF d \in Busy THEN could[d] ELSE {}) \cup Allowed(d)']
    /\ gone' = [d \in Clients |->
                  IF run'[d].busy
                  THEN {x \in IF d \in Busy THEN gone[d] ELSE Slots :
                            tables'[x[1]][x[2]].life = "deleted"}
                  ELSE {}]

Statement(c) ==
    \/ May(c) \/ Check(c) \/ FindByID(c) \/ Seek(c) \/ Decide(c)
    \/ Create(c) \/ CreateBoth(c) \/ Save(c) \/ Put(c) \/ Delete(c)
    \/ SeesAll(c) \/ List(c) \/ Sift(c) \/ IssueTokens(c) \/ Reply(c)

\* A step that touches no table is taken at once: nobody can tell when it was.
Local == {"may", "auth", "unless", "must", "issue"}
Turn(c) == \A d \in Busy \ {c} : Step(d).do \notin Local

Next ==
    \E c \in Clients :
        /\ Turn(c)
        /\ \/ Start(c)
           \/ Fail(c) /\ UNCHANGED served
           \/ Statement(c) /\ UNCHANGED <<served, faults>>
        /\ UNCHANGED part
        /\ Watch(c)

Spec == Init /\ [][Next]_vars

-----------------------------------------------------------------------------
(* What the API promises. *)

\* Every row a request changes belongs to a resource on which the caller had, at some
\* instant since the request began, the level the API documents for the endpoint
\* (the checks of the routes, the handlers and the services, and the WHEREs on the
\* caller's own rows).
ChangeWasAllowed ==
    [][\A x \in Changed : \E c \in Busy :
           /\ run'[c] # run[c]
           /\ Of(c, x[1], x[2])' \in could[c]]_vars

\* Every row of a page that is sent was readable for the caller, or public, at some
\* instant since the request began (ListForCaller, whose checks come after the query).
ShownWasReadable ==
    \A c \in Busy : At(c, "reply") =>
        \A t \in Listed(c), i \in run[c].shown :
            Route(c).needs.on = "self" \/ Of(c, t, i) \in could[c]

\* A request that begins after a row was deleted never has it in hand, shows it,
\* changes it or issues tokens for it, unless one that began before has brought it
\* back (Save, and the soft delete of every table).
DeletedIsGone ==
    [][\A c \in Busy : run'[c] # run[c] =>
           /\ gone[c] \cap Changed = {}
           /\ <<run[c].row.table, run[c].row.id>> \notin gone[c]
           /\ \A t \in Listed(c), i \in run[c].shown : <<t, i>> \notin gone[c]
           /\ At(c, "issue") /\ run[c].id # 0 =>
                  <<Route(c).table, run[c].id>> \notin gone[c]]_vars

\* A row says what the requests that reached it meant it to say, unless one of them
\* changed it while another was about it: then the columns of one may be lost
\* (read, change, Save of all columns).
NothingLostAlone ==
    \A x \in Slots :
        tables[x[1]][x[2]].life = "live" /\ Cols(x[1], x[2]) # meant[x[1]][x[2]] =>
            <<x[1], "id", x[2]>> \in crossed

\* Of one owner and provider there is one key, of one grantee and resource one grant,
\* of one user and role one assignment, unless two requests about it met: no index
\* keeps it so, only the lookup before the insert.
OneKeyEach ==
    \A t \in (DOMAIN tables) \cap KeyTables :
        \A i, j \in Live(t) :
            i # j /\ Cols(t, i).key = Cols(t, j).key => <<t, "key", Cols(t, i).key>> \in crossed

\* A version has its tool and a message its conversation, whatever statement fails in
\* between, unless the tool was deleted while another request was about it or about its
\* parts (DeleteTool and DeleteConversation delete the parts first).
PartsHaveTheirWhole ==
    \A x \in Wholes :
        x[1] \in DOMAIN tables =>
            \A i \in Live(x[1]) :
                \/ Cols(x[1], i).key \in Live(x[2])
                \/ <<x[1], "key", Cols(x[1], i).key>> \in crossed
                \/ <<x[2], "id", Cols(x[1], i).key>> \in crossed

\* Whoever creates a connection or a tool has a grant on it once the request is over,
\* even if that was revoked since, unless a statement failed (the grant is a second
\* statement after Create, outside any transaction).
CreatorIsGranted ==
    \A t \in (DOMAIN tables) \cap OwnedTables, i \in Ids :
        tables[t][i].life # "free" /\ tables[t][i].by # 0 =>
            \/ \E j \in Ids : /\ tables["access"][j].life # "free"
                              /\ Cols("access", j).key = <<<<"user", tables[t][i].by>>, t, i>>
            \/ faults > 0
            \/ \E c \in Busy : run[c].new = i

=============================================================================
