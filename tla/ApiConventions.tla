--------------------------- MODULE ApiConventions ---------------------------
(***************************************************************************)
(* What the services keep to in every endpoint of internal/platform.  The  *)
(* steps of a route (ConnectionApi to ConversationApi) are its code; these *)
(* are the conventions that code is written by, and Api assumes of its     *)
(* routes.                                                                 *)
(***************************************************************************)
EXTENDS Naturals, Sequences

CONSTANT KeyedById       \* ApiSteps!WithId: the kinds of key that come with an id

\* Tables in which a key is the only one because the code looks for it first.
KeyTables == {"provider_key", "access", "user_role"}

\* Tables whose rows are parts of the rows of another, and those whose rows are
\* their creator's.
Wholes == {<<"tool_version", "custom_tool">>, <<"message", "conversation">>}
OwnedTables == {"ssh_connection", "custom_tool"}

\* Tables whose rows keep the key they were created with: it names what a row is of.
FixedKeys == {"access", "rule", "conversation", "chat_setting", "tool_version", "message"}

OnTables == {"find", "seek", "create", "both", "save", "put", "delete", "list"}

\* The nth step of s does something on a table, is a lookup of the key there, or
\* comes right after one.
Does(s, n, do, t) == n \in DOMAIN s /\ s[n].do = do /\ s[n].table = t
SoughtAt(s, n, t) == n > 1 /\ s[n - 1] = [do |-> "seek", table |-> t]

\* The row in hand at the nth step was found in t, by the id of the path or by its key.
FoundByID(s, n, t) ==
    \E m \in 1 .. n - 1 : /\ Does(s, m, "find", t)
                          /\ \A k \in m + 1 .. n - 1 : s[k].do \notin {"find", "seek"}
FoundAt(s, n, t) ==
    \/ FoundByID(s, n, t)
    \/ n > 2 /\ SoughtAt(s, n - 1, t) /\ s[n - 1].do = "must"

EndsWithReply(s) ==
    s \in Seq({s[n] : n \in DOMAIN s}) /\ s # <<>> /\ s[Len(s)].do = "reply"

\* Save writes a row that was found in its table, and Upsert looks first.
SavesWhatItFound(s) ==
    \A n \in DOMAIN s : /\ s[n].do = "save" => FoundAt(s, n, s[n].table)
                        /\ s[n].do = "put" => SoughtAt(s, n, s[n].table)

\* A key without an index is looked for right before the insert, and is no update's.
LooksForKey(route, s) ==
    \A t \in KeyTables, n \in DOMAIN s :
        /\ ~Does(s, n, "save", t) /\ (s[n].do = "both" => t \notin {s[n].table, s[n].other})
        /\ Does(s, n, "create", t) =>
               n > 2 /\ SoughtAt(s, n - 1, t) /\ s[n - 1].do = "unless"
        /\ Does(s, n, "put", t) =>
               \/ t = "access" /\ route.table # t
               \/ /\ route.table = t
                  /\ "key" \in route.body.required \cup route.body.optional => route.keyed = "body"

\* A part is created right after its whole was found, and deleted right before it.
PartsComeAfter(route, s) ==
    \A x \in Wholes, n \in DOMAIN s :
        /\ ~Does(s, n, "save", x[1]) /\ ~Does(s, n, "put", x[1])
        /\ s[n].do = "both" => x[1] \notin {s[n].table, s[n].other}
        /\ Does(s, n, "create", x[1]) =>
               Does(s, n - 1, "find", x[2]) /\ route.table = x[2] /\ route.keyed = "path"
        /\ Does(s, n, "delete", x[2]) =>
               /\ s[n].by = "id" /\ Does(s, n - 1, "delete", x[1]) /\ s[n - 1].by = "key"
               /\ route.keyed = "path"

\* The grant of a creator is upserted right after the row is created.
GrantsCreator(route, s) ==
    \A t \in OwnedTables, n \in DOMAIN s :
        /\ ~Does(s, n, "put", t) /\ (s[n].do = "both" => t \notin {s[n].table, s[n].other})
        /\ Does(s, n, "create", t) =>
               /\ route.table = t
               /\ SoughtAt(s, n + 2, "access") /\ Does(s, n + 2, "put", "access")

\* Tokens for the user of the path are issued once that was found, and the rows of a
\* page are all of one table.
IssuesToFound(route, s) ==
    \A n \in DOMAIN s : s[n].do = "issue" /\ route.keyed \in KeyedById =>
        \E m \in 1 .. n - 1 : Does(s, m, "find", route.table)

ListsOneTable(s) ==
    \A m, n \in DOMAIN s : s[m].do = "list" /\ s[n].do = "list" => s[m].table = s[n].table

\* No update gives a row of these tables another key.
KeepsKeys(route, s) ==
    /\ route.needs.on = "named" => route.table \in FixedKeys
    /\ \A t \in FixedKeys, n \in DOMAIN s :
           /\ Does(s, n, "save", t) => "key" \notin route.body.required \cup route.body.optional
           /\ Does(s, n, "put", t) => t \in KeyTables

\* What the nth step is about: the row of the path, or rows with the key of the request.
Touching == {"create", "both", "save", "put", "delete", "list"}

OfPath(s, n) ==
    \/ s[n].do = "save" /\ FoundByID(s, n, s[n].table)
    \/ s[n].do = "delete" /\ s[n].by = "id"

OfKey(route, s, n) ==
    LET t == s[n].table
    IN  CASE s[n].do = "create" -> t = route.table \/ t \notin {"access", "chat_setting"}
          [] s[n].do = "put" -> t = route.table /\ t \in KeyTables
          [] s[n].do = "save" -> /\ n > 2 /\ SoughtAt(s, n - 1, t) /\ s[n - 1].do = "must"
                                 /\ route.needs.on = "held" /\ t \in FixedKeys
          [] s[n].do = "delete" -> s[n].by # "id"
          [] s[n].do = "list" -> s[n].by = "key" /\ t \in FixedKeys
          [] OTHER -> FALSE

\* What a request changes, and what it shows, is what its needs are about.
TouchesItsOwn(route, s) ==
    \A n \in DOMAIN s : s[n].do \in Touching =>
        LET t == s[n].table
            on == route.needs.on
        IN  CASE on = "any" -> TRUE
              [] on = "listed" -> s[n].do = "list" /\ t = route.needs.type
              [] on = "self" ->
                     \/ s[n].do = "list"
                     \/ s[n].do = "both" /\ t = "conversation" /\ s[n].other = "chat_setting"
                            /\ route.keyed = "mine"
                     \/ OfKey(route, s, n)
                            /\ IF t = "provider_key" THEN route.keyed = "mine/path"
                               ELSE t # "chat_setting" /\ route.keyed \in {"mine", "mine+id"}
              [] on = "named" ->
                     /\ t = route.table
                     /\ IF route.keyed \in KeyedById THEN OfPath(s, n) ELSE OfKey(route, s, n)
              [] on \in {"id", "held"} ->
                     IF t = route.table THEN OfPath(s, n)
                     ELSE /\ OfKey(route, s, n)
                          /\ route.keyed = IF t = "user_role" THEN "path/role" ELSE "path"
              [] OTHER -> FALSE

\* Before it comes the check the endpoint documents, on the row of the path where that
\* has to be found first; a list of rows is sifted.
Checked(needs, s, n) ==
    \E m \in 1 .. n - 1 : /\ s[m].do = "check" /\ s[m].on = needs.on
                          /\ s[m].type = needs.type /\ s[m].level = needs.level

ChecksItsNeeds(route, s) ==
    LET needs == route.needs
    IN  \A n \in DOMAIN s :
            /\ s[n].do \in Touching \cup {"reply"} /\ needs.on \notin {"self", "listed"} =>
                   Checked(needs, s, n)
            /\ s[n].do = "check" /\ needs.on = "held" => FoundByID(s, n, "conversation")
            /\ s[n].do = "check" /\ needs.on = "named" =>
                   IF route.keyed \in KeyedById THEN FoundByID(s, n, route.table)
                   ELSE \A m \in 1 .. n - 1 : s[m].do \notin {"find", "seek"}
            /\ needs.on = "listed" =>
                   /\ needs.level = "read"
                   /\ s[n].do \in {"all", "sift"} => s[n].type = needs.type
                   /\ s[n].do = "reply" => n > 1 /\ s[n - 1].do = "sift"
=============================================================================
