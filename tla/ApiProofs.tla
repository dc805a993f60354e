---- MODULE ApiProofs ----
(***************************************************************************)
(* Theorems about the HTTP API with any number of requests in progress,    *)
(* for every set of routes that keep to the conventions of the code        *)
(* (RoutesAssumption), every set of first rows, bodies and faults.         *)
(***************************************************************************)
EXTENDS Api, TLAPS

Fields == {"busy", "name", "at", "user", "id", "key", "arg", "row", "new", "all",
           "shown", "passed"}

IsRow(r) == r = [life |-> r.life, by |-> r.by, cols |-> r.cols]

\* A request in progress on one of the routes.
IsRequest(k, routes) ==
    /\ DOMAIN k = Fields /\ k.busy = TRUE
    /\ k.name \in DOMAIN routes /\ k.at \in DOMAIN routes[k.name].steps

Tables == DOMAIN Parts[part].rows

Shape ==
    /\ part \in DOMAIN Parts
    /\ tables = [t \in Tables |-> [i \in Ids |-> tables[t][i]]]
    /\ meant = [t \in Tables |-> [i \in Ids |-> meant[t][i]]]
    /\ \A t \in Tables, i \in Ids : IsRow(tables[t][i])
    /\ run = [c \in Clients |-> run[c]]
    /\ \A c \in Clients : run[c] = Idle \/ IsRequest(run[c], Parts[part].routes)

Steps(c) == Route(c).steps
Now(c) == run[c].at

-----------------------------------------------------------------------------
(* Columns and requests with some columns changed. *)

LEMMA WithTwice == ASSUME NEW g, NEW cols PROVE With(g, With(g, cols)) = With(g, cols)
BY DEF With

LEMMA WithIs ==
    ASSUME NEW g, NEW cols, NEW x
    PROVE  /\ x \in DOMAIN g => With(g, cols)[x] = g[x]
           /\ x \in DOMAIN cols /\ x \notin DOMAIN g => With(g, cols)[x] = cols[x]
BY DEF With

\* A request that goes on to its next step.
LEMMA GoIs ==
    ASSUME NEW c \in Clients, run = [x \in Clients |-> run[x]], DOMAIN run[c] = Fields,
           NEW changes, DOMAIN changes \subseteq Fields \ {"at"}, Go(c, changes)
    PROVE  /\ run' = [x \in Clients |-> run'[x]]
           /\ \A d \in Clients \ {c} : run'[d] = run[d]
           /\ DOMAIN run'[c] = Fields /\ run'[c].at = run[c].at + 1
           /\ \A x \in Fields \ {"at"} :
                  run'[c][x] = IF x \in DOMAIN changes THEN changes[x] ELSE run[c][x]
<1> DEFINE old == With([at |-> run[c].at + 1], run[c])
           next == With(changes, old)
<1>1. DOMAIN old = Fields /\ old.at = run[c].at + 1 /\ \A x \in Fields \ {"at"} : old[x] = run[c][x]
  BY DEF Fields, With
<1>2. run' = [run EXCEPT ![c] = next]
  BY DEF Go
<1> HIDE DEF old
<1>3. /\ DOMAIN next = Fields /\ next.at = old.at
      /\ \A x \in Fields : next[x] = IF x \in DOMAIN changes THEN changes[x] ELSE old[x]
  BY <1>1 DEF With, Fields
<1> HIDE DEF next
<1>4. QED
  BY <1>1, <1>2, <1>3

LEMMA ContinueIs ==
    ASSUME NEW c \in Clients, run = [x \in Clients |-> run[x]], DOMAIN run[c] = Fields, Continue(c)
    PROVE  /\ run' = [x \in Clients |-> run'[x]]
           /\ \A d \in Clients \ {c} : run'[d] = run[d]
           /\ DOMAIN run'[c] = Fields /\ run'[c].at = run[c].at + 1
           /\ \A x \in Fields \ {"at"} : run'[c][x] = run[c][x]
<1> DEFINE next == [run[c] EXCEPT !.at = @ + 1]
<1>1. DOMAIN next = Fields /\ next.at = run[c].at + 1 /\ \A x \in Fields \ {"at"} : next[x] = run[c][x]
  BY DEF Fields
<1>2. run' = [run EXCEPT ![c] = next]
  BY DEF Continue
<1> HIDE DEF next
<1>3. QED
  BY <1>1, <1>2

LEMMA EndIs ==
    ASSUME NEW c \in Clients, run = [x \in Clients |-> run[x]], End(c)
    PROVE  /\ run' = [x \in Clients |-> run'[x]] /\ run'[c] = Idle
           /\ \A d \in Clients \ {c} : run'[d] = run[d]
BY DEF End

-----------------------------------------------------------------------------
(* What a statement does to its request. *)

\* The row in hand: a stored one, of the table where it was looked for.
InHand(c) ==
    run[c].busy =>
        LET row == run[c].row
        IN  /\ row.id # 0 => /\ row.table \in Tables /\ row.id \in Ids
                             /\ tables[row.table][row.id].life # "free"
            /\ \A t : FoundAt(Steps(c), Now(c), t) => row.id # 0 /\ row.table = t
            /\ \A t : SoughtAt(Steps(c), Now(c), t) => row.id = 0 \/ row.table = t

\* Request c goes on: what a find or a lookup takes, and what else it keeps.
Keeps(c) ==
    /\ run'[c].name = run[c].name /\ run'[c].user = run[c].user /\ run'[c].id = run[c].id
    /\ run'[c].key = run[c].key /\ run'[c].arg = run[c].arg

Takes(c, t, i) == run'[c].row = [table |-> t, id |-> i, cols |-> Cols(t, i)]

Looks(c) ==
    LET s == Step(c)
    IN  \/ s.do \notin {"find", "seek"} /\ run'[c].row = run[c].row
        \/ s.do = "find" /\ run[c].id \in Live(s.table) /\ Takes(c, s.table, run[c].id)
        \/ /\ s.do = "seek" /\ WithKey(s.table, KeyFor(c, s.table)) = {}
           /\ run'[c].row = NoRow
        \/ /\ s.do = "seek"
           /\ \E i \in WithKey(s.table, KeyFor(c, s.table)) : Takes(c, s.table, i)

\* The rows it shows: only a list adds to them.
Shows(c) ==
    \/ run'[c].shown \subseteq run[c].shown
    \/ /\ Step(c).do = "list"
       /\ run'[c].shown \subseteq run[c].shown \cup Live(Step(c).table)

WentOn(c) ==
    /\ Shows(c)
    /\ DOMAIN run'[c] = Fields /\ run'[c].busy = TRUE /\ Keeps(c) /\ Looks(c)
    /\ \/ run'[c].at = run[c].at + 1 /\ Step(c).do # "reply"
       \/ run'[c].at = run[c].at /\ Step(c).do = "sift"
    /\ Step(c).do = "unless" => run[c].row.id = 0
    /\ Step(c).do = "must" => run[c].row.id # 0
    /\ Step(c).do \notin {"create", "both", "put"} => run'[c].new = run[c].new
    /\ Step(c).do \notin {"all", "list", "sift"} =>
           run'[c].all = run[c].all /\ run'[c].shown = run[c].shown /\ run'[c].passed = run[c].passed

OthersStay(c) ==
    run' = [x \in Clients |-> run'[x]] /\ \A d \in Clients \ {c} : run'[d] = run[d]

LEMMA FieldsAre ==
    /\ {"busy", "name", "user", "id", "key", "arg", "row", "new", "all", "shown", "passed"}
         = Fields \ {"at"}
    /\ "at" \in Fields
BY DEF Fields

LEMMA Continues ==
    ASSUME Shape, NEW c \in Clients, run[c].busy, Continue(c),
           Step(c).do \notin {"find", "seek", "reply"},
           Step(c).do = "unless" => run[c].row.id = 0, Step(c).do = "must" => run[c].row.id # 0
    PROVE  OthersStay(c) /\ WentOn(c) /\ run'[c].new = run[c].new
<1>1. run = [x \in Clients |-> run[x]] /\ DOMAIN run[c] = Fields /\ run[c].busy = TRUE
  BY DEF Shape, IsRequest, Idle
<1>2. /\ OthersStay(c) /\ DOMAIN run'[c] = Fields /\ run'[c].at = run[c].at + 1
      /\ \A x \in Fields \ {"at"} : run'[c][x] = run[c][x]
  BY <1>1, ContinueIs DEF OthersStay
<1>3. QED
  BY <1>1, <1>2, FieldsAre DEF WentOn, Keeps, Looks, Shows

LEMMA Goes ==
    ASSUME Shape, NEW c \in Clients, run[c].busy,
           NEW changes, DOMAIN changes \subseteq {"row", "new", "all", "shown", "passed"},
           Go(c, changes), Step(c).do \notin {"reply", "unless", "must"},
           "row" \in DOMAIN changes <=> Step(c).do \in {"find", "seek"},
           "row" \in DOMAIN changes =>
               LET s == Step(c)
               IN  \/ /\ s.do = "find" /\ run[c].id \in Live(s.table)
                      /\ changes.row = [table |-> s.table, id |-> run[c].id, cols |-> Cols(s.table, run[c].id)]
                   \/ /\ s.do = "seek" /\ WithKey(s.table, KeyFor(c, s.table)) = {}
                      /\ changes.row = NoRow
                   \/ /\ s.do = "seek"
                      /\ \E i \in WithKey(s.table, KeyFor(c, s.table)) :
                             changes.row = [table |-> s.table, id |-> i, cols |-> Cols(s.table, i)],
           "new" \in DOMAIN changes => Step(c).do \in {"create", "both", "put"},
           DOMAIN changes \cap {"all", "shown", "passed"} # {} => Step(c).do \in {"all", "list"},
           "shown" \in DOMAIN changes =>
               Step(c).do = "list" /\ changes.shown \subseteq run[c].shown \cup Live(Step(c).table)
    PROVE  /\ OthersStay(c) /\ WentOn(c)
           /\ run'[c].new = IF "new" \in DOMAIN changes THEN changes.new ELSE run[c].new
<1>1. run = [x \in Clients |-> run[x]] /\ DOMAIN run[c] = Fields /\ run[c].busy = TRUE
  BY DEF Shape, IsRequest, Idle
<1>2. DOMAIN changes \subseteq Fields \ {"at"}
  BY FieldsAre
<1>3. /\ OthersStay(c) /\ DOMAIN run'[c] = Fields /\ run'[c].at = run[c].at + 1
      /\ \A x \in Fields \ {"at"} :
             run'[c][x] = IF x \in DOMAIN changes THEN changes[x] ELSE run[c][x]
  BY <1>1, <1>2, GoIs DEF OthersStay
<1>4. Keeps(c) /\ run'[c].busy = TRUE
  BY <1>1, <1>3, FieldsAre DEF Keeps
<1>5. run'[c].row = IF "row" \in DOMAIN changes THEN changes.row ELSE run[c].row
  BY <1>3, FieldsAre
<1>6. run'[c].new = IF "new" \in DOMAIN changes THEN changes.new ELSE run[c].new
  BY <1>3, FieldsAre
<1>7. Looks(c)
  BY <1>5 DEF Looks, Takes
<1>8. run'[c].shown = IF "shown" \in DOMAIN changes THEN changes.shown ELSE run[c].shown
  BY <1>3, FieldsAre
<1>9. Shows(c)
  BY <1>8 DEF Shows
<1>10. Step(c).do \notin {"all", "list", "sift"} =>
           run'[c].all = run[c].all /\ run'[c].shown = run[c].shown /\ run'[c].passed = run[c].passed
  BY <1>3, FieldsAre
<1>11. QED
  BY <1>3, <1>4, <1>6, <1>7, <1>9, <1>10 DEF WentOn

-----------------------------------------------------------------------------
(* What a statement does to the tables. *)

ShapedRows ==
    /\ tables' = [t \in Tables |-> [i \in Ids |-> tables'[t][i]]]
    /\ meant' = [t \in Tables |-> [i \in Ids |-> meant'[t][i]]]
    /\ \A t \in Tables, i \in Ids : IsRow(tables'[t][i])

SameSlot(t, i) == tables'[t][i] = tables[t][i] /\ meant'[t][i] = meant[t][i]

\* A row that is created, with the columns that were given.
Inserted(c, t, i) ==
    /\ tables[t][i].life = "free"
    /\ tables'[t][i] = [life |-> "live", by |-> run[c].user, cols |-> meant'[t][i]]
    /\ \/ /\ Does(Steps(c), Now(c), "create", t) \/ (Does(Steps(c), Now(c), "put", t) /\ run[c].row.id = 0)
          /\ meant'[t][i] = With([key |-> KeyFor(c, t)], Given(c, t))
          /\ run'[c].busy /\ (t = Route(c).table => run'[c].new = i)
       \/ /\ Step(c).do = "both"
          /\ "key" \in DOMAIN tables'[t][i].cols
          /\ \/ t = Step(c).table /\ tables'[t][i].cols.key = run[c].key
             \/ /\ t = Step(c).other /\ tables'[t][i].cols.key \in Ids
                /\ tables'[Step(c).table][tables'[t][i].cols.key].cols.key = run[c].key

\* The row in hand, saved.
Saved(c, t, i) ==
    /\ Does(Steps(c), Now(c), "save", t) \/ Does(Steps(c), Now(c), "put", t)
    /\ i = run[c].row.id /\ t = run[c].row.table
    /\ tables'[t][i] = [life |-> "live", by |-> tables[t][i].by,
                        cols |-> With(Given(c, t), run[c].row.cols)]
    /\ meant'[t][i] = With(Given(c, t), meant[t][i])

Deleted(c, t, i) ==
    /\ Does(Steps(c), Now(c), "delete", t) /\ tables[t][i].life = "live"
    /\ Step(c).by # "id" => Cols(t, i).key = run[c].key
    /\ Step(c).by # "key" => i = run[c].id
    /\ tables'[t][i] = [life |-> "deleted", by |-> tables[t][i].by, cols |-> Cols(t, i)]
    /\ meant'[t][i] = meant[t][i]

Changes(c, t, i) == Inserted(c, t, i) \/ Saved(c, t, i) \/ Deleted(c, t, i)

RowsChange(c) ==
    /\ ShapedRows
    /\ Step(c).do \in {"create", "save", "put"} =>
           \E t, i : \A u \in Tables, j \in Ids : <<u, j>> # <<t, i>> => SameSlot(u, j)
    /\ \A t \in Tables, i \in Ids : SameSlot(t, i) \/ Changes(c, t, i)
    /\ Step(c).do = "delete" /\ Step(c).by = "key" =>
           \A i \in Ids : tables'[Step(c).table][i].life = "live" =>
               tables'[Step(c).table][i].cols.key # run[c].key

LEMMA RowsStay ==
    ASSUME Shape, UNCHANGED <<tables, meant>>, NEW c, Step(c).do # "delete"
    PROVE  RowsChange(c)
BY DEF RowsChange, Shape, ShapedRows, SameSlot

LEMMA StepIs ==
    ASSUME Shape, NEW c \in Clients, run[c].busy
    PROVE  /\ run[c].name \in DOMAIN Parts[part].routes /\ Route(c) = Parts[part].routes[run[c].name]
           /\ Now(c) \in DOMAIN Steps(c) /\ Step(c) = Steps(c)[Now(c)]
           /\ Step(c).do \in OnTables => Step(c).table \in Tables
           /\ Step(c).do = "both" => Step(c).other \in Tables \ {Step(c).table}
<1>1. IsRequest(run[c], Parts[part].routes) /\ part \in DOMAIN Parts
  BY DEF Shape, Idle
<1>2. QED
  BY <1>1, RoutesAssumption DEF IsRequest, RoutesAssumption, Route, Step, Steps, Now, Tables

\* One slot is stored, the others stay.
LEMMA StoreRows ==
    ASSUME Shape, NEW t \in Tables, NEW i \in Ids, NEW by, NEW cols, NEW wanted,
           Store(t, i, by, cols, wanted)
    PROVE  /\ ShapedRows
           /\ tables'[t][i] = [life |-> "live", by |-> by, cols |-> cols] /\ meant'[t][i] = wanted
           /\ \A u \in Tables, j \in Ids : <<u, j>> # <<t, i>> => SameSlot(u, j)
<1> DEFINE row == [life |-> "live", by |-> by, cols |-> cols]
           here == [tables[t] EXCEPT ![i] = row]
           there == [meant[t] EXCEPT ![i] = wanted]
<1>1. tables' = [tables EXCEPT ![t] = here] /\ meant' = [meant EXCEPT ![t] = there]
  BY DEF Store, Shape
<1>2. IsRow(row)
  BY DEF IsRow
<1> HIDE DEF row
<1>3. /\ here = [j \in Ids |-> here[j]] /\ here[i] = row
      /\ \A j \in Ids \ {i} : here[j] = tables[t][j]
  BY DEF Shape
<1>4. /\ there = [j \in Ids |-> there[j]] /\ there[i] = wanted
      /\ \A j \in Ids \ {i} : there[j] = meant[t][j]
  BY DEF Shape
<1> HIDE DEF here, there
<1>5. /\ tables' = [u \in Tables |-> tables'[u]] /\ tables'[t] = here
      /\ meant' = [u \in Tables |-> meant'[u]] /\ meant'[t] = there
      /\ \A u \in Tables \ {t} : tables'[u] = tables[u] /\ meant'[u] = meant[u]
  BY <1>1 DEF Shape
<1>6. \A u \in Tables, j \in Ids : <<u, j>> # <<t, i>> => SameSlot(u, j)
  BY <1>3, <1>4, <1>5 DEF SameSlot
<1>7. /\ \A u \in Tables : tables'[u] = [j \in Ids |-> tables'[u][j]]
      /\ \A u \in Tables : meant'[u] = [j \in Ids |-> meant'[u][j]]
  BY <1>3, <1>4, <1>5 DEF Shape
<1>8. \A u \in Tables, j \in Ids : IsRow(tables'[u][j])
  BY <1>2, <1>3, <1>5, <1>6 DEF SameSlot, Shape
<1>9. QED
  BY <1>3, <1>4, <1>5, <1>6, <1>7, <1>8 DEF row, ShapedRows

LEMMA InsertRows ==
    ASSUME Shape, NEW c \in Clients, run[c].busy, NEW t, t = Step(c).table, Insert(c, t),
           Step(c).do = "create" \/ (Step(c).do = "put" /\ run[c].row.id = 0)
    PROVE  RowsChange(c) /\ OthersStay(c) /\ (run'[c] = Idle \/ WentOn(c))
<1> DEFINE arg == With([key |-> KeyFor(c, t)], Given(c, t))
<1>1. PICK i \in Fresh(t) :
        IF Taken(t, i, arg) THEN End(c) /\ UNCHANGED <<tables, meant>>
        ELSE /\ Store(t, i, run[c].user, arg, arg)
             /\ Go(c, IF t = Route(c).table THEN [new |-> i] ELSE [new |-> run[c].new])
  BY DEF Insert
<1>2. t \in Tables /\ i \in Ids /\ tables[t][i].life = "free"
  BY <1>1, StepIs DEF Fresh, OnTables
<1>3. CASE Taken(t, i, arg)
  <2>1. OthersStay(c) /\ run'[c] = Idle
    BY <1>1, <1>3, EndIs DEF Shape, OthersStay
  <2>2. RowsChange(c)
    BY <1>1, <1>3, RowsStay
  <2>3. QED
    BY <2>1, <2>2
<1>4. CASE ~Taken(t, i, arg)
  <2>1. Store(t, i, run[c].user, arg, arg)
    BY <1>1, <1>4
  <2>2. PICK new : new = (IF t = Route(c).table THEN i ELSE run[c].new) /\ Go(c, [new |-> new])
    BY <1>1, <1>4
  <2>3. OthersStay(c) /\ WentOn(c) /\ run'[c].new = new
    <3> DEFINE changes == [new |-> new]
    <3>1. DOMAIN changes = {"new"} /\ changes.new = new /\ Go(c, changes)
      BY <2>2
    <3> HIDE DEF changes
    <3>2. QED
      BY <3>1, Goes
  <2> HIDE DEF arg
  <2>4. /\ ShapedRows
        /\ tables'[t][i] = [life |-> "live", by |-> run[c].user, cols |-> arg] /\ meant'[t][i] = arg
        /\ \A u \in Tables, j \in Ids : <<u, j>> # <<t, i>> => SameSlot(u, j)
    BY <1>2, <2>1, StoreRows
  <2>5. Inserted(c, t, i)
    BY <1>2, <2>2, <2>3, <2>4, StepIs DEF Inserted, Does, WentOn, arg
  <2>6. \A u \in Tables, j \in Ids : SameSlot(u, j) \/ Changes(c, u, j)
    BY <2>4, <2>5 DEF Changes
  <2>7. QED
    BY <2>3, <2>4, <2>6 DEF RowsChange
<1>5. QED
  BY <1>3, <1>4

LEMMA OverwriteRows ==
    ASSUME Shape, NEW c \in Clients, run[c].busy, InHand(c), NEW t, t = Step(c).table, Overwrite(c, t),
           Step(c).do \in {"save", "put"}, run[c].row.id # 0, run[c].row.table = t
    PROVE  RowsChange(c) /\ OthersStay(c) /\ (run'[c] = Idle \/ WentOn(c))
<1> DEFINE i == run[c].row.id
           cols == With(Given(c, t), run[c].row.cols)
           wanted == With(Given(c, t), meant[t][i])
<1>1. t \in Tables /\ i \in Ids
  BY DEF InHand
<1>2. CASE Taken(t, i, cols)
  <2>1. End(c) /\ UNCHANGED <<tables, meant>>
    BY <1>2 DEF Overwrite
  <2>2. OthersStay(c) /\ run'[c] = Idle
    BY <2>1, EndIs DEF Shape, OthersStay
  <2>3. RowsChange(c)
    BY <2>1, RowsStay
  <2>4. QED
    BY <2>2, <2>3
<1>3. CASE ~Taken(t, i, cols)
  <2>1. Store(t, i, tables[t][i].by, cols, wanted) /\ Continue(c)
    BY <1>3 DEF Overwrite
  <2>2. OthersStay(c) /\ WentOn(c)
    BY <2>1, Continues
  <2> HIDE DEF i, cols, wanted
  <2>3. /\ ShapedRows
        /\ tables'[t][i] = [life |-> "live", by |-> tables[t][i].by, cols |-> cols]
        /\ meant'[t][i] = wanted
        /\ \A u \in Tables, j \in Ids : <<u, j>> # <<t, i>> => SameSlot(u, j)
    BY <1>1, <2>1, StoreRows
  <2>4. Saved(c, t, i)
    BY <2>3, StepIs DEF Saved, Does, i, cols, wanted
  <2>5. \A u \in Tables, j \in Ids : SameSlot(u, j) \/ Changes(c, u, j)
    BY <2>3, <2>4 DEF Changes
  <2>6. QED
    BY <2>2, <2>3, <2>5 DEF RowsChange
<1>4. QED
  BY <1>2, <1>3

LEMMA CreateBothRows ==
    ASSUME Shape, NEW c \in Clients, run[c].busy, CreateBoth(c)
    PROVE  RowsChange(c) /\ OthersStay(c) /\ WentOn(c)
<1> DEFINE t == Step(c).table
           o == Step(c).other
           arg == With([key |-> run[c].key], run[c].arg)
           New(cols) == [life |-> "live", by |-> run[c].user, cols |-> cols]
           part2(i) == [key |-> i, text |-> 0]
<1>1. Step(c).do = "both" /\ t \in Tables /\ o \in Tables \ {t}
  BY StepIs DEF CreateBoth, At, OnTables
<1>2. PICK i \in Fresh(t), j \in Fresh(o) :
        /\ tables' = [tables EXCEPT ![t][i] = New(arg), ![o][j] = New(part2(i))]
        /\ meant' = [meant EXCEPT ![t][i] = arg, ![o][j] = part2(i)]
        /\ Go(c, [new |-> i])
  BY DEF CreateBoth
<1>3. i \in Ids /\ j \in Ids /\ tables[t][i].life = "free" /\ tables[o][j].life = "free"
  BY DEF Fresh
<1>4. OthersStay(c) /\ WentOn(c)
  <2> DEFINE changes == [new |-> i]
  <2>1. DOMAIN changes = {"new"} /\ changes.new = i /\ Go(c, changes)
    BY <1>2
  <2> HIDE DEF changes
  <2>2. QED
    BY <1>1, <2>1, Goes
<1> DEFINE row == New(arg)
           other == New(part2(i))
<1>5. /\ IsRow(row) /\ row = [life |-> "live", by |-> run[c].user, cols |-> arg]
      /\ IsRow(other) /\ other = [life |-> "live", by |-> run[c].user, cols |-> part2(i)]
      /\ row.cols.key = run[c].key /\ other.cols.key = i
      /\ "key" \in DOMAIN row.cols /\ "key" \in DOMAIN other.cols
  BY DEF IsRow, With
<1>6. /\ tables' = [tables EXCEPT ![t][i] = row, ![o][j] = other]
      /\ meant' = [meant EXCEPT ![t][i] = arg, ![o][j] = part2(i)]
  BY <1>2
<1> HIDE DEF row, other, New, arg, part2, t, o
<1> DEFINE here == [tables[t] EXCEPT ![i] = row]
           there == [tables[o] EXCEPT ![j] = other]
           hereMeant == [meant[t] EXCEPT ![i] = arg]
           thereMeant == [meant[o] EXCEPT ![j] = part2(i)]
<1>7. /\ tables' = [tables EXCEPT ![t] = here, ![o] = there]
      /\ meant' = [meant EXCEPT ![t] = hereMeant, ![o] = thereMeant]
  BY <1>1, <1>6 DEF Shape
<1>0. \A u \in Tables : /\ tables[u] = [x \in Ids |-> tables[u][x]]
                        /\ meant[u] = [x \in Ids |-> meant[u][x]]
  BY DEF Shape
<1>8. /\ here = [x \in Ids |-> here[x]] /\ here[i] = row
      /\ \A x \in Ids \ {i} : here[x] = tables[t][x]
      /\ there = [x \in Ids |-> there[x]] /\ there[j] = other
      /\ \A x \in Ids \ {j} : there[x] = tables[o][x]
  BY <1>0, <1>1, <1>3
<1>9. /\ hereMeant = [x \in Ids |-> hereMeant[x]] /\ hereMeant[i] = arg
      /\ \A x \in Ids \ {i} : hereMeant[x] = meant[t][x]
      /\ thereMeant = [x \in Ids |-> thereMeant[x]] /\ thereMeant[j] = part2(i)
      /\ \A x \in Ids \ {j} : thereMeant[x] = meant[o][x]
  BY <1>0, <1>1, <1>3
<1> HIDE DEF here, there, hereMeant, thereMeant
<1>10. /\ tables' = [u \in Tables |-> tables'[u]] /\ tables'[t] = here /\ tables'[o] = there
       /\ meant' = [u \in Tables |-> meant'[u]] /\ meant'[t] = hereMeant /\ meant'[o] = thereMeant
       /\ \A u \in Tables \ {t, o} : tables'[u] = tables[u] /\ meant'[u] = meant[u]
  BY <1>1, <1>7 DEF Shape
<1>11. \A u \in Tables, x \in Ids : <<u, x>> \notin {<<t, i>>, <<o, j>>} => SameSlot(u, x)
  BY <1>8, <1>9, <1>10 DEF SameSlot
<1>12. /\ \A u \in Tables : tables'[u] = [x \in Ids |-> tables'[u][x]]
       /\ \A u \in Tables : meant'[u] = [x \in Ids |-> meant'[u][x]]
  <2>1. \A u \in Tables \ {t, o} : /\ tables'[u] = [x \in Ids |-> tables'[u][x]]
                                  /\ meant'[u] = [x \in Ids |-> meant'[u][x]]
    BY <1>0, <1>10
  <2>2. QED
    BY <1>8, <1>9, <1>10, <2>1
<1>13. ShapedRows
  <2>1. IsRow(tables'[t][i]) /\ IsRow(tables'[o][j])
    BY <1>5, <1>8, <1>9, <1>10
  <2>2. ASSUME NEW u \in Tables, NEW x \in Ids, <<u, x>> \notin {<<t, i>>, <<o, j>>}
        PROVE  IsRow(tables'[u][x])
    <3>1. tables'[u][x] = tables[u][x]
      BY <1>11, <2>2 DEF SameSlot
    <3>2. IsRow(tables[u][x])
      BY DEF Shape
    <3>3. QED
      BY <3>1, <3>2
  <2>3. \A u \in Tables, x \in Ids : IsRow(tables'[u][x])
    BY <2>1, <2>2
  <2>4. QED
    BY <1>10, <1>12, <2>3 DEF ShapedRows
<1>14. Inserted(c, t, i) /\ Inserted(c, o, j)
  <2>1. tables'[t][i] = row /\ tables'[o][j] = other
    BY <1>8, <1>10
  <2>2. /\ tables'[t][i] = [life |-> "live", by |-> run[c].user, cols |-> meant'[t][i]]
        /\ tables'[o][j] = [life |-> "live", by |-> run[c].user, cols |-> meant'[o][j]]
    BY <1>5, <1>9, <1>10, <2>1
  <2>3. /\ tables'[t][i].cols.key = run[c].key /\ tables'[o][j].cols.key = i
        /\ "key" \in DOMAIN tables'[t][i].cols /\ "key" \in DOMAIN tables'[o][j].cols
    BY <1>5, <2>1
  <2>4. QED
    BY <1>1, <1>3, <2>2, <2>3 DEF Inserted, t, o
<1>15. QED
  BY <1>1, <1>4, <1>11, <1>13, <1>14 DEF RowsChange, Changes

LEMMA DeletedRow ==
    ASSUME NEW r, IsRow(r)
    PROVE  [r EXCEPT !.life = "deleted"] = [life |-> "deleted", by |-> r.by, cols |-> r.cols]
<1>1. \A life, by, cols : [[life |-> life, by |-> by, cols |-> cols] EXCEPT !.life = "deleted"]
          = [life |-> "deleted", by |-> by, cols |-> cols]
  OBVIOUS
<1>2. QED
  BY <1>1 DEF IsRow

LEMMA DeleteRows ==
    ASSUME Shape, NEW c \in Clients, run[c].busy, Delete(c)
    PROVE  RowsChange(c) /\ OthersStay(c) /\ (run'[c] = Idle \/ WentOn(c))
<1> DEFINE s == Step(c)
           t == s.table
           these == Live(t) \cap (IF s.by = "key" THEN Ids ELSE {run[c].id})
                        \cap (IF s.by = "id" THEN Ids ELSE WithKey(t, run[c].key))
           swept == [i \in Ids |-> IF i \in these THEN [tables[t][i] EXCEPT !.life = "deleted"]
                                  ELSE tables[t][i]]
<1>1. /\ s.do = "delete" /\ t \in Tables
      /\ tables' = [tables EXCEPT ![t] = swept] /\ meant' = meant
      /\ IF these = {} /\ s.refuse # 0 THEN End(c) ELSE Continue(c)
  BY StepIs DEF Delete, At, OnTables
<1>2. OthersStay(c) /\ (run'[c] = Idle \/ WentOn(c))
  BY <1>1, EndIs, Continues DEF Shape, OthersStay
<1>3. these \subseteq Ids /\ \A i \in these : tables[t][i].life = "live"
  BY DEF Live
<1>4. /\ s.by = "key" => \A i \in Ids : i \in these <=> tables[t][i].life = "live" /\ Cols(t, i).key = run[c].key
      /\ s.by # "id" => \A i \in these : Cols(t, i).key = run[c].key
      /\ s.by # "key" => \A i \in these : i = run[c].id
  BY DEF Live, WithKey
<1> HIDE DEF these
<1>5. /\ swept = [i \in Ids |-> swept[i]]
      /\ \A i \in Ids \ these : swept[i] = tables[t][i]
      /\ \A i \in these : swept[i] = [life |-> "deleted", by |-> tables[t][i].by, cols |-> Cols(t, i)]
  <2>1. \A i \in these : [tables[t][i] EXCEPT !.life = "deleted"]
            = [life |-> "deleted", by |-> tables[t][i].by, cols |-> Cols(t, i)]
    BY <1>1, <1>3, DeletedRow DEF Shape, Cols
  <2>2. QED
    BY <1>3, <2>1
<1> HIDE DEF swept
<1>6. /\ tables' = [u \in Tables |-> tables'[u]] /\ tables'[t] = swept
      /\ \A u \in Tables \ {t} : tables'[u] = tables[u]
  BY <1>1 DEF Shape
<1>7. ShapedRows
  <2>1. \A i \in Ids : IsRow(swept[i])
    <3>1. \A i \in these : IsRow(swept[i])
      <4>1. \A life, by, cols : IsRow([life |-> life, by |-> by, cols |-> cols])
        BY DEF IsRow
      <4>2. QED
        BY <1>5, <4>1
    <3>2. \A i \in Ids \ these : IsRow(swept[i])
      BY <1>1, <1>5 DEF Shape
    <3>3. QED
      BY <3>1, <3>2
  <2>2. \A u \in Tables, i \in Ids : IsRow(tables'[u][i])
    BY <1>6, <2>1 DEF Shape
  <2>3. \A u \in Tables : tables'[u] = [i \in Ids |-> tables'[u][i]]
    BY <1>5, <1>6 DEF Shape
  <2>4. meant' = [u \in Tables |-> [i \in Ids |-> meant'[u][i]]]
    BY <1>1 DEF Shape
  <2>5. QED
    BY <1>6, <2>2, <2>3, <2>4 DEF ShapedRows
<1>8. \A u \in Tables, i \in Ids : SameSlot(u, i) \/ Deleted(c, u, i)
  <2> SUFFICES ASSUME NEW u \in Tables, NEW i \in Ids PROVE SameSlot(u, i) \/ Deleted(c, u, i)
    OBVIOUS
  <2>1. CASE u = t /\ i \in these
    <3>1. tables'[u][i] = [life |-> "deleted", by |-> tables[t][i].by, cols |-> Cols(t, i)]
      BY <1>5, <1>6, <2>1
    <3>2. QED
      BY <1>1, <1>3, <1>4, <2>1, <3>1, StepIs DEF Deleted, Does
  <2>2. CASE u # t \/ i \notin these
    BY <1>1, <1>5, <1>6, <2>2 DEF SameSlot
  <2>3. QED
    BY <2>1, <2>2
<1>9. s.by = "key" => \A i \in Ids : tables'[t][i].life = "live" => tables'[t][i].cols.key # run[c].key
  <2> SUFFICES ASSUME s.by = "key", NEW i \in Ids, tables'[t][i].life = "live"
               PROVE  tables'[t][i].cols.key # run[c].key
    OBVIOUS
  <2>1. i \notin these /\ tables'[t][i] = tables[t][i]
    <3>1. tables'[t][i] = swept[i] /\ swept[i].life = "live"
      BY <1>6
    <3>2. ASSUME i \in these PROVE swept[i].life = "deleted"
      <4>1. swept[i] = [life |-> "deleted", by |-> tables[t][i].by, cols |-> Cols(t, i)]
        BY <1>5, <3>2
      <4>2. QED
        BY <4>1
    <3>3. QED
      BY <1>5, <3>1, <3>2
  <2>2. QED
    BY <1>4, <2>1 DEF Cols
<1>10. QED
  BY <1>1, <1>2, <1>7, <1>8, <1>9 DEF RowsChange, Changes

\* One statement of a request: its rows, and where the request is after it.
LEMMA StatementStep ==
    ASSUME Shape, NEW c \in Clients, run[c].busy, InHand(c), Statement(c)
    PROVE  RowsChange(c) /\ OthersStay(c) /\ (run'[c] = Idle \/ WentOn(c))
<1>1. run = [x \in Clients |-> run[x]] /\ DOMAIN run[c] = Fields /\ run[c].busy = TRUE
  BY DEF Shape, IsRequest, Idle
<1>2. CASE UNCHANGED <<tables, meant>> /\ End(c) /\ Step(c).do # "delete"
  BY <1>1, <1>2, EndIs, RowsStay DEF OthersStay
<1>3. ASSUME UNCHANGED <<tables, meant>>, Continue(c), Step(c).do \notin {"find", "seek", "reply", "delete"},
             Step(c).do = "unless" => run[c].row.id = 0, Step(c).do = "must" => run[c].row.id # 0
      PROVE  RowsChange(c) /\ OthersStay(c) /\ (run'[c] = Idle \/ WentOn(c))
  BY <1>3, Continues, RowsStay
<1>4. CASE May(c)
  BY <1>2, <1>3, <1>4 DEF May, At
<1>5. CASE Check(c)
  BY <1>2, <1>3, <1>5 DEF Check, At
<1>6. CASE FindByID(c)
  <2>1. CASE run[c].id \in Live(Step(c).table)
    <3> DEFINE changes == [row |-> [table |-> Step(c).table, id |-> run[c].id, cols |-> Cols(Step(c).table, run[c].id)]]
    <3>1. /\ DOMAIN changes = {"row"}
          /\ changes.row = [table |-> Step(c).table, id |-> run[c].id, cols |-> Cols(Step(c).table, run[c].id)]
          /\ Go(c, changes) /\ Step(c).do = "find" /\ UNCHANGED <<tables, meant>>
      BY <1>6, <2>1 DEF FindByID, Take, At
    <3> HIDE DEF changes
    <3>2. QED
      BY <2>1, <3>1, Goes, RowsStay
  <2>2. CASE run[c].id \notin Live(Step(c).table)
    BY <1>2, <1>6, <2>2 DEF FindByID, At
  <2>3. QED
    BY <2>1, <2>2
<1>7. CASE Seek(c)
  <2> DEFINE t == Step(c).table
             found == WithKey(t, KeyFor(c, t))
  <2>1. Step(c).do = "seek" /\ UNCHANGED <<tables, meant>>
    BY <1>7 DEF Seek, At
  <2>2. CASE found = {}
    <3> DEFINE changes == [row |-> NoRow]
    <3>1. DOMAIN changes = {"row"} /\ changes.row = NoRow /\ Go(c, changes)
      BY <1>7, <2>2 DEF Seek
    <3> HIDE DEF changes
    <3>2. QED
      BY <2>1, <2>2, <3>1, Goes, RowsStay
  <2>3. CASE found # {}
    <3>1. PICK i \in found : Take(c, t, i)
      BY <1>7, <2>3 DEF Seek
    <3> DEFINE changes == [row |-> [table |-> t, id |-> i, cols |-> Cols(t, i)]]
    <3>2. /\ DOMAIN changes = {"row"} /\ changes.row = [table |-> t, id |-> i, cols |-> Cols(t, i)]
          /\ Go(c, changes)
      BY <3>1 DEF Take
    <3> HIDE DEF changes
    <3>3. QED
      BY <2>1, <3>1, <3>2, Goes, RowsStay
  <2>4. QED
    BY <2>2, <2>3
<1>8. CASE Decide(c)
  BY <1>2, <1>3, <1>8 DEF Decide, At
<1>9. CASE Create(c)
  <2>1. (RowsChange(c) /\ OthersStay(c) /\ (run'[c] = Idle \/ WentOn(c)))
    BY <1>9, InsertRows DEF Create, At
  <2>2. QED
    BY <2>1
<1>10. CASE CreateBoth(c)
  BY <1>10, CreateBothRows
<1>11. CASE Save(c)
  <2>1. Step(c).do = "save" /\ Overwrite(c, Step(c).table)
    BY <1>11 DEF Save, At
  <2>2. SavesWhatItFound(Steps(c))
    BY <1>1, RoutesAssumption DEF Shape, IsRequest, Idle, RoutesAssumption, Route, Steps
  <2>3. FoundAt(Steps(c), Now(c), Step(c).table)
    BY <2>1, <2>2, StepIs DEF SavesWhatItFound
  <2>4. run[c].row.id # 0 /\ run[c].row.table = Step(c).table
    BY <2>3 DEF InHand
  <2>5. QED
    BY <2>1, <2>4, OverwriteRows
<1>12. CASE Put(c)
  <2>1. Step(c).do = "put" /\ IF run[c].row.id = 0 THEN Insert(c, Step(c).table) ELSE Overwrite(c, Step(c).table)
    BY <1>12 DEF Put, At
  <2>2. SavesWhatItFound(Steps(c))
    BY <1>1, RoutesAssumption DEF Shape, IsRequest, Idle, RoutesAssumption, Route, Steps
  <2>3. SoughtAt(Steps(c), Now(c), Step(c).table)
    BY <2>1, <2>2, StepIs DEF SavesWhatItFound
  <2>4. run[c].row.id = 0 \/ run[c].row.table = Step(c).table
    BY <2>3 DEF InHand
  <2>5. QED
    BY <2>1, <2>4, OverwriteRows, InsertRows
<1>13. CASE Delete(c)
  BY <1>13, DeleteRows
<1>14. CASE SeesAll(c)
  <2>1. PICK answer : Go(c, [all |-> answer]) /\ Step(c).do = "all" /\ UNCHANGED <<tables, meant>>
    BY <1>14 DEF SeesAll, At
  <2> DEFINE changes == [all |-> answer]
  <2>2. DOMAIN changes = {"all"} /\ Go(c, changes)
    BY <2>1
  <2> HIDE DEF changes
  <2>3. QED
    BY <2>1, <2>2, Goes, RowsStay
<1>15. CASE List(c)
  <2>1. PICK shown, passed : /\ Go(c, [shown |-> shown, passed |-> passed])
                             /\ shown \subseteq run[c].shown \cup Live(Step(c).table)
                             /\ Step(c).do = "list" /\ UNCHANGED <<tables, meant>>
    BY <1>15 DEF List, At
  <2> DEFINE changes == [shown |-> shown, passed |-> passed]
  <2>2. DOMAIN changes = {"shown", "passed"} /\ changes.shown = shown /\ Go(c, changes)
    BY <2>1
  <2> HIDE DEF changes
  <2>3. QED
    BY <2>1, <2>2, Goes, RowsStay
<1>16. CASE Sift(c)
  <2>1. Step(c).do = "sift" /\ UNCHANGED <<tables, meant>>
    BY <1>16 DEF Sift, At
  <2>2. CASE Continue(c)
    BY <1>3, <2>1, <2>2
  <2>3. CASE \E shown \in SUBSET run[c].shown : \E passed :
                run' = [run EXCEPT ![c].passed = passed, ![c].shown = shown]
    <3>0. PICK shown \in SUBSET run[c].shown :
            \E passed : run' = [run EXCEPT ![c].passed = passed, ![c].shown = shown]
      BY <2>3
    <3>1. PICK passed : run' = [run EXCEPT ![c].passed = passed, ![c].shown = shown]
      BY <3>0
    <3> DEFINE next == [run[c] EXCEPT !.passed = passed, !.shown = shown]
    <3>2. run' = [run EXCEPT ![c] = next]
      BY <1>1, <3>1
    <3>3. /\ DOMAIN next = Fields /\ \A x \in Fields \ {"passed", "shown"} : next[x] = run[c][x]
          /\ next.shown = shown
      BY <1>1 DEF Fields
    <3> HIDE DEF next
    <3>4. OthersStay(c) /\ run'[c] = next
      BY <1>1, <3>2 DEF OthersStay
    <3>5. WentOn(c)
      BY <1>1, <2>1, <3>3, <3>4 DEF WentOn, Keeps, Looks, Shows, Fields
    <3>6. QED
      BY <2>1, <3>4, <3>5, RowsStay
  <2>4. \/ Continue(c)
        \/ \E shown \in SUBSET run[c].shown : \E passed :
               run' = [run EXCEPT ![c].passed = passed, ![c].shown = shown]
    BY <1>16 DEF Sift
  <2>5. QED
    BY <2>2, <2>3, <2>4
<1>17. CASE IssueTokens(c)
  BY <1>3, <1>17 DEF IssueTokens, At
<1>18. CASE Reply(c)
  BY <1>2, <1>18 DEF Reply, At
<1>19. QED
  BY <1>4, <1>5, <1>6, <1>7, <1>8, <1>9, <1>10, <1>11, <1>12, <1>13, <1>14, <1>15, <1>16, <1>17, <1>18
     DEF Statement

-----------------------------------------------------------------------------
(* What a step of the system is. *)

\* What the path and the body of a request have to do with its key.
Asks(k, route) ==
    /\ "key" \in DOMAIN k.arg => "key" \in route.body.required \cup route.body.optional
    /\ route.keyed = "body" => k.key = k.arg.key
    /\ route.keyed = "path" => k.key = k.id
    /\ route.keyed = "path/role" => k.key[1] = k.id
    /\ route.keyed \in {"mine", "mine+id"} => k.key = k.user
    /\ route.keyed = "mine/path" => k.key[1] = k.user
    /\ route.keyed \notin KeyedById => k.id = 0

Begins(c) ==
    /\ IsRequest(run'[c], Parts[part].routes)
    /\ run'[c].at = 1 /\ run'[c].row = NoRow /\ run'[c].new = 0
    /\ run'[c].all = FALSE /\ run'[c].shown = {} /\ run'[c].passed = {}
    /\ run'[c].user \in Users
    /\ Asks(run'[c], Parts[part].routes[run'[c].name])

\* A request comes in, a statement fails, or a statement is executed.
Comes(c) ==
    ~run[c].busy /\ Begins(c) /\ UNCHANGED <<tables, meant, faults>>

Fails(c) ==
    run[c].busy /\ run'[c] = Idle /\ UNCHANGED <<tables, meant>> /\ faults' = faults + 1

Executes(c) ==
    /\ run[c].busy /\ Statement(c) /\ UNCHANGED faults
    /\ RowsChange(c) /\ (run'[c] = Idle \/ WentOn(c))

Steps1(c) == /\ OthersStay(c) /\ UNCHANGED part /\ Watch(c)
             /\ Comes(c) \/ Fails(c) \/ Executes(c)

LEMMA FirstStep ==
    ASSUME NEW p \in DOMAIN Parts, NEW name \in DOMAIN Parts[p].routes
    PROVE  LET s == Parts[p].routes[name].steps
           IN  /\ 1 \in DOMAIN s
               /\ \A n \in DOMAIN s : n \in Nat \ {0} /\ (s[n].do # "reply" => n + 1 \in DOMAIN s)
<1> DEFINE s == Parts[p].routes[name].steps
           S == {s[n] : n \in DOMAIN s}
<1>1. s \in Seq(S) /\ s # <<>> /\ s[Len(s)].do = "reply"
  BY RoutesAssumption DEF RoutesAssumption, EndsWithReply
<1> HIDE DEF s, S
<1>2. Len(s) \in Nat /\ Len(s) # 0 /\ DOMAIN s = 1 .. Len(s)
  BY <1>1
<1>3. QED
  BY <1>1, <1>2 DEF s

LEMMA StartComes ==
    ASSUME Shape, NEW c \in Clients, Start(c)
    PROVE  OthersStay(c) /\ Comes(c)
<1>1. PICK name \in DOMAIN Parts[part].routes, user \in Users :
        \E id \in IF Parts[part].routes[name].keyed \in KeyedById THEN Parts[part].ids ELSE {0},
           arg \in Bodies(c, Parts[part].routes[name]) :
            run' = [run EXCEPT ![c] =
                       [busy |-> TRUE, name |-> name, at |-> 1, user |-> user, id |-> id,
                        key |-> Key(Parts[part].routes[name], user, id, arg), arg |-> arg,
                        row |-> NoRow, new |-> 0, all |-> FALSE, shown |-> {}, passed |-> {}]]
  BY DEF Start
<1> DEFINE route == Parts[part].routes[name]
<1>2. PICK id \in IF route.keyed \in KeyedById THEN Parts[part].ids ELSE {0}, arg \in Bodies(c, route) :
        run' = [run EXCEPT ![c] =
                   [busy |-> TRUE, name |-> name, at |-> 1, user |-> user, id |-> id,
                    key |-> Key(route, user, id, arg), arg |-> arg, row |-> NoRow,
                    new |-> 0, all |-> FALSE, shown |-> {}, passed |-> {}]]
  BY <1>1
<1> DEFINE next == [busy |-> TRUE, name |-> name, at |-> 1, user |-> user, id |-> id,
                    key |-> Key(route, user, id, arg), arg |-> arg, row |-> NoRow,
                    new |-> 0, all |-> FALSE, shown |-> {}, passed |-> {}]
<1>3. /\ DOMAIN next = Fields /\ next.busy = TRUE /\ next.name = name /\ next.at = 1
      /\ next.user = user /\ next.id = id /\ next.key = Key(route, user, id, arg)
      /\ next.arg = arg /\ next.row = NoRow /\ next.new = 0 /\ next.all = FALSE
      /\ next.shown = {} /\ next.passed = {}
  BY DEF Fields
<1>4. run' = [run EXCEPT ![c] = next]
  BY <1>2
<1> HIDE DEF next
<1>5. OthersStay(c) /\ run'[c] = next
  BY <1>4 DEF OthersStay, Shape
<1>6. DOMAIN arg \subseteq route.body.required \cup route.body.optional
  BY <1>2 DEF Bodies
<1>7. Asks(next, route)
  <2>1. "key" \in DOMAIN next.arg => "key" \in route.body.required \cup route.body.optional
    BY <1>3, <1>6
  <2>2. /\ route.keyed = "body" => next.key = next.arg.key
        /\ route.keyed = "path" => next.key = next.id
        /\ route.keyed = "path/role" => next.key[1] = next.id
    BY <1>3 DEF Key
  <2>3. /\ route.keyed \in {"mine", "mine+id"} => next.key = next.user
        /\ route.keyed = "mine/path" => next.key[1] = next.user
    BY <1>3 DEF Key
  <2>4. route.keyed \notin KeyedById => next.id = 0
    BY <1>2, <1>3
  <2>5. QED
    BY <2>1, <2>2, <2>3, <2>4 DEF Asks
<1>8. IsRequest(next, Parts[part].routes)
  BY <1>3, FirstStep DEF IsRequest, Shape
<1>9. QED
  BY <1>3, <1>5, <1>7, <1>8 DEF Comes, Begins, Start

LEMMA StepCases ==
    ASSUME Shape, \A c \in Clients : InHand(c), Next
    PROVE  \E c \in Clients : Steps1(c)
<1>1. PICK c \in Clients :
        /\ \/ Start(c)
           \/ Fail(c) /\ UNCHANGED served
           \/ Statement(c) /\ UNCHANGED <<served, faults>>
        /\ UNCHANGED part /\ Watch(c)
  BY DEF Next
<1>2. CASE Start(c)
  BY <1>1, <1>2, StartComes DEF Steps1
<1>3. CASE Fail(c)
  <2>1. run[c].busy /\ End(c) /\ UNCHANGED <<tables, meant>> /\ faults' = faults + 1
    BY <1>3 DEF Fail
  <2>2. OthersStay(c) /\ Fails(c)
    BY <2>1, EndIs DEF Shape, OthersStay, Fails
  <2>3. QED
    BY <1>1, <2>2 DEF Steps1
<1>4. CASE Statement(c) /\ UNCHANGED faults
  <2>1. run[c].busy
    BY <1>4 DEF Statement, May, Check, FindByID, Seek, Decide, Create, CreateBoth, Save, Put,
                Delete, SeesAll, List, Sift, IssueTokens, Reply, At
  <2>2. RowsChange(c) /\ OthersStay(c) /\ (run'[c] = Idle \/ WentOn(c))
    BY <1>4, <2>1, StatementStep
  <2>3. QED
    BY <1>1, <1>4, <2>1, <2>2 DEF Steps1, Executes
<1>5. QED
  BY <1>1, <1>2, <1>3, <1>4

\* In any step the rows of the tables stay, or change as one request has it.
LEMMA RowsNext ==
    ASSUME Shape, NEW c \in Clients, Steps1(c)
    PROVE  /\ Tables' = Tables /\ ShapedRows
           /\ \A t \in Tables, i \in Ids :
                  SameSlot(t, i) \/ (Executes(c) /\ Changes(c, t, i))
<1>1. Tables' = Tables
  BY DEF Steps1, Tables
<1>2. CASE UNCHANGED <<tables, meant>>
  BY <1>1, <1>2 DEF ShapedRows, SameSlot, Shape
<1>3. CASE Executes(c)
  BY <1>1, <1>3 DEF Executes, RowsChange
<1>4. QED
  BY <1>2, <1>3 DEF Steps1, Comes, Fails

LEMMA ShapeNext ==
    ASSUME Shape, NEW c \in Clients, Steps1(c)
    PROVE  Shape'
<1>1. part' = part /\ Tables' = Tables /\ ShapedRows
  BY RowsNext DEF Steps1
<1>2. run' = [x \in Clients |-> run'[x]] /\ \A d \in Clients \ {c} : run'[d] = run[d]
  BY DEF Steps1, OthersStay
<1>3. run'[c] = Idle \/ IsRequest(run'[c], Parts[part].routes)
  <2>1. CASE WentOn(c) /\ run[c].busy
    <3>1. IsRequest(run[c], Parts[part].routes) /\ part \in DOMAIN Parts
      BY <2>1 DEF Shape, Idle
    <3>2. run'[c].at = run[c].at \/ (run'[c].at = run[c].at + 1 /\ Step(c).do # "reply")
      BY <2>1 DEF WentOn
    <3>3. run'[c].at \in DOMAIN Parts[part].routes[run[c].name].steps
      BY <3>1, <3>2, FirstStep DEF IsRequest, Step, Route
    <3>4. QED
      BY <2>1, <3>1, <3>3 DEF IsRequest, WentOn, Keeps
  <2>2. CASE Begins(c)
    BY <2>2 DEF Begins
  <2>3. QED
    BY <2>1, <2>2 DEF Steps1, Comes, Fails, Executes
<1>4. QED
  BY <1>1, <1>2, <1>3 DEF Shape, ShapedRows, Idle

\* A request that another one's step leaves alone, and one that goes on.
LEMMA RequestStays ==
    ASSUME NEW d, UNCHANGED part, run'[d] = run[d]
    PROVE  /\ Route(d)' = Route(d) /\ Steps(d)' = Steps(d) /\ Now(d)' = Now(d) /\ Step(d)' = Step(d)
           /\ \A t : KeyFor(d, t)' = KeyFor(d, t) /\ Given(d, t)' = Given(d, t)
BY DEF Route, Steps, Now, Step, KeyFor, Given

LEMMA RequestGoes ==
    ASSUME NEW c, UNCHANGED part, WentOn(c)
    PROVE  /\ Route(c)' = Route(c) /\ Steps(c)' = Steps(c)
           /\ \A t : Given(c, t)' = Given(c, t)
           /\ run'[c].new = run[c].new => \A t : KeyFor(c, t)' = KeyFor(c, t)
BY DEF Route, Steps, KeyFor, Given, WentOn, Keeps

-----------------------------------------------------------------------------
(* The row in hand, and what crosses it. *)

\* What was found or looked for, one step on.
LEMMA SoughtNext ==
    ASSUME NEW s, NEW n \in Nat \ {0}, NEW t, SoughtAt(s, n + 1, t)
    PROVE  s[n].do = "seek" /\ s[n].table = t
<1>1. n + 1 - 1 = n
  OBVIOUS
<1>2. s[n + 1 - 1] = [do |-> "seek", table |-> t]
  BY DEF SoughtAt
<1>3. QED
  BY <1>1, <1>2

LEMMA FoundNext ==
    ASSUME NEW s, NEW n \in Nat \ {0}, NEW t, FoundAt(s, n + 1, t)
    PROVE  \/ s[n].do = "find" /\ s[n].table = t
           \/ /\ s[n].do \notin {"find", "seek"}
              /\ FoundAt(s, n, t) \/ (SoughtAt(s, n, t) /\ s[n].do = "must")
<1>1. n + 1 - 1 = n
  OBVIOUS
<1>2. CASE SoughtAt(s, n, t) /\ s[n].do = "must"
  BY <1>2
<1>3. ASSUME NEW m \in 1 .. n, Does(s, m, "find", t),
             \A k \in m + 1 .. n : s[k].do \notin {"find", "seek"}
      PROVE  \/ s[n].do = "find" /\ s[n].table = t
             \/ s[n].do \notin {"find", "seek"} /\ FoundAt(s, n, t)
  <2>1. CASE m = n
    BY <1>3, <2>1 DEF Does
  <2>2. CASE m # n
    <3>1. m \in 1 .. n - 1 /\ n \in m + 1 .. n /\ \A k \in m + 1 .. n - 1 : k \in m + 1 .. n
      BY <2>2
    <3>2. QED
      BY <1>3, <3>1 DEF FoundAt, FoundByID
  <2>3. QED
    BY <2>1, <2>2
<1>4. \/ \E m \in 1 .. n : Does(s, m, "find", t) /\ \A k \in m + 1 .. n : s[k].do \notin {"find", "seek"}
      \/ SoughtAt(s, n, t) /\ s[n].do = "must"
  <2>1. \/ \E m \in 1 .. n + 1 - 1 : /\ Does(s, m, "find", t)
                                     /\ \A k \in m + 1 .. n + 1 - 1 : s[k].do \notin {"find", "seek"}
        \/ n + 1 > 2 /\ SoughtAt(s, n + 1 - 1, t) /\ s[n + 1 - 1].do = "must"
    BY DEF FoundAt, FoundByID
  <2>2. QED
    BY <1>1, <2>1
<1>5. QED
  BY <1>2, <1>3, <1>4

\* A row that is there, deleted or not, stays.
LEMMA TakenStays ==
    ASSUME Shape, NEW c \in Clients, Steps1(c), NEW t \in Tables, NEW i \in Ids,
           tables[t][i].life # "free"
    PROVE  tables'[t][i].life # "free"
<1>1. CASE SameSlot(t, i)
  BY <1>1 DEF SameSlot
<1>2. CASE Saved(c, t, i)
  <2>1. \A by, cols : [life |-> "live", by |-> by, cols |-> cols].life # "free"
    OBVIOUS
  <2>2. QED
    BY <1>2, <2>1 DEF Saved
<1>3. CASE Deleted(c, t, i)
  <2>1. \A by, cols : [life |-> "deleted", by |-> by, cols |-> cols].life # "free"
    OBVIOUS
  <2>2. QED
    BY <1>3, <2>1 DEF Deleted
<1>4. ~Inserted(c, t, i)
  BY DEF Inserted
<1>5. QED
  BY <1>1, <1>2, <1>3, <1>4, RowsNext DEF Changes

LEMMA HandNext ==
    ASSUME Shape, NEW c \in Clients, Steps1(c), NEW d \in Clients, InHand(d)
    PROVE  InHand(d)'
<1> SUFFICES ASSUME run'[d].busy PROVE InHand(d)'
  BY DEF InHand
<1>1. /\ Tables' = Tables /\ part' = part
      /\ \A t \in Tables, i \in Ids : tables[t][i].life # "free" => tables'[t][i].life # "free"
  BY RowsNext, TakenStays DEF Steps1
<1>2. CASE d # c
  BY <1>1, <1>2, RequestStays DEF Steps1, OthersStay, InHand
<1>3. CASE d = c /\ Begins(c)
  <2>1. run'[c].row = NoRow /\ Now(c)' = 1
    BY <1>3 DEF Begins, Now
  <2>2. \A t : ~FoundAt(Steps(c)', 1, t) /\ ~SoughtAt(Steps(c)', 1, t)
    BY DEF FoundAt, FoundByID, SoughtAt
  <2>3. QED
    BY <1>3, <2>1, <2>2 DEF InHand, NoRow
<1>4. CASE d = c /\ WentOn(c) /\ run[c].busy
  <2> DEFINE s == Steps(c)
             n == Now(c)
             row == run[c].row
  <2>1. Steps(c)' = s
    BY <1>1, <1>4, RequestGoes
  <2>2. n \in DOMAIN s /\ n \in Nat \ {0} /\ Step(c) = s[n]
    <3>1. IsRequest(run[c], Parts[part].routes) /\ part \in DOMAIN Parts
      BY <1>4 DEF Shape, Idle
    <3>2. s = Parts[part].routes[run[c].name].steps /\ n = run[c].at
      BY DEF Route, Steps, Now
    <3>3. n \in DOMAIN s
      BY <3>1, <3>2 DEF IsRequest
    <3>4. n \in Nat \ {0}
      BY <3>1, <3>2, <3>3, FirstStep DEF IsRequest
    <3>5. QED
      BY <3>3, <3>4 DEF Step, Steps, Now
  <2>3. s[n].do \in OnTables => s[n].table \in Tables
    BY <1>4, <2>2, StepIs
  <2>4. /\ row.id # 0 => /\ row.table \in Tables /\ row.id \in Ids
                         /\ tables[row.table][row.id].life # "free"
        /\ \A t : FoundAt(s, n, t) => row.id # 0 /\ row.table = t
        /\ \A t : SoughtAt(s, n, t) => row.id = 0 \/ row.table = t
    BY <1>4 DEF InHand
  <2>5. Looks(c) /\ Now(c)' = run'[c].at
    BY <1>4 DEF WentOn, Now
  <2> HIDE DEF s, n, row
  <2>6. CASE run'[c].at = n
    <3>1. s[n].do = "sift"
      BY <1>4, <2>2, <2>6 DEF WentOn, n, Now
    <3>2. run'[c].row = row
      BY <2>2, <2>5, <3>1 DEF Looks, row
    <3>3. QED
      BY <1>1, <1>4, <2>1, <2>4, <2>5, <2>6, <3>2 DEF InHand
  <2>7. CASE run'[c].at = n + 1
    <3>2. \A t : SoughtAt(s, n + 1, t) => s[n].do = "seek" /\ s[n].table = t
      BY <2>2, SoughtNext
    <3>3. \A t : FoundAt(s, n + 1, t) =>
              \/ s[n].do = "find" /\ s[n].table = t
              \/ /\ s[n].do \notin {"find", "seek"}
                 /\ FoundAt(s, n, t) \/ (SoughtAt(s, n, t) /\ s[n].do = "must")
      BY <2>2, FoundNext
    <3>5. CASE s[n].do \notin {"find", "seek"}
      <4>1. run'[c].row = row
        BY <2>2, <2>5, <3>5 DEF Looks, row
      <4>2. s[n].do = "must" => row.id # 0
        BY <1>4, <2>2 DEF WentOn, row
      <4>3. \A t : FoundAt(s, n + 1, t) => row.id # 0 /\ row.table = t
        BY <2>4, <3>3, <3>5, <4>2
      <4>4. QED
        BY <1>1, <1>4, <2>1, <2>4, <2>5, <2>7, <3>2, <3>5, <4>1, <4>3 DEF InHand
    <3>6. CASE s[n].do = "find"
      <4>1. run[c].id \in Live(s[n].table) /\ Takes(c, s[n].table, run[c].id)
        BY <2>2, <2>5, <3>6 DEF Looks
      <4>2. /\ run'[c].row.id = run[c].id /\ run'[c].row.table = s[n].table
            /\ run[c].id \in Ids /\ run[c].id # 0
            /\ tables[s[n].table][run[c].id].life = "live"
        BY <4>1, ApiAssumption DEF Takes, Live, ApiAssumption
      <4>3. QED
        BY <1>1, <1>4, <2>1, <2>3, <2>5, <2>7, <3>2, <3>3, <3>6, <4>2 DEF InHand, OnTables
    <3>7. CASE s[n].do = "seek"
      <4> DEFINE t == s[n].table
      <4>1. \/ run'[c].row = NoRow
            \/ \E i \in WithKey(t, KeyFor(c, t)) : Takes(c, t, i)
        BY <2>2, <2>5, <3>7 DEF Looks
      <4>2. \/ run'[c].row.id = 0
            \/ /\ run'[c].row.table = t /\ run'[c].row.id \in Ids
               /\ tables[t][run'[c].row.id].life = "live"
        <5>1. ASSUME NEW i \in WithKey(t, KeyFor(c, t)), Takes(c, t, i)
              PROVE  run'[c].row.table = t /\ run'[c].row.id = i /\ i \in Ids /\ tables[t][i].life = "live"
          BY <5>1 DEF Takes, WithKey, Live
        <5>2. QED
          BY <4>1, <5>1 DEF NoRow
      <4>3. QED
        BY <1>1, <1>4, <2>1, <2>3, <2>5, <2>7, <3>2, <3>3, <3>7, <4>2 DEF InHand, OnTables
    <3>8. QED
      BY <3>5, <3>6, <3>7
  <2>8. QED
    BY <1>4, <2>6, <2>7 DEF WentOn, n, Now
<1>5. QED
  BY <1>2, <1>3, <1>4 DEF Steps1, Comes, Fails, Executes, Idle

LEMMA Crosses ==
    ASSUME Shape, NEW c \in Clients, Watch(c)
    PROVE  /\ crossed \subseteq crossed'
           /\ \A t \in Tables, i \in Ids, d \in Clients \ {c} :
                  tables'[t][i] # tables[t][i] /\ run[d].busy =>
                      Things(t, i, tables'[t][i].cols) \cap About(d) \subseteq crossed'
<1> DEFINE Met1(x) == Things(x[1], x[2], tables'[x[1]][x[2]].cols) \cap UNION {About(d) : d \in Busy \ {c}}
<1>1. crossed' = crossed \cup UNION {Met1(x) : x \in Changed}
  BY DEF Watch
<1>2. ASSUME NEW t \in Tables, NEW i \in Ids, NEW d \in Clients \ {c},
             tables'[t][i] # tables[t][i], run[d].busy
      PROVE  Things(t, i, tables'[t][i].cols) \cap About(d) \subseteq crossed'
  <2>1. <<t, i>> \in Changed /\ d \in Busy \ {c}
    BY <1>2 DEF Changed, Slots, Busy, Shape
  <2>2. Things(t, i, tables'[t][i].cols) \cap About(d) \subseteq Met1(<<t, i>>)
    BY <2>1
  <2> HIDE DEF Met1
  <2>3. QED
    BY <1>1, <2>1, <2>2
<1>3. QED
  BY <1>1, <1>2

LEMMA AboutIs ==
    ASSUME Shape, NEW d
    PROVE  /\ <<Route(d).table, "id", run[d].id>> \in About(d)
           /\ Things(run[d].row.table, run[d].row.id, run[d].row.cols) \subseteq About(d)
           /\ \A t \in Tables, n \in DOMAIN Steps(d) :
                  /\ Steps(d)[n].do \in {"seek", "create", "delete", "list"} /\ Steps(d)[n].table = t
                  /\ "by" \in DOMAIN Steps(d)[n] => Steps(d)[n].by \in {"key", "owner"}
                  => <<t, "key", KeyFor(d, t)>> \in About(d)
BY DEF About, Steps, Shape

-----------------------------------------------------------------------------
(* Nothing is lost without a crossing. *)

\* Saving the row in hand writes over the row what it would write over it now.
Holds(d) ==
    run[d].busy /\ run[d].row.id # 0 =>
        LET row == run[d].row
            given == Given(d, row.table)
        IN  \/ With(given, row.cols) = With(given, Cols(row.table, row.id))
            \/ <<row.table, "id", row.id>> \in crossed

Kept == \A t \in Tables, i \in Ids : Cols(t, i) # meant[t][i] => <<t, "id", i>> \in crossed

LEMMA KeptNext ==
    ASSUME Shape, NEW c \in Clients, Steps1(c), InHand(c), Holds(c), Kept
    PROVE  Kept'
<1>1. Tables' = Tables /\ crossed \subseteq crossed'
  BY RowsNext, Crosses DEF Steps1
<1> SUFFICES ASSUME NEW t \in Tables, NEW i \in Ids, <<t, "id", i>> \notin crossed
             PROVE  tables'[t][i].cols = meant'[t][i]
  BY <1>1 DEF Kept, Cols
<1>2. tables[t][i].cols = meant[t][i]
  BY DEF Kept, Cols
<1>3. CASE SameSlot(t, i)
  BY <1>2, <1>3 DEF SameSlot
<1>4. CASE Inserted(c, t, i)
  BY <1>4 DEF Inserted
<1>5. CASE Saved(c, t, i) /\ run[c].busy
  <2>1. i = run[c].row.id /\ t = run[c].row.table /\ i # 0
    BY <1>5, ApiAssumption DEF Saved, ApiAssumption
  <2>2. With(Given(c, t), run[c].row.cols) = With(Given(c, t), tables[t][i].cols)
    BY <1>5, <2>1 DEF Holds, Cols
  <2>3. QED
    BY <1>2, <1>5, <2>2 DEF Saved
<1>6. CASE Deleted(c, t, i)
  BY <1>2, <1>6 DEF Deleted, Cols
<1>7. QED
  BY <1>3, <1>4, <1>5, <1>6, RowsNext DEF Changes, Executes

LEMMA HoldsNext ==
    ASSUME Shape, NEW c \in Clients, Steps1(c), NEW d \in Clients, InHand(d), Holds(d)
    PROVE  Holds(d)'
<1> DEFINE row == run[d].row
           t == row.table
           i == row.id
<1>1. crossed \subseteq crossed' /\ part' = part
  BY Crosses DEF Steps1
<1> SUFFICES ASSUME run'[d].busy, run'[d].row.id # 0 PROVE Holds(d)'
  BY DEF Holds
<1>2. CASE d # c
  <2>1. run'[d] = run[d] /\ run[d].busy /\ i # 0
    BY <1>2 DEF Steps1, OthersStay
  <2>2. t \in Tables /\ i \in Ids
    BY <2>1 DEF InHand
  <2>3. tables'[t][i] = tables[t][i] \/ <<t, "id", i>> \in crossed'
    <3>1. SUFFICES ASSUME tables'[t][i] # tables[t][i] PROVE <<t, "id", i>> \in crossed'
      OBVIOUS
    <3>2. Things(t, i, tables'[t][i].cols) \cap About(d) \subseteq crossed'
      BY <1>2, <2>1, <2>2, <3>1, Crosses DEF Steps1
    <3>3. <<t, "id", i>> \in Things(t, i, tables'[t][i].cols) \cap About(d)
      BY AboutIs DEF Things
    <3>4. QED
      BY <3>2, <3>3
  <2>4. Given(d, t)' = Given(d, t)
    BY <1>1, <2>1, RequestStays
  <2>5. QED
    BY <1>1, <2>1, <2>3, <2>4 DEF Holds, Cols
<1>3. CASE d = c
  <2>1. run[c].busy /\ WentOn(c) /\ RowsChange(c)
    BY <1>3 DEF Steps1, Comes, Begins, Fails, Executes, Idle, NoRow
  <2>2. \A u : Given(c, u)' = Given(c, u)
    BY <1>1, <2>1, RequestGoes
  <2>3. CASE Step(c).do \notin {"find", "seek"}
    <3>1. run'[c].row = row /\ i # 0
      BY <1>3, <2>1, <2>3 DEF WentOn, Looks
    <3>2. t \in Tables /\ i \in Ids /\ tables[t][i].life # "free"
      BY <1>3, <2>1, <3>1 DEF InHand
    <3>3. \/ tables'[t][i].cols = tables[t][i].cols
          \/ tables'[t][i].cols = With(Given(c, t), row.cols)
      <4>1. SameSlot(t, i) \/ Saved(c, t, i) \/ Deleted(c, t, i)
        BY <2>1, <3>2 DEF RowsChange, Changes, Inserted
      <4>2. CASE SameSlot(t, i)
        BY <4>2 DEF SameSlot
      <4>3. CASE Deleted(c, t, i)
        <5>1. tables'[t][i] = [life |-> "deleted", by |-> tables[t][i].by, cols |-> tables[t][i].cols]
          BY <4>3 DEF Deleted, Cols
        <5>2. QED
          BY <5>1
      <4>4. CASE Saved(c, t, i)
        BY <1>3, <4>4 DEF Saved
      <4>5. QED
        BY <4>1, <4>2, <4>3, <4>4
    <3>4. With(Given(c, t), With(Given(c, t), row.cols)) = With(Given(c, t), row.cols)
      BY WithTwice
    <3>5. QED
      BY <1>1, <1>3, <2>1, <2>2, <3>1, <3>3, <3>4 DEF Holds, Cols
  <2>4. CASE Step(c).do \in {"find", "seek"}
    <3> DEFINE next == run'[c].row
    <3>1. Step(c).table \in Tables
      BY <2>1, <2>4, StepIs DEF OnTables
    <3>2. \E j \in Ids : next = [table |-> Step(c).table, id |-> j, cols |-> Cols(Step(c).table, j)]
      BY <1>3, <2>1, <2>4 DEF WentOn, Looks, Takes, WithKey, Live, NoRow
    <3>3. \A u \in Tables, j \in Ids : tables'[u][j] = tables[u][j]
      <4>1. \A u \in Tables, j \in Ids : ~Changes(c, u, j)
        BY <2>1, <2>4, StepIs DEF Changes, Inserted, Saved, Deleted, Does
      <4>2. QED
        BY <2>1, <4>1 DEF RowsChange, SameSlot
    <3>4. next.cols = tables'[next.table][next.id].cols
      BY <3>1, <3>2, <3>3 DEF Cols
    <3>5. QED
      BY <1>3, <3>4 DEF Holds, Cols
  <2>5. QED
    BY <2>3, <2>4
<1>4. QED
  BY <1>2, <1>3

\* Rows nobody created, as those a part begins with.
Unowned(rows) ==
    [t \in DOMAIN rows |-> [i \in Ids |->
        [life |-> rows[t][i].life, by |-> 0, cols |-> rows[t][i].cols]]]

LEMMA RowsBegin ==
    ASSUME Init
    PROVE  tables = [t \in Tables |-> [i \in Ids |->
                        [life |-> tables[t][i].life, by |-> 0, cols |-> tables[t][i].cols]]]
<1>1. ASSUME NEW p \in DOMAIN Parts PROVE Parts[p].rows = Unowned(Parts[p].rows)
  BY RowsAssumption, Zenon DEF RowsAssumption, Unowned
<1>2. part \in DOMAIN Parts /\ tables = Parts[part].rows
  BY DEF Init
<1>3. tables = Unowned(tables)
  BY <1>1, <1>2
<1>4. DOMAIN tables = Tables
  BY <1>2 DEF Tables
<1>5. QED
  BY <1>3, <1>4, Zenon DEF Unowned

LEMMA ShapeInit == Init => Shape /\ crossed = {} /\ run = [c \in Clients |-> Idle] /\ faults = 0
<1> SUFFICES ASSUME Init PROVE Shape /\ crossed = {} /\ run = [c \in Clients |-> Idle] /\ faults = 0
  OBVIOUS
<1>1. part \in DOMAIN Parts /\ tables = Parts[part].rows /\ run = [c \in Clients |-> Idle]
  BY DEF Init
<1>2. tables = [t \in Tables |-> [i \in Ids |->
                   [life |-> tables[t][i].life, by |-> 0, cols |-> tables[t][i].cols]]]
  BY RowsBegin
<1>3. \A life, cols : IsRow([life |-> life, by |-> 0, cols |-> cols])
  BY DEF IsRow
<1>4. \A t \in Tables, i \in Ids : IsRow(tables[t][i])
  <2> SUFFICES ASSUME NEW t \in Tables, NEW i \in Ids PROVE IsRow(tables[t][i])
    OBVIOUS
  <2>1. tables[t][i] = [life |-> tables[t][i].life, by |-> 0, cols |-> tables[t][i].cols]
    BY <1>2
  <2>2. QED
    BY <1>3, <2>1
<1>5. tables = [t \in Tables |-> [i \in Ids |-> tables[t][i]]]
  <2>1. \A t \in Tables : tables[t] = [i \in Ids |->
                   [life |-> tables[t][i].life, by |-> 0, cols |-> tables[t][i].cols]]
    BY <1>2
  <2>2. \A t \in Tables : tables[t] = [i \in Ids |-> tables[t][i]]
    BY <2>1
  <2>3. tables = [t \in Tables |-> tables[t]]
    BY <1>2
  <2>4. QED
    BY <2>2, <2>3
<1>6. meant = [t \in Tables |-> [i \in Ids |-> meant[t][i]]]
  <2>1. meant = [t \in Tables |-> [i \in Ids |-> Cols(t, i)]]
    BY <1>1 DEF Init, Tables
  <2>2. QED
    BY <2>1
<1>7. run = [c \in Clients |-> run[c]] /\ \A c \in Clients : run[c] = Idle
  BY <1>1
<1>8. QED
  BY <1>1, <1>4, <1>5, <1>6, <1>7 DEF Shape, Init

LostInv == Shape /\ (\A c \in Clients : InHand(c) /\ Holds(c)) /\ Kept

\* Whatever requests come, fail and cross: a row that says other than the requests
\* that reached it meant was changed while another request was about it.
THEOREM NothingIsLost == Spec => []NothingLostAlone
<1>1. Init => LostInv
  <2> SUFFICES ASSUME Init PROVE LostInv
    OBVIOUS
  <2>1. \A c \in Clients : ~run[c].busy
    BY ShapeInit DEF Idle
  <2>2. Kept
    <3>1. meant = [t \in Tables |-> [i \in Ids |-> Cols(t, i)]]
      BY DEF Init, Tables
    <3>2. QED
      BY <3>1 DEF Kept
  <2>3. QED
    BY <2>1, <2>2, ShapeInit DEF LostInv, InHand, Holds
<1>2. LostInv /\ [Next]_vars => LostInv'
  <2> SUFFICES ASSUME LostInv, [Next]_vars PROVE LostInv'
    OBVIOUS
  <2>1. CASE Next
    <3>1. PICK c \in Clients : Steps1(c)
      BY <2>1, StepCases DEF LostInv
    <3>2. QED
      BY <3>1, ShapeNext, HandNext, HoldsNext, KeptNext DEF LostInv
  <2>2. CASE UNCHANGED vars
    <3>1. Tables' = Tables /\ UNCHANGED <<part, tables, meant, run, crossed>>
      BY <2>2 DEF vars, Tables
    <3>2. Shape' /\ Kept'
      BY <3>1 DEF LostInv, Shape, Kept, Cols
    <3>3. ASSUME NEW d \in Clients PROVE InHand(d)' /\ Holds(d)'
      <4>1. /\ Steps(d)' = Steps(d) /\ Now(d)' = Now(d)
            /\ \A t : Given(d, t)' = Given(d, t)
        BY <3>1, RequestStays
      <4>2. InHand(d) /\ Holds(d)
        BY DEF LostInv
      <4>3. InHand(d)'
        BY <3>1, <4>1, <4>2 DEF InHand
      <4>4. Holds(d)'
        BY <3>1, <4>1, <4>2 DEF Holds, Cols
      <4>5. QED
        BY <4>3, <4>4
    <3>4. QED
      BY <3>2, <3>3 DEF LostInv
  <2>3. QED
    BY <2>1, <2>2
<1>3. LostInv => NothingLostAlone
  BY DEF LostInv, Kept, NothingLostAlone, Shape, Slots
<1>4. QED
  BY <1>1, <1>2, <1>3, PTL DEF Spec

-----------------------------------------------------------------------------
(* One row of a key. *)

LEMMA Conventions ==
    ASSUME Shape, NEW c \in Clients, run[c].busy
    PROVE  /\ SavesWhatItFound(Steps(c)) /\ LooksForKey(Route(c), Steps(c))
           /\ PartsComeAfter(Route(c), Steps(c)) /\ GrantsCreator(Route(c), Steps(c))
           /\ Now(c) \in Nat \ {0}
<1>1. IsRequest(run[c], Parts[part].routes) /\ part \in DOMAIN Parts
  BY DEF Shape, Idle
<1>2. Now(c) \in DOMAIN Parts[part].routes[run[c].name].steps
  BY <1>1 DEF IsRequest, Now
<1>3. Now(c) \in Nat \ {0}
  BY <1>1, <1>2, FirstStep DEF IsRequest
<1>4. QED
  BY <1>1, <1>3, RoutesAssumption DEF IsRequest, RoutesAssumption, Route, Steps

\* The key has been looked for at the nth step of s.
LookedFor(s, n, t) ==
    \/ SoughtAt(s, n, t)
    \/ n > 2 /\ SoughtAt(s, n - 1, t) /\ s[n - 1].do = "unless"

Asking(c) == run[c].busy => Asks(run[c], Route(c))

\* The row in hand has the key that is stored.
KeyInHand(c) ==
    run[c].busy /\ run[c].row.id # 0 /\ run[c].row.table \in KeyTables =>
        /\ "key" \in DOMAIN run[c].row.cols
        /\ run[c].row.cols.key = Cols(run[c].row.table, run[c].row.id).key

HasKey ==
    \A t \in KeyTables \cap Tables, i \in Ids :
        tables[t][i].life # "free" => "key" \in DOMAIN Cols(t, i)

\* What the lookup of a key found is still so, or another request came across it.
StillSo(c) ==
    run[c].busy => \A t \in KeyTables \cap Tables : LookedFor(Steps(c), Now(c), t) =>
        /\ run[c].row.id = 0 => \/ WithKey(t, KeyFor(c, t)) = {}
                                \/ <<t, "key", KeyFor(c, t)>> \in crossed
        /\ run[c].row.id # 0 => /\ run[c].row.table = t /\ run[c].row.cols.key = KeyFor(c, t)
                                /\ \/ tables[t][run[c].row.id].life = "live"
                                   \/ <<t, "key", KeyFor(c, t)>> \in crossed
        /\ ~SoughtAt(Steps(c), Now(c), t) => run[c].row.id = 0

\* Any two rows of one key were crossed.
Apart ==
    \A t \in KeyTables \cap Tables : \A i, j \in Live(t) :
        i # j /\ Cols(t, i).key = Cols(t, j).key => <<t, "key", Cols(t, i).key>> \in crossed

\* Request c inserts a row with the key it looked for, or saves the row it found.
LEMMA KeyChange ==
    ASSUME Shape, NEW c \in Clients, run[c].busy, Asking(c), KeyInHand(c), StillSo(c),
           NEW t \in KeyTables \cap Tables, NEW i \in Ids, Inserted(c, t, i) \/ Saved(c, t, i)
    PROVE  /\ LookedFor(Steps(c), Now(c), t)
           /\ tables'[t][i].cols.key = KeyFor(c, t) /\ "key" \in DOMAIN tables'[t][i].cols
           /\ Step(c).do \in {"create", "put"}
           /\ Inserted(c, t, i) => run[c].row.id = 0
           /\ Saved(c, t, i) => run[c].row.id = i /\ i # 0 /\ run[c].row.cols.key = KeyFor(c, t)
<1> DEFINE s == Steps(c)
           n == Now(c)
<1>1. LooksForKey(Route(c), s) /\ SavesWhatItFound(s) /\ n \in DOMAIN s /\ Step(c) = s[n]
  BY Conventions, StepIs
<1>2. /\ ~Does(s, n, "save", t) /\ (s[n].do = "both" => t \notin {s[n].table, s[n].other})
      /\ Does(s, n, "create", t) => n > 2 /\ SoughtAt(s, n - 1, t) /\ s[n - 1].do = "unless"
      /\ Does(s, n, "put", t) =>
             \/ t = "access" /\ Route(c).table # t
             \/ /\ Route(c).table = t
                /\ "key" \in Route(c).body.required \cup Route(c).body.optional => Route(c).keyed = "body"
  BY <1>1 DEF LooksForKey
<1>3. Does(s, n, "put", t) => SoughtAt(s, n, t)
  BY <1>1 DEF SavesWhatItFound, Does
<1> HIDE DEF s, n
<1>4. CASE Inserted(c, t, i)
  <2>1. \/ Does(s, n, "create", t)
        \/ Does(s, n, "put", t) /\ run[c].row.id = 0
    BY <1>1, <1>2, <1>4 DEF Inserted, s, n
  <2>2. tables'[t][i].cols = With([key |-> KeyFor(c, t)], Given(c, t))
    BY <1>1, <1>2, <1>4 DEF Inserted, s, n
  <2>3. tables'[t][i].cols.key = KeyFor(c, t) /\ "key" \in DOMAIN tables'[t][i].cols
    BY <2>2 DEF With
  <2>4. LookedFor(s, n, t) /\ s[n].do \in {"create", "put"}
    BY <1>2, <1>3, <2>1 DEF LookedFor, Does
  <2>5. run[c].row.id = 0
    <3>1. CASE Does(s, n, "create", t)
      <4>1. n > 2 /\ SoughtAt(s, n - 1, t) /\ s[n - 1].do = "unless"
        BY <1>2, <3>1
      <4>2. ~SoughtAt(s, n, t)
        <5>1. [do |-> "seek", table |-> t].do = "seek"
          OBVIOUS
        <5>2. QED
          BY <4>1, <5>1 DEF SoughtAt
      <4>3. QED
        BY <2>4, <4>2 DEF StillSo, s, n
    <3>2. QED
      BY <2>1, <3>1
  <2>6. ~Saved(c, t, i)
    BY <2>5, ApiAssumption DEF Saved, ApiAssumption
  <2>7. QED
    BY <1>1, <2>3, <2>4, <2>5, <2>6 DEF s, n
<1>5. CASE Saved(c, t, i)
  <2>1. Does(s, n, "put", t) /\ i = run[c].row.id /\ i # 0
    BY <1>2, <1>5, ApiAssumption DEF Saved, s, n, ApiAssumption
  <2>2. LookedFor(s, n, t) /\ s[n].do = "put"
    BY <1>3, <2>1 DEF LookedFor, Does
  <2>3. run[c].row.cols.key = KeyFor(c, t)
    BY <2>1, <2>2 DEF StillSo, s, n
  <2>4. tables'[t][i].cols = With(Given(c, t), run[c].row.cols)
    BY <1>5 DEF Saved
  <2>5. "key" \in DOMAIN Given(c, t) => Given(c, t).key = KeyFor(c, t)
    <3>1. CASE t = "access" /\ Route(c).table # t
      <4>1. Given(c, t) = [level |-> "manage", effect |-> "accepted"]
        BY <3>1 DEF Given
      <4>2. "key" \notin DOMAIN [level |-> "manage", effect |-> "accepted"]
        OBVIOUS
      <4>3. QED
        BY <4>1, <4>2
    <3>2. CASE Route(c).table = t
      <4>1. Given(c, t) = run[c].arg /\ KeyFor(c, t) = run[c].key
        BY <3>2 DEF Given, KeyFor, KeyTables
      <4>2. Asks(run[c], Route(c))
        BY DEF Asking
      <4>3. QED
        BY <1>2, <2>1, <3>2, <4>1, <4>2 DEF Asks
    <3>3. QED
      BY <1>2, <2>1, <3>1, <3>2
  <2>6. tables'[t][i].cols.key = KeyFor(c, t) /\ "key" \in DOMAIN tables'[t][i].cols
    <3> DEFINE g == Given(c, t)
               old == run[c].row.cols
    <3>1. "key" \in DOMAIN old
      BY <1>5, <2>1 DEF KeyInHand, Saved
    <3>2. /\ "key" \in DOMAIN With(g, old)
          /\ With(g, old).key = IF "key" \in DOMAIN g THEN g.key ELSE old.key
      BY <3>1 DEF With
    <3>3. QED
      BY <2>3, <2>4, <2>5, <3>2
  <2>7. ~Inserted(c, t, i)
    <3>1. "create" # "put" /\ "both" # "put"
      OBVIOUS
    <3>2. QED
      BY <1>1, <2>1, <2>2, <3>1 DEF Inserted, Does, s, n
  <2>8. QED
    BY <1>1, <2>1, <2>2, <2>3, <2>6, <2>7 DEF s, n
<1>6. QED
  BY <1>4, <1>5

\* A row of these tables never changes its key.
LEMMA KeysStay ==
    ASSUME Shape, NEW c \in Clients, Steps1(c), Asking(c), KeyInHand(c), StillSo(c), HasKey
    PROVE  /\ HasKey'
           /\ \A t \in KeyTables \cap Tables, i \in Ids :
                  tables[t][i].life # "free" => tables'[t][i].cols.key = tables[t][i].cols.key
<1>1. Tables' = Tables
  BY RowsNext
<1>2. ASSUME NEW t \in KeyTables \cap Tables, NEW i \in Ids
      PROVE  /\ tables'[t][i].life # "free" => "key" \in DOMAIN tables'[t][i].cols
             /\ tables[t][i].life # "free" => tables'[t][i].cols.key = tables[t][i].cols.key
  <2>1. SameSlot(t, i) \/ (Executes(c) /\ Changes(c, t, i))
    BY RowsNext
  <2>2. CASE SameSlot(t, i)
    BY <2>2 DEF SameSlot, HasKey, Cols
  <2>3. CASE Executes(c) /\ Inserted(c, t, i)
    BY <2>3, KeyChange DEF Inserted, Executes
  <2>4. CASE Executes(c) /\ Saved(c, t, i)
    <3>1. /\ "key" \in DOMAIN tables'[t][i].cols /\ tables'[t][i].cols.key = run[c].row.cols.key
          /\ run[c].row.id = i /\ i # 0 /\ run[c].busy
      BY <2>4, KeyChange DEF Executes
    <3>2. run[c].row.table = t
      BY <2>4 DEF Saved
    <3>3. QED
      BY <3>1, <3>2 DEF KeyInHand, Cols
  <2>5. CASE Deleted(c, t, i)
    <3>1. tables'[t][i].cols = tables[t][i].cols /\ tables[t][i].life = "live"
      BY <2>5 DEF Deleted, Cols
    <3>2. QED
      BY <3>1 DEF HasKey, Cols
  <2>6. QED
    BY <2>1, <2>2, <2>3, <2>4, <2>5 DEF Changes
<1>3. QED
  BY <1>1, <1>2 DEF HasKey, Cols

LEMMA AskingNext ==
    ASSUME Shape, NEW c \in Clients, Steps1(c), NEW d \in Clients, Asking(d)
    PROVE  Asking(d)'
<1>1. part' = part
  BY DEF Steps1
<1>2. CASE d # c
  BY <1>1, <1>2, RequestStays DEF Steps1, OthersStay, Asking
<1>3. CASE d = c /\ Begins(c)
  BY <1>1, <1>3 DEF Begins, Asking, Route
<1>4. CASE d = c /\ WentOn(c) /\ run[c].busy
  BY <1>1, <1>4, RequestGoes DEF WentOn, Keeps, Asking, Asks
<1>5. CASE run'[d] = Idle
  BY <1>5 DEF Asking, Idle
<1>6. QED
  BY <1>2, <1>3, <1>4, <1>5 DEF Steps1, Comes, Fails, Executes

\* What a find or a lookup finds is stored, and that step changes no row.
LEMMA Looking ==
    ASSUME Shape, NEW c \in Clients, Executes(c), WentOn(c), Step(c).do \in {"find", "seek"}
    PROVE  /\ Step(c).table \in Tables
           /\ \A t \in Tables, i \in Ids : tables'[t][i] = tables[t][i]
           /\ run'[c].row.id # 0 =>
                  /\ run'[c].row.table = Step(c).table /\ run'[c].row.id \in Live(Step(c).table)
                  /\ run'[c].row.cols = Cols(Step(c).table, run'[c].row.id)
<1>1. run[c].busy /\ RowsChange(c) /\ Looks(c)
  BY DEF Executes, WentOn
<1>2. Step(c).table \in Tables
  BY <1>1, StepIs DEF OnTables
<1>3. \A t \in Tables, i \in Ids : ~Changes(c, t, i)
  BY <1>1, StepIs DEF Changes, Inserted, Saved, Deleted, Does
<1>4. \A t \in Tables, i \in Ids : tables'[t][i] = tables[t][i]
  BY <1>1, <1>3 DEF RowsChange, SameSlot
<1>5. ASSUME run'[c].row.id # 0
      PROVE  \E i \in Live(Step(c).table) : Takes(c, Step(c).table, i)
  <2>1. run'[c].row # NoRow
    BY <1>5 DEF NoRow
  <2>2. CASE run[c].id \in Live(Step(c).table) /\ Takes(c, Step(c).table, run[c].id)
    BY <2>2
  <2>3. CASE \E i \in WithKey(Step(c).table, KeyFor(c, Step(c).table)) : Takes(c, Step(c).table, i)
    BY <2>3 DEF WithKey
  <2>4. QED
    BY <1>1, <2>1, <2>2, <2>3 DEF Looks
<1>6. ASSUME NEW t, NEW i \in Live(t), Takes(c, t, i)
      PROVE  /\ run'[c].row.table = t /\ run'[c].row.id \in Live(t)
             /\ run'[c].row.cols = Cols(t, run'[c].row.id)
  <2>1. run'[c].row.table = t /\ run'[c].row.id = i /\ run'[c].row.cols = Cols(t, i)
    BY <1>6 DEF Takes
  <2>2. QED
    BY <2>1
<1>7. QED
  BY <1>2, <1>4, <1>5, <1>6

LEMMA KeyInHandNext ==
    ASSUME Shape, NEW c \in Clients, Steps1(c), Asking(c), KeyInHand(c), StillSo(c), HasKey,
           NEW d \in Clients, InHand(d), KeyInHand(d)
    PROVE  KeyInHand(d)'
<1> SUFFICES ASSUME run'[d].busy, run'[d].row.id # 0, run'[d].row.table \in KeyTables
             PROVE  /\ "key" \in DOMAIN run'[d].row.cols
                    /\ run'[d].row.cols.key = tables'[run'[d].row.table][run'[d].row.id].cols.key
  BY DEF KeyInHand, Cols
<1>1. CASE run'[d].row = run[d].row /\ run[d].busy
  <2>1. run[d].row.table \in Tables /\ run[d].row.id \in Ids
        /\ tables[run[d].row.table][run[d].row.id].life # "free"
    BY <1>1 DEF InHand
  <2>2. /\ "key" \in DOMAIN run[d].row.cols
        /\ run[d].row.cols.key = tables[run[d].row.table][run[d].row.id].cols.key
    BY <1>1 DEF KeyInHand, Cols
  <2>3. tables'[run[d].row.table][run[d].row.id].cols.key
            = tables[run[d].row.table][run[d].row.id].cols.key
    BY <1>1, <2>1, KeysStay
  <2>4. QED
    BY <1>1, <2>2, <2>3
<1>2. CASE d = c /\ Executes(c) /\ WentOn(c) /\ Step(c).do \in {"find", "seek"}
  <2>1. /\ run'[c].row.table = Step(c).table /\ Step(c).table \in Tables
        /\ run'[c].row.id \in Ids /\ tables[Step(c).table][run'[c].row.id].life = "live"
        /\ run'[c].row.cols = tables[Step(c).table][run'[c].row.id].cols
        /\ tables'[Step(c).table][run'[c].row.id] = tables[Step(c).table][run'[c].row.id]
    BY <1>2, Looking DEF Live, Cols
  <2>2. QED
    BY <1>2, <2>1 DEF HasKey, Cols
<1>3. CASE d # c
  BY <1>1, <1>3 DEF Steps1, OthersStay
<1>4. CASE d = c /\ Executes(c) /\ WentOn(c) /\ Step(c).do \notin {"find", "seek"}
  BY <1>1, <1>4 DEF WentOn, Looks, Executes
<1>5. ~Begins(c) \/ d # c
  BY DEF Begins, NoRow
<1>6. run'[d] # Idle
  BY DEF Idle
<1>7. QED
  BY <1>2, <1>3, <1>4, <1>5, <1>6 DEF Steps1, Comes, Fails, Executes

\* A change of a row with a key another request looks for, or of the row it has in
\* hand, crosses that key.
LEMMA CrossesKey ==
    ASSUME Shape, NEW c \in Clients, Watch(c), NEW d \in Clients \ {c}, run[d].busy,
           NEW t \in Tables, NEW i \in Ids, tables'[t][i] # tables[t][i],
           LookedFor(Steps(d), Now(d), t), tables'[t][i].cols.key = KeyFor(d, t)
    PROVE  <<t, "key", KeyFor(d, t)>> \in crossed'
<1> DEFINE s == Steps(d)
           n == Now(d)
<1>1. n \in DOMAIN s /\ EndsWithReply(s) /\ n \in Nat \ {0} /\ \A m \in 1 .. n : m \in DOMAIN s
  <2>1. IsRequest(run[d], Parts[part].routes) /\ part \in DOMAIN Parts
    BY DEF Shape, Idle
  <2>2. EndsWithReply(s) /\ n \in DOMAIN s
    BY <2>1, RoutesAssumption DEF IsRequest, RoutesAssumption, Route, Steps, Now
  <2>3. DOMAIN s = 1 .. Len(s)
    BY <2>2 DEF EndsWithReply
  <2>4. QED
    BY <2>2, <2>3
<1>2. \E m \in 1 .. n : s[m] = [do |-> "seek", table |-> t]
  <2>1. CASE SoughtAt(s, n, t)
    <3>1. n - 1 \in 1 .. n /\ s[n - 1] = [do |-> "seek", table |-> t]
      BY <1>1, <2>1 DEF SoughtAt
    <3>2. QED
      BY <3>1
  <2>2. CASE n > 2 /\ SoughtAt(s, n - 1, t)
    <3>1. n - 1 - 1 \in 1 .. n /\ s[n - 1 - 1] = [do |-> "seek", table |-> t]
      BY <1>1, <2>2 DEF SoughtAt
    <3>2. QED
      BY <3>1
  <2>3. QED
    BY <2>1, <2>2 DEF LookedFor
<1>3. PICK m \in DOMAIN s : s[m] = [do |-> "seek", table |-> t]
  BY <1>1, <1>2
<1>4. <<t, "key", KeyFor(d, t)>> \in About(d)
  <2>1. s[m].do = "seek" /\ s[m].table = t /\ "by" \notin DOMAIN s[m]
    BY <1>3
  <2>2. QED
    BY <2>1, AboutIs
<1>5. <<t, "key", KeyFor(d, t)>> \in Things(t, i, tables'[t][i].cols)
  BY DEF Things
<1>6. QED
  BY <1>4, <1>5, Crosses

\* What a lookup found stays so, unless it is crossed.
LEMMA StillSoOther ==
    ASSUME Shape, NEW c \in Clients, Steps1(c), Asking(c), KeyInHand(c), StillSo(c), HasKey,
           NEW d \in Clients \ {c}, InHand(d), KeyInHand(d), StillSo(d)
    PROVE  StillSo(d)'
<1>1. /\ part' = part /\ Tables' = Tables /\ run'[d] = run[d] /\ crossed \subseteq crossed' /\ Watch(c)
      /\ Steps(d)' = Steps(d) /\ Now(d)' = Now(d) /\ \A t : KeyFor(d, t)' = KeyFor(d, t)
  BY RequestStays, RowsNext, Crosses DEF Steps1, OthersStay
<1> SUFFICES ASSUME run[d].busy, NEW t \in KeyTables \cap Tables, LookedFor(Steps(d), Now(d), t),
                    <<t, "key", KeyFor(d, t)>> \notin crossed'
             PROVE  /\ run[d].row.id = 0 => WithKey(t, KeyFor(d, t))' = {}
                    /\ run[d].row.id # 0 => /\ run[d].row.table = t
                                            /\ run[d].row.cols.key = KeyFor(d, t)
                                            /\ tables'[t][run[d].row.id].life = "live"
                    /\ ~SoughtAt(Steps(d), Now(d), t) => run[d].row.id = 0
  BY <1>1 DEF StillSo
<1> DEFINE key == KeyFor(d, t)
<1>2. /\ run[d].row.id = 0 => WithKey(t, key) = {}
      /\ run[d].row.id # 0 => /\ run[d].row.table = t /\ run[d].row.cols.key = key
                              /\ tables[t][run[d].row.id].life = "live"
      /\ ~SoughtAt(Steps(d), Now(d), t) => run[d].row.id = 0
  BY <1>1 DEF StillSo
<1>3. \A i \in Ids : tables'[t][i].cols.key = key => tables'[t][i] = tables[t][i]
  BY <1>1, CrossesKey
<1> HIDE DEF key
<1>4. ASSUME run[d].row.id = 0 PROVE WithKey(t, key)' = {}
  <2>1. ASSUME NEW i \in Ids, tables'[t][i].life = "live", tables'[t][i].cols.key = key PROVE FALSE
    <3>1. tables[t][i].life = "live" /\ tables[t][i].cols.key = key
      BY <1>3, <2>1
    <3>2. QED
      BY <1>2, <1>4, <3>1 DEF WithKey, Live, Cols
  <2>2. key' = key
    BY <1>1 DEF key
  <2>3. QED
    BY <2>1, <2>2 DEF WithKey, Live, Cols
<1>5. ASSUME run[d].row.id # 0 PROVE tables'[t][run[d].row.id].life = "live"
  <2> DEFINE i == run[d].row.id
  <2>1. i \in Ids /\ tables[t][i].life = "live" /\ tables[t][i].cols.key = key
    BY <1>2, <1>5 DEF InHand, KeyInHand, Cols
  <2>2. tables'[t][i].cols.key = key
    BY <2>1, KeysStay
  <2>3. QED
    BY <1>3, <2>1, <2>2
<1>6. QED
  BY <1>1, <1>2, <1>4, <1>5 DEF key

\* A step that writes no row leaves the rows alone.
LEMMA Quiet ==
    ASSUME Shape, NEW c \in Clients, Executes(c),
           Step(c).do \notin {"create", "both", "save", "put", "delete"}
    PROVE  \A t \in Tables, i \in Ids : tables'[t][i] = tables[t][i]
<1>1. run[c].busy /\ RowsChange(c)
  BY DEF Executes
<1>2. \A t \in Tables, i \in Ids : ~Changes(c, t, i)
  BY <1>1, StepIs DEF Changes, Inserted, Saved, Deleted, Does
<1>3. QED
  BY <1>1, <1>2 DEF RowsChange, SameSlot

LEMMA LookedForNext ==
    ASSUME NEW s, NEW n \in Nat \ {0}, NEW t, LookedFor(s, n + 1, t)
    PROVE  SoughtAt(s, n + 1, t) \/ (SoughtAt(s, n, t) /\ s[n].do = "unless")
<1>1. n + 1 - 1 = n
  OBVIOUS
<1>2. SoughtAt(s, n + 1, t) \/ (SoughtAt(s, n + 1 - 1, t) /\ s[n + 1 - 1].do = "unless")
  BY DEF LookedFor
<1>3. QED
  BY <1>1, <1>2

LEMMA StillSoOwn ==
    ASSUME Shape, NEW c \in Clients, Steps1(c), InHand(c), StillSo(c)
    PROVE  StillSo(c)'
<1> DEFINE s == Steps(c)
           n == Now(c)
<1> SUFFICES ASSUME run'[c].busy PROVE StillSo(c)'
  BY DEF StillSo
<1>1. CASE Begins(c)
  <2>1. Now(c)' = 1
    BY <1>1 DEF Begins, Now
  <2>2. \A t : ~LookedFor(Steps(c)', 1, t)
    BY DEF LookedFor, SoughtAt
  <2>3. QED
    BY <2>1, <2>2 DEF StillSo
<1>2. CASE Executes(c) /\ WentOn(c)
  <2>1. /\ run[c].busy /\ Steps(c)' = s /\ Tables' = Tables /\ crossed \subseteq crossed'
        /\ Now(c)' \in {n, n + 1} /\ (Now(c)' = n => s[n].do = "sift") /\ Looks(c)
    <3>1. run[c].busy /\ part' = part /\ Watch(c)
      BY <1>2 DEF Executes, Steps1
    <3>2. Step(c) = s[n]
      BY <3>1, StepIs
    <3>3. Steps(c)' = s /\ Tables' = Tables /\ crossed \subseteq crossed'
      BY <1>2, <3>1, RequestGoes, RowsNext, Crosses
    <3>4. Looks(c) /\ (run'[c].at = run[c].at + 1 \/ (run'[c].at = run[c].at /\ Step(c).do = "sift"))
      BY <1>2 DEF WentOn
    <3>5. n \in Nat
      BY <3>1, Conventions
    <3>6. n = run[c].at /\ Now(c)' = run'[c].at
      BY DEF Now
    <3> HIDE DEF s, n
    <3>7. QED
      BY <3>1, <3>2, <3>3, <3>4, <3>5, <3>6
  <2>2. n \in Nat \ {0} /\ Step(c) = s[n]
    BY <2>1, Conventions, StepIs
  <2> SUFFICES ASSUME NEW t \in KeyTables \cap Tables, LookedFor(s, Now(c)', t)
               PROVE  /\ run'[c].row.id = 0 => \/ WithKey(t, KeyFor(c, t))' = {}
                                               \/ <<t, "key", KeyFor(c, t)'>> \in crossed'
                      /\ run'[c].row.id # 0 =>
                             /\ run'[c].row.table = t /\ run'[c].row.cols.key = KeyFor(c, t)'
                             /\ \/ tables'[t][run'[c].row.id].life = "live"
                                \/ <<t, "key", KeyFor(c, t)'>> \in crossed'
                      /\ ~SoughtAt(s, Now(c)', t) => run'[c].row.id = 0
    BY <2>1 DEF StillSo
  <2>3. \/ Now(c)' = n /\ s[n].do = "sift" /\ LookedFor(s, n, t)
        \/ Now(c)' = n + 1 /\ SoughtAt(s, n + 1, t)
        \/ Now(c)' = n + 1 /\ SoughtAt(s, n, t) /\ s[n].do = "unless"
    BY <2>1, <2>2, LookedForNext
  <2>4. Now(c)' = n + 1 /\ SoughtAt(s, n + 1, t) => s[n].do = "seek" /\ s[n].table = t
    BY <2>2, SoughtNext
  <2> HIDE DEF s, n
  <2>5. s[n].do \in {"sift", "seek", "unless"}
    BY <2>3, <2>4
  <2>6. /\ \A i \in Ids : tables'[t][i] = tables[t][i]
        /\ KeyFor(c, t)' = KeyFor(c, t)
    BY <1>2, <2>1, <2>2, <2>5, Quiet, RequestGoes DEF WentOn, Steps1
  <2>7. WithKey(t, KeyFor(c, t))' = WithKey(t, KeyFor(c, t))
    BY <2>6 DEF WithKey, Live, Cols
  <2>8. CASE s[n].do = "seek"
    <3>1. Now(c)' = n + 1 /\ SoughtAt(s, n + 1, t) /\ s[n].table = t
      BY <2>3, <2>4, <2>8
    <3>2. CASE WithKey(t, KeyFor(c, t)) = {} /\ run'[c].row = NoRow
      BY <2>7, <3>1, <3>2 DEF NoRow
    <3>3. ASSUME NEW i \in WithKey(t, KeyFor(c, t)), Takes(c, t, i)
          PROVE  /\ run'[c].row.id = i /\ run'[c].row.table = t
                 /\ run'[c].row.cols.key = KeyFor(c, t) /\ tables'[t][i].life = "live" /\ i # 0
      <4>1. run'[c].row.id = i /\ run'[c].row.table = t /\ run'[c].row.cols = Cols(t, i)
        BY <3>3 DEF Takes
      <4>2. i \in Ids /\ tables[t][i].life = "live" /\ Cols(t, i).key = KeyFor(c, t)
        BY <3>3 DEF WithKey, Live
      <4>3. QED
        BY <2>6, <4>1, <4>2, ApiAssumption DEF ApiAssumption
    <3>4. QED
      BY <2>1, <2>2, <2>6, <2>8, <3>1, <3>2, <3>3 DEF Looks
  <2>9. CASE s[n].do \in {"sift", "unless"}
    <3>1. LookedFor(s, n, t) /\ run'[c].row = run[c].row
      BY <2>1, <2>2, <2>3, <2>4, <2>9 DEF LookedFor, Looks
    <3>2. s[n].do = "unless" => run[c].row.id = 0
      BY <1>2, <2>2 DEF WentOn
    <3>3. s[n].do = "sift" => Now(c)' = n
      BY <2>3, <2>4
    <3>4. /\ run[c].row.id = 0 => \/ WithKey(t, KeyFor(c, t)) = {}
                                  \/ <<t, "key", KeyFor(c, t)>> \in crossed
          /\ run[c].row.id # 0 => /\ run[c].row.table = t /\ run[c].row.cols.key = KeyFor(c, t)
                                  /\ \/ tables[t][run[c].row.id].life = "live"
                                     \/ <<t, "key", KeyFor(c, t)>> \in crossed
          /\ ~SoughtAt(s, n, t) => run[c].row.id = 0
      BY <2>1, <3>1 DEF StillSo, s, n
    <3>5. run[c].row.id # 0 /\ run[c].row.table = t => run[c].row.id \in Ids
      BY <2>1 DEF InHand
    <3>6. QED
      BY <2>1, <2>6, <2>7, <2>9, <3>1, <3>2, <3>3, <3>4, <3>5
  <2>10. QED
    BY <2>5, <2>8, <2>9
<1>3. QED
  BY <1>1, <1>2 DEF Steps1, Comes, Fails, Executes, Idle

\* Two rows of one key come about only where requests cross.
LEMMA ApartNext ==
    ASSUME Shape, NEW c \in Clients, Steps1(c), Asking(c), KeyInHand(c), StillSo(c), HasKey, Apart
    PROVE  Apart'
<1>1. Tables' = Tables /\ crossed \subseteq crossed'
  BY RowsNext, Crosses DEF Steps1
<1> SUFFICES ASSUME NEW t \in KeyTables \cap Tables, NEW i \in Ids, NEW j \in Ids, i # j,
                    tables'[t][i].life = "live", tables'[t][j].life = "live",
                    tables'[t][i].cols.key = tables'[t][j].cols.key
             PROVE  <<t, "key", tables'[t][i].cols.key>> \in crossed'
  BY <1>1 DEF Apart, Live, Cols
<1>2. ASSUME NEW a \in Ids, NEW b \in Ids, a # b, SameSlot(t, b), Executes(c), Changes(c, t, a),
             tables'[t][a].life = "live", tables'[t][b].life = "live",
             tables'[t][a].cols.key = tables'[t][b].cols.key
      PROVE  <<t, "key", tables'[t][a].cols.key>> \in crossed'
  <2>1. tables[t][b].life = "live" /\ Cols(t, b).key = tables'[t][a].cols.key
    BY <1>2 DEF SameSlot, Cols
  <2>2. ~Deleted(c, t, a)
    <3>1. \A by, cols : [life |-> "deleted", by |-> by, cols |-> cols].life # "live"
      OBVIOUS
    <3>2. QED
      BY <1>2, <3>1 DEF Deleted
  <2>3. Inserted(c, t, a) \/ Saved(c, t, a)
    BY <1>2, <2>2 DEF Changes
  <2>4. /\ run[c].busy
        /\ LookedFor(Steps(c), Now(c), t) /\ tables'[t][a].cols.key = KeyFor(c, t)
        /\ Inserted(c, t, a) => run[c].row.id = 0
        /\ Saved(c, t, a) => run[c].row.id = a /\ a # 0 /\ run[c].row.cols.key = KeyFor(c, t)
    BY <1>2, <2>3, KeyChange DEF Executes
  <2>5. CASE Inserted(c, t, a)
    <3>1. b \in WithKey(t, KeyFor(c, t))
      BY <2>1, <2>4 DEF WithKey, Live
    <3>2. QED
      BY <1>1, <2>4, <2>5, <3>1 DEF StillSo
  <2>6. CASE Saved(c, t, a)
    <3>1. run[c].row.table = t /\ Cols(t, a).key = KeyFor(c, t)
      BY <2>4, <2>6 DEF StillSo, KeyInHand
    <3>2. CASE tables[t][a].life = "live"
      <4>1. a \in Live(t) /\ b \in Live(t) /\ Cols(t, a).key = Cols(t, b).key
        BY <2>1, <2>4, <3>1, <3>2 DEF Live
      <4>2. QED
        BY <1>1, <1>2, <2>4, <3>1, <4>1 DEF Apart
    <3>3. CASE tables[t][a].life # "live"
      BY <1>1, <2>4, <2>6, <3>3 DEF StillSo
    <3>4. QED
      BY <3>2, <3>3
  <2>7. QED
    BY <2>3, <2>5, <2>6
<1>3. CASE SameSlot(t, i) /\ SameSlot(t, j)
  <2>1. i \in Live(t) /\ j \in Live(t) /\ Cols(t, i).key = Cols(t, j).key
        /\ Cols(t, i).key = tables'[t][i].cols.key
    BY <1>3 DEF SameSlot, Live, Cols
  <2>2. QED
    BY <1>1, <2>1 DEF Apart
<1>4. ASSUME ~SameSlot(t, i), ~SameSlot(t, j) PROVE FALSE
  <2>1. Executes(c) /\ Changes(c, t, i) /\ Changes(c, t, j)
    BY <1>4, RowsNext
  <2>2. \A a \in {i, j} : Inserted(c, t, a) \/ Saved(c, t, a)
    <3>1. \A by, cols : [life |-> "deleted", by |-> by, cols |-> cols].life # "live"
      OBVIOUS
    <3>2. ~Deleted(c, t, i) /\ ~Deleted(c, t, j)
      BY <3>1 DEF Deleted
    <3>3. QED
      BY <2>1, <3>2 DEF Changes
  <2>3. Step(c).do \in {"create", "put"} /\ run[c].busy /\ RowsChange(c)
    BY <2>1, <2>2, KeyChange DEF Executes
  <2>4. PICK u, x : \A v \in Tables, y \in Ids : <<v, y>> # <<u, x>> => SameSlot(v, y)
    BY <2>3 DEF RowsChange
  <2>5. QED
    BY <1>4, <2>4
<1>5. QED
  BY <1>2, <1>3, <1>4, RowsNext

KeyInv ==
    /\ Shape /\ HasKey /\ Apart
    /\ \A c \in Clients : InHand(c) /\ Asking(c) /\ KeyInHand(c) /\ StillSo(c)

LEMMA KeyInit == Init => KeyInv
<1> SUFFICES ASSUME Init PROVE KeyInv
  OBVIOUS
<1>1. part \in DOMAIN Parts /\ tables = Parts[part].rows
  BY DEF Init
<1>2. \A t \in KeyTables \cap Tables :
          /\ \A i \in Ids : tables[t][i].life # "free" => "key" \in DOMAIN tables[t][i].cols
          /\ \A i, j \in {x \in Ids : tables[t][x].life = "live"} :
                 i # j => tables[t][i].cols.key # tables[t][j].cols.key
  <2>1. LET rows == Parts[part].rows
            Begun(t) == {i \in Ids : rows[t][i].life = "live"}
        IN  \A t \in KeyTables \cap DOMAIN rows :
                /\ \A i \in Ids : rows[t][i].life # "free" => "key" \in DOMAIN rows[t][i].cols
                /\ \A i, j \in Begun(t) : i # j => rows[t][i].cols.key # rows[t][j].cols.key
    BY <1>1, RowsAssumption DEF RowsAssumption
  <2>2. QED
    BY <1>1, <2>1 DEF Tables
<1>3. HasKey /\ Apart
  BY <1>2 DEF HasKey, Apart, Live, Cols
<1>4. \A c \in Clients : ~run[c].busy
  BY ShapeInit DEF Idle
<1>5. QED
  BY <1>3, <1>4, ShapeInit DEF KeyInv, InHand, Asking, KeyInHand, StillSo

LEMMA KeyStutter ==
    ASSUME Shape, HasKey, \A d \in Clients : InHand(d) /\ Asking(d) /\ KeyInHand(d) /\ StillSo(d),
           UNCHANGED vars
    PROVE  /\ Shape' /\ HasKey'
           /\ \A d \in Clients : InHand(d)' /\ Asking(d)' /\ KeyInHand(d)' /\ StillSo(d)'
<1>1. Tables' = Tables /\ UNCHANGED <<part, tables, meant, run, crossed>>
  BY DEF vars, Tables
<1>2. Shape' /\ HasKey'
  BY <1>1 DEF Shape, HasKey, Cols
<1>3. ASSUME NEW d \in Clients PROVE InHand(d)' /\ Asking(d)' /\ KeyInHand(d)' /\ StillSo(d)'
  <2>1. /\ Steps(d)' = Steps(d) /\ Now(d)' = Now(d) /\ Route(d)' = Route(d)
        /\ \A t : KeyFor(d, t)' = KeyFor(d, t)
    BY <1>1, RequestStays
  <2>2. InHand(d) /\ Asking(d) /\ KeyInHand(d) /\ StillSo(d)
    OBVIOUS
  <2>3. InHand(d)'
    BY <1>1, <2>1, <2>2 DEF InHand
  <2>4. Asking(d)' /\ KeyInHand(d)'
    BY <1>1, <2>1, <2>2 DEF Asking, KeyInHand, Cols
  <2>5. \A t : WithKey(t, KeyFor(d, t))' = WithKey(t, KeyFor(d, t))
    BY <1>1, <2>1 DEF WithKey, Live, Cols
  <2>6. StillSo(d)'
    BY <1>1, <2>1, <2>2, <2>5 DEF StillSo
  <2>7. QED
    BY <2>3, <2>4, <2>6
<1>4. QED
  BY <1>2, <1>3

LEMMA KeyNext == KeyInv /\ [Next]_vars => KeyInv'
<1> SUFFICES ASSUME KeyInv, [Next]_vars PROVE KeyInv'
  OBVIOUS
<1>1. CASE Next
  <2>1. PICK c \in Clients : Steps1(c)
    BY <1>1, StepCases DEF KeyInv
  <2>2. Shape' /\ HasKey' /\ Apart'
    BY <2>1, ShapeNext, KeysStay, ApartNext DEF KeyInv
  <2>3. \A d \in Clients : InHand(d)' /\ Asking(d)' /\ KeyInHand(d)'
    BY <2>1, HandNext, AskingNext, KeyInHandNext DEF KeyInv
  <2>4. \A d \in Clients : StillSo(d)'
    BY <2>1, StillSoOther, StillSoOwn DEF KeyInv
  <2>5. QED
    BY <2>2, <2>3, <2>4 DEF KeyInv
<1>2. CASE UNCHANGED vars
  <2>1. UNCHANGED <<part, tables, crossed>>
    BY <1>2 DEF vars
  <2>2. Apart'
    BY <2>1 DEF KeyInv, Apart, Live, Cols, Tables
  <2>3. QED
    BY <1>2, <2>2, KeyStutter DEF KeyInv
<1>3. QED
  BY <1>1, <1>2

\* In every table where only the lookup before the insert keeps a key the only one, two
\* live rows of one key mean that two requests about that key met.
THEOREM OneKeyOnly == Spec => []OneKeyEach
<1>1. KeyInv => OneKeyEach
  BY DEF KeyInv, Apart, OneKeyEach, KeyTables, Shape
<1>2. QED
  BY <1>1, KeyInit, KeyNext, PTL DEF Spec

-----------------------------------------------------------------------------
(* Parts have their whole. *)

LEMMA OnTable ==
    ASSUME Shape, NEW c \in Clients, run[c].busy, NEW m, NEW do \in OnTables, NEW t,
           Does(Steps(c), m, do, t)
    PROVE  t \in Tables
<1>1. IsRequest(run[c], Parts[part].routes) /\ part \in DOMAIN Parts
  BY DEF Shape, Idle
<1>2. m \in DOMAIN Steps(c) /\ Steps(c)[m].do = do /\ Steps(c)[m].table = t
  BY DEF Does
<1>3. QED
  BY <1>1, <1>2, RoutesAssumption DEF IsRequest, RoutesAssumption, Route, Steps, Tables

LEMMA PartKey ==
    ASSUME NEW x \in Wholes, NEW c
    PROVE  KeyFor(c, x[1]) = run[c].key
BY DEF Wholes, KeyFor

\* Where a part is about to be created its whole is there, and where a whole is about to
\* be deleted its parts are gone, unless another request came across it.
WholeThere(c) ==
    run[c].busy => \A x \in Wholes : Does(Steps(c), Now(c), "create", x[1]) =>
        run[c].id \in Live(x[2]) \/ <<x[2], "id", run[c].id>> \in crossed

PartsGone(c) ==
    run[c].busy => \A x \in Wholes : Does(Steps(c), Now(c), "delete", x[2]) =>
        \/ \A i \in Live(x[1]) : Cols(x[1], i).key # run[c].key
        \/ <<x[1], "key", run[c].key>> \in crossed

\* What a request has done before it creates a part, or deletes a whole.
LEMMA PartComes ==
    ASSUME Shape, NEW c \in Clients, run[c].busy, Asking(c), NEW x \in Wholes, NEW n,
           Does(Steps(c), n, "create", x[1])
    PROVE  /\ Does(Steps(c), n - 1, "find", x[2]) /\ Route(c).table = x[2]
           /\ run[c].key = run[c].id /\ x[1] \in Tables /\ x[2] \in Tables
<1>1. Does(Steps(c), n - 1, "find", x[2]) /\ Route(c).table = x[2] /\ Route(c).keyed = "path"
  BY Conventions DEF PartsComeAfter, Does
<1>2. x[1] \in Tables /\ x[2] \in Tables
  BY <1>1, OnTable DEF OnTables
<1>3. QED
  BY <1>1, <1>2 DEF Asking, Asks

LEMMA WholeGoes ==
    ASSUME Shape, NEW c \in Clients, run[c].busy, Asking(c), NEW x \in Wholes, NEW n,
           Does(Steps(c), n, "delete", x[2])
    PROVE  /\ Does(Steps(c), n - 1, "delete", x[1]) /\ Steps(c)[n - 1].by = "key"
           /\ Steps(c)[n].by = "id"
           /\ run[c].key = run[c].id /\ x[1] \in Tables /\ x[2] \in Tables
<1>1. /\ Does(Steps(c), n - 1, "delete", x[1]) /\ Route(c).keyed = "path"
      /\ Steps(c)[n - 1].by = "key" /\ Steps(c)[n].by = "id"
  BY Conventions DEF PartsComeAfter, Does
<1>2. x[1] \in Tables /\ x[2] \in Tables
  BY <1>1, OnTable DEF OnTables
<1>3. QED
  BY <1>1, <1>2 DEF Asking, Asks

\* The rows of parts are created with the key of the request, and deleted.
LEMMA PartChange ==
    ASSUME Shape, NEW c \in Clients, Executes(c), Asking(c), NEW x \in Wholes, x[1] \in Tables,
           NEW i \in Ids, Changes(c, x[1], i)
    PROVE  \/ Deleted(c, x[1], i)
           \/ Does(Steps(c), Now(c), "create", x[1]) /\ tables'[x[1]][i].cols.key = run[c].key
<1>1. run[c].busy
  BY DEF Executes
<1>2. /\ ~Does(Steps(c), Now(c), "save", x[1]) /\ ~Does(Steps(c), Now(c), "put", x[1])
      /\ Step(c).do = "both" => x[1] \notin {Step(c).table, Step(c).other}
  BY <1>1, Conventions, StepIs DEF PartsComeAfter
<1>3. CASE Inserted(c, x[1], i)
  <2>1. Does(Steps(c), Now(c), "create", x[1])
    BY <1>2, <1>3 DEF Inserted
  <2>2. tables'[x[1]][i].cols = With([key |-> KeyFor(c, x[1])], Given(c, x[1]))
    BY <1>2, <1>3 DEF Inserted
  <2>3. tables'[x[1]][i].cols.key = run[c].key
    BY <2>2, PartKey DEF With
  <2>4. QED
    BY <2>1, <2>3
<1>4. ~Saved(c, x[1], i)
  BY <1>2 DEF Saved
<1>5. QED
  BY <1>3, <1>4 DEF Changes

\* A whole that is there goes only when it is deleted.
LEMMA LiveStays ==
    ASSUME Shape, NEW c \in Clients, Steps1(c), NEW t \in Tables, NEW i \in Live(t)
    PROVE  i \in Live(t)' \/ (Executes(c) /\ Deleted(c, t, i))
<1>1. i \in Ids /\ tables[t][i].life = "live"
  BY DEF Live
<1>2. SameSlot(t, i) \/ (Executes(c) /\ Changes(c, t, i))
  BY <1>1, RowsNext
<1>3. CASE SameSlot(t, i)
  BY <1>1, <1>3 DEF SameSlot, Live
<1>4. \A by, cols : [life |-> "live", by |-> by, cols |-> cols].life = "live"
  OBVIOUS
<1>5. CASE Saved(c, t, i)
  BY <1>1, <1>4, <1>5 DEF Saved, Live
<1>6. ~Inserted(c, t, i)
  BY <1>1 DEF Inserted
<1>7. QED
  BY <1>2, <1>3, <1>5, <1>6 DEF Changes

\* A request begins at its first step, before which there is none.
LEMMA FirstIs ==
    ASSUME Shape, NEW c \in Clients, Begins(c), part' = part
    PROVE  /\ Now(c)' = 1 /\ 1 - 1 = 0 /\ 0 \notin DOMAIN Steps(c)'
           /\ PartsComeAfter(Route(c)', Steps(c)')
<1>1. Now(c)' = 1 /\ Steps(c)' = Parts[part].routes[run'[c].name].steps
  BY DEF Begins, Now, Steps, Route
<1>2. run'[c].name \in DOMAIN Parts[part].routes /\ part \in DOMAIN Parts
  BY DEF Begins, IsRequest, Shape
<1>3. \A n \in DOMAIN Steps(c)' : n \in Nat \ {0}
  BY <1>1, <1>2, FirstStep
<1>4. QED
  BY <1>1, <1>2, <1>3, RoutesAssumption DEF RoutesAssumption, Route

LEMMA WholeThereNext ==
    ASSUME Shape, NEW c \in Clients, Steps1(c), NEW d \in Clients, Asking(d), WholeThere(d)
    PROVE  WholeThere(d)'
<1>1. part' = part /\ Watch(c) /\ crossed \subseteq crossed' /\ Tables' = Tables
  BY Crosses, RowsNext DEF Steps1
<1> SUFFICES ASSUME run'[d].busy, NEW x \in Wholes, Does(Steps(d)', Now(d)', "create", x[1]),
                    <<x[2], "id", run'[d].id>> \notin crossed'
             PROVE  run'[d].id \in Live(x[2])'
  BY DEF WholeThere
<1>2. CASE d # c
  <2>1. run'[d] = run[d] /\ Steps(d)' = Steps(d) /\ Now(d)' = Now(d)
    BY <1>1, <1>2, RequestStays DEF Steps1, OthersStay
  <2>2. run[d].busy /\ Route(d).table = x[2] /\ x[2] \in Tables
    BY <2>1, PartComes
  <2>3. run[d].id \in Live(x[2])
    BY <1>1, <2>1, <2>2 DEF WholeThere
  <2>4. tables'[x[2]][run[d].id] = tables[x[2]][run[d].id]
    <3>1. SUFFICES ASSUME tables'[x[2]][run[d].id] # tables[x[2]][run[d].id] PROVE FALSE
      OBVIOUS
    <3>2. run[d].id \in Ids
      BY <2>3 DEF Live
    <3>3. Things(x[2], run[d].id, tables'[x[2]][run[d].id].cols) \cap About(d) \subseteq crossed'
      BY <1>1, <1>2, <2>2, <3>1, <3>2, Crosses
    <3>4. <<x[2], "id", run[d].id>> \in About(d)
      BY <2>2, AboutIs
    <3>5. QED
      BY <2>1, <3>3, <3>4 DEF Things
  <2>5. QED
    BY <2>1, <2>3, <2>4 DEF Live
<1>3. CASE d = c /\ Begins(c)
  <2>1. /\ Now(c)' = 1 /\ 1 - 1 = 0 /\ 0 \notin DOMAIN Steps(c)'
        /\ PartsComeAfter(Route(c)', Steps(c)')
    BY <1>1, <1>3, FirstIs
  <2>2. Does(Steps(c)', 1, "create", x[1]) /\ 1 \in DOMAIN Steps(c)'
    BY <1>3, <2>1 DEF Does
  <2>3. Does(Steps(c)', 1 - 1, "find", x[2])
    BY <2>1, <2>2 DEF PartsComeAfter
  <2>4. QED
    BY <2>1, <2>3 DEF Does
<1>4. CASE d = c /\ Executes(c) /\ WentOn(c)
  <2> DEFINE s == Steps(c)
             n == Now(c)
  <2>1. /\ run[c].busy /\ Steps(c)' = s /\ n \in Nat \ {0} /\ Step(c) = s[n] /\ n \in DOMAIN s
        /\ run'[c].id = run[c].id
    BY <1>1, <1>4, RequestGoes, Conventions, StepIs DEF Executes, WentOn, Keeps
  <2>2. \/ Now(c)' = n + 1
        \/ Now(c)' = n /\ s[n].do = "sift"
    BY <1>4, <2>1 DEF WentOn, Now
  <2>3. Now(c)' = n + 1
    BY <1>4, <2>1, <2>2 DEF Does
  <2>4. Does(s, n + 1 - 1, "find", x[2]) /\ x[2] \in Tables
    BY <1>4, <2>1, <2>3, PartComes
  <2>5. s[n].do = "find" /\ s[n].table = x[2]
    <3>1. n + 1 - 1 = n
      BY <2>1
    <3>2. QED
      BY <2>4, <3>1 DEF Does
  <2>6. run[c].id \in Live(x[2])
    BY <1>4, <2>1, <2>5 DEF WentOn, Looks
  <2>7. \A i \in Ids : tables'[x[2]][i] = tables[x[2]][i]
    BY <1>4, <2>1, <2>4, <2>5, Quiet
  <2>8. QED
    BY <1>4, <2>1, <2>6, <2>7 DEF Live
<1>5. QED
  BY <1>2, <1>3, <1>4 DEF Steps1, Comes, Fails, Executes, Idle

LEMMA PartsGoneNext ==
    ASSUME Shape, NEW c \in Clients, Steps1(c), Asking(c), NEW d \in Clients, Asking(d), PartsGone(d)
    PROVE  PartsGone(d)'
<1>1. part' = part /\ Watch(c) /\ crossed \subseteq crossed' /\ Tables' = Tables
  BY Crosses, RowsNext DEF Steps1
<1> SUFFICES ASSUME run'[d].busy, NEW x \in Wholes, Does(Steps(d)', Now(d)', "delete", x[2]),
                    <<x[1], "key", run'[d].key>> \notin crossed'
             PROVE  \A i \in Live(x[1])' : Cols(x[1], i)' .key # run'[d].key
  BY DEF PartsGone
<1>2. CASE d # c
  <2>1. run'[d] = run[d] /\ Steps(d)' = Steps(d) /\ Now(d)' = Now(d) /\ run[d].busy
    BY <1>1, <1>2, RequestStays DEF Steps1, OthersStay
  <2>2. /\ Does(Steps(d), Now(d) - 1, "delete", x[1]) /\ Steps(d)[Now(d) - 1].by = "key"
        /\ x[1] \in Tables
    BY <2>1, WholeGoes
  <2>3. \A i \in Live(x[1]) : Cols(x[1], i).key # run[d].key
    BY <1>1, <2>1 DEF PartsGone
  <2>4. <<x[1], "key", run[d].key>> \in About(d)
    BY <2>2, AboutIs, PartKey DEF Does
  <2>5. ASSUME NEW i \in Ids, tables'[x[1]][i].life = "live", tables'[x[1]][i].cols.key = run[d].key
        PROVE  FALSE
    <3>1. tables'[x[1]][i] # tables[x[1]][i]
      BY <2>3, <2>5 DEF Live, Cols
    <3>2. Things(x[1], i, tables'[x[1]][i].cols) \cap About(d) \subseteq crossed'
      BY <1>1, <1>2, <2>1, <2>2, <3>1, Crosses
    <3>3. QED
      BY <2>1, <2>4, <2>5, <3>2 DEF Things
  <2>6. QED
    BY <2>1, <2>5 DEF Live, Cols
<1>3. CASE d = c /\ Begins(c)
  <2>1. /\ Now(c)' = 1 /\ 1 - 1 = 0 /\ 0 \notin DOMAIN Steps(c)'
        /\ PartsComeAfter(Route(c)', Steps(c)')
    BY <1>1, <1>3, FirstIs
  <2>2. Does(Steps(c)', 1, "delete", x[2]) /\ 1 \in DOMAIN Steps(c)'
    BY <1>3, <2>1 DEF Does
  <2>3. Does(Steps(c)', 1 - 1, "delete", x[1])
    BY <2>1, <2>2 DEF PartsComeAfter
  <2>4. QED
    BY <2>1, <2>3 DEF Does
<1>4. CASE d = c /\ Executes(c) /\ WentOn(c)
  <2> DEFINE s == Steps(c)
             n == Now(c)
  <2>1. /\ run[c].busy /\ Steps(c)' = s /\ n \in Nat \ {0} /\ Step(c) = s[n] /\ n \in DOMAIN s
        /\ run'[c].key = run[c].key
    BY <1>1, <1>4, RequestGoes, Conventions, StepIs DEF Executes, WentOn, Keeps
  <2>2. \/ Now(c)' = n + 1
        \/ Now(c)' = n /\ s[n].do = "sift"
    BY <1>4, <2>1 DEF WentOn, Now
  <2>3. Now(c)' = n + 1
    BY <1>4, <2>1, <2>2 DEF Does
  <2>4. Does(s, n + 1 - 1, "delete", x[1]) /\ s[n + 1 - 1].by = "key"
    BY <1>4, <2>1, <2>3, WholeGoes
  <2>5. s[n].do = "delete" /\ s[n].table = x[1] /\ s[n].by = "key"
    <3>1. n + 1 - 1 = n
      BY <2>1
    <3>2. QED
      BY <2>4, <3>1 DEF Does
  <2>6. \A i \in Ids : tables'[x[1]][i].life = "live" => tables'[x[1]][i].cols.key # run[c].key
    BY <1>4, <2>1, <2>5 DEF Executes, RowsChange
  <2>7. QED
    BY <1>4, <2>1, <2>6 DEF Live, Cols
<1>5. QED
  BY <1>2, <1>3, <1>4 DEF Steps1, Comes, Fails, Executes, Idle

LEMMA PartsNext ==
    ASSUME Shape, NEW c \in Clients, Steps1(c), Asking(c), WholeThere(c), PartsGone(c), PartsHaveTheirWhole
    PROVE  PartsHaveTheirWhole'
<1>1. part' = part /\ crossed \subseteq crossed' /\ Tables' = Tables
      /\ DOMAIN tables = Tables /\ (DOMAIN tables)' = Tables
  BY Crosses, RowsNext DEF Steps1, Shape, ShapedRows
<1> SUFFICES ASSUME NEW x \in Wholes, x[1] \in Tables, NEW i \in Ids, tables'[x[1]][i].life = "live",
                    <<x[1], "key", tables'[x[1]][i].cols.key>> \notin crossed',
                    <<x[2], "id", tables'[x[1]][i].cols.key>> \notin crossed'
             PROVE  tables'[x[1]][i].cols.key \in Live(x[2])'
  BY <1>1 DEF PartsHaveTheirWhole, Wholes, Live, Cols
<1> DEFINE whole == tables'[x[1]][i].cols.key
<1>2. ~Deleted(c, x[1], i)
  <2>1. \A by, cols : [life |-> "deleted", by |-> by, cols |-> cols].life # "live"
    OBVIOUS
  <2>2. QED
    BY <2>1 DEF Deleted
<1>3. CASE Executes(c) /\ Changes(c, x[1], i)
  <2>1. Does(Steps(c), Now(c), "create", x[1]) /\ whole = run[c].key /\ run[c].busy
    BY <1>2, <1>3, PartChange DEF Executes
  <2>2. x[2] \in Tables /\ run[c].key = run[c].id
    BY <2>1, PartComes
  <2>3. whole \in Live(x[2])
    BY <1>1, <2>1, <2>2 DEF WholeThere
  <2>4. ~Deleted(c, x[2], whole)
    BY <2>1 DEF Deleted, Does
  <2>5. QED
    BY <2>2, <2>3, <2>4, LiveStays
<1>4. CASE SameSlot(x[1], i)
  <2>1. i \in Live(x[1]) /\ Cols(x[1], i).key = whole
    BY <1>4 DEF SameSlot, Live, Cols
  <2>2. whole \in Live(x[2])
    BY <1>1, <2>1 DEF PartsHaveTheirWhole, Wholes
  <2>3. CASE Executes(c) /\ Deleted(c, x[2], whole)
    <3>1. run[c].busy /\ Does(Steps(c), Now(c), "delete", x[2])
      BY <2>3 DEF Executes, Deleted
    <3>2. Step(c).by = "id" /\ run[c].key = run[c].id
      <4>1. Steps(c)[Now(c)].by = "id" /\ run[c].key = run[c].id
        BY <3>1, WholeGoes
      <4>2. Step(c) = Steps(c)[Now(c)]
        BY <3>1, StepIs
      <4>3. QED
        BY <4>1, <4>2
    <3>3. whole = run[c].key
      BY <2>3, <3>2 DEF Deleted
    <3>4. QED
      BY <1>1, <2>1, <3>1, <3>3 DEF PartsGone
  <2>4. x[2] \in Tables
    BY RowsAssumption DEF RowsAssumption, Tables, Shape
  <2>5. QED
    BY <2>2, <2>3, <2>4, LiveStays
<1>5. QED
  BY <1>3, <1>4, RowsNext

PartsInv ==
    /\ Shape /\ PartsHaveTheirWhole
    /\ \A c \in Clients : InHand(c) /\ Asking(c) /\ WholeThere(c) /\ PartsGone(c)

\* A version has its tool, and a message its conversation, whatever statement fails in
\* between, unless requests about the two met.
THEOREM WholesStay == Spec => []PartsHaveTheirWhole
<1>1. Init => PartsInv
  <2> SUFFICES ASSUME Init PROVE PartsInv
    OBVIOUS
  <2>1. part \in DOMAIN Parts /\ tables = Parts[part].rows
    BY DEF Init
  <2>2. PartsHaveTheirWhole
    <3>1. LET rows == Parts[part].rows
              Begun(t) == {i \in Ids : rows[t][i].life = "live"}
          IN  \A x \in Wholes : x[1] \in DOMAIN rows =>
                  \A i \in Begun(x[1]) : rows[x[1]][i].cols.key \in Begun(x[2])
      BY <2>1, RowsAssumption DEF RowsAssumption
    <3>2. QED
      BY <2>1, <3>1 DEF PartsHaveTheirWhole, Wholes, Live, Cols
  <2>3. \A c \in Clients : ~run[c].busy
    BY ShapeInit DEF Idle
  <2>4. QED
    BY <2>2, <2>3, ShapeInit DEF PartsInv, InHand, Asking, WholeThere, PartsGone
<1>2. PartsInv /\ [Next]_vars => PartsInv'
  <2> SUFFICES ASSUME PartsInv, [Next]_vars PROVE PartsInv'
    OBVIOUS
  <2>1. CASE Next
    <3>1. PICK c \in Clients : Steps1(c)
      BY <2>1, StepCases DEF PartsInv
    <3>2. QED
      BY <3>1, ShapeNext, HandNext, AskingNext, WholeThereNext, PartsGoneNext, PartsNext DEF PartsInv
  <2>2. CASE UNCHANGED vars
    <3>1. Tables' = Tables /\ UNCHANGED <<part, tables, meant, run, crossed>>
      BY <2>2 DEF vars, Tables
    <3>2. Shape' /\ PartsHaveTheirWhole'
      BY <3>1 DEF PartsInv, Shape, PartsHaveTheirWhole, Live, Cols
    <3>3. ASSUME NEW d \in Clients
          PROVE  InHand(d)' /\ Asking(d)' /\ WholeThere(d)' /\ PartsGone(d)'
      <4>1. Steps(d)' = Steps(d) /\ Now(d)' = Now(d) /\ Route(d)' = Route(d)
        BY <3>1, RequestStays
      <4>2. InHand(d) /\ Asking(d) /\ WholeThere(d) /\ PartsGone(d)
        BY DEF PartsInv
      <4>3. InHand(d)'
        BY <3>1, <4>1, <4>2 DEF InHand
      <4>4. Asking(d)'
        BY <3>1, <4>1, <4>2 DEF Asking
      <4>5. WholeThere(d)' /\ PartsGone(d)'
        BY <3>1, <4>1, <4>2 DEF WholeThere, PartsGone, Live, Cols
      <4>6. QED
        BY <4>3, <4>4, <4>5
    <3>4. QED
      BY <3>2, <3>3 DEF PartsInv
  <2>3. QED
    BY <2>1, <2>2
<1>3. QED
  BY <1>1, <1>2, PTL DEF Spec, PartsInv

-----------------------------------------------------------------------------
(* The grant of a creator. *)

Granted(t, i, by) ==
    \E j \in Ids : /\ tables["access"][j].life # "free"
                   /\ Cols("access", j).key = <<<<"user", by>>, t, i>>

\* Request c has created the row, and is about to look for the grant or to put it.
Granting(c, t, i, by) ==
    /\ run[c].busy /\ Route(c).table = t /\ run[c].new = i /\ run[c].user = by
    /\ \/ Does(Steps(c), Now(c) - 1, "create", t)
       \/ Does(Steps(c), Now(c) - 2, "create", t)

CreatorsCovered ==
    \A t \in OwnedTables \cap Tables, i \in Ids :
        tables[t][i].life # "free" /\ tables[t][i].by # 0 =>
            \/ Granted(t, i, tables[t][i].by)
            \/ faults > 0
            \/ \E c \in Clients : Granting(c, t, i, tables[t][i].by)

LEMMA GrantComes ==
    ASSUME Shape, NEW c \in Clients, run[c].busy, NEW t \in OwnedTables
    PROVE  /\ Does(Steps(c), Now(c) - 1, "create", t) =>
                  Step(c).do = "seek" /\ Step(c).table = "access"
           /\ Does(Steps(c), Now(c) - 2, "create", t) =>
                  /\ SoughtAt(Steps(c), Now(c), "access")
                  /\ Does(Steps(c), Now(c), "put", "access")
<1> DEFINE s == Steps(c)
           n == Now(c)
<1>1. n \in Nat \ {0} /\ Step(c) = s[n] /\ GrantsCreator(Route(c), s)
  BY Conventions, StepIs
<1> HIDE DEF s, n
<1>2. \A m : Does(s, m, "create", t) => SoughtAt(s, m + 2, "access") /\ Does(s, m + 2, "put", "access")
  BY <1>1 DEF GrantsCreator, Does
<1>3. ASSUME Does(s, n - 1, "create", t) PROVE Step(c).do = "seek" /\ Step(c).table = "access"
  <2>1. SoughtAt(s, n - 1 + 2, "access")
    BY <1>2, <1>3
  <2>2. n - 1 + 2 = n + 1
    BY <1>1
  <2>3. SoughtAt(s, n + 1, "access")
    BY <2>1, <2>2
  <2>4. QED
    BY <1>1, <2>3, SoughtNext
<1>4. ASSUME Does(s, n - 2, "create", t)
      PROVE  SoughtAt(s, n, "access") /\ Does(s, n, "put", "access")
  <2>1. SoughtAt(s, n - 2 + 2, "access") /\ Does(s, n - 2 + 2, "put", "access")
    BY <1>2, <1>4
  <2>2. n - 2 + 2 = n
    BY <1>1
  <2>3. QED
    BY <2>1, <2>2
<1>5. QED
  BY <1>3, <1>4 DEF s, n

\* A lookup never ends its request.
LEMMA SeekGoesOn ==
    ASSUME Shape, NEW c \in Clients, Executes(c), Step(c).do = "seek"
    PROVE  WentOn(c)
<1>1. Seek(c)
  BY DEF Executes, Statement, May, Check, FindByID, Decide, Create, CreateBoth, Save, Put, Delete,
         SeesAll, List, Sift, IssueTokens, Reply, At
<1>2. \E changes : Go(c, changes) /\ DOMAIN changes = {"row"}
  <2> DEFINE t == Step(c).table
  <2>1. CASE WithKey(t, KeyFor(c, t)) = {}
    <3>1. Go(c, [row |-> NoRow]) /\ DOMAIN [row |-> NoRow] = {"row"}
      BY <1>1, <2>1 DEF Seek
    <3>2. QED
      BY <3>1
  <2>2. CASE WithKey(t, KeyFor(c, t)) # {}
    <3>1. PICK i : Take(c, t, i)
      BY <1>1, <2>2 DEF Seek
    <3>2. QED
      BY <3>1 DEF Take
  <2>3. QED
    BY <2>1, <2>2
<1>3. PICK changes : Go(c, changes) /\ DOMAIN changes = {"row"}
  BY <1>2
<1>4. run = [x \in Clients |-> run[x]] /\ DOMAIN run[c] = Fields
  BY DEF Shape, IsRequest, Idle, Executes
<1>5. DOMAIN run'[c] = Fields
  BY <1>3, <1>4, GoIs DEF Fields
<1>6. DOMAIN Idle # Fields
  BY DEF Idle, Fields
<1>7. QED
  BY <1>5, <1>6 DEF Executes

\* An upsert that found no grant inserts it.
LEMMA PutGrants ==
    ASSUME Shape, NEW c \in Clients, Executes(c), Does(Steps(c), Now(c), "put", "access"),
           run[c].row.id = 0
    PROVE  \E j \in Ids : /\ tables'["access"][j].life # "free"
                          /\ tables'["access"][j].cols.key = KeyFor(c, "access")
<1>1. run[c].busy /\ Step(c).do = "put" /\ Step(c).table = "access"
  BY StepIs DEF Executes, Does
<1>2. Put(c)
  BY <1>1 DEF Executes, Statement, May, Check, FindByID, Seek, Decide, Create, CreateBoth, Save, Delete,
         SeesAll, List, Sift, IssueTokens, Reply, At
<1> DEFINE arg == With([key |-> KeyFor(c, "access")], Given(c, "access"))
<1>3. PICK i \in Fresh("access") : Store("access", i, run[c].user, arg, arg)
  BY <1>1, <1>2 DEF Put, Insert, Taken, UniqueKey
<1>4. arg.key = KeyFor(c, "access")
  BY DEF With
<1> HIDE DEF arg
<1>5. i \in Ids /\ "access" \in Tables
  BY <1>1, <1>3, StepIs DEF Fresh, OnTables
<1>6. tables'["access"][i] = [life |-> "live", by |-> run[c].user, cols |-> arg]
  BY <1>3, <1>5, StoreRows
<1>7. tables'["access"][i].life = "live" /\ tables'["access"][i].cols = arg
  BY <1>6
<1>8. QED
  BY <1>4, <1>5, <1>7

LEMMA CoveredNext ==
    ASSUME Shape, NEW c \in Clients, Steps1(c), \A d \in Clients : InHand(d), Asking(c), KeyInHand(c),
           StillSo(c), HasKey, faults \in Nat, CreatorsCovered
    PROVE  CreatorsCovered' /\ faults' \in Nat
<1>1. part' = part /\ Tables' = Tables /\ faults' \in {faults, faults + 1}
  BY RowsNext DEF Steps1, Comes, Fails, Executes
<1>2. "access" \in KeyTables \cap Tables
  BY RowsAssumption DEF RowsAssumption, Tables, Shape, KeyTables
<1> SUFFICES ASSUME NEW t \in OwnedTables \cap Tables, NEW i \in Ids,
                    tables'[t][i].life # "free", tables'[t][i].by # 0, faults' = 0
             PROVE  \/ Granted(t, i, tables[t][i].by)'
                    \/ \E d \in Clients : Granting(d, t, i, tables[t][i].by)'
  BY <1>1 DEF CreatorsCovered
<1>0. PICK by : by = tables'[t][i].by
  OBVIOUS
<1>3. faults = 0 /\ ~Fails(c)
  BY <1>1 DEF Fails
<1>4. \A j \in Ids : tables["access"][j].life # "free" =>
          /\ tables'["access"][j].life # "free"
          /\ tables'["access"][j].cols.key = tables["access"][j].cols.key
  BY <1>2, KeysStay, TakenStays
<1>5. SUFFICES \/ \E j \in Ids : /\ tables'["access"][j].life # "free"
                                 /\ tables'["access"][j].cols.key = <<<<"user", by>>, t, i>>
               \/ \E d \in Clients : Granting(d, t, i, by)'
  BY <1>0 DEF Granted, Cols, Granting
<1>6. CASE tables[t][i].life # "free" /\ tables[t][i].by = by
  <2>1. CASE Granted(t, i, by)
    BY <1>4, <2>1 DEF Granted, Cols
  <2>2. ASSUME NEW d \in Clients, Granting(d, t, i, by), d # c PROVE Granting(d, t, i, by)'
    <3>1. run'[d] = run[d] /\ Steps(d)' = Steps(d) /\ Now(d)' = Now(d) /\ Route(d)' = Route(d)
      BY <1>1, <2>2, RequestStays DEF Steps1, OthersStay
    <3>2. QED
      BY <2>2, <3>1 DEF Granting
  <2>3. CASE Granting(c, t, i, by)
    <3>1. Executes(c) /\ run[c].busy
      BY <1>3, <2>3 DEF Granting, Steps1, Comes
    <3>2. KeyFor(c, "access") = <<<<"user", by>>, t, i>>
      BY <2>3 DEF Granting, KeyFor, OwnedTables
    <3>3. CASE Does(Steps(c), Now(c) - 1, "create", t)
      <4>1. Step(c).do = "seek" /\ WentOn(c)
        BY <3>1, <3>3, GrantComes, SeekGoesOn
      <4>2. /\ Steps(c)' = Steps(c) /\ Route(c)' = Route(c) /\ Now(c) \in Nat
            /\ Now(c)' = Now(c) + 1
        BY <1>1, <3>1, <4>1, RequestGoes, Conventions DEF WentOn, Now
      <4>3. Now(c) + 1 - 2 = Now(c) - 1
        BY <4>2
      <4>4. run'[c].busy /\ run'[c].new = run[c].new /\ run'[c].user = run[c].user
        BY <4>1 DEF WentOn, Keeps
      <4>5. Granting(c, t, i, by)'
        BY <2>3, <3>3, <4>2, <4>3, <4>4 DEF Granting
      <4>6. QED
        BY <4>5
    <3>4. CASE Does(Steps(c), Now(c) - 2, "create", t)
      <4>1. SoughtAt(Steps(c), Now(c), "access") /\ Does(Steps(c), Now(c), "put", "access")
        BY <3>1, <3>4, GrantComes
      <4>2. CASE run[c].row.id = 0
        BY <3>1, <3>2, <4>1, <4>2, PutGrants
      <4>3. CASE run[c].row.id # 0
        <5>1. run[c].row.table = "access" /\ run[c].row.cols.key = KeyFor(c, "access")
          BY <1>2, <3>1, <4>1, <4>3 DEF StillSo, LookedFor
        <5>2. /\ run[c].row.id \in Ids /\ tables["access"][run[c].row.id].life # "free"
              /\ tables["access"][run[c].row.id].cols.key = KeyFor(c, "access")
          BY <1>2, <3>1, <4>3, <5>1 DEF InHand, KeyInHand, Cols
        <5>3. QED
          BY <1>4, <3>2, <5>2
      <4>4. QED
        BY <4>2, <4>3
    <3>5. QED
      BY <2>3, <3>3, <3>4 DEF Granting
  <2>4. Granted(t, i, by) \/ \E d \in Clients : Granting(d, t, i, by)
    BY <1>3, <1>6, <1>0 DEF CreatorsCovered
  <2>5. QED
    BY <2>1, <2>2, <2>3, <2>4
<1>7. CASE Executes(c) /\ Inserted(c, t, i)
  <2>1. run[c].busy
    BY <1>7 DEF Executes
  <2>2. /\ ~Does(Steps(c), Now(c), "put", t)
        /\ Step(c).do = "both" => t \notin {Step(c).table, Step(c).other}
        /\ Does(Steps(c), Now(c), "create", t) => Route(c).table = t
    BY <2>1, Conventions, StepIs DEF GrantsCreator, Does
  <2>3. /\ Does(Steps(c), Now(c), "create", t) /\ Route(c).table = t
        /\ run'[c].busy /\ run'[c].new = i
    BY <1>7, <2>2 DEF Inserted
  <2>4. WentOn(c) /\ by = run[c].user
    BY <1>7, <1>0, <2>3 DEF Inserted, Executes, Idle
  <2>5. /\ Steps(c)' = Steps(c) /\ Route(c)' = Route(c) /\ Now(c) \in Nat /\ Step(c).do = "create"
        /\ run'[c].user = run[c].user
    BY <1>1, <2>1, <2>3, <2>4, RequestGoes, Conventions, StepIs DEF WentOn, Keeps, Does
  <2>6. Now(c)' = Now(c) + 1 /\ Now(c) + 1 - 1 = Now(c)
    BY <2>4, <2>5 DEF WentOn, Now
  <2>7. Granting(c, t, i, by)'
    BY <2>3, <2>4, <2>5, <2>6 DEF Granting
  <2>8. QED
    BY <2>7
<1>8. CASE SameSlot(t, i)
  BY <1>6, <1>8, <1>0 DEF SameSlot
<1>9. CASE Saved(c, t, i) /\ run[c].busy
  <2>1. tables[t][i].life # "free"
    BY <1>9, ApiAssumption DEF InHand, Saved, ApiAssumption
  <2>2. by = tables[t][i].by
    BY <1>9, <1>0 DEF Saved
  <2>3. QED
    BY <1>6, <2>1, <2>2
<1>10. CASE Deleted(c, t, i)
  BY <1>6, <1>10, <1>0 DEF Deleted
<1>11. QED
  BY <1>7, <1>8, <1>9, <1>10, RowsNext DEF Changes, Executes

GrantInv ==
    /\ Shape /\ HasKey /\ CreatorsCovered /\ faults \in Nat
    /\ \A c \in Clients : InHand(c) /\ Asking(c) /\ KeyInHand(c) /\ StillSo(c)

\* Whoever created a connection or a tool has a grant on it once the request is over,
\* unless a statement failed.
THEOREM CreatorsAreGranted == Spec => []CreatorIsGranted
<1>1. Init => GrantInv
  <2> SUFFICES ASSUME Init PROVE GrantInv
    OBVIOUS
  <2>1. KeyInv
    BY KeyInit
  <2>2. CreatorsCovered
    <3>1. \A t \in Tables, i \in Ids : tables[t][i].by = 0
      <4>1. tables = [t \in Tables |-> [i \in Ids |->
                   [life |-> tables[t][i].life, by |-> 0, cols |-> tables[t][i].cols]]]
        BY RowsBegin
      <4>2. ASSUME NEW t \in Tables, NEW i \in Ids PROVE tables[t][i].by = 0
        <5>1. tables[t][i] = [life |-> tables[t][i].life, by |-> 0, cols |-> tables[t][i].cols]
          BY <4>1
        <5>2. QED
          BY <5>1
      <4>3. QED
        BY <4>2
    <3>2. QED
      BY <3>1 DEF CreatorsCovered
  <2>3. QED
    BY <2>1, <2>2, ShapeInit DEF KeyInv, GrantInv
<1>2. GrantInv /\ [Next]_vars => GrantInv'
  <2> SUFFICES ASSUME GrantInv, [Next]_vars PROVE GrantInv'
    OBVIOUS
  <2>1. CASE Next
    <3>1. PICK c \in Clients : Steps1(c)
      BY <2>1, StepCases DEF GrantInv
    <3>2. Shape' /\ HasKey' /\ CreatorsCovered' /\ faults' \in Nat
      BY <3>1, ShapeNext, KeysStay, CoveredNext DEF GrantInv
    <3>3. \A d \in Clients : InHand(d)' /\ Asking(d)' /\ KeyInHand(d)' /\ StillSo(d)'
      BY <3>1, HandNext, AskingNext, KeyInHandNext, StillSoOther, StillSoOwn DEF GrantInv
    <3>4. QED
      BY <3>2, <3>3 DEF GrantInv
  <2>2. CASE UNCHANGED vars
    <3>1. Tables' = Tables /\ UNCHANGED <<part, tables, meant, run, crossed, faults>>
      BY <2>2 DEF vars, Tables
    <3>2. \A t, i, b : Granted(t, i, b)' = Granted(t, i, b)
      BY <3>1 DEF Granted, Cols
    <3>3. \A c \in Clients : \A t, i, b : Granting(c, t, i, b)' = Granting(c, t, i, b)
      BY <3>1, RequestStays DEF Granting
    <3>4. CreatorsCovered'
      BY <3>1, <3>2, <3>3 DEF GrantInv, CreatorsCovered
    <3>5. Shape' /\ HasKey' /\ \A d \in Clients : InHand(d)' /\ Asking(d)' /\ KeyInHand(d)' /\ StillSo(d)'
      BY <2>2, KeyStutter DEF GrantInv
    <3>6. QED
      BY <3>1, <3>4, <3>5 DEF GrantInv
  <2>3. QED
    BY <2>1, <2>2
<1>3. GrantInv => CreatorIsGranted
  <2> SUFFICES ASSUME GrantInv, NEW t \in OwnedTables \cap Tables, NEW i \in Ids,
                      tables[t][i].life # "free", tables[t][i].by # 0
               PROVE  \/ Granted(t, i, tables[t][i].by)
                      \/ faults > 0
                      \/ \E c \in Busy : run[c].new = i
    <3>1. GrantInv => DOMAIN tables = Tables
      BY DEF GrantInv, Shape
    <3>2. QED
      BY <3>1 DEF CreatorIsGranted, Granted, OwnedTables
  <2>1. \/ Granted(t, i, tables[t][i].by)
        \/ faults > 0
        \/ \E c \in Clients : Granting(c, t, i, tables[t][i].by)
    BY DEF GrantInv, CreatorsCovered
  <2>2. QED
    BY <2>1 DEF Granting, Busy
<1>4. QED
  BY <1>1, <1>2, <1>3, PTL DEF Spec

-----------------------------------------------------------------------------
(* What was deleted before a request began. *)

FoundOwn(c) ==
    \E m \in 1 .. Now(c) - 1 : Does(Steps(c), m, "find", Route(c).table)

\* None of the rows that are deleted since before request c began is anything it has.
Unseen(c) ==
    run[c].busy =>
        /\ \A x \in gone[c] : x \in Slots /\ tables[x[1]][x[2]].life = "deleted"
        /\ <<run[c].row.table, run[c].row.id>> \notin gone[c]
        /\ \A t \in Listed(c), i \in run[c].shown : <<t, i>> \notin gone[c]
        /\ FoundOwn(c) => <<Route(c).table, run[c].id>> \notin gone[c]

LEMMA GoneIs ==
    ASSUME Shape, NEW c \in Clients, Steps1(c), NEW d \in Clients, Unseen(d), run'[d].busy
    PROVE  /\ run[d].busy => gone'[d] \subseteq gone[d]
           /\ \A x \in gone'[d] : x \in Slots' /\ tables'[x[1]][x[2]].life = "deleted"
<1> DEFINE before == IF d \in Busy THEN gone[d] ELSE Slots
<1>1. gone'[d] = {x \in before : tables'[x[1]][x[2]].life = "deleted"}
  BY DEF Steps1, Watch
<1>2. run[d].busy => before = gone[d]
  BY DEF Busy
<1>3. before \subseteq Slots
  BY DEF Busy, Unseen
<1>4. Slots' = Slots
  BY RowsNext DEF Slots, Shape, ShapedRows
<1> HIDE DEF before
<1>5. QED
  BY <1>1, <1>2, <1>3, <1>4

LEMMA UnseenNext ==
    ASSUME Shape, NEW c \in Clients, Steps1(c), NEW d \in Clients, Unseen(d)
    PROVE  Unseen(d)'
<1> SUFFICES ASSUME run'[d].busy
             PROVE  /\ <<run'[d].row.table, run'[d].row.id>> \notin gone'[d]
                    /\ \A t \in Listed(d)', i \in run'[d].shown : <<t, i>> \notin gone'[d]
                    /\ FoundOwn(d)' => <<Route(d)'.table, run'[d].id>> \notin gone'[d]
  BY GoneIs DEF Unseen
<1>1. part' = part
  BY DEF Steps1
<1>2. CASE d # c
  <2>1. run'[d] = run[d] /\ gone'[d] \subseteq gone[d] /\ run[d].busy
    BY <1>2, GoneIs DEF Steps1, OthersStay
  <2>2. Route(d)' = Route(d) /\ Steps(d)' = Steps(d) /\ Now(d)' = Now(d)
    BY <1>1, <2>1, RequestStays
  <2>3. Listed(d)' = Listed(d) /\ FoundOwn(d)' = FoundOwn(d)
    BY <2>2 DEF Listed, FoundOwn
  <2>4. QED
    BY <2>1, <2>2, <2>3 DEF Unseen
<1>3. CASE d = c /\ Begins(c)
  <2>1. run'[c].row = NoRow /\ run'[c].shown = {} /\ Now(c)' = 1
    BY <1>3 DEF Begins, Now
  <2>2. gone'[c] \subseteq Slots'
    BY <1>3, GoneIs
  <2>3. <<run'[c].row.table, run'[c].row.id>> \notin gone'[c]
    BY <2>1, <2>2, ApiAssumption DEF NoRow, Slots, ApiAssumption
  <2>4. ~FoundOwn(c)'
    BY <2>1 DEF FoundOwn
  <2>5. QED
    BY <1>3, <2>1, <2>3, <2>4
<1>4. CASE d = c /\ Executes(c) /\ WentOn(c)
  <2>1. /\ run[c].busy /\ gone'[c] \subseteq gone[c] /\ Shows(c) /\ Looks(c)
        /\ run'[c].id = run[c].id /\ Unseen(c)
    BY <1>4, GoneIs DEF Executes, WentOn, Keeps
  <2>2. /\ Route(c)' = Route(c) /\ Steps(c)' = Steps(c) /\ Listed(c)' = Listed(c)
    BY <1>1, <1>4, RequestGoes DEF Listed
  <2>3. /\ Now(c) \in DOMAIN Steps(c) /\ Step(c) = Steps(c)[Now(c)] /\ Now(c) \in Nat \ {0}
        /\ ListsOneTable(Steps(c))
    <3>1. IsRequest(run[c], Parts[part].routes) /\ part \in DOMAIN Parts
      BY <2>1 DEF Shape, Idle
    <3>2. ListsOneTable(Steps(c))
      BY <3>1, RoutesAssumption DEF IsRequest, RoutesAssumption, Route, Steps
    <3>3. QED
      BY <2>1, <3>2, StepIs, Conventions
  <2>4. \A t, i : i \in Live(t) => <<t, i>> \notin gone[c]
    BY <2>1 DEF Unseen, Live
  <2>5. <<run'[c].row.table, run'[c].row.id>> \notin gone'[c]
    <3>1. CASE run'[c].row = run[c].row
      BY <2>1, <3>1 DEF Unseen
    <3>2. CASE run'[c].row = NoRow
      <4>1. gone[c] \subseteq Slots
        BY <2>1 DEF Unseen
      <4>2. QED
        BY <2>1, <3>2, <4>1, ApiAssumption DEF NoRow, Slots, ApiAssumption
    <3>3. ASSUME NEW t, NEW i \in Live(t), Takes(c, t, i)
          PROVE  <<run'[c].row.table, run'[c].row.id>> \notin gone'[c]
      <4>1. run'[c].row.table = t /\ run'[c].row.id = i
        BY <3>3 DEF Takes
      <4>2. QED
        BY <2>1, <2>4, <4>1
    <3>4. \A t, k : WithKey(t, k) \subseteq Live(t)
      BY DEF WithKey
    <3>5. QED
      BY <2>1, <3>1, <3>2, <3>3, <3>4 DEF Looks
  <2>6. ASSUME NEW t \in Listed(c), NEW i \in run'[c].shown PROVE <<t, i>> \notin gone'[c]
    <3>1. CASE i \in run[c].shown
      BY <2>1, <3>1 DEF Unseen
    <3>2. CASE Step(c).do = "list" /\ i \in Live(Step(c).table)
      <4>1. t = Step(c).table
        BY <2>3, <3>2 DEF Listed, ListsOneTable, Steps
      <4>2. QED
        BY <2>1, <2>4, <3>2, <4>1
    <3>3. QED
      BY <2>1, <3>1, <3>2 DEF Shows
  <2>7. FoundOwn(c)' => <<Route(c).table, run[c].id>> \notin gone'[c]
    <3>1. CASE FoundOwn(c)
      BY <2>1, <3>1 DEF Unseen
    <3>2. CASE Step(c).do = "find" /\ Step(c).table = Route(c).table
      <4>1. run[c].id \in Live(Route(c).table)
        BY <2>1, <3>2 DEF Looks
      <4>2. QED
        BY <2>1, <2>4, <4>1
    <3>3. Now(c)' \in {Now(c), Now(c) + 1}
      BY <1>4 DEF WentOn, Now
    <3>4. ASSUME FoundOwn(c)', ~FoundOwn(c)
          PROVE  Step(c).do = "find" /\ Step(c).table = Route(c).table
      <4>1. PICK m \in 1 .. Now(c)' - 1 : Does(Steps(c), m, "find", Route(c).table)
        BY <2>2, <3>4 DEF FoundOwn
      <4>2. m \notin 1 .. Now(c) - 1
        BY <3>4, <4>1 DEF FoundOwn
      <4>3. m = Now(c)
        BY <2>3, <3>3, <4>1, <4>2
      <4>4. QED
        BY <2>3, <4>1, <4>3 DEF Does
    <3>5. QED
      BY <3>1, <3>2, <3>4
  <2>8. QED
    BY <1>4, <2>1, <2>2, <2>5, <2>6, <2>7
<1>5. QED
  BY <1>2, <1>3, <1>4 DEF Steps1, Comes, Fails, Executes, Idle

GoneInv ==
    Shape /\ \A c \in Clients : InHand(c) /\ Asking(c) /\ Unseen(c)

\* A request that begins after a row was deleted has nothing to do with it, as long as
\* it is not brought back by one that began before.
THEOREM DeletedStaysGone == Spec => DeletedIsGone
<1>1. Init => GoneInv
  <2> SUFFICES ASSUME Init PROVE GoneInv
    OBVIOUS
  <2>1. \A c \in Clients : ~run[c].busy
    BY ShapeInit DEF Idle
  <2>2. QED
    BY <2>1, ShapeInit DEF GoneInv, InHand, Asking, Unseen
<1>2. GoneInv /\ [Next]_vars => GoneInv'
  <2> SUFFICES ASSUME GoneInv, [Next]_vars PROVE GoneInv'
    OBVIOUS
  <2>1. CASE Next
    <3>1. PICK c \in Clients : Steps1(c)
      BY <2>1, StepCases DEF GoneInv
    <3>2. QED
      BY <3>1, ShapeNext, HandNext, AskingNext, UnseenNext DEF GoneInv
  <2>2. CASE UNCHANGED vars
    <3>1. Tables' = Tables /\ UNCHANGED <<part, tables, meant, run, gone>>
      BY <2>2 DEF vars, Tables
    <3>2. Shape'
      BY <3>1 DEF GoneInv, Shape
    <3>3. ASSUME NEW d \in Clients PROVE InHand(d)' /\ Asking(d)' /\ Unseen(d)'
      <4>1. Steps(d)' = Steps(d) /\ Now(d)' = Now(d) /\ Route(d)' = Route(d)
        BY <3>1, RequestStays
      <4>2. InHand(d) /\ Asking(d) /\ Unseen(d)
        BY DEF GoneInv
      <4>3. InHand(d)'
        BY <3>1, <4>1, <4>2 DEF InHand
      <4>4. Asking(d)'
        BY <3>1, <4>1, <4>2 DEF Asking
      <4>5. Listed(d)' = Listed(d) /\ FoundOwn(d)' = FoundOwn(d) /\ Slots' = Slots
        BY <3>1, <4>1 DEF Listed, FoundOwn, Slots
      <4>6. Unseen(d)'
        BY <3>1, <4>1, <4>2, <4>5 DEF Unseen
      <4>7. QED
        BY <4>3, <4>4, <4>6
    <3>4. QED
      BY <3>2, <3>3 DEF GoneInv
  <2>3. QED
    BY <2>1, <2>2
<1>3. GoneInv /\ [Next]_vars =>
        [\A c \in Busy : run'[c] # run[c] =>
            /\ gone[c] \cap Changed = {}
            /\ <<run[c].row.table, run[c].row.id>> \notin gone[c]
            /\ \A t \in Listed(c), i \in run[c].shown : <<t, i>> \notin gone[c]
            /\ At(c, "issue") /\ run[c].id # 0 =>
                   <<Route(c).table, run[c].id>> \notin gone[c]]_vars
  <2> SUFFICES ASSUME GoneInv, Next, NEW c \in Busy, run'[c] # run[c]
               PROVE  /\ gone[c] \cap Changed = {}
                      /\ <<run[c].row.table, run[c].row.id>> \notin gone[c]
                      /\ \A t \in Listed(c), i \in run[c].shown : <<t, i>> \notin gone[c]
                      /\ At(c, "issue") /\ run[c].id # 0 =>
                             <<Route(c).table, run[c].id>> \notin gone[c]
    OBVIOUS
  <2>1. c \in Clients /\ run[c].busy /\ Shape /\ InHand(c) /\ Asking(c) /\ Unseen(c)
    BY DEF Busy, GoneInv
  <2>2. Steps1(c)
    BY <2>1, StepCases DEF GoneInv, Steps1, OthersStay
  <2>3. ASSUME NEW x \in gone[c], x \in Changed PROVE FALSE
    <3>1. x[1] \in Tables /\ x[2] \in Ids /\ x = <<x[1], x[2]>> /\ tables[x[1]][x[2]].life = "deleted"
      BY <2>1, <2>3 DEF Unseen, Slots, Shape
    <3>2. Changes(c, x[1], x[2])
      BY <2>1, <2>2, <2>3, <3>1, RowsNext DEF Changed, SameSlot
    <3>3. ~Inserted(c, x[1], x[2]) /\ ~Deleted(c, x[1], x[2])
      BY <3>1 DEF Inserted, Deleted
    <3>4. x = <<run[c].row.table, run[c].row.id>>
      BY <3>1, <3>2, <3>3 DEF Changes, Saved
    <3>5. QED
      BY <2>1, <2>3, <3>4 DEF Unseen
  <2>4. ASSUME At(c, "issue"), run[c].id # 0 PROVE <<Route(c).table, run[c].id>> \notin gone[c]
    <3>1. Route(c).keyed \in KeyedById
      BY <2>1, <2>4 DEF Asking, Asks
    <3>2. IsRequest(run[c], Parts[part].routes) /\ part \in DOMAIN Parts
      BY <2>1 DEF Shape, Idle
    <3>3. IssuesToFound(Route(c), Steps(c))
      BY <3>2, RoutesAssumption DEF IsRequest, RoutesAssumption, Route, Steps
    <3>4. FoundOwn(c)
      BY <2>1, <2>4, <3>1, <3>3, StepIs DEF IssuesToFound, FoundOwn, At
    <3>5. QED
      BY <2>1, <3>4 DEF Unseen
  <2>5. QED
    BY <2>1, <2>3, <2>4 DEF Unseen
<1>4. QED
  BY <1>1, <1>2, <1>3, PTL DEF Spec, DeletedIsGone

-----------------------------------------------------------------------------
(***************************************************************************)
(* What a request changes or shows is what it was allowed. A request earns *)
(* the subject of its needs with the check of its route; what it touches   *)
(* is found to be of that subject, since no row changes its key.           *)
(***************************************************************************)
Guarded == {"any", "id", "held", "named"}
On(c) == Route(c).needs.on
InPath(c) == Route(c).keyed \in KeyedById

\* What the check before nearly every change is about.
Subject(c) ==
    CASE On(c) = "any" -> Wildcard
      [] On(c) \in {"id", "held"} -> run[c].id
      [] On(c) = "named" ->
             Named(Route(c).table, IF InPath(c) THEN Cols(Route(c).table, run[c].id).key
                                   ELSE run[c].key)

Earned(c) ==
    run[c].busy /\ On(c) \in Guarded /\ Checked(Route(c).needs, Steps(c), Now(c)) =>
        Subject(c) \in could[c]

\* A row that was found by the id of the path is stored.
FoundStored(c) ==
    run[c].busy => \A t \in Tables : \A m \in 1 .. Now(c) - 1 :
        Does(Steps(c), m, "find", t) => run[c].id \in Stored(t)

\* The row in hand is the one that was looked for.
Sought(s, n, t) == SoughtAt(s, n, t) \/ (n > 2 /\ SoughtAt(s, n - 1, t) /\ s[n - 1].do = "must")

HandFits(c) ==
    run[c].busy =>
        LET row == run[c].row
            s == Steps(c)
        IN  /\ \A t \in Tables : FoundByID(s, Now(c), t) => row.id = run[c].id
            /\ \A t \in Tables : Sought(s, Now(c), t) /\ row.id # 0 => row.cols.key = KeyFor(c, t)
            /\ (\A m \in 1 .. Now(c) - 1 : s[m].do \notin {"find", "seek"}) => row = NoRow

\* Rows of tables with fixed keys have one, and so they are in hand.
FixedHave ==
    \A t \in FixedKeys \cap Tables, i \in Ids :
        tables[t][i].life # "free" => "key" \in DOMAIN Cols(t, i)

FixedInHand(c) ==
    run[c].busy /\ run[c].row.id # 0 /\ run[c].row.table \in FixedKeys =>
        /\ "key" \in DOMAIN run[c].row.cols
        /\ run[c].row.cols.key = Cols(run[c].row.table, run[c].row.id).key

\* A list that is sifted: what has passed could be read.
Sifted(c) ==
    run[c].busy /\ On(c) = "listed" =>
        /\ run[c].all => Ids \subseteq could[c]
        /\ run[c].passed \subseteq could[c] /\ run[c].shown \subseteq Ids
        /\ Now(c) > 1 /\ Steps(c)[Now(c) - 1].do = "sift" => run[c].shown \subseteq run[c].passed

\* A list by key: what is shown still has it.
ShownOwn(c) ==
    run[c].busy /\ On(c) \in Guarded \ {"any"} => \A t \in Listed(c), i \in run[c].shown :
        i \in Stored(t) /\ Cols(t, i).key = run[c].key

CouldInv == \A c \in Clients : Allowed(c) \subseteq could[c]

LEMMA AccessConventions ==
    ASSUME Shape, NEW c \in Clients, run[c].busy
    PROVE  /\ KeepsKeys(Route(c), Steps(c)) /\ TouchesItsOwn(Route(c), Steps(c))
           /\ ChecksItsNeeds(Route(c), Steps(c))
           /\ Now(c) \in Nat \ {0} /\ Now(c) \in DOMAIN Steps(c) /\ Step(c) = Steps(c)[Now(c)]
<1>1. IsRequest(run[c], Parts[part].routes) /\ part \in DOMAIN Parts
  BY DEF Shape, Idle
<1>2. QED
  BY <1>1, RoutesAssumption, Conventions, StepIs DEF IsRequest, RoutesAssumption, Route, Steps

LEMMA FixedStay ==
    ASSUME Shape, NEW c \in Clients, Steps1(c), Asking(c), KeyInHand(c), StillSo(c), HasKey,
           InHand(c), FixedHave, FixedInHand(c)
    PROVE  /\ FixedHave'
           /\ \A t \in FixedKeys \cap Tables, i \in Ids :
                  tables[t][i].life # "free" => tables'[t][i].cols.key = tables[t][i].cols.key
<1>1. Tables' = Tables
  BY RowsNext
<1>2. ASSUME NEW t \in FixedKeys \cap Tables, NEW i \in Ids
      PROVE  /\ tables'[t][i].life # "free" => "key" \in DOMAIN tables'[t][i].cols
             /\ tables[t][i].life # "free" => tables'[t][i].cols.key = tables[t][i].cols.key
  <2>1. SameSlot(t, i) \/ (Executes(c) /\ Changes(c, t, i))
    BY RowsNext
  <2>2. CASE SameSlot(t, i)
    BY <2>2 DEF SameSlot, FixedHave, Cols
  <2>3. CASE Executes(c) /\ Inserted(c, t, i)
    <3>1. tables[t][i].life = "free"
      BY <2>3 DEF Inserted
    <3>2. "key" \in DOMAIN tables'[t][i].cols
      <4>1. CASE Step(c).do = "both"
        BY <2>3, <4>1, StepIs DEF Inserted, Does, Executes
      <4>2. CASE meant'[t][i] = With([key |-> KeyFor(c, t)], Given(c, t))
        <5>1. tables'[t][i].cols = meant'[t][i]
          BY <2>3 DEF Inserted
        <5>2. QED
          BY <4>2, <5>1 DEF With
      <4>3. QED
        BY <2>3, <4>1, <4>2 DEF Inserted
    <3>3. QED
      BY <3>1, <3>2
  <2>4. CASE Executes(c) /\ Saved(c, t, i)
    <3>1. CASE t \in KeyTables
      <4>1. "key" \in DOMAIN tables'[t][i].cols
        BY <2>4, <3>1, KeyChange DEF Executes
      <4>2. tables[t][i].life # "free" => tables'[t][i].cols.key = tables[t][i].cols.key
        BY <3>1, KeysStay
      <4>3. QED
        BY <4>1, <4>2
    <3>2. CASE t \notin KeyTables
      <4>1. run[c].busy /\ i = run[c].row.id /\ t = run[c].row.table /\ i # 0
        BY <2>4, ApiAssumption DEF Executes, Saved, ApiAssumption
      <4>2. /\ "key" \in DOMAIN run[c].row.cols
            /\ run[c].row.cols.key = tables[t][i].cols.key
        BY <4>1 DEF FixedInHand, Cols
      <4>3. Does(Steps(c), Now(c), "save", t)
        <5>1. Does(Steps(c), Now(c), "put", t) => t \in KeyTables
          BY <4>1, AccessConventions DEF KeepsKeys
        <5>2. QED
          BY <2>4, <3>2, <5>1 DEF Saved
      <4>4. "key" \notin Route(c).body.required \cup Route(c).body.optional
        BY <4>1, <4>3, AccessConventions DEF KeepsKeys
      <4>5. "key" \notin DOMAIN Given(c, t)
        BY <3>2, <4>1, <4>4 DEF Given, Asking, Asks, KeyTables
      <4>6. tables'[t][i].cols = With(Given(c, t), run[c].row.cols)
        BY <2>4 DEF Saved
      <4>7. QED
        BY <4>2, <4>5, <4>6 DEF With
    <3>3. QED
      BY <3>1, <3>2
  <2>5. CASE Deleted(c, t, i)
    <3>1. tables'[t][i].cols = tables[t][i].cols /\ tables[t][i].life = "live"
      BY <2>5 DEF Deleted, Cols
    <3>2. QED
      BY <3>1 DEF FixedHave, Cols
  <2>6. QED
    BY <2>1, <2>2, <2>3, <2>4, <2>5 DEF Changes
<1>3. QED
  BY <1>1, <1>2 DEF FixedHave, Cols

LEMMA FixedInHandNext ==
    ASSUME Shape, NEW c \in Clients, Steps1(c), Asking(c), KeyInHand(c), StillSo(c), HasKey,
           InHand(c), FixedHave, FixedInHand(c), NEW d \in Clients, InHand(d), FixedInHand(d)
    PROVE  FixedInHand(d)'
<1> SUFFICES ASSUME run'[d].busy, run'[d].row.id # 0, run'[d].row.table \in FixedKeys
             PROVE  /\ "key" \in DOMAIN run'[d].row.cols
                    /\ run'[d].row.cols.key = tables'[run'[d].row.table][run'[d].row.id].cols.key
  BY DEF FixedInHand, Cols
<1>1. CASE run'[d].row = run[d].row /\ run[d].busy
  <2>1. run[d].row.table \in Tables /\ run[d].row.id \in Ids
        /\ tables[run[d].row.table][run[d].row.id].life # "free"
    BY <1>1 DEF InHand
  <2>2. /\ "key" \in DOMAIN run[d].row.cols
        /\ run[d].row.cols.key = tables[run[d].row.table][run[d].row.id].cols.key
    BY <1>1 DEF FixedInHand, Cols
  <2>3. tables'[run[d].row.table][run[d].row.id].cols.key
            = tables[run[d].row.table][run[d].row.id].cols.key
    BY <1>1, <2>1, FixedStay
  <2>4. QED
    BY <1>1, <2>2, <2>3
<1>2. CASE d = c /\ Executes(c) /\ WentOn(c) /\ Step(c).do \in {"find", "seek"}
  <2>1. /\ run'[c].row.table = Step(c).table /\ Step(c).table \in Tables
        /\ run'[c].row.id \in Ids /\ tables[Step(c).table][run'[c].row.id].life = "live"
        /\ run'[c].row.cols = tables[Step(c).table][run'[c].row.id].cols
        /\ tables'[Step(c).table][run'[c].row.id] = tables[Step(c).table][run'[c].row.id]
    BY <1>2, Looking DEF Live, Cols
  <2>2. QED
    BY <1>2, <2>1 DEF FixedHave, Cols
<1>3. CASE d # c
  BY <1>1, <1>3 DEF Steps1, OthersStay
<1>4. CASE d = c /\ Executes(c) /\ WentOn(c) /\ Step(c).do \notin {"find", "seek"}
  BY <1>1, <1>4 DEF WentOn, Looks, Executes
<1>5. ~Begins(c) \/ d # c
  BY DEF Begins, NoRow
<1>6. run'[d] # Idle
  BY DEF Idle
<1>7. QED
  BY <1>2, <1>3, <1>4, <1>5, <1>6 DEF Steps1, Comes, Fails, Executes

LEMMA FoundStoredNext ==
    ASSUME Shape, NEW c \in Clients, Steps1(c), NEW d \in Clients, FoundStored(d)
    PROVE  FoundStored(d)'
<1> SUFFICES ASSUME run'[d].busy, NEW t \in Tables, NEW m \in 1 .. Now(d)' - 1,
                    Does(Steps(d)', m, "find", t)
             PROVE  run'[d].id \in Ids /\ tables'[t][run'[d].id].life # "free"
  <2>1. Tables' = Tables
    BY RowsNext
  <2>2. QED
    BY <2>1 DEF FoundStored, Stored
<1>1. part' = part
  BY DEF Steps1
<1>2. ASSUME run'[d].id = run[d].id, run[d].id \in Stored(t)
      PROVE  run'[d].id \in Ids /\ tables'[t][run'[d].id].life # "free"
  BY <1>2, TakenStays DEF Stored
<1>3. CASE d # c
  <2>1. run'[d] = run[d] /\ Steps(d)' = Steps(d) /\ Now(d)' = Now(d)
    BY <1>1, <1>3, RequestStays DEF Steps1, OthersStay
  <2>2. run[d].id \in Stored(t)
    BY <2>1 DEF FoundStored
  <2>3. QED
    BY <1>2, <2>1, <2>2
<1>4. CASE d = c /\ Begins(c)
  <2>1. Now(d)' = 1
    BY <1>4 DEF Begins, Now
  <2>2. QED
    BY <2>1
<1>5. CASE d = c /\ Executes(c) /\ WentOn(c)
  <2>1. /\ run[c].busy /\ Steps(c)' = Steps(c) /\ run'[c].id = run[c].id /\ Looks(c)
        /\ Now(c)' \in {Now(c), Now(c) + 1}
    BY <1>1, <1>5, RequestGoes DEF Executes, WentOn, Keeps, Now
  <2>2. Now(c) \in Nat \ {0} /\ Step(c) = Steps(c)[Now(c)]
    BY <2>1, AccessConventions
  <2>3. CASE m \in 1 .. Now(c) - 1
    BY <1>2, <1>5, <2>1, <2>3 DEF FoundStored
  <2>4. CASE m = Now(c)
    <3>1. Step(c).do = "find" /\ Step(c).table = t
      BY <1>5, <2>1, <2>2, <2>4 DEF Does
    <3>2. run[c].id \in Live(t)
      BY <2>1, <3>1 DEF Looks
    <3>3. run[c].id \in Stored(t)
      BY <3>2 DEF Live, Stored
    <3>4. QED
      BY <1>2, <1>5, <2>1, <3>3
  <2>5. QED
    BY <1>5, <2>1, <2>2, <2>3, <2>4
<1>6. QED
  BY <1>3, <1>4, <1>5 DEF Steps1, Comes, Fails, Executes, Idle

LEMMA FoundByIDNext ==
    ASSUME NEW s, NEW n \in Nat \ {0}, NEW t, FoundByID(s, n + 1, t)
    PROVE  \/ s[n].do = "find" /\ s[n].table = t
           \/ s[n].do \notin {"find", "seek"} /\ FoundByID(s, n, t)
<1>1. PICK m \in 1 .. n : Does(s, m, "find", t) /\ \A k \in m + 1 .. n : s[k].do \notin {"find", "seek"}
  <2>1. n + 1 - 1 = n
    OBVIOUS
  <2>2. \E m \in 1 .. n + 1 - 1 : /\ Does(s, m, "find", t)
                                  /\ \A k \in m + 1 .. n + 1 - 1 : s[k].do \notin {"find", "seek"}
    BY DEF FoundByID
  <2>3. QED
    BY <2>1, <2>2
<1>2. CASE m = n
  BY <1>1, <1>2 DEF Does
<1>3. CASE m # n
  <2>1. m \in 1 .. n - 1 /\ n \in m + 1 .. n /\ \A k \in m + 1 .. n - 1 : k \in m + 1 .. n
    BY <1>3
  <2>2. QED
    BY <1>1, <2>1 DEF FoundByID
<1>4. QED
  BY <1>2, <1>3

\* What follows from a step of a request that goes on.
LEMMA GoesOn ==
    ASSUME Shape, NEW c \in Clients, Steps1(c), Executes(c), WentOn(c)
    PROVE  /\ run[c].busy /\ run'[c].busy
           /\ Route(c)' = Route(c) /\ Steps(c)' = Steps(c) /\ On(c)' = On(c)
           /\ Now(c) \in Nat \ {0} /\ Now(c) \in DOMAIN Steps(c) /\ Step(c) = Steps(c)[Now(c)]
           /\ \/ Now(c)' = Now(c) + 1 /\ Now(c) + 1 - 1 = Now(c) /\ Step(c).do # "reply"
              \/ Now(c)' = Now(c) /\ Step(c).do = "sift"
           /\ Looks(c) /\ Keeps(c)
           /\ Step(c).do \notin {"find", "seek"} => run'[c].row = run[c].row
           /\ Step(c).do \notin {"create", "both", "put"} => \A t : KeyFor(c, t)' = KeyFor(c, t)
<1>1. run[c].busy /\ part' = part
  BY DEF Executes, Steps1
<1>2. Now(c) \in Nat \ {0} /\ Now(c) \in DOMAIN Steps(c) /\ Step(c) = Steps(c)[Now(c)]
  BY <1>1, Conventions, StepIs
<1>3. /\ Route(c)' = Route(c) /\ Steps(c)' = Steps(c)
      /\ run'[c].new = run[c].new => \A t : KeyFor(c, t)' = KeyFor(c, t)
  BY <1>1, RequestGoes
<1>4. /\ run'[c].busy /\ Looks(c) /\ Keeps(c)
      /\ Step(c).do \notin {"create", "both", "put"} => run'[c].new = run[c].new
      /\ \/ run'[c].at = run[c].at + 1 /\ Step(c).do # "reply"
         \/ run'[c].at = run[c].at /\ Step(c).do = "sift"
  BY DEF WentOn
<1>5. Step(c).do \notin {"find", "seek"} => run'[c].row = run[c].row
  BY <1>4 DEF Looks
<1>6. \/ Now(c)' = Now(c) + 1 /\ Now(c) + 1 - 1 = Now(c) /\ Step(c).do # "reply"
      \/ Now(c)' = Now(c) /\ Step(c).do = "sift"
  BY <1>2, <1>4 DEF Now
<1>7. QED
  BY <1>1, <1>2, <1>3, <1>4, <1>5, <1>6 DEF On

LEMMA HandFitsNext ==
    ASSUME Shape, NEW c \in Clients, Steps1(c), NEW d \in Clients, HandFits(d)
    PROVE  HandFits(d)'
<1> SUFFICES ASSUME run'[d].busy PROVE HandFits(d)'
  BY DEF HandFits
<1>1. part' = part /\ Tables' = Tables
  BY RowsNext DEF Steps1
<1>2. CASE d # c
  <2>1. run'[d] = run[d]
    BY <1>2 DEF Steps1, OthersStay
  <2>2. Steps(d)' = Steps(d) /\ Now(d)' = Now(d) /\ \A t : KeyFor(d, t)' = KeyFor(d, t)
    BY <1>1, <2>1, RequestStays
  <2>3. QED
    BY <1>1, <2>1, <2>2 DEF HandFits
<1>3. CASE d = c /\ Begins(c)
  <2>1. run'[c].row = NoRow /\ Now(c)' = 1 /\ NoRow.id = 0
    BY <1>3 DEF Begins, Now, NoRow
  <2>2. \A t : ~FoundByID(Steps(c)', 1, t) /\ ~Sought(Steps(c)', 1, t)
    BY DEF FoundByID, Sought, SoughtAt
  <2>3. QED
    BY <1>3, <2>1, <2>2 DEF HandFits
<1>4. CASE d = c /\ Executes(c) /\ WentOn(c)
  <2> DEFINE s == Steps(c)
             n == Now(c)
  <2>1. /\ run[c].busy /\ Steps(c)' = s /\ n \in Nat \ {0} /\ Step(c) = s[n]
        /\ Now(c)' \in {n, n + 1} /\ n + 1 - 1 = n /\ (Now(c)' = n => s[n].do = "sift")
        /\ Looks(c) /\ run'[c].id = run[c].id
        /\ s[n].do \notin {"find", "seek"} => run'[c].row = run[c].row
        /\ s[n].do \notin {"create", "both", "put"} => \A t : KeyFor(c, t)' = KeyFor(c, t)
    <3>1. n \in Nat => n + 1 - 1 = n
      OBVIOUS
    <3>2. QED
      BY <1>4, <3>1, GoesOn DEF Keeps
  <2>2. /\ \A t \in Tables : FoundByID(s, n, t) => run[c].row.id = run[c].id
        /\ \A t \in Tables : Sought(s, n, t) /\ run[c].row.id # 0 => run[c].row.cols.key = KeyFor(c, t)
        /\ (\A m \in 1 .. n - 1 : s[m].do \notin {"find", "seek"}) => run[c].row = NoRow
    BY <1>4, <2>1 DEF HandFits
  <2> HIDE DEF s, n
  <2>3. \A t, i : Takes(c, t, i) => /\ run'[c].row.id = i /\ run'[c].row.cols = Cols(t, i)
    BY DEF Takes
  <2>4. ASSUME NEW t \in Tables, FoundByID(s, Now(c)', t)
        PROVE  run'[c].row.id = run'[c].id
    <3>1. CASE Now(c)' = n
      BY <2>1, <2>2, <2>4, <3>1
    <3>2. CASE Now(c)' = n + 1
      <4>1. \/ s[n].do = "find" /\ s[n].table = t
            \/ s[n].do \notin {"find", "seek"} /\ FoundByID(s, n, t)
        BY <2>1, <2>4, <3>2, FoundByIDNext
      <4>2. CASE s[n].do = "find"
        BY <2>1, <2>3, <4>2 DEF Looks
      <4>3. QED
        BY <2>1, <2>2, <4>1, <4>2
    <3>3. QED
      BY <2>1, <3>1, <3>2
  <2>5. ASSUME NEW t \in Tables, Sought(s, Now(c)', t), run'[c].row.id # 0
        PROVE  run'[c].row.cols.key = KeyFor(c, t)'
    <3>1. CASE Now(c)' = n
      BY <2>1, <2>2, <2>5, <3>1
    <3>2. CASE Now(c)' = n + 1 /\ SoughtAt(s, n + 1, t)
      <4>1. s[n].do = "seek" /\ s[n].table = t
        BY <2>1, <3>2, SoughtNext
      <4>2. ASSUME NEW i \in WithKey(t, KeyFor(c, t)), Takes(c, t, i)
            PROVE  run'[c].row.cols.key = KeyFor(c, t)
        BY <2>3, <4>2 DEF WithKey
      <4>3. run'[c].row # NoRow
        BY <2>5 DEF NoRow
      <4>4. QED
        BY <2>1, <4>1, <4>2, <4>3 DEF Looks
    <3>3. CASE Now(c)' = n + 1 /\ SoughtAt(s, n, t) /\ s[n].do = "must"
      <4>1. Sought(s, n, t)
        BY <3>3 DEF Sought
      <4>2. QED
        BY <2>1, <2>2, <2>5, <3>3, <4>1
    <3>4. Now(c)' = n + 1 => SoughtAt(s, n + 1, t) \/ (SoughtAt(s, n, t) /\ s[n].do = "must")
      BY <2>1, <2>5 DEF Sought
    <3>5. QED
      BY <2>1, <3>1, <3>2, <3>3, <3>4
  <2>6. ASSUME \A m \in 1 .. Now(c)' - 1 : s[m].do \notin {"find", "seek"} PROVE run'[c].row = NoRow
    <3>1. CASE Now(c)' = n
      BY <2>1, <2>2, <2>6, <3>1
    <3>2. CASE Now(c)' = n + 1
      <4>1. \A m \in 1 .. n : s[m].do \notin {"find", "seek"}
        BY <2>1, <2>6, <3>2
      <4>2. n \in 1 .. n /\ \A m \in 1 .. n - 1 : m \in 1 .. n
        BY <2>1
      <4>3. QED
        BY <2>1, <2>2, <4>1, <4>2
    <3>3. QED
      BY <2>1, <3>1, <3>2
  <2>7. QED
    BY <1>1, <1>4, <2>1, <2>4, <2>5, <2>6 DEF HandFits
<1>5. QED
  BY <1>2, <1>3, <1>4 DEF Steps1, Comes, Fails, Executes, Idle

LEMMA CouldIs ==
    ASSUME NEW c \in Clients, Steps1(c), NEW d \in Clients
    PROVE  /\ Allowed(d)' \subseteq could'[d]
           /\ run[d].busy => could[d] \subseteq could'[d]
BY DEF Steps1, Watch, Busy

LEMMA Answers ==
    /\ \A user, type, id, level : Access(user, type, id, level) \subseteq BOOLEAN
    /\ \A user, id, owner, level : CanAccess(user, id, owner, level) \subseteq BOOLEAN
<1>1. \A user, type, id, level : Access(user, type, id, level) \subseteq BOOLEAN
  BY DEF Access, HasAccessLevel
<1>2. ASSUME NEW user, NEW id, NEW owner, NEW level, NEW x \in CanAccess(user, id, owner, level)
      PROVE  x \in BOOLEAN
  <2>1. CASE owner = user
    BY <1>2, <2>1 DEF CanAccess
  <2>2. CASE owner # user
    <3>1. PICK a \in BOOLEAN, b \in BOOLEAN : x = (a \/ b)
      BY <1>1, <1>2, <2>2 DEF CanAccess
    <3>2. QED
      BY <3>1
  <2>3. QED
    BY <2>1, <2>2
<1>3. QED
  BY <1>1, <1>2

\* Who goes on after the check of its route could do what the check is about.
LEMMA CheckTells ==
    ASSUME Shape, NEW c \in Clients, Steps1(c), Executes(c), WentOn(c), Step(c).do = "check",
           InHand(c), Asking(c), HandFits(c), FixedInHand(c), CouldInv, On(c) \in Guarded,
           LET needs == Route(c).needs
           IN  Step(c).on = needs.on /\ Step(c).type = needs.type /\ Step(c).level = needs.level
    PROVE  Subject(c) \in could[c]
<1> DEFINE r == run[c]
           needs == Route(c).needs
           t == Route(c).table
           x == Named(t, IF r.row.id = 0 THEN r.key ELSE r.row.cols.key)
<1>1. /\ r.busy /\ Step(c) = Steps(c)[Now(c)] /\ Now(c) \in DOMAIN Steps(c)
      /\ Step(c).do = "check" /\ On(c) = needs.on
      /\ Step(c).on = On(c) /\ Step(c).type = needs.type /\ Step(c).level = needs.level
      /\ ChecksItsNeeds(Route(c), Steps(c)) /\ KeepsKeys(Route(c), Steps(c))
  BY GoesOn, AccessConventions DEF On
<1>2. Check(c)
  BY DEF Executes, Statement, May, Check, FindByID, Seek, Decide, Create, CreateBoth, Save, Put,
         Delete, SeesAll, List, Sift, IssueTokens, Reply, At
<1>3. ~End(c)
  BY DEF End, WentOn, Shape, Idle
<1>4. ASSUME NEW answers, answers \subseteq BOOLEAN,
             \E answer \in answers : IF answer THEN Continue(c) ELSE End(c)
      PROVE  TRUE \in answers
  BY <1>3, <1>4
<1>5. Allowed(c) \subseteq could[c]
  BY DEF CouldInv
<1> HIDE DEF x
<1>6. CASE On(c) = "any"
  <2>0. TRUE \in Access(r.user, needs.type, Wildcard, needs.level)
    <3>1. \E answer \in Access(r.user, needs.type, Wildcard, needs.level) : IF answer THEN Continue(c) ELSE End(c)
      BY <1>1, <1>2, <1>6 DEF Check, x
    <3>2. QED
      BY <1>4, <3>1, Answers
  <2>1. Asked(c) = {Wildcard}
    BY <1>1, <1>6 DEF Asked
  <2>2. Met(c, Wildcard)
    BY <1>1, <1>6, <2>0 DEF Met
  <2>3. QED
    BY <1>5, <1>6, <2>1, <2>2 DEF Allowed, Subject
<1>7. CASE On(c) = "id"
  <2>0. TRUE \in Access(r.user, needs.type, r.id, needs.level)
    <3>1. \E answer \in Access(r.user, needs.type, r.id, needs.level) : IF answer THEN Continue(c) ELSE End(c)
      BY <1>1, <1>2, <1>7 DEF Check, x
    <3>2. QED
      BY <1>4, <3>1, Answers
  <2>1. Asked(c) = {r.id}
    BY <1>1, <1>7 DEF Asked
  <2>2. Met(c, r.id)
    BY <1>1, <1>7, <2>0 DEF Met
  <2>3. QED
    BY <1>5, <1>7, <2>1, <2>2 DEF Allowed, Subject
<1>8. CASE On(c) = "held"
  <2>0. TRUE \in CanAccess(r.user, r.id, r.row.cols.key, needs.level)
    <3>1. \E answer \in CanAccess(r.user, r.id, r.row.cols.key, needs.level) : IF answer THEN Continue(c) ELSE End(c)
      BY <1>1, <1>2, <1>8 DEF Check, x
    <3>2. QED
      BY <1>4, <3>1, Answers
  <2>1. FoundByID(Steps(c), Now(c), "conversation")
    BY <1>1, <1>8 DEF ChecksItsNeeds
  <2>2. /\ r.row.id # 0 /\ r.row.table = "conversation" /\ "conversation" \in Tables
    BY <1>1, <2>1 DEF InHand, FoundAt
  <2>3. r.row.id = r.id
    BY <1>1, <2>1, <2>2 DEF HandFits
  <2>4. r.row.cols.key = Cols("conversation", r.id).key
    BY <1>1, <2>2, <2>3 DEF FixedInHand, FixedKeys
  <2>5. Asked(c) = {r.id}
    BY <1>1, <1>8 DEF Asked
  <2>6. Met(c, r.id)
    BY <1>1, <1>8, <2>0, <2>4 DEF Met
  <2>7. QED
    BY <1>5, <1>8, <2>5, <2>6 DEF Allowed, Subject
<1>9. CASE On(c) = "named"
  <2>0. TRUE \in Access(r.user, x[1], x[2], needs.level)
    <3>1. \E answer \in Access(r.user, x[1], x[2], needs.level) : IF answer THEN Continue(c) ELSE End(c)
      BY <1>1, <1>2, <1>9 DEF Check, x
    <3>2. QED
      BY <1>4, <3>1, Answers
  <2>1. t \in FixedKeys
    BY <1>1, <1>9 DEF KeepsKeys
  <2>2. x \in Asked(c) /\ x = Subject(c)
    <3>1. CASE InPath(c)
      <4>1. FoundByID(Steps(c), Now(c), t)
        BY <1>1, <1>9, <3>1 DEF ChecksItsNeeds, InPath
      <4>2. /\ r.row.id # 0 /\ r.row.table = t /\ t \in Tables /\ r.row.id \in Stored(t)
        BY <1>1, <4>1 DEF InHand, FoundAt, Stored
      <4>3. r.row.id = r.id
        BY <1>1, <4>1, <4>2 DEF HandFits
      <4>4. r.row.cols.key = Cols(t, r.id).key
        BY <1>1, <2>1, <4>2, <4>3 DEF FixedInHand
      <4>5. x = Named(t, Cols(t, r.id).key)
        BY <4>2, <4>4 DEF x
      <4>6. Asked(c) = {Named(t, k) : k \in {Cols(t, i).key : i \in {r.id} \cap Stored(t)}}
        BY <1>1, <1>9, <4>2, <4>3 DEF Asked
      <4>7. r.id \in {r.id} \cap Stored(t)
        BY <4>2, <4>3
      <4>8. QED
        BY <1>9, <3>1, <4>5, <4>6, <4>7 DEF Subject
    <3>2. CASE ~InPath(c)
      <4>1. r.id = 0
        BY <1>1, <3>2 DEF Asking, Asks, InPath
      <4>2. r.row = NoRow
        BY <1>1, <1>9, <3>2 DEF ChecksItsNeeds, InPath, HandFits
      <4>3. x = Named(t, r.key)
        BY <4>2 DEF x, NoRow
      <4>4. Asked(c) = {Named(t, k) : k \in {r.key}}
        BY <1>1, <1>9, <4>1 DEF Asked
      <4>5. QED
        BY <1>9, <3>2, <4>3, <4>4 DEF Subject
    <3>3. QED
      BY <3>1, <3>2
  <2>3. Met(c, x)
    BY <1>1, <1>9, <2>0 DEF Met
  <2>4. QED
    BY <1>5, <2>2, <2>3 DEF Allowed
<1>10. QED
  BY <1>6, <1>7, <1>8, <1>9 DEF Guarded

\* What a check was about stays the same: a name is that of a row that was found.
LEMMA CheckedFound ==
    ASSUME Shape, NEW d \in Clients, run[d].busy, On(d) = "named", InPath(d),
           \/ Checked(Route(d).needs, Steps(d), Now(d))
           \/ Step(d).do = "check"
    PROVE  /\ Route(d).table \in FixedKeys \cap Tables
           /\ \E m \in 1 .. Now(d) - 1 : Does(Steps(d), m, "find", Route(d).table)
<1> DEFINE s == Steps(d)
           n == Now(d)
           t == Route(d).table
<1>1. /\ KeepsKeys(Route(d), s) /\ ChecksItsNeeds(Route(d), s) /\ n \in Nat \ {0}
      /\ n \in DOMAIN s /\ Step(d) = s[n]
  BY AccessConventions
<1>2. IsRequest(run[d], Parts[part].routes) /\ part \in DOMAIN Parts
  BY DEF Shape, Idle
<1>3. \A m \in DOMAIN s : s[m].do \in OnTables => s[m].table \in Tables
  BY <1>2, RoutesAssumption DEF IsRequest, RoutesAssumption, Route, Steps, Tables
<1>4. \E m \in 1 .. n : m \in DOMAIN s /\ s[m].do = "check"
  <2>1. CASE Step(d).do = "check"
    <3>1. n \in 1 .. n
      BY <1>1
    <3>2. QED
      BY <1>1, <2>1, <3>1
  <2>2. CASE Checked(Route(d).needs, s, n)
    <3>1. PICK m \in 1 .. n - 1 : s[m].do = "check"
      BY <2>2 DEF Checked
    <3>2. m \in 1 .. n
      BY <1>1
    <3>3. EndsWithReply(s)
      BY <1>2, RoutesAssumption DEF IsRequest, RoutesAssumption, Route, Steps
    <3>4. DOMAIN s = 1 .. Len(s) /\ Len(s) \in Nat
      BY <3>3 DEF EndsWithReply
    <3>5. m \in DOMAIN s
      BY <1>1, <3>4
    <3>6. QED
      BY <3>1, <3>2, <3>5
  <2>3. QED
    BY <2>1, <2>2
<1>5. PICK m \in 1 .. n : m \in DOMAIN s /\ s[m].do = "check"
  BY <1>4
<1>6. FoundByID(s, m, t)
  BY <1>1, <1>5 DEF ChecksItsNeeds, On, InPath
<1>7. PICK k \in 1 .. m - 1 : Does(s, k, "find", t)
  BY <1>6 DEF FoundByID
<1>8. t \in FixedKeys
  BY <1>1 DEF KeepsKeys, On
<1>9. t \in Tables
  BY <1>3, <1>7 DEF Does, OnTables
<1>10. k \in 1 .. n - 1
  BY <1>1, <1>5, <1>7
<1>11. QED
  BY <1>7, <1>8, <1>9, <1>10

LEMMA SubjectStays ==
    ASSUME Shape, NEW c \in Clients, Steps1(c), Asking(c), KeyInHand(c), StillSo(c), HasKey,
           InHand(c), FixedHave, FixedInHand(c),
           NEW d \in Clients, FoundStored(d), run[d].busy, Route(d)' = Route(d),
           run'[d].id = run[d].id, run'[d].key = run[d].key,
           Checked(Route(d).needs, Steps(d), Now(d)) \/ Step(d).do = "check"
    PROVE  Subject(d)' = Subject(d)
<1>1. On(d)' = On(d) /\ InPath(d)' = InPath(d)
  BY DEF On, InPath
<1>2. CASE On(d) = "named" /\ InPath(d)
  <2> DEFINE t == Route(d).table
  <2>1. /\ t \in FixedKeys \cap Tables
        /\ \E m \in 1 .. Now(d) - 1 : Does(Steps(d), m, "find", t)
    BY <1>2, CheckedFound
  <2>2. run[d].id \in Stored(t)
    BY <2>1 DEF FoundStored
  <2>3. tables'[t][run[d].id].cols.key = tables[t][run[d].id].cols.key
    BY <2>1, <2>2, FixedStay DEF Stored
  <2>4. QED
    BY <1>1, <1>2, <2>3 DEF Subject, Cols
<1>3. CASE ~(On(d) = "named" /\ InPath(d))
  BY <1>1, <1>3 DEF Subject
<1>4. QED
  BY <1>2, <1>3

LEMMA EarnedNext ==
    ASSUME Shape, NEW c \in Clients, Steps1(c), Asking(c), KeyInHand(c), StillSo(c), HasKey,
           InHand(c), FixedHave, FixedInHand(c), HandFits(c), CouldInv,
           NEW d \in Clients, FoundStored(d), Earned(d)
    PROVE  Earned(d)'
<1> SUFFICES ASSUME run'[d].busy, On(d)' \in Guarded,
                    Checked(Route(d)'.needs, Steps(d)', Now(d)')
             PROVE  Subject(d)' \in could'[d]
  BY DEF Earned
<1>1. part' = part
  BY DEF Steps1
<1>2. CASE d # c
  <2>1. run'[d] = run[d] /\ run[d].busy
    BY <1>2 DEF Steps1, OthersStay
  <2>2. Route(d)' = Route(d) /\ Steps(d)' = Steps(d) /\ Now(d)' = Now(d) /\ On(d)' = On(d)
    BY <1>1, <2>1, RequestStays DEF On
  <2>3. Subject(d)' = Subject(d)
    BY <2>1, <2>2, SubjectStays
  <2>4. QED
    BY <2>1, <2>2, <2>3, CouldIs DEF Earned
<1>3. CASE d = c /\ Begins(c)
  <2>1. Now(c)' = 1
    BY <1>3 DEF Begins, Now
  <2>2. QED
    BY <1>3, <2>1 DEF Checked
<1>4. CASE d = c /\ Executes(c) /\ WentOn(c)
  <2> DEFINE needs == Route(c).needs
  <2>1. /\ run[c].busy /\ Route(c)' = Route(c) /\ Steps(c)' = Steps(c) /\ On(c)' = On(c)
        /\ Now(c) \in Nat \ {0} /\ Step(c) = Steps(c)[Now(c)] /\ Now(c)' \in {Now(c), Now(c) + 1}
        /\ Keeps(c)
    BY <1>4, GoesOn
  <2>2. \/ Checked(needs, Steps(c), Now(c))
        \/ /\ Step(c).do = "check" /\ Step(c).on = needs.on /\ Step(c).type = needs.type
           /\ Step(c).level = needs.level
    <3>1. PICK m \in 1 .. Now(c)' - 1 :
            /\ Steps(c)[m].do = "check" /\ Steps(c)[m].on = needs.on
            /\ Steps(c)[m].type = needs.type /\ Steps(c)[m].level = needs.level
      BY <1>4, <2>1 DEF Checked
    <3>2. m \in 1 .. Now(c) - 1 \/ m = Now(c)
      BY <2>1
    <3>3. QED
      BY <2>1, <3>1, <3>2 DEF Checked
  <2>3. Subject(c)' = Subject(c)
    BY <1>4, <2>1, <2>2, SubjectStays DEF Keeps
  <2>4. Subject(c) \in could[c]
    <3>1. CASE Checked(needs, Steps(c), Now(c))
      BY <1>4, <2>1, <3>1 DEF Earned
    <3>2. CASE ~Checked(needs, Steps(c), Now(c))
      BY <1>4, <2>1, <2>2, <3>2, CheckTells
    <3>3. QED
      BY <3>1, <3>2
  <2>5. QED
    BY <1>4, <2>1, <2>3, <2>4, CouldIs
<1>5. QED
  BY <1>2, <1>3, <1>4 DEF Steps1, Comes, Fails, Executes, Idle

\* A request that changes a row goes on after it.
LEMMA ChangesGoOn ==
    ASSUME Shape, NEW c \in Clients, Steps1(c), InHand(c), NEW t \in Tables, NEW i \in Ids,
           tables'[t][i] # tables[t][i]
    PROVE  Executes(c) /\ WentOn(c) /\ Changes(c, t, i)
<1>1. Executes(c) /\ Changes(c, t, i) /\ run[c].busy /\ Statement(c)
  BY RowsNext DEF SameSlot, Executes
<1>2. run'[c].busy => run'[c] # Idle
  BY DEF Idle
<1>3. ~UNCHANGED tables
  OBVIOUS
<1>4. CASE Inserted(c, t, i)
  <2>1. CASE Step(c).do = "both"
    <3>1. CreateBoth(c)
      BY <1>1, <2>1
         DEF Statement, May, Check, FindByID, Seek, Decide, Create, CreateBoth, Save, Put,
             Delete, SeesAll, List, Sift, IssueTokens, Reply, At
    <3>2. QED
      BY <1>1, <3>1, CreateBothRows
  <2>2. CASE Step(c).do # "both"
    BY <1>1, <1>2, <1>4, <2>2 DEF Inserted, Executes
  <2>3. QED
    BY <2>1, <2>2
<1>5. CASE Saved(c, t, i)
  <2>1. run[c].row.id # 0 /\ Step(c).do \in {"save", "put"}
    BY <1>1, <1>5, StepIs, ApiAssumption DEF Saved, Does, ApiAssumption
  <2>2. Overwrite(c, Step(c).table)
    BY <1>1, <2>1
       DEF Statement, May, Check, FindByID, Seek, Decide, Create, CreateBoth, Save, Put,
           Delete, SeesAll, List, Sift, IssueTokens, Reply, At
  <2>3. Continue(c)
    BY <1>3, <2>2 DEF Overwrite
  <2>4. QED
    BY <1>1, <2>1, <2>3, Continues
<1>6. CASE Deleted(c, t, i)
  <2>1. Step(c).do = "delete" /\ Step(c).table = t
    BY <1>1, <1>6, StepIs DEF Deleted, Does
  <2>2. Delete(c)
    BY <1>1, <2>1
       DEF Statement, May, Check, FindByID, Seek, Decide, Create, CreateBoth, Save, Put,
           Delete, SeesAll, List, Sift, IssueTokens, Reply, At
  <2>3. i \in Live(t) \cap (IF Step(c).by = "key" THEN Ids ELSE {run[c].id})
                      \cap (IF Step(c).by = "id" THEN Ids ELSE WithKey(t, run[c].key))
    BY <1>6 DEF Deleted, Live, WithKey
  <2>4. Continue(c)
    BY <2>1, <2>2, <2>3 DEF Delete
  <2>5. QED
    BY <1>1, <2>1, <2>4, Continues
<1>7. QED
  BY <1>1, <1>4, <1>5, <1>6 DEF Changes

\* A change of the row of the path, and of a row with the key of the request.
LEMMA OfPathIs ==
    ASSUME Shape, NEW c \in Clients, run[c].busy, InHand(c), HandFits(c),
           NEW t \in Tables, NEW i \in Ids, Changes(c, t, i), OfPath(Steps(c), Now(c))
    PROVE  i = run[c].id /\ tables[t][i].life # "free" /\ t = Step(c).table
<1>1. Step(c) = Steps(c)[Now(c)] /\ Step(c).do \in {"save", "delete"}
  BY StepIs DEF OfPath
<1>2. ~Inserted(c, t, i)
  BY <1>1 DEF Inserted, Does
<1>3. CASE Saved(c, t, i)
  <2>1. Step(c).do = "save" /\ t = Step(c).table /\ i = run[c].row.id
    BY <1>1, <1>3 DEF Saved, Does
  <2>2. FoundByID(Steps(c), Now(c), t)
    BY <1>1, <2>1 DEF OfPath
  <2>3. i = run[c].id
    BY <2>1, <2>2 DEF HandFits
  <2>4. tables[t][i].life # "free"
    BY <1>3, ApiAssumption DEF Saved, InHand, ApiAssumption
  <2>5. QED
    BY <2>1, <2>3, <2>4
<1>4. CASE Deleted(c, t, i)
  BY <1>1, <1>4 DEF Deleted, Does, OfPath
<1>5. QED
  BY <1>2, <1>3, <1>4 DEF Changes

LEMMA OfKeyIs ==
    ASSUME Shape, NEW c \in Clients, Steps1(c), Asking(c), KeyInHand(c), StillSo(c), HasKey,
           InHand(c), FixedHave, FixedInHand(c), HandFits(c), FoundStored(c), run[c].busy,
           NEW t \in Tables, NEW i \in Ids, Changes(c, t, i),
           OfKey(Route(c), Steps(c), Now(c)),
           Checked(Route(c).needs, Steps(c), Now(c)) \/ On(c) # "held"
    PROVE  tables'[t][i].cols.key = run[c].key /\ t = Step(c).table
<1> DEFINE s == Steps(c)
           n == Now(c)
<1>1. /\ Step(c) = s[n] /\ n \in DOMAIN s /\ n \in Nat \ {0} /\ Step(c).do # "both"
      /\ LooksForKey(Route(c), s) /\ ChecksItsNeeds(Route(c), s)
  BY StepIs, Conventions, AccessConventions DEF OfKey
<1>2. t = Step(c).table /\ Step(c).do \in {"create", "save", "put", "delete"}
  BY <1>1 DEF Changes, Inserted, Saved, Deleted, Does
<1>3. CASE Step(c).do = "create"
  <2>1. Inserted(c, t, i)
    BY <1>1, <1>3 DEF Changes, Saved, Deleted, Does
  <2>2. tables'[t][i].cols = With([key |-> KeyFor(c, t)], Given(c, t))
    BY <1>3, <2>1 DEF Inserted
  <2>3. tables'[t][i].cols.key = KeyFor(c, t)
    BY <2>2 DEF With
  <2>4. t = Route(c).table \/ t \notin {"access", "chat_setting"}
    BY <1>1, <1>2, <1>3 DEF OfKey
  <2>5. KeyFor(c, t) = run[c].key
    BY <2>4 DEF KeyFor
  <2>6. QED
    BY <1>2, <2>3, <2>5
<1>4. CASE Step(c).do = "put"
  <2>1. t = Route(c).table /\ t \in KeyTables
    BY <1>1, <1>2, <1>4 DEF OfKey
  <2>2. tables'[t][i].cols.key = KeyFor(c, t)
    <3>1. Inserted(c, t, i) \/ Saved(c, t, i)
      BY <1>1, <1>4 DEF Changes, Deleted, Does
    <3>2. QED
      BY <2>1, <3>1, KeyChange
  <2>3. KeyFor(c, t) = run[c].key
    BY <2>1 DEF KeyFor
  <2>4. QED
    BY <1>2, <2>2, <2>3
<1>5. CASE Step(c).do = "save"
  <2>1. /\ n > 2 /\ SoughtAt(s, n - 1, t) /\ s[n - 1].do = "must"
        /\ On(c) = "held" /\ t \in FixedKeys
    BY <1>1, <1>2, <1>5 DEF OfKey, On
  <2>2. Saved(c, t, i)
    BY <1>1, <1>5 DEF Changes, Inserted, Deleted, Does
  <2>3. i = run[c].row.id /\ t = run[c].row.table /\ i # 0
    BY <2>2, ApiAssumption DEF Saved, ApiAssumption
  <2>4. run[c].row.cols.key = KeyFor(c, t)
    BY <2>1, <2>3 DEF HandFits, Sought
  <2>5. tables'[t][i].cols.key = run[c].row.cols.key
    <3>1. tables[t][i].life # "free"
      BY <2>3 DEF InHand
    <3>2. run[c].row.cols.key = tables[t][i].cols.key
      BY <2>1, <2>3 DEF FixedInHand, Cols
    <3>3. QED
      BY <2>1, <3>1, <3>2, FixedStay
  <2>6. t # "access"
    BY <1>1, <1>2, <1>5 DEF LooksForKey, KeyTables, Does
  <2>7. run[c].id # 0
    <3>1. PICK m \in 1 .. n - 1 : s[m].do = "check"
      BY <2>1 DEF Checked
    <3>2. m \in DOMAIN s
      <4>1. IsRequest(run[c], Parts[part].routes) /\ part \in DOMAIN Parts
        BY DEF Shape, Idle
      <4>2. EndsWithReply(s)
        BY <4>1, RoutesAssumption DEF IsRequest, RoutesAssumption, Route, Steps
      <4>3. DOMAIN s = 1 .. Len(s) /\ Len(s) \in Nat
        BY <4>2 DEF EndsWithReply
      <4>4. QED
        BY <1>1, <4>3
    <3>3. FoundByID(s, m, "conversation")
      BY <1>1, <2>1, <3>1, <3>2 DEF ChecksItsNeeds, On
    <3>4. PICK k \in 1 .. m - 1 : Does(s, k, "find", "conversation")
      BY <3>3 DEF FoundByID
    <3>5. k \in 1 .. n - 1
      BY <1>1, <3>4
    <3>6. "conversation" \in Tables
      <4>1. IsRequest(run[c], Parts[part].routes) /\ part \in DOMAIN Parts
        BY DEF Shape, Idle
      <4>2. \A x \in DOMAIN s : s[x].do \in OnTables => s[x].table \in Tables
        BY <4>1, RoutesAssumption DEF IsRequest, RoutesAssumption, Route, Steps, Tables
      <4>3. QED
        BY <3>4, <4>2 DEF Does, OnTables
    <3>7. run[c].id \in Ids
      BY <3>4, <3>5, <3>6 DEF FoundStored, Stored
    <3>8. QED
      BY <3>7, ApiAssumption DEF ApiAssumption
  <2>8. KeyFor(c, t) = run[c].key
    BY <2>6, <2>7 DEF KeyFor
  <2>9. QED
    BY <1>2, <2>4, <2>5, <2>8
<1>6. CASE Step(c).do = "delete"
  <2>1. Deleted(c, t, i)
    BY <1>1, <1>6 DEF Changes, Inserted, Saved, Does
  <2>2. Step(c).by # "id"
    BY <1>1, <1>6 DEF OfKey
  <2>3. tables[t][i].cols.key = run[c].key
    BY <2>1, <2>2 DEF Deleted, Cols
  <2>4. tables'[t][i].cols = tables[t][i].cols
    BY <2>1 DEF Deleted, Cols
  <2>5. QED
    BY <1>2, <2>3, <2>4
<1>7. QED
  BY <1>2, <1>3, <1>4, <1>5, <1>6

\* Whatever a request changes is what it has earned.
LEMMA ChangeIsEarned ==
    ASSUME Shape, NEW c \in Clients, Steps1(c), Asking(c), KeyInHand(c), StillSo(c), HasKey,
           InHand(c), FixedHave, FixedInHand(c), HandFits(c), FoundStored(c), Earned(c), CouldInv,
           NEW t \in Tables, NEW i \in Ids, tables'[t][i] # tables[t][i]
    PROVE  c \in Busy /\ run'[c] # run[c] /\ Of(c, t, i)' \in could[c]
<1> DEFINE s == Steps(c)
           n == Now(c)
           route == Route(c)
           of == Of(c, t, i)'
<1>1. Executes(c) /\ WentOn(c) /\ Changes(c, t, i)
  BY ChangesGoOn
<1>2. /\ run[c].busy /\ Route(c)' = route /\ On(c)' = On(c) /\ n \in DOMAIN s /\ n \in Nat \ {0}
      /\ Step(c) = s[n] /\ (Now(c)' = n + 1 \/ Step(c).do = "sift")
  BY <1>1, GoesOn
<1>3. Step(c).do \in {"create", "both", "save", "put", "delete"}
  BY <1>1, <1>2 DEF Changes, Inserted, Saved, Deleted, Does
<1>4. c \in Busy /\ run'[c] # run[c]
  <2>1. Now(c)' # n
    BY <1>2, <1>3
  <2>2. QED
    BY <1>2, <2>1 DEF Now, Busy
<1>5. /\ KeepsKeys(route, s) /\ TouchesItsOwn(route, s) /\ ChecksItsNeeds(route, s)
      /\ On(c) = route.needs.on
  BY <1>2, AccessConventions DEF On
<1>6. On(c) \notin {"self", "listed"} => Checked(route.needs, s, n)
  BY <1>2, <1>3, <1>5 DEF ChecksItsNeeds, Touching
<1>7. On(c) \in Guarded => Subject(c) \in could[c]
  BY <1>2, <1>5, <1>6 DEF Earned, Guarded
<1>8. OfKey(route, s, n) => tables'[t][i].cols.key = run[c].key /\ t = s[n].table
  BY <1>1, <1>2, <1>6, OfKeyIs
<1>9. OfPath(s, n) => i = run[c].id /\ tables[t][i].life # "free" /\ t = s[n].table
  BY <1>1, <1>2, OfPathIs
<1>10. CASE On(c) = "any"
  BY <1>2, <1>4, <1>5, <1>7, <1>10 DEF Of, Subject, Guarded
<1>11. CASE On(c) = "self"
  <2>1. run[c].user \in could[c]
    <3>1. Asked(c) = {run[c].user} /\ Met(c, run[c].user)
      BY <1>2, <1>5, <1>11 DEF Asked, Met
    <3>2. QED
      BY <3>1 DEF CouldInv, Allowed
  <2>2. Of(c, t, i)' = (CASE t = "provider_key" -> tables'[t][i].cols.key[1]
                          [] t = "chat_setting" ->
                                 tables'["conversation"][tables'[t][i].cols.key].cols.key
                          [] OTHER -> tables'[t][i].cols.key)
    BY <1>2, <1>5, <1>11 DEF Of, Owner, Cols
  <2>3. \/ /\ s[n].do = "both" /\ s[n].table = "conversation" /\ s[n].other = "chat_setting"
           /\ route.keyed = "mine"
        \/ /\ OfKey(route, s, n)
           /\ IF s[n].table = "provider_key" THEN route.keyed = "mine/path"
              ELSE s[n].table # "chat_setting" /\ route.keyed \in {"mine", "mine+id"}
    BY <1>2, <1>3, <1>5, <1>11 DEF TouchesItsOwn, Touching
  <2>4. Asks(run[c], route)
    BY <1>2 DEF Asking
  <2>5. CASE OfKey(route, s, n) /\ t = "provider_key" /\ route.keyed = "mine/path"
    BY <1>4, <1>8, <2>1, <2>2, <2>4, <2>5 DEF Asks
  <2>6. CASE OfKey(route, s, n) /\ t \notin {"provider_key", "chat_setting"} /\ route.keyed \in {"mine", "mine+id"}
    BY <1>4, <1>8, <2>1, <2>2, <2>4, <2>6 DEF Asks
  <2>7. CASE s[n].do = "both" /\ s[n].table = "conversation" /\ s[n].other = "chat_setting" /\ route.keyed = "mine"
    <3>1. Inserted(c, t, i) /\ run[c].key = run[c].user
      BY <1>1, <1>2, <2>4, <2>7 DEF Changes, Saved, Deleted, Does, Asks
    <3>2. CASE t = "conversation" /\ tables'[t][i].cols.key = run[c].key
      BY <1>4, <2>1, <2>2, <3>1, <3>2
    <3>3. CASE t = "chat_setting" /\ tables'["conversation"][tables'[t][i].cols.key].cols.key = run[c].key
      BY <1>4, <2>1, <2>2, <3>1, <3>3
    <3>4. ~Does(s, n, "create", t) /\ ~Does(s, n, "put", t)
      BY <2>7 DEF Does
    <3>5. QED
      BY <1>2, <2>7, <3>1, <3>2, <3>3, <3>4 DEF Inserted
  <2>8. QED
    BY <1>8, <2>3, <2>5, <2>6, <2>7
<1>12. CASE On(c) = "named"
  <2>1. /\ s[n].table = route.table /\ route.table \in FixedKeys
        /\ IF InPath(c) THEN OfPath(s, n) ELSE OfKey(route, s, n)
    BY <1>2, <1>3, <1>5, <1>12 DEF TouchesItsOwn, Touching, KeepsKeys, InPath
  <2>2. t = route.table /\ Of(c, t, i)' = Named(t, tables'[t][i].cols.key)
    BY <1>2, <1>5, <1>8, <1>9, <1>12, <2>1 DEF Of, Cols
  <2>3. CASE InPath(c)
    <3>1. i = run[c].id /\ tables'[t][i].cols.key = tables[t][i].cols.key
      BY <1>9, <2>1, <2>2, <2>3, FixedStay
    <3>2. Subject(c) = Named(t, tables[t][i].cols.key)
      BY <1>12, <2>2, <2>3, <3>1 DEF Subject, Cols
    <3>3. QED
      BY <1>4, <1>7, <1>12, <2>2, <3>1, <3>2 DEF Guarded
  <2>4. CASE ~InPath(c)
    <3>1. Subject(c) = Named(t, run[c].key)
      BY <1>12, <2>2, <2>4 DEF Subject
    <3>2. QED
      BY <1>4, <1>7, <1>8, <1>12, <2>1, <2>2, <2>4, <3>1 DEF Guarded
  <2>5. QED
    BY <2>3, <2>4
<1>13. CASE On(c) \in {"id", "held"}
  <2>1. Subject(c) = run[c].id
    BY <1>13 DEF Subject
  <2>2. IF s[n].table = route.table THEN OfPath(s, n)
        ELSE /\ OfKey(route, s, n)
             /\ route.keyed = IF s[n].table = "user_role" THEN "path/role" ELSE "path"
    BY <1>2, <1>3, <1>5, <1>13 DEF TouchesItsOwn, Touching
  <2>3. Of(c, t, i)' = IF t = route.table THEN i
                       ELSE IF t = "user_role" THEN tables'[t][i].cols.key[1] ELSE tables'[t][i].cols.key
    BY <1>2, <1>5, <1>13 DEF Of, Cols
  <2>4. t = s[n].table
    BY <1>8, <1>9, <2>2
  <2>5. Asks(run[c], route)
    BY <1>2 DEF Asking
  <2>6. Of(c, t, i)' = run[c].id
    BY <1>8, <1>9, <2>2, <2>3, <2>4, <2>5 DEF Asks
  <2>7. QED
    BY <1>4, <1>7, <1>13, <2>1, <2>6 DEF Guarded
<1>14. On(c) \in {"any", "self", "named", "id", "held"}
  BY <1>2, <1>3, <1>5 DEF TouchesItsOwn, Touching
<1>15. QED
  BY <1>10, <1>11, <1>12, <1>13, <1>14

\* The statements that make a page.
LEMMA AllIs ==
    ASSUME Shape, NEW c \in Clients, Executes(c), WentOn(c), Step(c).do = "all"
    PROVE  /\ run'[c].all \in Access(run[c].user, Step(c).type, Wildcard, "read")
           /\ run'[c].shown = run[c].shown /\ run'[c].passed = run[c].passed
<1>1. run = [x \in Clients |-> run[x]] /\ DOMAIN run[c] = Fields /\ run[c].busy
  BY DEF Executes, Shape, IsRequest, Idle
<1>2. SeesAll(c)
  BY <1>1
     DEF Executes, Statement, May, Check, FindByID, Seek, Decide, Create, CreateBoth, Save, Put,
         Delete, SeesAll, List, Sift, IssueTokens, Reply, At
<1>3. PICK answer \in Access(run[c].user, Step(c).type, Wildcard, "read") : Go(c, [all |-> answer])
  BY <1>2 DEF SeesAll
<1> DEFINE changes == [all |-> answer]
<1>4. DOMAIN changes = {"all"} /\ changes.all = answer /\ Go(c, changes)
  BY <1>3
<1> HIDE DEF changes
<1>5. \A x \in Fields \ {"at"} : run'[c][x] = IF x \in DOMAIN changes THEN changes[x] ELSE run[c][x]
  BY <1>1, <1>4, GoIs, FieldsAre
<1>6. QED
  BY <1>3, <1>4, <1>5, FieldsAre

Public(t, i) == "visibility" \in DOMAIN Cols(t, i) /\ Cols(t, i).visibility = "public"

LEMMA ListIs ==
    ASSUME Shape, NEW c \in Clients, Executes(c), WentOn(c), Step(c).do = "list"
    PROVE  LET t == Step(c).table
           IN  \E page \in SUBSET Live(t) :
                   /\ run'[c].shown = run[c].shown \cup page
                   /\ run'[c].passed = IF run[c].all THEN page ELSE {i \in page : Public(t, i)}
                   /\ run'[c].all = run[c].all
                   /\ Step(c).by = "key" => page \subseteq WithKey(t, run[c].key)
<1> DEFINE t == Step(c).table
<1>1. run = [x \in Clients |-> run[x]] /\ DOMAIN run[c] = Fields /\ run[c].busy
  BY DEF Executes, Shape, IsRequest, Idle
<1>2. List(c)
  BY <1>1
     DEF Executes, Statement, May, Check, FindByID, Seek, Decide, Create, CreateBoth, Save, Put,
         Delete, SeesAll, List, Sift, IssueTokens, Reply, At
<1>3. \E page \in SUBSET Live(t) :
        /\ Go(c, [shown |-> run[c].shown \cup page,
                  passed |-> IF run[c].all THEN page ELSE {i \in page : Public(t, i)}])
        /\ Step(c).by = "key" => page \subseteq WithKey(t, run[c].key)
  <2> DEFINE Wanted(key) ==
               CASE Step(c).by = "all" -> TRUE
                 [] Step(c).by = "key" -> key = run[c].key
                 [] Step(c).by = "owner" -> key[1] = run[c].key[1]
                 [] Step(c).by = "global" -> key = 0
                 [] Step(c).by = "granted" ->
                        key[1] \in {<<"user", run[c].user>>}
                                       \cup {<<"role", r>> : r \in RolesOf[run[c].user]}
             page == {i \in Live(t) : Wanted(Cols(t, i).key)}
  <2>1. Go(c, [shown |-> run[c].shown \cup page,
               passed |-> IF run[c].all THEN page ELSE {i \in page : Public(t, i)}])
    BY <1>2 DEF List, Public
  <2>2. Step(c).by = "key" => page \subseteq WithKey(t, run[c].key)
    BY DEF WithKey
  <2>3. page \in SUBSET Live(t)
    OBVIOUS
  <2> HIDE DEF page
  <2>4. QED
    BY <2>1, <2>2, <2>3
<1>4. PICK page \in SUBSET Live(t) :
        /\ Go(c, [shown |-> run[c].shown \cup page,
                  passed |-> IF run[c].all THEN page ELSE {i \in page : Public(t, i)}])
        /\ Step(c).by = "key" => page \subseteq WithKey(t, run[c].key)
  BY <1>3
<1> DEFINE shown == run[c].shown \cup page
           passed == IF run[c].all THEN page ELSE {i \in page : Public(t, i)}
           changes == [shown |-> shown, passed |-> passed]
<1>5. /\ DOMAIN changes = {"shown", "passed"} /\ changes.shown = shown /\ changes.passed = passed
      /\ Go(c, changes)
  BY <1>4
<1> HIDE DEF changes
<1>6. \A x \in Fields \ {"at"} : run'[c][x] = IF x \in DOMAIN changes THEN changes[x] ELSE run[c][x]
  BY <1>1, <1>5, GoIs, FieldsAre
<1>7. run'[c].shown = shown /\ run'[c].passed = passed /\ run'[c].all = run[c].all
  BY <1>5, <1>6, FieldsAre
<1>8. QED
  BY <1>4, <1>7

LEMMA SiftIs ==
    ASSUME Shape, NEW c \in Clients, Executes(c), WentOn(c), Step(c).do = "sift", Now(c) \in Nat
    PROVE  /\ run'[c].all = run[c].all /\ run'[c].shown \subseteq run[c].shown
           /\ \/ /\ Now(c)' = Now(c) + 1 /\ run[c].shown \subseteq run[c].passed
                 /\ run'[c].shown = run[c].shown /\ run'[c].passed = run[c].passed
              \/ /\ Now(c)' = Now(c)
                 /\ \E i \in run[c].shown \ run[c].passed :
                        \E answer \in Access(run[c].user, Step(c).type, i, "read") :
                            run'[c].passed = IF answer THEN run[c].passed \cup {i} ELSE run[c].passed
<1>1. run = [x \in Clients |-> run[x]] /\ DOMAIN run[c] = Fields /\ run[c].busy
  BY DEF Executes, Shape, IsRequest, Idle
<1>2. Sift(c)
  BY <1>1
     DEF Executes, Statement, May, Check, FindByID, Seek, Decide, Create, CreateBoth, Save, Put,
         Delete, SeesAll, List, Sift, IssueTokens, Reply, At
<1>3. CASE run[c].shown \ run[c].passed = {}
  <2>1. Continue(c)
    BY <1>2, <1>3 DEF Sift
  <2>2. run'[c].at = run[c].at + 1 /\ \A x \in Fields \ {"at"} : run'[c][x] = run[c][x]
    BY <1>1, <2>1, ContinueIs
  <2>3. QED
    BY <1>3, <2>2, FieldsAre DEF Now
<1>4. CASE run[c].shown \ run[c].passed # {}
  <2>1. PICK i \in run[c].shown \ run[c].passed :
          \E answer \in Access(run[c].user, Step(c).type, i, "read") :
              run' = [run EXCEPT ![c].passed = IF answer THEN @ \cup {i} ELSE @,
                                 ![c].shown = IF answer THEN @ ELSE @ \ {i}]
    BY <1>2, <1>4 DEF Sift
  <2>2. PICK answer \in Access(run[c].user, Step(c).type, i, "read") :
          run' = [run EXCEPT ![c].passed = IF answer THEN @ \cup {i} ELSE @,
                             ![c].shown = IF answer THEN @ ELSE @ \ {i}]
    BY <2>1
  <2> DEFINE passed == IF answer THEN run[c].passed \cup {i} ELSE run[c].passed
             shown == IF answer THEN run[c].shown ELSE run[c].shown \ {i}
             next == [run[c] EXCEPT !.passed = passed, !.shown = shown]
  <2>3. run' = [run EXCEPT ![c] = next]
    BY <1>1, <2>2 DEF Fields
  <2>4. /\ next.passed = passed /\ next.shown = shown /\ next.at = run[c].at
        /\ next.all = run[c].all /\ shown \subseteq run[c].shown
    BY <1>1 DEF Fields
  <2> HIDE DEF next
  <2>5. run'[c] = next
    BY <1>1, <2>3
  <2>6. QED
    BY <2>2, <2>4, <2>5 DEF Now
<1>5. QED
  BY <1>3, <1>4

LEMMA SiftedNext ==
    ASSUME Shape, NEW c \in Clients, Steps1(c), CouldInv, NEW d \in Clients, Sifted(d)
    PROVE  Sifted(d)'
<1> SUFFICES ASSUME run'[d].busy, On(d)' = "listed"
             PROVE  /\ run'[d].all => Ids \subseteq could'[d]
                    /\ run'[d].passed \subseteq could'[d] /\ run'[d].shown \subseteq Ids
                    /\ Now(d)' > 1 /\ Steps(d)'[Now(d)' - 1].do = "sift" =>
                           run'[d].shown \subseteq run'[d].passed
  BY DEF Sifted
<1>1. part' = part
  BY DEF Steps1
<1>2. CASE d # c
  <2>1. run'[d] = run[d] /\ run[d].busy
    BY <1>2 DEF Steps1, OthersStay
  <2>2. Steps(d)' = Steps(d) /\ Now(d)' = Now(d) /\ On(d)' = On(d)
    BY <1>1, <2>1, RequestStays DEF On
  <2>3. QED
    BY <2>1, <2>2, CouldIs DEF Sifted
<1>3. CASE d = c /\ Begins(c)
  BY <1>3 DEF Begins, Now
<1>4. CASE d = c /\ Executes(c) /\ WentOn(c)
  <2> DEFINE r == run[c]
             s == Steps(c)
             n == Now(c)
             needs == Route(c).needs
  <2>1. /\ r.busy /\ Steps(c)' = s /\ On(c) = "listed" /\ needs.on = "listed"
        /\ n \in Nat \ {0} /\ n \in DOMAIN s /\ Step(c) = s[n]
        /\ \/ Now(c)' = n + 1 /\ n + 1 - 1 = n
           \/ Now(c)' = n /\ Step(c).do = "sift"
    BY <1>4, GoesOn DEF On
  <2>2. /\ r.all => Ids \subseteq could[c]
        /\ r.passed \subseteq could[c] /\ r.shown \subseteq Ids
        /\ n > 1 /\ s[n - 1].do = "sift" => r.shown \subseteq r.passed
    BY <1>4, <2>1 DEF Sifted
  <2>3. /\ could[c] \subseteq could'[c]
        /\ \A i \in Ids : Met(c, i) => i \in could[c]
    <3>1. Asked(c) = Ids
      BY <2>1 DEF Asked
    <3>2. QED
      BY <1>4, <2>1, <3>1, CouldIs DEF CouldInv, Allowed
  <2>4. /\ TouchesItsOwn(Route(c), s) /\ ChecksItsNeeds(Route(c), s)
    BY <2>1, AccessConventions
  <2> HIDE DEF s, n
  <2>5. CASE Step(c).do = "all"
    <3>1. /\ run'[c].all \in Access(r.user, needs.type, Wildcard, needs.level)
          /\ run'[c].shown = r.shown /\ run'[c].passed = r.passed
      <4>1. needs.level = "read" /\ Step(c).type = needs.type
        BY <2>1, <2>4, <2>5 DEF ChecksItsNeeds
      <4>2. QED
        BY <1>4, <2>5, <4>1, AllIs
    <3>2. run'[c].all \in BOOLEAN
      BY <3>1, Answers
    <3>3. ASSUME run'[c].all, NEW i \in Ids PROVE i \in could[c]
      <4>1. run'[c].all = TRUE
        BY <3>2, <3>3
      <4>2. Met(c, i)
        BY <2>1, <3>1, <4>1 DEF Met
      <4>3. QED
        BY <2>3, <4>2
    <3>4. QED
      BY <1>4, <2>1, <2>2, <2>3, <2>5, <3>1, <3>3
  <2>6. CASE Step(c).do = "list"
    <3> DEFINE t == Step(c).table
    <3>1. PICK page \in SUBSET Live(t) :
            /\ run'[c].shown = r.shown \cup page
            /\ run'[c].passed = IF r.all THEN page ELSE {i \in page : Public(t, i)}
            /\ run'[c].all = r.all
      BY <1>4, <2>6, ListIs
    <3>2. page \subseteq Ids
      BY <3>1 DEF Live
    <3>3. t = needs.type
      BY <2>1, <2>4, <2>6 DEF TouchesItsOwn, Touching
    <3>4. \A i \in Ids : Public(t, i) => Met(c, i)
      BY <2>1, <3>3 DEF Met, Public
    <3>5. run'[c].passed \subseteq could[c]
      BY <2>2, <2>3, <3>1, <3>2, <3>4
    <3>6. QED
      BY <1>4, <2>1, <2>2, <2>3, <2>6, <3>1, <3>2, <3>5
  <2>7. CASE Step(c).do = "sift"
    <3>1. needs.level = "read" /\ Step(c).type = needs.type
      BY <2>1, <2>4, <2>7 DEF ChecksItsNeeds
    <3>2. /\ run'[c].all = r.all /\ run'[c].shown \subseteq r.shown
          /\ \/ /\ Now(c)' = n + 1 /\ r.shown \subseteq r.passed
                /\ run'[c].shown = r.shown /\ run'[c].passed = r.passed
             \/ /\ Now(c)' = n
                /\ \E i \in r.shown \ r.passed : \E answer \in Access(r.user, needs.type, i, "read") :
                       run'[c].passed = IF answer THEN r.passed \cup {i} ELSE r.passed
      <4>1. n = Now(c)
        BY DEF n
      <4>2. Executes(c) /\ WentOn(c) /\ Now(c) \in Nat
        BY <1>4, <2>1, <4>1
      <4>3. /\ run'[c].all = r.all /\ run'[c].shown \subseteq r.shown
            /\ \/ /\ Now(c)' = Now(c) + 1 /\ r.shown \subseteq r.passed
                  /\ run'[c].shown = r.shown /\ run'[c].passed = r.passed
               \/ /\ Now(c)' = Now(c)
                  /\ \E i \in r.shown \ r.passed :
                         \E answer \in Access(r.user, Step(c).type, i, "read") :
                             run'[c].passed = IF answer THEN r.passed \cup {i} ELSE r.passed
        BY <2>7, <4>2, SiftIs
      <4>4. QED
        BY <3>1, <4>1, <4>3
    <3>3. CASE Now(c)' = n + 1 /\ r.shown \subseteq r.passed /\ run'[c].shown = r.shown /\ run'[c].passed = r.passed
      BY <1>4, <2>2, <2>3, <3>2, <3>3
    <3>4. ASSUME Now(c)' = n, NEW i \in r.shown \ r.passed,
                 NEW answer \in Access(r.user, needs.type, i, "read"),
                 run'[c].passed = IF answer THEN r.passed \cup {i} ELSE r.passed
          PROVE  /\ run'[c].passed \subseteq could[c] /\ ~(n > 1 /\ s[n - 1].do = "sift")
      <4>1. answer \in BOOLEAN
        BY <3>4, Answers
      <4>2. answer => Met(c, i)
        BY <2>1, <3>1, <3>4, <4>1 DEF Met
      <4>3. i \in Ids
        BY <2>2, <3>4
      <4>4. answer => i \in could[c]
        BY <2>3, <4>2, <4>3
      <4>5. QED
        BY <2>2, <3>4, <4>4
    <3>5. CASE /\ Now(c)' = n /\ run'[c].passed \subseteq could[c] /\ ~(n > 1 /\ s[n - 1].do = "sift")
      BY <1>4, <2>1, <2>2, <2>3, <3>2, <3>5
    <3>6. QED
      BY <3>2, <3>3, <3>4, <3>5
  <2>8. CASE Step(c).do \notin {"all", "list", "sift"}
    <3>1. run'[c].all = r.all /\ run'[c].shown = r.shown /\ run'[c].passed = r.passed
      BY <1>4, <2>8 DEF WentOn
    <3>2. QED
      BY <1>4, <2>1, <2>2, <2>3, <2>8, <3>1
  <2>9. QED
    BY <2>5, <2>6, <2>7, <2>8
<1>5. QED
  BY <1>2, <1>3, <1>4 DEF Steps1, Comes, Fails, Executes, Idle

\* The lists of a request by key are of one table with fixed keys.
LEMMA ListsByKey ==
    ASSUME Shape, NEW c \in Clients, run[c].busy, On(c) \in Guarded \ {"any"}, NEW t \in Listed(c)
    PROVE  /\ t \in FixedKeys \cap Tables
           /\ \A n \in DOMAIN Steps(c) : Steps(c)[n].do = "list" =>
                  /\ Steps(c)[n].table = t /\ Steps(c)[n].by = "key"
                  /\ IF On(c) = "named" THEN t = Route(c).table /\ ~InPath(c)
                     ELSE t # Route(c).table /\ Route(c).keyed = "path"
<1> DEFINE s == Steps(c)
<1>1. IsRequest(run[c], Parts[part].routes) /\ part \in DOMAIN Parts
  BY DEF Shape, Idle
<1>2. TouchesItsOwn(Route(c), s)
  BY AccessConventions
<1>3. /\ ListsOneTable(s)
      /\ \A n \in DOMAIN s : s[n].do \in OnTables => s[n].table \in Tables
  BY <1>1, RoutesAssumption DEF IsRequest, RoutesAssumption, Route, Steps, Tables
<1>4. PICK m \in DOMAIN s : s[m].do = "list" /\ s[m].table = t
  BY DEF Listed, Steps
<1>5. \A n \in DOMAIN s : s[n].do = "list" => s[n].table = t
  BY <1>3, <1>4 DEF ListsOneTable
<1>6. ASSUME NEW n \in DOMAIN s, s[n].do = "list"
      PROVE  /\ s[n].by = "key" /\ t \in FixedKeys
             /\ IF On(c) = "named" THEN t = Route(c).table /\ ~InPath(c)
                ELSE t # Route(c).table /\ Route(c).keyed = "path"
  <2>1. ~OfPath(s, n) /\ s[n].table = t
    BY <1>5, <1>6 DEF OfPath
  <2>2. OfKey(Route(c), s, n) => s[n].by = "key" /\ t \in FixedKeys
    BY <1>6, <2>1 DEF OfKey
  <2>3. CASE On(c) = "named"
    BY <1>2, <1>6, <2>1, <2>2, <2>3 DEF TouchesItsOwn, Touching, On, InPath
  <2>4. CASE On(c) \in {"id", "held"}
    <3>1. /\ OfKey(Route(c), s, n) /\ t # Route(c).table
          /\ Route(c).keyed = IF t = "user_role" THEN "path/role" ELSE "path"
      BY <1>2, <1>6, <2>1, <2>4 DEF TouchesItsOwn, Touching, On
    <3>2. QED
      BY <2>2, <2>4, <3>1 DEF FixedKeys
  <2>5. QED
    BY <2>3, <2>4 DEF Guarded
<1>7. t \in Tables
  BY <1>3, <1>4 DEF OnTables
<1>8. QED
  BY <1>4, <1>5, <1>6, <1>7

LEMMA ShownOwnNext ==
    ASSUME Shape, NEW c \in Clients, Steps1(c), Asking(c), KeyInHand(c), StillSo(c), HasKey,
           InHand(c), FixedHave, FixedInHand(c), NEW d \in Clients, ShownOwn(d)
    PROVE  ShownOwn(d)'
<1> SUFFICES ASSUME run'[d].busy, On(d)' \in Guarded \ {"any"},
                    NEW t \in Listed(d)', NEW i \in run'[d].shown
             PROVE  i \in Ids /\ tables'[t][i].life # "free" /\ tables'[t][i].cols.key = run'[d].key
  BY DEF ShownOwn, Stored, Cols
<1>1. part' = part
  BY DEF Steps1
<1>2. ASSUME i \in Stored(t), t \in FixedKeys \cap Tables, Cols(t, i).key = run'[d].key
      PROVE  i \in Ids /\ tables'[t][i].life # "free" /\ tables'[t][i].cols.key = run'[d].key
  <2>1. i \in Ids /\ tables[t][i].life # "free"
    BY <1>2 DEF Stored
  <2>2. tables'[t][i].life # "free"
    BY <1>2, <2>1, TakenStays
  <2>3. tables'[t][i].cols.key = tables[t][i].cols.key
    BY <1>2, <2>1, FixedStay
  <2>4. QED
    BY <1>2, <2>1, <2>2, <2>3 DEF Cols
<1>3. CASE d # c
  <2>1. run'[d] = run[d] /\ run[d].busy
    BY <1>3 DEF Steps1, OthersStay
  <2>2. On(d)' = On(d) /\ Listed(d)' = Listed(d)
    BY <1>1, <2>1, RequestStays DEF On, Listed
  <2>3. t \in FixedKeys \cap Tables
    BY <2>1, <2>2, ListsByKey
  <2>4. i \in Stored(t) /\ Cols(t, i).key = run[d].key
    BY <2>1, <2>2 DEF ShownOwn
  <2>5. QED
    BY <1>2, <2>1, <2>3, <2>4
<1>4. CASE d = c /\ Begins(c)
  BY <1>4 DEF Begins
<1>5. CASE d = c /\ Executes(c) /\ WentOn(c)
  <2>1. /\ run[c].busy /\ On(c)' = On(c) /\ Listed(c)' = Listed(c) /\ run'[c].key = run[c].key
        /\ Now(c) \in DOMAIN Steps(c) /\ Step(c) = Steps(c)[Now(c)] /\ Shows(c)
    <3>1. Route(c)' = Route(c) /\ run[c].busy /\ On(c)' = On(c) /\ Keeps(c)
          /\ Now(c) \in DOMAIN Steps(c) /\ Step(c) = Steps(c)[Now(c)]
      BY <1>5, GoesOn
    <3>2. Listed(c)' = Listed(c)
      BY <3>1 DEF Listed
    <3>3. Shows(c)
      BY <1>5 DEF WentOn
    <3>4. QED
      BY <3>1, <3>2, <3>3 DEF Keeps
  <2>2. /\ t \in FixedKeys \cap Tables
        /\ Step(c).do = "list" => Step(c).table = t /\ Step(c).by = "key"
    BY <1>5, <2>1, ListsByKey
  <2>3. CASE i \in run[c].shown
    BY <1>2, <1>5, <2>1, <2>2, <2>3 DEF ShownOwn
  <2>4. CASE i \notin run[c].shown
    <3>1. Step(c).do = "list"
      BY <1>5, <2>1, <2>4 DEF Shows
    <3>2. i \in WithKey(t, run[c].key)
      BY <1>5, <2>2, <2>4, <3>1, ListIs
    <3>3. i \in Stored(t) /\ Cols(t, i).key = run[c].key
      BY <3>2 DEF WithKey, Live, Stored
    <3>4. QED
      BY <1>2, <1>5, <2>1, <2>2, <3>3
  <2>5. QED
    BY <2>3, <2>4
<1>6. QED
  BY <1>3, <1>4, <1>5 DEF Steps1, Comes, Fails, Executes, Idle

\* What a request may do depends on the tables and the requests only.
LEMMA AllowedStays ==
    ASSUME UNCHANGED <<part, tables, run>>, NEW c \in Clients
    PROVE  Allowed(c)' = Allowed(c)
<1>1. RowsOf' = RowsOf
  BY DEF RowsOf, Live, Cols
<1>2. RolesOf' = RolesOf
  BY DEF RolesOf, Live, Cols
<1>3. \A user, type, id, level : Access(user, type, id, level)' = Access(user, type, id, level)
  BY <1>1, <1>2 DEF Access
<1>4. \A user, id, owner, level : CanAccess(user, id, owner, level)' = CanAccess(user, id, owner, level)
  BY <1>3 DEF CanAccess
<1>5. Route(c)' = Route(c) /\ run'[c] = run[c]
  BY DEF Route
<1>6. \A t, i : Cols(t, i)' = Cols(t, i)
  BY DEF Cols
<1>7. \A x : Met(c, x)' = Met(c, x)
  BY <1>3, <1>4, <1>5, <1>6 DEF Met
<1>8. Asked(c)' = Asked(c)
  BY <1>5, <1>6 DEF Asked, Stored
<1>9. QED
  BY <1>7, <1>8 DEF Allowed

AccessInv ==
    /\ KeyInv /\ FixedHave /\ CouldInv
    /\ \A c \in Clients : /\ Earned(c) /\ FoundStored(c) /\ HandFits(c) /\ FixedInHand(c)
                          /\ Sifted(c) /\ ShownOwn(c)

LEMMA AccessInit == Init => AccessInv
<1> SUFFICES ASSUME Init PROVE AccessInv
  OBVIOUS
<1>1. \A c \in Clients : ~run[c].busy
  BY ShapeInit DEF Idle
<1>2. part \in DOMAIN Parts /\ tables = Parts[part].rows
  BY DEF Init
<1>3. FixedHave
  <2>1. \A t \in FixedKeys \cap Tables, i \in Ids :
            Parts[part].rows[t][i].life # "free" => "key" \in DOMAIN Parts[part].rows[t][i].cols
    BY <1>2, RowsAssumption DEF RowsAssumption, Tables
  <2>2. QED
    BY <1>2, <2>1 DEF FixedHave, Cols
<1>4. CouldInv
  BY <1>1 DEF CouldInv, Allowed, Asked
<1>5. QED
  BY <1>1, <1>3, <1>4, KeyInit
     DEF AccessInv, Earned, FoundStored, HandFits, FixedInHand, Sifted, ShownOwn

LEMMA AccessStutter ==
    ASSUME AccessInv, UNCHANGED vars
    PROVE  AccessInv'
<1>1. /\ Tables' = Tables
      /\ UNCHANGED <<part, tables, run, could>>
  BY DEF vars, Tables
<1>2. KeyInv'
  BY KeyNext DEF AccessInv
<1>3. FixedHave'
  BY <1>1 DEF AccessInv, FixedHave, Cols
<1>4. CouldInv'
  BY <1>1, AllowedStays DEF AccessInv, CouldInv
<1>5. ASSUME NEW d \in Clients
      PROVE  /\ Earned(d)' /\ FoundStored(d)' /\ HandFits(d)' /\ FixedInHand(d)'
             /\ Sifted(d)' /\ ShownOwn(d)'
  <2>1. /\ Steps(d)' = Steps(d) /\ Now(d)' = Now(d) /\ Route(d)' = Route(d)
        /\ \A t : KeyFor(d, t)' = KeyFor(d, t)
    BY <1>1, RequestStays
  <2>2. /\ On(d)' = On(d) /\ Listed(d)' = Listed(d) /\ InPath(d)' = InPath(d)
        /\ (\A t : Stored(t)' = Stored(t)) /\ (\A t, i : Cols(t, i)' = Cols(t, i))
    BY <1>1, <2>1 DEF On, Listed, InPath, Stored, Cols
  <2>3. /\ Earned(d) /\ FoundStored(d) /\ HandFits(d) /\ FixedInHand(d)
        /\ Sifted(d) /\ ShownOwn(d)
    BY DEF AccessInv
  <2>4. Subject(d)' = Subject(d)
    BY <1>1, <2>1, <2>2 DEF Subject
  <2>5. Earned(d)'
    BY <1>1, <2>1, <2>2, <2>3, <2>4 DEF Earned
  <2>6. FoundStored(d)' /\ HandFits(d)' /\ FixedInHand(d)'
    BY <1>1, <2>1, <2>2, <2>3 DEF FoundStored, HandFits, FixedInHand
  <2>7. Sifted(d)' /\ ShownOwn(d)'
    BY <1>1, <2>1, <2>2, <2>3 DEF Sifted, ShownOwn
  <2>8. QED
    BY <2>5, <2>6, <2>7
<1>6. QED
  BY <1>2, <1>3, <1>4, <1>5 DEF AccessInv

LEMMA AccessNext == AccessInv /\ [Next]_vars => AccessInv'
<1> SUFFICES ASSUME AccessInv, Next PROVE AccessInv'
  BY AccessStutter
<1>1. PICK c \in Clients : Steps1(c)
  BY StepCases DEF AccessInv, KeyInv
<1>2. /\ Shape /\ HasKey /\ FixedHave /\ CouldInv
      /\ \A d \in Clients :
             /\ InHand(d) /\ Asking(d) /\ KeyInHand(d) /\ StillSo(d)
             /\ Earned(d) /\ FoundStored(d) /\ HandFits(d) /\ FixedInHand(d)
             /\ Sifted(d) /\ ShownOwn(d)
  BY DEF AccessInv, KeyInv
<1>3. KeyInv'
  BY KeyNext DEF AccessInv
<1>4. FixedHave'
  BY <1>1, <1>2, FixedStay
<1>5. CouldInv'
  BY <1>1, CouldIs DEF CouldInv
<1>6. ASSUME NEW d \in Clients
      PROVE  /\ Earned(d)' /\ FoundStored(d)' /\ HandFits(d)' /\ FixedInHand(d)'
             /\ Sifted(d)' /\ ShownOwn(d)'
  <2>1. Earned(d)'
    BY <1>1, <1>2, EarnedNext
  <2>2. FoundStored(d)' /\ HandFits(d)' /\ Sifted(d)'
    BY <1>1, <1>2, FoundStoredNext, HandFitsNext, SiftedNext
  <2>3. FixedInHand(d)' /\ ShownOwn(d)'
    BY <1>1, <1>2, FixedInHandNext, ShownOwnNext
  <2>4. QED
    BY <2>1, <2>2, <2>3
<1>7. QED
  BY <1>3, <1>4, <1>5, <1>6 DEF AccessInv

\* Every row that is sent to a caller was readable for it, or public, at some instant
\* since its request began, whatever the requests in between granted or revoked.
THEOREM ShownStaysReadable == Spec => []ShownWasReadable
<1>1. AccessInv => ShownWasReadable
  <2> SUFFICES ASSUME AccessInv, NEW c \in Busy, At(c, "reply"), NEW t \in Listed(c),
                      NEW i \in run[c].shown, On(c) # "self"
               PROVE  Of(c, t, i) \in could[c]
    BY DEF ShownWasReadable, On
  <2> DEFINE s == Steps(c)
             n == Now(c)
  <2>1. /\ c \in Clients /\ run[c].busy /\ Shape
        /\ Earned(c) /\ Sifted(c) /\ ShownOwn(c) /\ Asking(c)
    BY DEF AccessInv, KeyInv, Busy
  <2>2. /\ n \in Nat \ {0} /\ n \in DOMAIN s /\ s[n].do = "reply"
        /\ TouchesItsOwn(Route(c), s) /\ ChecksItsNeeds(Route(c), s)
        /\ On(c) = Route(c).needs.on
    BY <2>1, AccessConventions DEF At, On
  <2>3. PICK m \in DOMAIN s : s[m].do = "list"
    BY DEF Listed, Steps
  <2>4. On(c) \in Guarded \cup {"self", "listed"}
    BY <2>2, <2>3 DEF TouchesItsOwn, Touching, Guarded
  <2>5. CASE On(c) = "listed"
    <3>1. n > 1 /\ s[n - 1].do = "sift"
      BY <2>2, <2>5 DEF ChecksItsNeeds
    <3>2. i \in could[c]
      BY <2>1, <2>5, <3>1 DEF Sifted
    <3>3. QED
      BY <2>2, <2>5, <3>2 DEF Of
  <2>6. CASE On(c) \in Guarded
    <3>1. Subject(c) \in could[c]
      <4>1. Checked(Route(c).needs, s, n)
        BY <2>2, <2>6 DEF ChecksItsNeeds, Guarded
      <4>2. QED
        BY <2>1, <2>6, <4>1 DEF Earned
    <3>2. CASE On(c) = "any"
      BY <2>2, <3>1, <3>2 DEF Of, Subject
    <3>3. CASE On(c) # "any"
      <4>1. Cols(t, i).key = run[c].key
        BY <2>1, <2>6, <3>3 DEF ShownOwn
      <4>2. /\ t \in FixedKeys
            /\ IF On(c) = "named" THEN t = Route(c).table /\ ~InPath(c)
               ELSE t # Route(c).table /\ Route(c).keyed = "path"
        BY <2>1, <2>3, <2>6, <3>3, ListsByKey
      <4>3. CASE On(c) = "named"
        BY <2>2, <3>1, <4>1, <4>2, <4>3 DEF Of, Subject
      <4>4. CASE On(c) \in {"id", "held"}
        <5>1. run[c].key = run[c].id
          BY <2>1, <4>2, <4>4 DEF Asking, Asks
        <5>2. t # "user_role"
          BY <4>2 DEF FixedKeys
        <5>3. Of(c, t, i) = run[c].id
          BY <2>2, <4>1, <4>2, <4>4, <5>1, <5>2 DEF Of
        <5>4. QED
          BY <3>1, <4>4, <5>3 DEF Subject
      <4>5. QED
        BY <2>6, <3>3, <4>3, <4>4 DEF Guarded
    <3>4. QED
      BY <3>2, <3>3
  <2>7. QED
    BY <2>4, <2>5, <2>6
<1>2. QED
  BY <1>1, AccessInit, AccessNext, PTL DEF Spec

\* Every row that a request changes belongs to a resource on which its caller had, at
\* some instant since the request began, the level the endpoint documents.
THEOREM ChangesStayAllowed == Spec => ChangeWasAllowed
<1>1. AccessInv /\ [Next]_vars =>
          [\A x \in Changed : \E c \in Busy :
              /\ run'[c] # run[c]
              /\ Of(c, x[1], x[2])' \in could[c]]_vars
  <2> SUFFICES ASSUME AccessInv, Next, NEW x \in Changed
               PROVE  \E c \in Busy : run'[c] # run[c] /\ Of(c, x[1], x[2])' \in could[c]
    OBVIOUS
  <2>1. PICK c \in Clients : Steps1(c)
    BY StepCases DEF AccessInv, KeyInv
  <2>2. x[1] \in Tables /\ x[2] \in Ids /\ tables'[x[1]][x[2]] # tables[x[1]][x[2]]
    BY DEF AccessInv, KeyInv, Shape, Changed, Slots
  <2>3. c \in Busy /\ run'[c] # run[c] /\ Of(c, x[1], x[2])' \in could[c]
    BY <2>1, <2>2, ChangeIsEarned DEF AccessInv, KeyInv
  <2>4. QED
    BY <2>3
<1>2. QED
  BY <1>1, AccessInit, AccessNext, PTL DEF Spec, ChangeWasAllowed
=============================================================================
