------------------------------- MODULE Startup -------------------------------
(***************************************************************************)
(* What main does before a server listens: UpP_1 creates the tables and    *)
(* runs the seeders, UpP_2 to UpP_6 bring older databases up to date.      *)
(* Each server runs all of it at each start, one statement after another   *)
(* without a transaction, and ends with logger.Fatal at the first error.   *)
(* Servers may be killed at any point, start at once, and start while the  *)
(* users of another one work.                                              *)
(*                                                                         *)
(* A statement that fails ends its server just as a kill before or after   *)
(* it does.  Deleted rows are soft-deleted: queries pass them over, but    *)
(* they still hold their unique names.                                     *)
(***************************************************************************)
EXTENDS SequencesExt

CONSTANTS Processes,   \* the servers, by the process each runs in
          Types,       \* rbac.KnownResourceTypes, in order
          AgentTools,  \* the names of seed_agent_tools.go, in order
          FileTools,   \* the names of seed_custom_tools.go, in order
          Databases,   \* what the first server may find
          MaxStarts, MaxEdits      \* bounds of the model

AdminRole == "role"
AdminUser == "user"
Rows == {AdminRole, AdminUser} \cup ToSet(AgentTools) \cup ToSet(FileTools)

\* What older releases left undone.
Backfills == {"tables", "archived", "stubs", "modes", "settings"}

Version(name, source) == [name |-> name, source |-> source, live |-> TRUE]
Releases == {"1.0.0", "1.0.1", "2.0.0"}

Versions == [name : Releases, source : {"faulty", "fixed", "users"}, live : BOOLEAN]

Database ==
    [row      : [Rows -> {"none", "live", "deleted"}],
     members  : Nat,                   \* rows giving the admin role to the admin
     grants   : [ToSet(Types) -> Nat], \* wildcard rows of the admin role
     versions : [ToSet(FileTools) -> Seq(Versions)],  \* by id
     gaps     : SUBSET Backfills]

\* A tool that is not there has no versions, and only its first can be the faulty one.
VersionsFit(d) ==
    \A f \in ToSet(FileTools) :
        /\ d.row[f] = "none" => d.versions[f] = <<>>
        /\ \A i \in DOMAIN d.versions[f] :
               d.versions[f][i].source = "faulty" => i = 1 /\ d.versions[f][i].name = "1.0.0"

Once(d) == d.members <= 1 /\ \A t \in ToSet(Types) : d.grants[t] <= 1

ASSUME StartupAssumption ==
    /\ Types \in Seq(ToSet(Types)) /\ AgentTools \in Seq(ToSet(AgentTools))
    /\ FileTools \in Seq(ToSet(FileTools))
    /\ Databases \subseteq Database /\ \A d \in Databases : VersionsFit(d) /\ Once(d)
    /\ {AdminRole, AdminUser} \cap (ToSet(AgentTools) \cup ToSet(FileTools)) = {}

VARIABLES db,
          gen,         \* which role is named admin: a renamed one is another
          at,          \* server |-> the step it is before; 0: not running
          order,       \* server |-> in which order UpP_5 ranges over its map
          role,        \* server |-> the admin role it has looked up
          deleting,    \* deletions of tools between their two statements, by server
          starts, edits,
          since,       \* history: server |-> what happened since its start began
          overlapped,  \* history: two starts overlapped
          fatal        \* history: servers whose last start ended by itself, undisturbed

past == <<since, overlapped, fatal>>
startupVars == <<db, gen, at, order, role, deleting, starts, edits, past>>

-----------------------------------------------------------------------------
(* The program of a start.  A look goes on if the row is missing, a want if *)
(* it is there, and they skip steps otherwise; a need fails.                *)

Look(item, skip) == [do |-> "look", of |-> item, skip |-> skip]
Want(item, skip) == [do |-> "want", of |-> item, skip |-> skip]
Need(item)       == [do |-> "need", of |-> item, skip |-> 0]
Create(item)     == [do |-> "create", of |-> item, skip |-> 0]
Exec(gap)        == [do |-> "exec", of |-> <<gap>>, skip |-> 0]

Row(name)      == <<"row", name>>
Member         == <<"member">>
Grant(type)    == <<"grant", type>>
VersionOf(f, v) == <<"version", f, v>>

Each(Steps(_), names) == FlattenSeq([i \in DOMAIN names |-> Steps(names[i])])

seedRow(name)   == <<Look(Row(name), 1), Create(Row(name))>>
seedUserRoles   == <<Need(Row(AdminUser)), Need(Row(AdminRole)), Look(Member, 1), Create(Member)>>
seedGrant(type) == <<Look(Grant(type), 1), Create(Grant(type))>>
seedAdminAccess == <<Need(Row(AdminRole))>> \o Each(seedGrant, Types)
seedTool(f)     == <<Look(Row(f), 2), Create(Row(f)), Create(VersionOf(f, "1.0.0"))>>
seedCustomTools == <<Need(Row(AdminUser))>> \o Each(seedTool, FileTools)

UpP_1 == <<Exec("tables")>> \o seedRow(AdminRole) \o seedRow(AdminUser) \o seedUserRoles
         \o seedAdminAccess \o Each(seedRow, AgentTools) \o seedCustomTools

correctTool(f) == <<Want(Row(f), 2), Look(VersionOf(f, "1.0.1"), 1), Create(VersionOf(f, "1.0.1"))>>

Program(tools) ==
    UpP_1 \o <<Exec("archived"), Exec("stubs"), Exec("modes")>>
    \o Each(correctTool, tools) \o <<Exec("settings")>>

Off == 0
Starting(s) == at[s] \in DOMAIN Program(order[s])
Listening(s) == at[s] = Len(Program(order[s])) + 1
This(s) == Program(order[s])[at[s]]

StartupInit ==
    /\ db \in Databases /\ gen = 0
    /\ at = [s \in Processes |-> Off] /\ order = [s \in Processes |-> FileTools]
    /\ role = [s \in Processes |-> 0] /\ deleting = {}
    /\ starts = 0 /\ edits = 0
    /\ since = [s \in Processes |-> {}] /\ overlapped = FALSE /\ fatal = {}

-----------------------------------------------------------------------------
(* Statements. *)

\* Mutants of HasVersion: a tool with any version needs no other; only the latest counts.
HasAnyVersion(f, name) == \E v \in ToSet(db.versions[f]) : v.live

LatestIs(f, name) ==
    LET live == SelectSeq(db.versions[f], LAMBDA v : v.live)
    IN  live # <<>> /\ Last(live).name = name

HasVersion(f, name) == \E v \in ToSet(db.versions[f]) : v.live /\ v.name = name

\* What First finds.
IsThere(item) ==
    CASE item[1] = "row"     -> db.row[item[2]] = "live"
      [] item[1] = "member"  -> db.members > 0
      [] item[1] = "grant"   -> db.grants[item[2]] > 0
      [] item[1] = "version" -> HasVersion(item[2], item[3])

\* The unique indexes, which deleted rows are part of.
IsTaken(item) ==
    CASE item[1] = "row"     -> db.row[item[2]] # "none"
      [] item[1] = "version" -> \E v \in ToSet(db.versions[item[2]]) : v.name = item[3]
      [] OTHER               -> FALSE

With(item) ==
    CASE item[1] = "row"     -> [db EXCEPT !.row[item[2]] = "live"]
      [] item[1] = "member"  -> [db EXCEPT !.members = @ + 1]
      [] item[1] = "grant"   -> [db EXCEPT !.grants[item[2]] = @ + 1]
      [] item[1] = "version" ->
             [db EXCEPT !.versions[item[2]] = Append(@, Version(item[3], "fixed"))]

\* The admin role s works with has been renamed: its rows are no longer the admin's.
IsStale(s) == This(s).of[1] \in {"member", "grant"} /\ role[s] # gen

Continue(s, steps) == at' = [at EXCEPT ![s] = @ + steps] /\ UNCHANGED fatal
Fatal(s) ==
    /\ at' = [at EXCEPT ![s] = Off]
    /\ fatal' = IF since[s] = {} THEN fatal \cup {s} ELSE fatal

Query(s) ==
    /\ Starting(s) /\ This(s).do \in {"look", "want", "need"}
    /\ \E found \in IF IsStale(s) THEN BOOLEAN ELSE {IsThere(This(s).of)} :
           IF This(s).do = "need" /\ ~found THEN Fatal(s)
           ELSE Continue(s, IF (This(s).do = "look") = found THEN 1 + This(s).skip ELSE 1)
    /\ role' = IF This(s) = Need(Row(AdminRole)) THEN [role EXCEPT ![s] = gen] ELSE role
    /\ UNCHANGED <<db, order, deleting>>

Insert(s) ==
    /\ Starting(s) /\ This(s).do = "create"
    /\ IF IsTaken(This(s).of) THEN Fatal(s) /\ UNCHANGED db
       ELSE /\ Continue(s, 1)
            /\ db' = IF IsStale(s) THEN db ELSE With(This(s).of)
    /\ UNCHANGED <<order, role, deleting>>

\* AutoMigrate, and the statements that fill what is missing.  Two servers that create
\* tables, or insert settings, at the same time may hinder one another.
Execute(s) ==
    LET gap == This(s).of[1] IN
    /\ Starting(s) /\ This(s).do = "exec"
    /\ \/ Continue(s, 1) /\ db' = [db EXCEPT !.gaps = @ \ {gap}]
       \/ /\ gap \in {"tables", "settings"} \cap db.gaps
          /\ \E q \in Processes \ {s} : Starting(q) /\ This(q) = This(s)
          /\ Fatal(s) /\ UNCHANGED db
    /\ UNCHANGED <<order, role, deleting>>

-----------------------------------------------------------------------------
(* Starts and kills. *)

Start(s) ==
    LET others == {q \in Processes : Starting(q)} IN
    /\ at[s] = Off /\ starts < MaxStarts /\ starts' = starts + 1
    /\ at' = [at EXCEPT ![s] = 1]
    /\ \E tools \in [DOMAIN FileTools -> ToSet(FileTools)] :
           ToSet(tools) = ToSet(FileTools) /\ order' = [order EXCEPT ![s] = tools]
    /\ since' = [q \in Processes |-> IF q = s THEN IF others = {} THEN {} ELSE {"start"}
                                   ELSE IF q \in others THEN since[q] \cup {"start"} ELSE since[q]]
    /\ overlapped' = (overlapped \/ others # {})
    /\ fatal' = fatal \ {s}
    /\ UNCHANGED <<db, role, deleting>>

Kill(s) ==
    /\ at[s] # Off /\ at' = [at EXCEPT ![s] = Off]
    /\ deleting' = {d \in deleting : d.by # s}
    /\ UNCHANGED <<db, order, role, past>>

-----------------------------------------------------------------------------
(* What users of a server that listens do to rows the seeders look for. *)

DeleteRow(name) == db.row[name] = "live" /\ db' = [db EXCEPT !.row[name] = "deleted"]

\* The role of that name is free again, and a new one would start with nothing.
RenameRole ==
    /\ db.row[AdminRole] = "live" /\ gen' = gen + 1
    /\ db' = [row |-> [db.row EXCEPT ![AdminRole] = "none"], members |-> 0,
              grants |-> [t \in ToSet(Types) |-> 0],
              versions |-> db.versions, gaps |-> db.gaps]

RevokeGrant(type) ==
    /\ db.grants[type] > 0 /\ db' = [db EXCEPT !.grants[type] = @ - 1]

CreateVersion(f, name) ==
    /\ db.row[f] = "live" /\ ~IsTaken(VersionOf(f, name))
    /\ db' = [db EXCEPT !.versions[f] = Append(@, Version(name, "users"))]

\* customtool's DeleteTool: the versions first, then the tool.
DeleteVersions(s, f) ==
    /\ db.row[f] = "live" /\ deleting' = deleting \cup {[tool |-> f, by |-> s]}
    /\ db' = [db EXCEPT !.versions[f] = [i \in DOMAIN @ |-> [@[i] EXCEPT !.live = FALSE]]]

FinishDelete(d) ==
    /\ deleting' = deleting \ {d}
    /\ IF db.row[d.tool] = "live" THEN DeleteRow(d.tool) ELSE UNCHANGED db

Edit(s) ==
    /\ Listening(s) /\ edits < MaxEdits /\ edits' = edits + 1
    /\ \/ /\ \/ DeleteRow(AdminRole) \/ DeleteRow(AdminUser)
             \/ \E t \in ToSet(Types) : RevokeGrant(t)
             \/ \E f \in ToSet(FileTools), name \in Releases : CreateVersion(f, name)
          /\ UNCHANGED <<gen, deleting>>
       \/ RenameRole /\ UNCHANGED deleting
       \/ \E f \in ToSet(FileTools) : DeleteVersions(s, f) /\ UNCHANGED gen

Disturb == since' = [q \in Processes |-> since[q] \cup {"edit"}]

StartupNext ==
    \/ \E s \in Processes :
           \/ (Query(s) \/ Insert(s) \/ Execute(s)) /\ UNCHANGED <<gen, starts, edits, since, overlapped>>
           \/ Start(s) /\ UNCHANGED <<gen, edits>>
           \/ Kill(s) /\ UNCHANGED <<gen, starts, edits>>
           \/ Edit(s) /\ Disturb /\ UNCHANGED <<at, order, role, starts, overlapped, fatal>>
    \/ \E d \in deleting :
           FinishDelete(d) /\ Disturb
           /\ UNCHANGED <<gen, at, order, role, starts, edits, overlapped, fatal>>

StartupSpec == StartupInit /\ [][StartupNext]_startupVars

-----------------------------------------------------------------------------
\* A server that listens, with no edit since its start began, finds everything seeded,
\* whatever was killed half-way before: the admin has the role and the role its grants,
\* once each unless two starts overlapped; every tool has source, and the latest is not
\* the faulty one of old (migration.go:88); nothing of an older release is left to fill.
ListeningIsSeeded ==
    \A s \in Processes : (Listening(s) /\ "edit" \notin since[s]) =>
        /\ \A name \in Rows : db.row[name] = "live"
        /\ \A n \in {db.members} \cup {db.grants[t] : t \in ToSet(Types)} :
               n = 1 \/ (overlapped /\ n > 1)
        /\ \A f \in ToSet(FileTools) :
               \E i \in DOMAIN db.versions[f] :
                   /\ db.versions[f][i].live /\ db.versions[f][i].source # "faulty"
                   /\ \A j \in DOMAIN db.versions[f] : db.versions[f][j].live => j <= i
        /\ db.gaps = {}

\* A server whose start was undisturbed fails by itself only over what was deleted: a
\* seeded name, or a version of a file tool, that a deleted row still holds. Each step
\* of a start may be repeated (migration.go:35,64,92), however often starts are cut off.
OnlyDeletedRowsStopIt ==
    fatal # {} => \/ \E name \in Rows : db.row[name] = "deleted"
                  \/ \E f \in ToSet(FileTools) : \E i \in DOMAIN db.versions[f] :
                         ~db.versions[f][i].live
=============================================================================
