----------------------------- MODULE RemoteTools -----------------------------
(***************************************************************************)
(* The tools of a chat turn that reach a machine, and how a turn gets      *)
(* them: chat/registry.go and chat/system_tools.  Several turns of one     *)
(* caller run at once, each a sequence of statements, while others edit    *)
(* connections, rules, grants and tools through the API.  The job of a     *)
(* custom tool is run by a worker, here one step after another with its    *)
(* retries (JobQueue has the queue); what a check of access answers is     *)
(* the business of AccessCache.  A ghost: what a call was allowed at some  *)
(* instant since it began.                                                 *)
(***************************************************************************)
EXTENDS CommandPolicy, Integers

CONSTANTS Turns, Connections, ToolIds,
          Builtins,          \* the names builtinTool knows
          ToolNames,         \* the names custom tools are given
          Rules, Commands, Hosts,
          First,             \* the databases the system may begin with
          DefaultRetries,
          MaxCalls, MaxEdits, MaxFaults, MaxVersions    \* bounds of the model

VARIABLES db,       \* the tables
          turn,     \* turn |-> where it stands, its registry and its call
          calls, edits, faults,
          could     \* turn |-> what its call was allowed at some instant

vars == <<db, turn, calls, edits, faults, could>>

Names == Builtins \cup ToolNames
Modes == {"accept", "prohibited"}
NoCommand == [program |-> "none", args |-> <<>>]
NoCall == [began |-> 0, name |-> "none", conn |-> 0, command |-> NoCommand, tool |-> 0, tries |-> 0,
           host |-> "none", mode |-> "none", rules |-> {}, version |-> 0, shown |-> {}, left |-> {}]
NoTool == 0
Builtin == -1

\* A tool's row is free, live, deleted (its versions are, it is about to be) or gone.
Databases ==
    [conns: [Connections -> [live: BOOLEAN, host: Hosts, mode: Modes]],
     rules: [Connections -> SUBSET Rules],
     access: [Connections -> {"none", "read", "write"}],
     offered: SUBSET Builtins,
     usable: SUBSET ToolIds,
     tools: [ToolIds -> [life: {"free", "live", "deleting", "gone"}, name: STRING,
                         versions: Nat, by: {"none", "user", "model"}]]]

ASSUME RemoteToolsAssumption ==
    /\ ToolIds \subseteq Nat \ {0} /\ {DefaultRetries, MaxCalls, MaxEdits} \subseteq Nat
    /\ Builtins = {"list_ssh_connections", "ssh_execute", "create_custom_tool"}
    /\ ToolNames \subseteq STRING
    /\ 0 \notin Connections /\ NoCommand \notin Commands
    /\ First \subseteq Databases
    /\ \A d \in First, i \in ToolIds : d.tools[i].by = "model" => d.tools[i].versions # 0

Empty == [n \in Names |-> NoTool]

Init ==
    /\ db \in First
    /\ turn = [t \in Turns |-> [pc |-> "off", registry |-> Empty, offered |-> {}, call |-> NoCall]]
    /\ calls = 0 /\ edits = 0 /\ faults = 0
    /\ could = [t \in Turns |-> {}]

Taken(name) == \E i \in ToolIds : db.tools[i].life # "free" /\ db.tools[i].name = name
Fresh == {i \in ToolIds : /\ db.tools[i].life = "free"
                          /\ \A j \in ToolIds : db.tools[j].life = "free" => i <= j}
NewTool(name, by) == [life |-> "live", name |-> name, versions |-> 0, by |-> by]

CanAccess(c, level) == db.access[c] = "write" \/ db.access[c] = level
Stored(i) == db.tools[i].life \in {"live", "deleting"}
LatestVersion(i) == db.tools[i].versions

\* Turn t is at pc, and goes on to another with changes to its call.
At(t, pc) == turn[t].pc = pc
Call(t) == turn[t].call
Go(t, pc, changes) ==
    turn' = [turn EXCEPT ![t].pc = pc,
                         ![t].call = [x \in DOMAIN @ |-> IF x \in DOMAIN changes THEN changes[x] ELSE @[x]]]
Answer(t) == turn' = [turn EXCEPT ![t].pc = "ready", ![t].call = NoCall]
Next1(t, pc) == Go(t, pc, <<>>)

-----------------------------------------------------------------------------
(* buildRegistry. *)

BuildBuiltins(t) ==
    /\ At(t, "off")
    /\ LET rows == db.offered
       IN  turn' = [turn EXCEPT ![t].pc = "builtins", ![t].offered = rows,
                        ![t].registry = [n \in Names |-> IF n \in rows THEN Builtin ELSE NoTool]]
    /\ UNCHANGED db

BuildCustom(t) ==
    /\ At(t, "builtins")
    /\ LET rows == {i \in db.usable : Stored(i)}
       IN  turn' = [turn EXCEPT ![t].pc = "ready",
                        ![t].registry = [n \in Names |->
                            IF @[n] = NoTool /\ \E i \in rows : db.tools[i].name = n
                            THEN CHOOSE i \in rows : db.tools[i].name = n ELSE @[n]]]
    /\ UNCHANGED db

\* The model calls a tool of the registry; create_custom_tool gets a new name.
Begin(t) ==
    /\ At(t, "ready") /\ calls < MaxCalls
    /\ calls' = calls + 1
    /\ \E n \in {m \in Names : turn[t].registry[m] # NoTool}, c \in Connections :
       LET tool == turn[t].registry[n]
           On(pc, command) == Go(t, pc, [began |-> edits, name |-> n, conn |-> c, command |-> command])
       IN  \/ tool \in ToolIds /\ Go(t, "custom_check", [began |-> edits, conn |-> c, tool |-> tool])
           \/ tool = Builtin /\ n = "ssh_execute" /\ \E command \in Commands : On("ssh_check", command)
           \/ tool = Builtin /\ n = "list_ssh_connections" /\ On("list", NoCommand)
           \/ tool = Builtin /\ n = "create_custom_tool"
                  /\ \E m \in ToolNames : Go(t, "create", [began |-> edits, name |-> m])
    /\ UNCHANGED db

-----------------------------------------------------------------------------
(* list_ssh_connections: a page, and then a check of each row. *)

ListRows(t) ==
    /\ At(t, "list")
    /\ Go(t, "sift", [left |-> {c \in Connections : db.conns[c].live}])
    /\ UNCHANGED db

SiftRow(t) ==
    /\ At(t, "sift")
    /\ IF Call(t).left = {} THEN Next1(t, "listed")
       ELSE \E c \in Call(t).left :
                Go(t, "sift", [left |-> Call(t).left \ {c},
                               shown |-> Call(t).shown \cup (IF CanAccess(c, "read") THEN {c} ELSE {})])
    /\ UNCHANGED db

-----------------------------------------------------------------------------
(* ssh_execute: access, the connection, its rules, and then the policy over what *)
(* was read decides whether the command is run. *)

\* Mutant of SSHCheck: whoever may see the connection may use it.
SSHCheckRead(t) ==
    /\ At(t, "ssh_check")
    /\ IF CanAccess(Call(t).conn, "read") THEN Next1(t, "ssh_row") ELSE Answer(t)
    /\ UNCHANGED db

SSHCheck(t) ==
    /\ At(t, "ssh_check")
    /\ IF CanAccess(Call(t).conn, "write") THEN Next1(t, "ssh_row") ELSE Answer(t)
    /\ UNCHANGED db

SSHRow(t) ==
    /\ At(t, "ssh_row")
    /\ LET conn == db.conns[Call(t).conn]
       IN  IF conn.live THEN Go(t, "ssh_rules", [host |-> conn.host, mode |-> conn.mode])
           ELSE Answer(t)
    /\ UNCHANGED db

SSHRules(t) ==
    /\ At(t, "ssh_rules")
    /\ Go(t, "ssh_execute", [rules |-> db.rules[Call(t).conn]])
    /\ UNCHANGED db

\* SSHExecutor.Execute; the dial, the handshake or the command may fail.
SSHExecute(t) ==
    /\ At(t, "ssh_execute")
    /\ \/ /\ TRUE \in Verdicts(Call(t).mode, Call(t).rules, Call(t).command)
          /\ Next1(t, "ssh_ran")
       \/ Answer(t)
    /\ UNCHANGED db

-----------------------------------------------------------------------------
(* create_custom_tool. *)

\* The name is free, the caller may create tools and the source compiles, or not.
CreateCheck(t) ==
    /\ At(t, "create")
    /\ \/ turn[t].registry[Call(t).name] = NoTool /\ Next1(t, "create_row")
       \/ Answer(t)
    /\ UNCHANGED db

\* Names are unique, those of deleted tools included.
CreateTool(t) ==
    /\ At(t, "create_row")
    /\ \/ Taken(Call(t).name) /\ Answer(t) /\ UNCHANGED db
       \/ /\ ~Taken(Call(t).name)
          /\ \E i \in Fresh :
                 /\ db' = [db EXCEPT !.tools[i] = NewTool(Call(t).name, "model")]
                 /\ Go(t, "create_grant", [tool |-> i])

GrantCreatorAccess(t) ==
    /\ At(t, "create_grant")
    /\ db' = [db EXCEPT !.usable = @ \cup {Call(t).tool}]
    /\ Next1(t, "create_find")

FindTool(t) ==
    /\ At(t, "create_find")
    /\ IF Stored(Call(t).tool) THEN Next1(t, "create_version") ELSE Answer(t)
    /\ UNCHANGED db

\* Mutant of CreateVersion: the source is compiled only now.
CompileLate(t) ==
    /\ At(t, "create_version")
    /\ \/ Answer(t) /\ UNCHANGED db
       \/ /\ db' = [db EXCEPT !.tools[Call(t).tool].versions = @ + 1]
          /\ turn' = [turn EXCEPT ![t].pc = "ready", ![t].call = NoCall,
                                  ![t].registry[Call(t).name] = Call(t).tool]

\* The version is stored, and the tool is callable at once.
CreateVersion(t) ==
    /\ At(t, "create_version")
    /\ db' = [db EXCEPT !.tools[Call(t).tool].versions = @ + 1]
    /\ turn' = [turn EXCEPT ![t].pc = "ready", ![t].call = NoCall,
                            ![t].registry[Call(t).name] = Call(t).tool]

-----------------------------------------------------------------------------
(* A custom tool: the access is checked here, the job does the rest. *)

CustomCheck(t) ==
    /\ At(t, "custom_check")
    /\ IF CanAccess(Call(t).conn, "write") THEN Next1(t, "job_tool") ELSE Answer(t)
    /\ UNCHANGED db

\* The handler returns an error: the job is queued again, or fails.
JobFails(t) ==
    IF Call(t).tries < DefaultRetries THEN Go(t, "job_tool", [tries |-> Call(t).tries + 1])
    ELSE Answer(t)

JobTool(t) ==
    /\ At(t, "job_tool")
    /\ IF Stored(Call(t).tool) THEN Next1(t, "job_version") ELSE JobFails(t)
    /\ UNCHANGED db

JobVersion(t) ==
    /\ At(t, "job_version")
    /\ IF LatestVersion(Call(t).tool) # 0
       THEN Go(t, "job_row", [version |-> LatestVersion(Call(t).tool)]) ELSE JobFails(t)
    /\ UNCHANGED db

JobRow(t) ==
    /\ At(t, "job_row")
    /\ IF db.conns[Call(t).conn].live THEN Next1(t, "job_run") ELSE JobFails(t)
    /\ UNCHANGED db

\* Deployer.Run; ToolDeploy says what it does on the machine.
JobRun(t) ==
    /\ At(t, "job_run")
    /\ Next1(t, "job_ran") \/ JobFails(t)
    /\ UNCHANGED db

\* The answer goes to the model.
Tell(t) ==
    /\ turn[t].pc \in {"ssh_ran", "job_ran", "listed"}
    /\ Answer(t)
    /\ UNCHANGED db

\* A statement fails, and with it the call: its message goes to the model. The rows
\* of a list that cannot be checked are left out.
Fail(t) ==
    /\ faults < MaxFaults /\ turn[t].pc \notin {"off", "ready", "ssh_ran", "job_ran", "listed"}
    /\ faults' = faults + 1
    /\ CASE At(t, "builtins") -> Go(t, "off", <<>>)
         [] At(t, "sift") /\ Call(t).left # {} ->
                \E c \in Call(t).left : Go(t, "sift", [left |-> Call(t).left \ {c}])
         [] turn[t].pc \in {"job_tool", "job_version", "job_row", "job_run"} -> JobFails(t)
         [] OTHER -> Answer(t)
    /\ UNCHANGED db

-----------------------------------------------------------------------------
(* What others do meanwhile, one committed statement at a time. *)

EditConnection ==
    \E c \in Connections, host \in Hosts, mode \in Modes :
        db.conns[c].live /\ db' = [db EXCEPT !.conns[c].host = host, !.conns[c].mode = mode]

DeleteConnection == \E c \in Connections : db' = [db EXCEPT !.conns[c].live = FALSE]

\* A rule is created, deleted or rewritten.
EditRule ==
    \E c \in Connections, old, new \in Rules :
        \/ db' = [db EXCEPT !.rules[c] = @ \cup {new}]
        \/ db' = [db EXCEPT !.rules[c] = @ \ {old}]
        \/ old \in db.rules[c] /\ db' = [db EXCEPT !.rules[c] = (@ \ {old}) \cup {new}]

EditAccess ==
    \/ \E c \in Connections, level \in {"none", "read", "write"} :
           db' = [db EXCEPT !.access[c] = level]
    \/ \E n \in Builtins : db' = [db EXCEPT !.offered = IF n \in @ THEN @ \ {n} ELSE @ \cup {n}]
    \/ \E i \in ToolIds :
           Stored(i) /\ db' = [db EXCEPT !.usable = IF i \in @ THEN @ \ {i} ELSE @ \cup {i}]

\* A tool is created, another tab or the API may be faster; deleted, versions first;
\* or gets a version.
EditTool ==
    \E i \in ToolIds :
        \/ \E name \in ToolNames :
               i \in Fresh /\ ~Taken(name) /\ db' = [db EXCEPT !.tools[i] = NewTool(name, "user")]
        \/ /\ db.tools[i].life = "live"
           /\ db' = [db EXCEPT !.tools[i].life = "deleting", !.tools[i].versions = 0]
        \/ db.tools[i].life = "deleting" /\ db' = [db EXCEPT !.tools[i].life = "gone"]
        \/ /\ Stored(i) /\ LatestVersion(i) < MaxVersions
           /\ db' = [db EXCEPT !.tools[i].versions = @ + 1]

Edit ==
    /\ edits < MaxEdits /\ edits' = edits + 1
    /\ EditConnection \/ DeleteConnection \/ EditRule \/ EditAccess \/ EditTool
    /\ db' # db
    /\ UNCHANGED turn

-----------------------------------------------------------------------------
InCall(t) == turn[t].pc \notin {"off", "builtins", "ready"}

\* What the call of t is allowed by the tables as they are.
Allowed(t) ==
    LET call == Call(t)
        conn == db.conns[call.conn]
    IN  CASE turn[t].pc \in {"list", "sift", "listed"} ->
                 {c \in Connections : CanAccess(c, "read")}
          [] call.command # NoCommand ->
                 {host \in {conn.host} :
                     /\ CanAccess(call.conn, "write") /\ conn.live
                     /\ TRUE \in Verdicts(conn.mode, db.rules[call.conn], call.command)}
          [] call.tool # 0 /\ call.conn # 0 ->
                 IF CanAccess(call.conn, "write") THEN {"run"} ELSE {}
          [] OTHER -> {}

Watch ==
    could' = [t \in Turns |-> IF InCall(t)' THEN could[t] \cup Allowed(t)' ELSE {}]

Statement(t) ==
    \/ BuildBuiltins(t) \/ BuildCustom(t) \/ ListRows(t) \/ SiftRow(t)
    \/ SSHCheck(t) \/ SSHRow(t) \/ SSHRules(t) \/ SSHExecute(t)
    \/ CreateCheck(t) \/ CreateTool(t) \/ GrantCreatorAccess(t) \/ FindTool(t)
    \/ CreateVersion(t) \/ CustomCheck(t) \/ JobTool(t) \/ JobVersion(t) \/ JobRow(t)
    \/ JobRun(t) \/ Tell(t)

Next ==
    /\ \/ \E t \in Turns : \/ Statement(t) /\ UNCHANGED <<calls, edits, faults>>
                           \/ Begin(t) /\ UNCHANGED <<edits, faults>>
                           \/ Fail(t) /\ UNCHANGED <<calls, edits>>
       \/ Edit /\ UNCHANGED <<calls, faults>>
    /\ Watch

Spec == Init /\ [][Next]_vars

-----------------------------------------------------------------------------
\* A connection the model is shown was readable, a command or a tool that was run was
\* allowed, by grant, row and rules together, at one instant since the call began.
\* Only if two edits fell into one ssh_execute may it put a policy together that was
\* never in force: access, row and rules are three queries.
ReachedWasAllowed ==
    \A t \in Turns :
        /\ At(t, "listed") => Call(t).shown \subseteq could[t]
        /\ At(t, "ssh_ran") => Call(t).host \in could[t] \/ edits - Call(t).began >= 2
        /\ At(t, "job_ran") => "run" \in could[t]

\* What create_custom_tool leaves behind has a version, unless the tool is being
\* created or deleted: source that does not compile takes up no name, and a failed
\* statement leaves no more than one name taken by a tool that cannot run.
BeingMade(i) ==
    \E t \in Turns : Call(t).tool = i /\ turn[t].pc \in {"create_grant", "create_find", "create_version"}
Stranded ==
    {i \in ToolIds : /\ db.tools[i].life = "live" /\ db.tools[i].by = "model"
                     /\ db.tools[i].versions = 0 /\ ~BeingMade(i)}
ModelToolsHaveSource == IsFiniteSet(Stranded) /\ Cardinality(Stranded) <= faults
=============================================================================
