----------------------------- MODULE SSHProofs -----------------------------
(***************************************************************************)
(* Theorems about the two ways to a machine: the tools of a chat turn, for *)
(* every number of turns, connections, rules, commands and edits, and the  *)
(* web terminal, for any number of requests, tickets and failing           *)
(* statements.                                                             *)
(***************************************************************************)
EXTENDS RemoteTools, Terminal, FiniteSetTheorems, WellFoundedInduction, TLAPS

Resting == {"off", "builtins", "ready"}
Listing == {"list", "sift", "listed"}
Commanding == {"ssh_check", "ssh_row", "ssh_rules", "ssh_execute", "ssh_ran"}
Naming == {"create", "create_row"}
Creating == {"create_grant", "create_find", "create_version"}
Working == {"job_tool", "job_version", "job_row", "job_run", "job_ran"}

\* What the tables d let a call do: the connections it may list, the host its
\* command may reach, and what the turn k is allowed with its call.
Readable(d) == {c \in Connections : d.access[c] \in {"read", "write"}}

Policy(call, d) ==
    {host \in {d.conns[call.conn].host} :
        /\ d.access[call.conn] = "write" /\ d.conns[call.conn].live
        /\ TRUE \in Verdicts(d.conns[call.conn].mode, d.rules[call.conn], call.command)}

AllowedTo(k, d) ==
    CASE k.pc \in Listing -> Readable(d)
      [] k.call.command # NoCommand -> Policy(k.call, d)
      [] k.call.tool # 0 /\ k.call.conn # 0 ->
             IF d.access[k.call.conn] = "write" THEN {"run"} ELSE {}
      [] OTHER -> {}

\* What the command has read so far is what d says.
SoFar(pc, call, d) ==
    /\ pc # "ssh_check" => d.access[call.conn] = "write"
    /\ pc \in {"ssh_rules", "ssh_execute"} =>
           d.conns[call.conn] = [live |-> TRUE, host |-> call.host, mode |-> call.mode]
    /\ pc = "ssh_execute" => call.rules = d.rules[call.conn]

\* One edit touches the connections, the rules or the access, not two of them.
OneEdit(d, e) ==
    \/ d.conns = e.conns /\ d.rules = e.rules
    \/ d.conns = e.conns /\ d.access = e.access
    \/ d.rules = e.rules /\ d.access = e.access

SameRules(d, e) == d.conns = e.conns /\ d.rules = e.rules /\ d.access = e.access

IsTurn(k) ==
    /\ {"pc", "registry", "offered", "call"} \subseteq DOMAIN k
    /\ DOMAIN k.call = DOMAIN NoCall

\* The turn k with what its call could do, c, the tables as they are, d, the
\* edits made, e, and the tables before the last edit: a command that at most
\* one edit fell into has read the tables of now or those of before.
CommandTrue(k, c, d, e, before) ==
    /\ k.call.command \in Commands /\ k.call.conn \in Connections /\ k.call.tool = 0
    /\ k.call.began \in Nat /\ k.call.began <= e
    /\ Policy(k.call, d) \subseteq c
    /\ e = k.call.began + 1 => Policy(k.call, before) \subseteq c
    /\ k.pc = "ssh_ran" => k.call.host \in c \/ e - k.call.began >= 2
    /\ k.pc # "ssh_ran" /\ e - k.call.began < 2 =>
           \/ SoFar(k.pc, k.call, d)
           \/ e = k.call.began + 1 /\ SoFar(k.pc, k.call, before)

TurnTrue(k, c, d, e, before) ==
    /\ IsTurn(k)
    /\ k.pc \in Resting => k.call = NoCall
    /\ k.pc \in Listing =>
           /\ k.call.command = NoCommand /\ k.call.tool = 0 /\ k.call.left \subseteq Connections
           /\ k.call.shown \subseteq c /\ Readable(d) \subseteq c
    /\ k.pc \in Naming => k.call.name \in ToolNames
    /\ k.pc \in Creating => k.call.tool \in ToolIds
    /\ k.pc \in Working \cup {"custom_check"} =>
           /\ k.call.command = NoCommand
           /\ k.call.tool \in ToolIds /\ k.call.conn \in Connections
    /\ k.pc \in Working => "run" \in c
    /\ k.pc \in Commanding => CommandTrue(k, c, d, e, before)

KeptBy(before) ==
    /\ db \in Databases
    /\ OneEdit(before, db)
    /\ edits \in Nat
    /\ turn = [t \in Turns |-> turn[t]]
    /\ \A t \in Turns : TurnTrue(turn[t], could[t], db, edits, before)

-----------------------------------------------------------------------------
USE DEF At, Call

LEMMA NoCallIs ==
    /\ DOMAIN NoCall = {"began", "name", "conn", "command", "tool", "tries", "host", "mode",
                        "rules", "version", "shown", "left"}
    /\ NoCall.command = NoCommand /\ NoCall.tool = 0
    /\ NoCall.shown = {} /\ NoCall.left = {}
  BY DEF NoCall

LEMMA AllowedIs ==
    ASSUME NEW t
    PROVE  /\ Allowed(t) = AllowedTo(turn[t], db)
           /\ Allowed(t)' = AllowedTo(turn'[t], db')
  BY DEF Allowed, AllowedTo, Listing, Readable, Policy, CanAccess

LEMMA AllowedToIs ==
    ASSUME NEW k, NEW d
    PROVE  /\ k.pc \in Listing /\ k.call.command = NoCommand /\ k.call.tool = 0 =>
                  AllowedTo(k, d) = Readable(d)
           /\ k.pc \notin Listing /\ k.call.command # NoCommand /\ k.call.tool = 0 =>
                  AllowedTo(k, d) = Policy(k.call, d)
           /\ /\ k.pc \notin Listing /\ k.call.command = NoCommand
              /\ k.call.tool # 0 /\ k.call.conn # 0 /\ d.access[k.call.conn] = "write"
              => AllowedTo(k, d) = {"run"}
  BY DEF AllowedTo

LEMMA WatchIs ==
    ASSUME Watch, NEW t \in Turns, turn'[t].pc \notin Resting
    PROVE  could'[t] = could[t] \cup AllowedTo(turn'[t], db')
  BY AllowedIs DEF Watch, InCall, Resting

\* A turn that goes on elsewhere with changes to its call.
LEMMA GoIs ==
    ASSUME NEW t \in Turns, turn = [x \in Turns |-> turn[x]], IsTurn(turn[t]),
           NEW pc, NEW changes, Go(t, pc, changes)
    PROVE  /\ turn' = [x \in Turns |-> turn'[x]]
           /\ \A x \in Turns \ {t} : turn'[x] = turn[x]
           /\ IsTurn(turn'[t]) /\ turn'[t].pc = pc
           /\ turn'[t].call = [x \in DOMAIN NoCall |-> IF x \in DOMAIN changes THEN changes[x]
                                                       ELSE turn[t].call[x]]
<1> DEFINE k == turn[t]
           call == [x \in DOMAIN k.call |-> IF x \in DOMAIN changes THEN changes[x] ELSE k.call[x]]
           next == [k EXCEPT !.pc = pc, !.call = call]
<1>1. DOMAIN next = DOMAIN k /\ next.pc = pc /\ next.call = call
  BY DEF IsTurn
<1>2. turn' = [turn EXCEPT ![t] = next]
  BY DEF Go, IsTurn
<1>3. DOMAIN call = DOMAIN NoCall
  BY DEF IsTurn
<1> HIDE DEF next, call
<1>4. turn'[t] = next /\ \A x \in Turns \ {t} : turn'[x] = turn[x]
  BY <1>2
<1>5. QED
  BY <1>1, <1>2, <1>3, <1>4 DEF IsTurn, call

LEMMA AnswerIs ==
    ASSUME NEW t \in Turns, turn = [x \in Turns |-> turn[x]], IsTurn(turn[t]), Answer(t)
    PROVE  /\ turn' = [x \in Turns |-> turn'[x]]
           /\ \A x \in Turns \ {t} : turn'[x] = turn[x]
           /\ IsTurn(turn'[t]) /\ turn'[t].pc = "ready" /\ turn'[t].call = NoCall
<1> DEFINE next == [turn[t] EXCEPT !.pc = "ready", !.call = NoCall]
<1>1. DOMAIN next = DOMAIN turn[t] /\ next.pc = "ready" /\ next.call = NoCall
  BY DEF IsTurn
<1>2. turn' = [turn EXCEPT ![t] = next]
  BY DEF Answer, IsTurn
<1> HIDE DEF next
<1>3. turn'[t] = next /\ \A x \in Turns \ {t} : turn'[x] = turn[x]
  BY <1>2
<1>4. QED
  BY <1>1, <1>2, <1>3 DEF IsTurn

-----------------------------------------------------------------------------
\* More that the call could do, and tables that differ in nothing it asks of.
LEMMA TurnKeeps ==
    ASSUME NEW k, NEW c, NEW d, NEW e, NEW before, TurnTrue(k, c, d, e, before),
           NEW more, c \subseteq more \/ k.pc \in Resting, NEW other, SameRules(d, other)
    PROVE  TurnTrue(k, more, other, e, before)
<1>1. Readable(other) = Readable(d) /\ \A call : Policy(call, other) = Policy(call, d)
  BY DEF Readable, Policy, SameRules
<1>2. \A pc, call : SoFar(pc, call, d) => SoFar(pc, call, other)
  BY DEF SoFar, SameRules
<1>3. CASE k.pc \in Resting
  BY <1>3 DEF TurnTrue, Resting, Listing, Naming, Creating, Working, Commanding
<1>4. CASE c \subseteq more
  <2>1. k.pc \in Commanding => CommandTrue(k, more, other, e, before)
    BY <1>1, <1>2, <1>4 DEF CommandTrue, TurnTrue
  <2>2. QED
    BY <1>1, <1>4, <2>1 DEF TurnTrue
<1>5. QED
  BY <1>3, <1>4

\* The tables are edited, once: what the call could do now is added.
LEMMA TurnEdited ==
    ASSUME NEW k, NEW c, NEW d, NEW e \in Nat, NEW before, TurnTrue(k, c, d, e, before),
           NEW after, OneEdit(d, after), NEW more,
           k.pc \notin Resting => more = c \cup AllowedTo(k, after)
    PROVE  TurnTrue(k, more, after, e + 1, d)
<1>1. CASE k.pc \in Resting
  BY <1>1 DEF TurnTrue, Resting, Listing, Naming, Creating, Working, Commanding
<1>2. CASE k.pc \in Listing
  <2>1. more = c \cup Readable(after)
    BY <1>2, AllowedToIs DEF TurnTrue, Resting, Listing
  <2>2. QED
    BY <1>2, <2>1 DEF TurnTrue, Resting, Listing, Naming, Creating, Working, Commanding
<1>3. CASE k.pc \in Commanding
  <2>1. CommandTrue(k, c, d, e, before) /\ k.pc \notin Listing /\ k.pc \notin Resting
    BY <1>3 DEF TurnTrue, Resting, Listing, Commanding
  <2>2. k.call.command # NoCommand /\ k.call.tool = 0
    BY <2>1, RemoteToolsAssumption DEF CommandTrue, RemoteToolsAssumption
  <2>3. more = c \cup Policy(k.call, after)
    BY <2>1, <2>2, AllowedToIs
  <2>4. CommandTrue(k, more, after, e + 1, d)
    <3>1. k.call.began \in Nat /\ k.call.began <= e
      BY <2>1 DEF CommandTrue
    <3>2. e + 1 = k.call.began + 1 => Policy(k.call, d) \subseteq more
      BY <2>1, <2>3 DEF CommandTrue
    <3>3. k.pc = "ssh_ran" => k.call.host \in more \/ (e + 1) - k.call.began >= 2
      BY <2>1, <2>3, <3>1 DEF CommandTrue
    <3>4. k.pc # "ssh_ran" /\ (e + 1) - k.call.began < 2 =>
              e + 1 = k.call.began + 1 /\ SoFar(k.pc, k.call, d)
      BY <2>1, <3>1 DEF CommandTrue
    <3>5. QED
      BY <2>1, <2>3, <3>1, <3>2, <3>3, <3>4 DEF CommandTrue
  <2>5. QED
    BY <1>3, <2>4 DEF TurnTrue, Resting, Listing, Naming, Creating, Working, Commanding
<1>4. CASE k.pc \notin Resting \cup Listing \cup Commanding
  <2>1. c \subseteq more
    BY <1>4
  <2>2. QED
    BY <1>4, <2>1 DEF TurnTrue
<1>5. QED
  BY <1>1, <1>2, <1>3, <1>4

\* The command of k makes one of its three queries of d, and goes on as next.
Reads(k, next, d) ==
    \/ /\ k.pc = "ssh_check" /\ next.pc = "ssh_row"
       /\ d.access[k.call.conn] = "write"
    \/ /\ k.pc = "ssh_row" /\ next.pc = "ssh_rules"
       /\ d.conns[k.call.conn] =
              [live |-> TRUE, host |-> next.call.host, mode |-> next.call.mode]
    \/ /\ k.pc = "ssh_rules" /\ next.pc = "ssh_execute"
       /\ next.call.host = k.call.host /\ next.call.mode = k.call.mode
       /\ next.call.rules = d.rules[k.call.conn]

\* Where a command reads the next of the three queries: of now, the one view it may
\* have begun with, or of before the only edit since it began.
LEMMA ReadOn ==
    ASSUME NEW d, NEW before, OneEdit(before, d), NEW v \in {d, before}, NEW k,
           k.pc \in {"ssh_check", "ssh_row", "ssh_rules"}, SoFar(k.pc, k.call, v),
           NEW next, next.call.conn = k.call.conn, Reads(k, next, d)
    PROVE  SoFar(next.pc, next.call, d) \/ SoFar(next.pc, next.call, v)
<1>1. CASE v = d
  BY <1>1 DEF SoFar, Reads
<1>2. CASE v = before
  BY <1>2 DEF SoFar, OneEdit, Reads
<1>3. QED
  BY <1>1, <1>2

LEMMA CommandGoesOn ==
    ASSUME NEW k, NEW c, NEW d, NEW e \in Nat, NEW before, TurnTrue(k, c, d, e, before),
           OneEdit(before, d), k.pc \in Commanding, NEW next, IsTurn(next),
           next.call.command = k.call.command, next.call.conn = k.call.conn,
           next.call.tool = k.call.tool, next.call.began = k.call.began,
           NEW more, c \subseteq more,
           \/ Reads(k, next, d)
           \/ /\ k.pc = "ssh_execute" /\ next.pc = "ssh_ran" /\ next.call.host = k.call.host
              /\ TRUE \in Verdicts(k.call.mode, k.call.rules, k.call.command)
    PROVE  TurnTrue(next, more, d, e, before)
<1>1. CommandTrue(k, c, d, e, before)
  BY DEF TurnTrue
<1>2. k.call.began \in Nat /\ k.call.began <= e
  BY <1>1 DEF CommandTrue
<1>3. \A v : Policy(next.call, v) = Policy(k.call, v)
  BY DEF Policy
<1>4. CASE next.pc # "ssh_ran"
  <2>1. ASSUME e - k.call.began < 2
        PROVE  \/ SoFar(next.pc, next.call, d)
               \/ e = k.call.began + 1 /\ SoFar(next.pc, next.call, before)
    <3>1. k.pc # "ssh_ran"
      BY <1>4 DEF Reads
    <3>2. SoFar(k.pc, k.call, d) \/ (e = k.call.began + 1 /\ SoFar(k.pc, k.call, before))
      BY <1>1, <2>1, <3>1 DEF CommandTrue
    <3>3. ASSUME NEW v \in {d, before}, SoFar(k.pc, k.call, v)
          PROVE  SoFar(next.pc, next.call, d) \/ SoFar(next.pc, next.call, v)
      <4>1. Reads(k, next, d) /\ k.pc \in {"ssh_check", "ssh_row", "ssh_rules"}
        BY <1>4 DEF Reads
      <4>2. QED
        BY <3>3, <4>1, ReadOn
    <3>4. QED
      BY <3>2, <3>3
  <2>2. CommandTrue(next, more, d, e, before)
    BY <1>1, <1>2, <1>3, <1>4, <2>1 DEF CommandTrue
  <2>3. next.pc \in Commanding
    BY <1>4 DEF Commanding, Reads
  <2>4. QED
    BY <2>2, <2>3 DEF TurnTrue, Resting, Listing, Naming, Creating, Working, Commanding
<1>5. CASE next.pc = "ssh_ran"
  <2> k.pc = "ssh_execute" /\ next.call.host = k.call.host
    BY <1>5 DEF Reads
  <2>1. ASSUME e - k.call.began < 2 PROVE next.call.host \in more
    <3>1. SoFar(k.pc, k.call, d) \/ (e = k.call.began + 1 /\ SoFar(k.pc, k.call, before))
      BY <1>1, <1>5, <2>1 DEF CommandTrue
    <3>2. \A v : SoFar(k.pc, k.call, v) => k.call.host \in Policy(k.call, v)
      <4>1. k.pc = "ssh_execute" /\ TRUE \in Verdicts(k.call.mode, k.call.rules, k.call.command)
        BY <1>5 DEF Reads
      <4> SUFFICES ASSUME NEW v, SoFar(k.pc, k.call, v) PROVE k.call.host \in Policy(k.call, v)
        OBVIOUS
      <4> DEFINE row == v.conns[k.call.conn]
      <4>2. /\ v.access[k.call.conn] = "write" /\ k.call.rules = v.rules[k.call.conn]
            /\ row = [live |-> TRUE, host |-> k.call.host, mode |-> k.call.mode]
        BY <4>1 DEF SoFar
      <4>3. row.live /\ row.host = k.call.host /\ row.mode = k.call.mode
        BY <4>2
      <4>4. QED
        BY <4>1, <4>2, <4>3 DEF Policy
    <3>3. QED
      BY <1>1, <1>5, <3>1, <3>2 DEF CommandTrue
  <2>2. CommandTrue(next, more, d, e, before)
    BY <1>1, <1>2, <1>3, <1>5, <2>1 DEF CommandTrue
  <2>3. QED
    BY <1>5, <2>2 DEF TurnTrue, Resting, Listing, Naming, Creating, Working, Commanding
<1>6. QED
  BY <1>4, <1>5

\* A turn that answers, or is still to begin.
LEMMA IdleIsTrue ==
    ASSUME NEW k, IsTurn(k), k.pc \in Resting, k.call = NoCall, NEW c, NEW d, NEW e, NEW before
    PROVE  TurnTrue(k, c, d, e, before)
  BY DEF TurnTrue, Resting, Listing, Naming, Creating, Working, Commanding

-----------------------------------------------------------------------------
\* A step of the turn t: it stays true, so does every other.
StepTrue(t, before) ==
    /\ turn' = [x \in Turns |-> turn'[x]]
    /\ \A x \in Turns \ {t} : turn'[x] = turn[x]
    /\ TurnTrue(turn'[t], could'[t], db, edits, before)

LEMMA TurnStep ==
    ASSUME NEW before, KeptBy(before), Watch, UNCHANGED edits,
           db' \in Databases, SameRules(db, db'), NEW t \in Turns, StepTrue(t, before)
    PROVE  KeptBy(before)'
<1>1. ASSUME NEW x \in Turns PROVE TurnTrue(turn'[x], could'[x], db', edits, before)
  <2>1. CASE x = t
    BY <2>1, TurnKeeps DEF StepTrue
  <2>2. CASE x # t
    <3>1. TurnTrue(turn[x], could[x], db, edits, before) /\ turn'[x] = turn[x]
      BY <2>2 DEF KeptBy, StepTrue
    <3>2. could[x] \subseteq could'[x] \/ turn'[x].pc \in Resting
      BY WatchIs
    <3>3. QED
      BY <3>1, <3>2, TurnKeeps
  <2>3. QED
    BY <2>1, <2>2
<1>2. OneEdit(before, db')
  BY DEF KeptBy, OneEdit, SameRules
<1>3. QED
  BY <1>1, <1>2 DEF KeptBy, StepTrue

LEMMA AnswerStep ==
    ASSUME NEW before, KeptBy(before), NEW t \in Turns, Answer(t) PROVE StepTrue(t, before)
<1>1. IsTurn(turn[t]) /\ turn = [x \in Turns |-> turn[x]]
  BY DEF KeptBy, TurnTrue
<1>2. QED
  BY <1>1, AnswerIs, IdleIsTrue DEF StepTrue, Resting

LEMMA BuildStep ==
    ASSUME NEW before, KeptBy(before), NEW t \in Turns, BuildBuiltins(t) \/ BuildCustom(t)
    PROVE  StepTrue(t, before)
<1>1. /\ IsTurn(turn[t]) /\ turn = [x \in Turns |-> turn[x]]
      /\ turn[t].pc \in Resting /\ turn[t].call = NoCall
  BY DEF KeptBy, TurnTrue, BuildBuiltins, BuildCustom, Resting
<1>2. /\ turn' = [x \in Turns |-> turn'[x]]
      /\ \A x \in Turns \ {t} : turn'[x] = turn[x]
      /\ IsTurn(turn'[t]) /\ turn'[t].pc \in {"builtins", "ready"} /\ turn'[t].call = NoCall
  <2>1. CASE BuildBuiltins(t)
    BY <1>1, <2>1 DEF BuildBuiltins, IsTurn
  <2>2. CASE BuildCustom(t)
    BY <1>1, <2>2 DEF BuildCustom, IsTurn
  <2>3. QED
    BY <2>1, <2>2
<1>3. QED
  BY <1>2, IdleIsTrue DEF StepTrue, Resting

\* A turn that goes on to a statement of its call.
WentOn(t, pc, changes) ==
    /\ turn' = [x \in Turns |-> turn'[x]]
    /\ \A x \in Turns \ {t} : turn'[x] = turn[x]
    /\ IsTurn(turn'[t]) /\ turn'[t].pc = pc
    /\ turn'[t].call = [x \in DOMAIN NoCall |-> IF x \in DOMAIN changes THEN changes[x]
                                                ELSE turn[t].call[x]]
    /\ could'[t] = could[t] \cup AllowedTo(turn'[t], db)

LEMMA GoesOn ==
    ASSUME NEW before, KeptBy(before), Watch, SameRules(db, db'), NEW t \in Turns,
           NEW pc, pc \notin Resting, NEW changes, Go(t, pc, changes)
    PROVE  WentOn(t, pc, changes)
<1>1. TurnTrue(turn[t], could[t], db, edits, before)
  BY DEF KeptBy
<1>2. IsTurn(turn[t])
  BY <1>1 DEF TurnTrue
<1>3. AllowedTo(turn'[t], db') = AllowedTo(turn'[t], db)
  BY DEF AllowedTo, Readable, Policy, SameRules
<1>4. turn = [x \in Turns |-> turn[x]]
  BY DEF KeptBy
<1>5. turn'[t].pc = pc
  BY <1>2, <1>4, GoIs
<1>6. could'[t] = could[t] \cup AllowedTo(turn'[t], db)
  BY <1>3, <1>5, WatchIs
<1>7. QED
  BY <1>2, <1>4, <1>6, GoIs DEF WentOn

LEMMA CommandStep ==
    ASSUME NEW before, KeptBy(before), Watch, UNCHANGED db, NEW t \in Turns,
           SSHCheck(t) \/ SSHRow(t) \/ SSHRules(t) \/ SSHExecute(t)
    PROVE  StepTrue(t, before)
<1>1. \/ Answer(t)
      \/ turn[t].pc = "ssh_check" /\ CanAccess(turn[t].call.conn, "write") /\ Go(t, "ssh_row", <<>>)
      \/ LET conn == db.conns[turn[t].call.conn]
         IN  /\ turn[t].pc = "ssh_row" /\ conn.live
             /\ Go(t, "ssh_rules", [host |-> conn.host, mode |-> conn.mode])
      \/ /\ turn[t].pc = "ssh_rules"
         /\ Go(t, "ssh_execute", [rules |-> db.rules[turn[t].call.conn]])
      \/ /\ turn[t].pc = "ssh_execute" /\ Go(t, "ssh_ran", <<>>)
         /\ TRUE \in Verdicts(turn[t].call.mode, turn[t].call.rules, turn[t].call.command)
  BY DEF SSHCheck, SSHRow, SSHRules, SSHExecute, Next1
<1> DEFINE k == turn[t]
           next == turn'[t]
<1>2. k.pc \in Commanding => k.call.conn \in Connections /\ TurnTrue(k, could[t], db, edits, before)
  BY DEF KeptBy, TurnTrue, CommandTrue
<1>3. SameRules(db, db') /\ edits \in Nat /\ OneEdit(before, db)
  BY DEF SameRules, KeptBy
<1>4. CASE Answer(t)
  BY <1>4, AnswerStep
<1>5. CASE k.pc = "ssh_check" /\ CanAccess(k.call.conn, "write") /\ Go(t, "ssh_row", <<>>)
  <2>1. WentOn(t, "ssh_row", <<>>)
    BY <1>3, <1>5, GoesOn DEF Resting
  <2>2. Reads(k, next, db)
    BY <1>5, <2>1 DEF Reads, CanAccess, WentOn
  <2>3. /\ next.call.command = k.call.command /\ next.call.conn = k.call.conn
        /\ next.call.tool = k.call.tool /\ next.call.began = k.call.began
    BY <2>1, NoCallIs DEF WentOn
  <2>4. TurnTrue(next, could'[t], db, edits, before)
    BY <1>2, <1>3, <1>5, <2>1, <2>2, <2>3, CommandGoesOn DEF Commanding, WentOn
  <2>5. QED
    BY <2>1, <2>4 DEF StepTrue, WentOn
<1>6. CASE LET conn == db.conns[k.call.conn]
           IN  /\ k.pc = "ssh_row" /\ conn.live
               /\ Go(t, "ssh_rules", [host |-> conn.host, mode |-> conn.mode])
  <2> DEFINE conn == db.conns[k.call.conn]
             changes == [host |-> conn.host, mode |-> conn.mode]
  <2>1. k.pc = "ssh_row" /\ conn.live /\ Go(t, "ssh_rules", changes)
    BY <1>6
  <2>2. WentOn(t, "ssh_rules", changes)
    <3> HIDE DEF changes
    <3> QED BY <1>3, <2>1, GoesOn DEF Resting
  <2>3. /\ next.call.command = k.call.command /\ next.call.conn = k.call.conn
        /\ next.call.tool = k.call.tool /\ next.call.began = k.call.began
        /\ next.call.host = conn.host /\ next.call.mode = conn.mode
    BY <2>2, NoCallIs DEF WentOn
  <2>4. conn \in [live: BOOLEAN, host: Hosts, mode: Modes]
    BY <1>2, <2>1 DEF KeptBy, Databases, Commanding
  <2>5. conn = [live |-> TRUE, host |-> next.call.host, mode |-> next.call.mode]
    BY <2>1, <2>3, <2>4
  <2>6. Reads(k, next, db)
    BY <2>1, <2>2, <2>5 DEF Reads, WentOn
  <2>7. TurnTrue(next, could'[t], db, edits, before)
    BY <1>2, <1>3, <2>1, <2>2, <2>3, <2>6, CommandGoesOn DEF Commanding, WentOn
  <2>8. QED
    BY <2>2, <2>7 DEF StepTrue, WentOn
<1>7. CASE k.pc = "ssh_rules" /\ Go(t, "ssh_execute", [rules |-> db.rules[k.call.conn]])
  <2> DEFINE changes == [rules |-> db.rules[k.call.conn]]
  <2>1. k.pc = "ssh_rules" /\ Go(t, "ssh_execute", changes)
    BY <1>7
  <2>2. WentOn(t, "ssh_execute", changes)
    <3> HIDE DEF changes
    <3> QED BY <1>3, <2>1, GoesOn DEF Resting
  <2>3. /\ next.call.command = k.call.command /\ next.call.conn = k.call.conn
        /\ next.call.tool = k.call.tool /\ next.call.began = k.call.began
        /\ next.call.host = k.call.host /\ next.call.mode = k.call.mode
        /\ next.call.rules = db.rules[k.call.conn]
    BY <2>2, NoCallIs DEF WentOn
  <2>4. Reads(k, next, db)
    BY <2>1, <2>2, <2>3 DEF Reads, WentOn
  <2>5. TurnTrue(next, could'[t], db, edits, before)
    BY <1>2, <1>3, <2>1, <2>2, <2>3, <2>4, CommandGoesOn DEF Commanding, WentOn
  <2>6. QED
    BY <2>2, <2>5 DEF StepTrue, WentOn
<1>8. CASE /\ k.pc = "ssh_execute" /\ Go(t, "ssh_ran", <<>>)
           /\ TRUE \in Verdicts(k.call.mode, k.call.rules, k.call.command)
  <2>1. WentOn(t, "ssh_ran", <<>>)
    BY <1>3, <1>8, GoesOn DEF Resting
  <2>2. /\ next.call.command = k.call.command /\ next.call.conn = k.call.conn
        /\ next.call.tool = k.call.tool /\ next.call.began = k.call.began
        /\ next.call.host = k.call.host
    BY <2>1, NoCallIs DEF WentOn
  <2>3. TurnTrue(next, could'[t], db, edits, before)
    BY <1>2, <1>3, <1>8, <2>1, <2>2, CommandGoesOn DEF Commanding, WentOn
  <2>4. QED
    BY <2>1, <2>3 DEF StepTrue, WentOn
<1>9. QED
  BY <1>1, <1>4, <1>5, <1>6, <1>7, <1>8

\* Where a turn may go on to, by what its next statement is for.
LEMMA ListTrue ==
    ASSUME NEW before, KeptBy(before), NEW t \in Turns, turn[t].pc \in Listing,
           NEW pc \in Listing, NEW changes, WentOn(t, pc, changes),
           DOMAIN changes \subseteq {"left", "shown"},
           turn'[t].call.shown \subseteq could[t], turn'[t].call.left \subseteq Connections
    PROVE  StepTrue(t, before)
<1> DEFINE k == turn[t]
           next == turn'[t]
<1>1. TurnTrue(k, could[t], db, edits, before) /\ could[t] \subseteq could'[t]
  BY DEF KeptBy, WentOn
<1>2. next.call.command = k.call.command /\ next.call.tool = k.call.tool
  BY NoCallIs DEF WentOn
<1>3. IsTurn(next) /\ next.pc \in Listing
  BY DEF WentOn
<1> HIDE DEF k, next
<1>4. TurnTrue(next, could'[t], db, edits, before)
  BY <1>1, <1>2, <1>3 DEF TurnTrue, Resting, Listing, Naming, Creating, Working, Commanding, k, next
<1>5. QED
  BY <1>4 DEF StepTrue, WentOn, next

LEMMA ListStep ==
    ASSUME NEW before, KeptBy(before), Watch, UNCHANGED db, NEW t \in Turns,
           ListRows(t) \/ SiftRow(t)
    PROVE  StepTrue(t, before)
<1> DEFINE k == turn[t]
<1>1. /\ k.pc \in Listing
      /\ k.call.shown \subseteq could[t] /\ Readable(db) \subseteq could[t]
      /\ k.call.left \subseteq Connections
  BY DEF ListRows, SiftRow, Listing, KeptBy, TurnTrue
<1>2. SameRules(db, db')
  BY DEF SameRules
<1>3. CASE ListRows(t)
  <2> DEFINE changes == [left |-> {c \in Connections : db.conns[c].live}]
  <2>1. Go(t, "sift", changes)
    BY <1>3 DEF ListRows
  <2>2. DOMAIN changes = {"left"} /\ changes.left \subseteq Connections
    OBVIOUS
  <2> HIDE DEF changes
  <2>3. WentOn(t, "sift", changes)
    BY <1>2, <2>1, GoesOn DEF Resting
  <2>4. turn'[t].call.shown = k.call.shown /\ turn'[t].call.left \subseteq Connections
    BY <2>2, <2>3, NoCallIs DEF WentOn
  <2>5. QED
    BY <1>1, <2>2, <2>3, <2>4, ListTrue DEF Listing
<1>4. CASE SiftRow(t) /\ k.call.left = {}
  <2>1. Go(t, "listed", <<>>)
    BY <1>4 DEF SiftRow, Next1
  <2>2. WentOn(t, "listed", <<>>)
    BY <1>2, <2>1, GoesOn DEF Resting
  <2>3. turn'[t].call.shown = k.call.shown /\ turn'[t].call.left \subseteq Connections
    BY <1>1, <2>2, NoCallIs DEF WentOn
  <2>4. QED
    BY <1>1, <2>2, <2>3, ListTrue DEF Listing
<1>5. CASE SiftRow(t) /\ k.call.left # {}
  <2>1. PICK c \in k.call.left :
            Go(t, "sift", [left |-> k.call.left \ {c},
                           shown |-> k.call.shown \cup (IF CanAccess(c, "read") THEN {c} ELSE {})])
    BY <1>5 DEF SiftRow
  <2> DEFINE more == IF CanAccess(c, "read") THEN {c} ELSE {}
             changes == [left |-> k.call.left \ {c}, shown |-> k.call.shown \cup more]
  <2>2. DOMAIN changes = {"left", "shown"} /\ changes.shown = k.call.shown \cup more
        /\ changes.left \subseteq Connections
    BY <1>1
  <2>3. Go(t, "sift", changes)
    BY <2>1
  <2> HIDE DEF changes
  <2>4. WentOn(t, "sift", changes)
    BY <1>2, <2>3, GoesOn DEF Resting
  <2>5. turn'[t].call.shown = k.call.shown \cup more /\ turn'[t].call.left \subseteq Connections
    BY <2>2, <2>4, NoCallIs DEF WentOn
  <2>6. more \cap Connections \subseteq Readable(db)
    BY DEF CanAccess, Readable
  <2>7. turn'[t].call.shown \subseteq could[t]
    BY <1>1, <2>1, <2>5, <2>6
  <2>8. QED
    BY <1>1, <2>2, <2>4, <2>5, <2>7, ListTrue DEF Listing
<1>6. QED
  BY <1>3, <1>4, <1>5

LEMMA NameTrue ==
    ASSUME NEW before, NEW t \in Turns, NEW pc \in Naming \cup Creating,
           NEW changes, WentOn(t, pc, changes),
           pc \in Naming => turn'[t].call.name \in ToolNames,
           pc \in Creating => turn'[t].call.tool \in ToolIds
    PROVE  StepTrue(t, before)
<1> DEFINE next == turn'[t]
<1>1. /\ IsTurn(next) /\ next.pc \in Naming \cup Creating
      /\ next.pc \in Naming => next.call.name \in ToolNames
      /\ next.pc \in Creating => next.call.tool \in ToolIds
  BY DEF WentOn
<1> HIDE DEF next
<1>2. TurnTrue(next, could'[t], db, edits, before)
  BY <1>1 DEF TurnTrue, Resting, Listing, Naming, Creating, Working, Commanding
<1>3. QED
  BY <1>2 DEF StepTrue, WentOn, next

\* What create_custom_tool stores keeps the tables what they are.
LEMMA ToolStored ==
    ASSUME db \in Databases, NEW i \in ToolIds,
           \/ \E name \in STRING, by \in {"user", "model"} :
                  db' = [db EXCEPT !.tools[i] = NewTool(name, by)]
           \/ db' = [db EXCEPT !.usable = @ \cup {i}]
           \/ db' = [db EXCEPT !.tools[i].versions = @ + 1]
    PROVE  db' \in Databases /\ SameRules(db, db')
<1>1. CASE \E name \in STRING, by \in {"user", "model"} :
               db' = [db EXCEPT !.tools[i] = NewTool(name, by)]
  <2>1. PICK name \in STRING, by \in {"user", "model"} :
            db' = [db EXCEPT !.tools[i] = NewTool(name, by)]
    BY <1>1
  <2> DEFINE next == NewTool(name, by)
  <2>2. next \in [life: {"free", "live", "deleting", "gone"}, name: STRING,
                  versions: Nat, by: {"none", "user", "model"}]
    BY DEF NewTool
  <2>3. db' = [db EXCEPT !.tools[i] = next]
    BY <2>1
  <2> HIDE DEF next
  <2>4. QED
    BY <2>2, <2>3 DEF Databases, SameRules
<1>2. CASE db' = [db EXCEPT !.usable = @ \cup {i}]
  BY <1>2 DEF Databases, SameRules
<1>3. CASE db' = [db EXCEPT !.tools[i].versions = @ + 1]
  <2> DEFINE row == db.tools[i]
             next == [row EXCEPT !.versions = @ + 1]
  <2>1. row.versions \in Nat /\ next \in [life: {"free", "live", "deleting", "gone"}, name: STRING,
                                          versions: Nat, by: {"none", "user", "model"}]
    BY DEF Databases
  <2>2. db' = [db EXCEPT !.tools[i] = next]
    BY <1>3 DEF Databases
  <2> HIDE DEF next
  <2>3. QED
    BY <2>1, <2>2 DEF Databases, SameRules
<1>4. QED
  BY <1>1, <1>2, <1>3

Creates(t) == \/ CreateCheck(t) \/ CreateTool(t) \/ GrantCreatorAccess(t)
              \/ FindTool(t) \/ CreateVersion(t)

LEMMA CreateStep ==
    ASSUME NEW before, KeptBy(before), Watch, NEW t \in Turns, Creates(t)
    PROVE  StepTrue(t, before) /\ db' \in Databases /\ SameRules(db, db')
<1> DEFINE k == turn[t]
<1>1. /\ k.pc \in Naming => k.call.name \in ToolNames /\ k.call.name \in STRING
      /\ k.pc \in Creating => k.call.tool \in ToolIds
      /\ db \in Databases
  BY RemoteToolsAssumption DEF KeptBy, TurnTrue, RemoteToolsAssumption
<1>2. CASE Answer(t) /\ UNCHANGED db
  BY <1>1, <1>2, AnswerStep DEF SameRules
<1>3. CASE k.pc \in Naming /\ Go(t, "create_row", <<>>) /\ UNCHANGED db
  <2>1. SameRules(db, db')
    BY <1>3 DEF SameRules
  <2>2. WentOn(t, "create_row", <<>>)
    BY <1>3, <2>1, GoesOn DEF Resting
  <2>3. turn'[t].call.name = k.call.name
    BY <2>2, NoCallIs DEF WentOn
  <2>4. QED
    BY <1>1, <1>3, <2>1, <2>2, <2>3, NameTrue DEF Naming, Creating
<1>4. ASSUME NEW i \in ToolIds, k.pc \in Naming, Go(t, "create_grant", [tool |-> i]),
             db' = [db EXCEPT !.tools[i] = NewTool(k.call.name, "model")]
      PROVE  StepTrue(t, before) /\ db' \in Databases /\ SameRules(db, db')
  <2>1. db' \in Databases /\ SameRules(db, db')
    BY <1>1, <1>4, ToolStored
  <2>2. WentOn(t, "create_grant", [tool |-> i])
    BY <1>4, <2>1, GoesOn DEF Resting
  <2>3. turn'[t].call.tool = i
    BY <2>2, NoCallIs DEF WentOn
  <2>4. QED
    BY <2>1, <2>2, <2>3, NameTrue DEF Naming, Creating
<1>5. ASSUME NEW pc \in {"create_find", "create_version"}, k.pc \in Creating, Go(t, pc, <<>>),
             UNCHANGED db \/ db' = [db EXCEPT !.usable = @ \cup {k.call.tool}]
      PROVE  StepTrue(t, before) /\ db' \in Databases /\ SameRules(db, db')
  <2>1. db' \in Databases /\ SameRules(db, db')
    BY <1>1, <1>5, ToolStored DEF SameRules
  <2>2. WentOn(t, pc, <<>>)
    BY <1>5, <2>1, GoesOn DEF Resting
  <2>3. turn'[t].call.tool = k.call.tool
    BY <2>2, NoCallIs DEF WentOn
  <2>4. QED
    BY <1>1, <1>5, <2>1, <2>2, <2>3, NameTrue DEF Naming, Creating
<1>6. CASE CreateVersion(t)
  <2>1. /\ k.pc \in Creating
        /\ db' = [db EXCEPT !.tools[k.call.tool].versions = @ + 1]
        /\ turn' = [turn EXCEPT ![t].pc = "ready", ![t].call = NoCall,
                                ![t].registry[k.call.name] = k.call.tool]
    BY <1>6 DEF CreateVersion, Creating
  <2>2. db' \in Databases /\ SameRules(db, db')
    BY <1>1, <2>1, ToolStored
  <2>3. IsTurn(k) /\ turn = [x \in Turns |-> turn[x]]
    BY DEF KeptBy, TurnTrue
  <2>4. /\ turn' = [x \in Turns |-> turn'[x]]
        /\ \A x \in Turns \ {t} : turn'[x] = turn[x]
        /\ IsTurn(turn'[t]) /\ turn'[t].pc = "ready" /\ turn'[t].call = NoCall
    BY <2>1, <2>3 DEF IsTurn
  <2>5. QED
    BY <2>2, <2>4, IdleIsTrue DEF StepTrue, Resting
<1>7. CASE CreateTool(t)
  <2>1. k.pc = "create_row" /\ Fresh \subseteq ToolIds
    BY <1>7 DEF CreateTool, Fresh
  <2>2. CASE Answer(t) /\ UNCHANGED db
    BY <1>2, <2>2
  <2>3. CASE \E i \in Fresh :
                 /\ db' = [db EXCEPT !.tools[i] = NewTool(k.call.name, "model")]
                 /\ Go(t, "create_grant", [tool |-> i])
    BY <1>4, <2>1, <2>3 DEF Naming
  <2>4. QED
    BY <1>7, <2>2, <2>3 DEF CreateTool
<1>8. CASE CreateCheck(t)
  BY <1>2, <1>3, <1>8 DEF CreateCheck, Naming, Next1
<1>9. CASE GrantCreatorAccess(t)
  BY <1>5, <1>9 DEF GrantCreatorAccess, Creating, Next1
<1>10. CASE FindTool(t)
  BY <1>2, <1>5, <1>10 DEF FindTool, Creating, Next1
<1>11. QED
  BY <1>6, <1>7, <1>8, <1>9, <1>10 DEF Creates

\* The job of a custom tool.
LEMMA WorkTrue ==
    ASSUME NEW before, NEW t \in Turns, KeptBy(before), NEW pc \in Working,
           turn[t].pc \in Working \cup {"custom_check"},
           NEW changes, WentOn(t, pc, changes), DOMAIN changes \subseteq {"tries", "version"},
           turn[t].pc \in Working \/ db.access[turn[t].call.conn] = "write"
    PROVE  StepTrue(t, before)
<1> DEFINE k == turn[t]
           next == turn'[t]
<1>1. /\ k.call.command = NoCommand /\ k.call.tool \in ToolIds /\ k.call.conn \in Connections
      /\ k.pc \in Working => "run" \in could[t]
  BY DEF KeptBy, TurnTrue
<1>2. /\ next.call.command = k.call.command
      /\ next.call.tool = k.call.tool /\ next.call.conn = k.call.conn
      /\ IsTurn(next) /\ next.pc \in Working
      /\ could'[t] = could[t] \cup AllowedTo(next, db)
  BY NoCallIs DEF WentOn
<1>3. next.call.tool # 0 /\ next.call.conn # 0 /\ next.pc \notin Listing
  BY <1>1, <1>2, RemoteToolsAssumption DEF RemoteToolsAssumption, Working, Listing
<1> HIDE DEF k, next
<1>4. "run" \in could'[t]
  <2>1. CASE k.pc \in Working
    BY <1>1, <1>2, <2>1
  <2>2. CASE db.access[k.call.conn] = "write"
    BY <1>1, <1>2, <1>3, <2>2, AllowedToIs
  <2>3. QED
    BY <2>1, <2>2 DEF k
<1>5. TurnTrue(next, could'[t], db, edits, before)
  BY <1>1, <1>2, <1>4 DEF TurnTrue, Resting, Listing, Naming, Creating, Working, Commanding
<1>6. QED
  BY <1>5 DEF StepTrue, WentOn, next

LEMMA JobFailsStep ==
    ASSUME NEW before, KeptBy(before), Watch, UNCHANGED db, NEW t \in Turns,
           turn[t].pc \in Working, JobFails(t)
    PROVE  StepTrue(t, before)
<1>1. CASE Answer(t)
  BY <1>1, AnswerStep
<1>2. CASE Go(t, "job_tool", [tries |-> turn[t].call.tries + 1])
  <2> DEFINE changes == [tries |-> turn[t].call.tries + 1]
  <2>1. DOMAIN changes = {"tries"} /\ Go(t, "job_tool", changes)
    BY <1>2
  <2> HIDE DEF changes
  <2>2. WentOn(t, "job_tool", changes)
    BY <2>1, GoesOn DEF Resting, SameRules
  <2>3. QED
    BY <2>1, <2>2, WorkTrue DEF Working
<1>3. QED
  BY <1>1, <1>2 DEF JobFails

Runs(t) == CustomCheck(t) \/ JobTool(t) \/ JobVersion(t) \/ JobRow(t) \/ JobRun(t)

LEMMA RunStep ==
    ASSUME NEW before, KeptBy(before), Watch, UNCHANGED db, NEW t \in Turns, Runs(t)
    PROVE  StepTrue(t, before)
<1> DEFINE k == turn[t]
<1>1. ASSUME NEW pc \in Working, k.pc \in Working \cup {"custom_check"}, Go(t, pc, <<>>),
             k.pc \in Working \/ db.access[k.call.conn] = "write"
      PROVE  StepTrue(t, before)
  <2>1. WentOn(t, pc, <<>>)
    BY <1>1, GoesOn DEF Resting, SameRules, Working
  <2>2. DOMAIN <<>> = {}
    OBVIOUS
  <2>3. QED
    BY <1>1, <2>1, <2>2, WorkTrue
<1>2. CASE CustomCheck(t)
  BY <1>1, <1>2, AnswerStep DEF CustomCheck, CanAccess, Working, Next1
<1>3. CASE JobTool(t)
  BY <1>1, <1>3, JobFailsStep DEF JobTool, Working, Next1
<1>4. CASE JobVersion(t)
  <2>1. CASE JobFails(t)
    BY <1>4, <2>1, JobFailsStep DEF JobVersion, Working
  <2>2. CASE Go(t, "job_row", [version |-> LatestVersion(k.call.tool)])
    <3> DEFINE changes == [version |-> LatestVersion(k.call.tool)]
    <3>1. DOMAIN changes = {"version"} /\ Go(t, "job_row", changes)
      BY <2>2
    <3> HIDE DEF changes
    <3>2. WentOn(t, "job_row", changes)
      BY <3>1, GoesOn DEF Resting, SameRules
    <3>3. k.pc \in Working
      BY <1>4 DEF JobVersion, Working
    <3>4. QED
      BY <3>1, <3>2, <3>3, WorkTrue DEF Working
  <2>3. QED
    BY <1>4, <2>1, <2>2 DEF JobVersion
<1>5. CASE JobRow(t)
  BY <1>1, <1>5, JobFailsStep DEF JobRow, Working, Next1
<1>6. CASE JobRun(t)
  BY <1>1, <1>6, JobFailsStep DEF JobRun, Working, Next1
<1>7. QED
  BY <1>2, <1>3, <1>4, <1>5, <1>6 DEF Runs

\* A call begins: from here on every edit is counted, and what it could do added.
LEMMA BeginStep ==
    ASSUME NEW before, KeptBy(before), Watch, NEW t \in Turns, Begin(t)
    PROVE  StepTrue(t, before) /\ UNCHANGED db
<1> DEFINE k == turn[t]
           next == turn'[t]
<1>1. /\ k.pc = "ready" /\ k.call = NoCall /\ UNCHANGED db /\ edits \in Nat
  BY DEF Begin, KeptBy, TurnTrue, Resting
<1>2. SameRules(db, db')
  BY <1>1 DEF SameRules
<1>3. PICK n \in Names, c \in Connections :
          \/ /\ turn[t].registry[n] \in ToolIds
             /\ Go(t, "custom_check", [began |-> edits, conn |-> c, tool |-> turn[t].registry[n]])
          \/ \E command \in Commands :
                 Go(t, "ssh_check", [began |-> edits, name |-> n, conn |-> c, command |-> command])
          \/ Go(t, "list", [began |-> edits, name |-> n, conn |-> c, command |-> NoCommand])
          \/ \E m \in ToolNames : Go(t, "create", [began |-> edits, name |-> m])
  BY DEF Begin
<1>4. CASE /\ turn[t].registry[n] \in ToolIds
           /\ Go(t, "custom_check", [began |-> edits, conn |-> c, tool |-> turn[t].registry[n]])
  <2> DEFINE changes == [began |-> edits, conn |-> c, tool |-> turn[t].registry[n]]
  <2>1. DOMAIN changes = {"began", "conn", "tool"} /\ changes.conn = c /\ changes.tool \in ToolIds
    BY <1>4
  <2>2. Go(t, "custom_check", changes)
    BY <1>4
  <2> HIDE DEF changes
  <2>3. WentOn(t, "custom_check", changes)
    BY <1>2, <2>2, GoesOn DEF Resting
  <2>4. /\ next.call.command = NoCommand /\ next.call.conn \in Connections
        /\ next.call.tool \in ToolIds /\ IsTurn(next) /\ next.pc = "custom_check"
    BY <1>1, <2>1, <2>3, NoCallIs DEF WentOn
  <2> HIDE DEF next
  <2>5. TurnTrue(next, could'[t], db, edits, before)
    BY <2>4 DEF TurnTrue, Resting, Listing, Naming, Creating, Working, Commanding
  <2>6. QED
    BY <1>1, <2>3, <2>5 DEF StepTrue, WentOn, next
<1>5. ASSUME NEW command \in Commands,
             Go(t, "ssh_check", [began |-> edits, name |-> n, conn |-> c, command |-> command])
      PROVE  StepTrue(t, before)
  <2> DEFINE changes == [began |-> edits, name |-> n, conn |-> c, command |-> command]
  <2>1. /\ DOMAIN changes = {"began", "name", "conn", "command"} /\ changes.conn = c
        /\ changes.began = edits /\ changes.command = command
    OBVIOUS
  <2>2. Go(t, "ssh_check", changes)
    BY <1>5
  <2> HIDE DEF changes
  <2>3. WentOn(t, "ssh_check", changes)
    BY <1>2, <2>2, GoesOn DEF Resting
  <2>4. /\ next.call.command = command /\ next.call.conn = c /\ next.call.began = edits
        /\ next.call.tool = 0 /\ IsTurn(next) /\ next.pc = "ssh_check"
    BY <1>1, <2>1, <2>3, NoCallIs DEF WentOn
  <2>5. could'[t] = could[t] \cup AllowedTo(next, db)
    BY <2>3 DEF WentOn
  <2> HIDE DEF next
  <2>6. command # NoCommand /\ next.pc \notin Listing
    BY <2>4, RemoteToolsAssumption DEF RemoteToolsAssumption, Listing
  <2>7. Policy(next.call, db) \subseteq could'[t]
    BY <2>4, <2>5, <2>6, AllowedToIs
  <2>8. SoFar(next.pc, next.call, db)
    BY <2>4 DEF SoFar
  <2>9. CommandTrue(next, could'[t], db, edits, before)
    BY <1>1, <2>4, <2>7, <2>8 DEF CommandTrue
  <2>10. TurnTrue(next, could'[t], db, edits, before)
    BY <2>4, <2>9 DEF TurnTrue, Resting, Listing, Naming, Creating, Working, Commanding
  <2>11. QED
    BY <2>3, <2>10 DEF StepTrue, WentOn, next
<1>6. CASE Go(t, "list", [began |-> edits, name |-> n, conn |-> c, command |-> NoCommand])
  <2> DEFINE changes == [began |-> edits, name |-> n, conn |-> c, command |-> NoCommand]
  <2>1. /\ DOMAIN changes = {"began", "name", "conn", "command"}
        /\ changes.command = NoCommand
    OBVIOUS
  <2>2. Go(t, "list", changes)
    BY <1>6
  <2> HIDE DEF changes
  <2>3. WentOn(t, "list", changes)
    BY <1>2, <2>2, GoesOn DEF Resting
  <2>4. /\ next.call.command = NoCommand /\ next.call.tool = 0 /\ next.call.left = {}
        /\ next.call.shown = {} /\ IsTurn(next) /\ next.pc = "list"
    BY <1>1, <2>1, <2>3, NoCallIs DEF WentOn
  <2>5. could'[t] = could[t] \cup AllowedTo(next, db)
    BY <2>3 DEF WentOn
  <2> HIDE DEF next
  <2>6. Readable(db) \subseteq could'[t]
    BY <2>4, <2>5, AllowedToIs DEF Listing
  <2>7. TurnTrue(next, could'[t], db, edits, before)
    BY <2>4, <2>6 DEF TurnTrue, Resting, Listing, Naming, Creating, Working, Commanding
  <2>8. QED
    BY <1>1, <2>3, <2>7 DEF StepTrue, WentOn, next
<1>7. ASSUME NEW m \in ToolNames, Go(t, "create", [began |-> edits, name |-> m])
      PROVE  StepTrue(t, before)
  <2> DEFINE changes == [began |-> edits, name |-> m]
  <2>1. DOMAIN changes = {"began", "name"} /\ changes.name = m /\ Go(t, "create", changes)
    BY <1>7
  <2> HIDE DEF changes
  <2>2. WentOn(t, "create", changes)
    BY <1>2, <2>1, GoesOn DEF Resting
  <2>3. next.call.name = m
    BY <2>1, <2>2, NoCallIs DEF WentOn
  <2>4. QED
    BY <2>2, <2>3, NameTrue DEF Naming, Creating
<1>8. QED
  BY <1>1, <1>3, <1>4, <1>5, <1>6, <1>7

\* A statement fails.
LEMMA FailStep ==
    ASSUME NEW before, KeptBy(before), Watch, NEW t \in Turns, Fail(t)
    PROVE  StepTrue(t, before) /\ UNCHANGED db
<1> DEFINE k == turn[t]
<1>1. UNCHANGED db /\ SameRules(db, db')
  BY DEF Fail, SameRules
<1>2. \/ k.pc = "builtins" /\ Go(t, "off", <<>>)
      \/ /\ k.pc = "sift"
         /\ \E c \in k.call.left : Go(t, "sift", [left |-> k.call.left \ {c}])
      \/ k.pc \in {"job_tool", "job_version", "job_row", "job_run"} /\ JobFails(t)
      \/ Answer(t)
  <2> DEFINE working == k.pc \in {"job_tool", "job_version", "job_row", "job_run"}
             sifting == k.pc = "sift" /\ k.call.left # {}
             Sifts == \E c \in k.call.left : Go(t, "sift", [left |-> k.call.left \ {c}])
  <2>1. (CASE k.pc = "builtins" -> Go(t, "off", <<>>)
           [] sifting -> Sifts
           [] working -> JobFails(t)
           [] OTHER -> Answer(t))
    BY DEF Fail
  <2> HIDE DEF Sifts
  <2>2. CASE k.pc = "builtins"
    BY <2>1, <2>2
  <2>3. CASE sifting
    BY <2>1, <2>3 DEF Sifts
  <2>4. CASE working
    BY <2>1, <2>4
  <2>5. CASE ~(k.pc = "builtins" \/ sifting \/ working)
    BY <2>1, <2>5
  <2>6. QED
    BY <2>2, <2>3, <2>4, <2>5
<1>3. CASE k.pc = "builtins" /\ Go(t, "off", <<>>)
  <2>1. IsTurn(k) /\ turn = [x \in Turns |-> turn[x]] /\ k.call = NoCall
    BY <1>3 DEF KeptBy, TurnTrue, Resting
  <2>2. /\ turn' = [x \in Turns |-> turn'[x]]
        /\ \A x \in Turns \ {t} : turn'[x] = turn[x]
        /\ IsTurn(turn'[t]) /\ turn'[t].pc = "off"
        /\ turn'[t].call = [x \in DOMAIN NoCall |-> IF x \in DOMAIN <<>> THEN <<>>[x] ELSE k.call[x]]
    BY <1>3, <2>1, GoIs
  <2>3. turn'[t].call = NoCall
    BY <2>1, <2>2, NoCallIs DEF NoCall
  <2>4. QED
    BY <1>1, <2>2, <2>3, IdleIsTrue DEF StepTrue, Resting
<1>4. ASSUME k.pc = "sift", NEW c \in k.call.left, Go(t, "sift", [left |-> k.call.left \ {c}])
      PROVE  StepTrue(t, before)
  <2> DEFINE changes == [left |-> k.call.left \ {c}]
  <2>1. k.pc \in Listing /\ k.call.left \subseteq Connections /\ k.call.shown \subseteq could[t]
    BY <1>4 DEF KeptBy, TurnTrue, Listing
  <2>2. /\ DOMAIN changes = {"left"} /\ changes.left \subseteq Connections
        /\ Go(t, "sift", changes)
    BY <1>4, <2>1
  <2> HIDE DEF changes
  <2>3. WentOn(t, "sift", changes)
    BY <1>1, <2>2, GoesOn DEF Resting
  <2>4. turn'[t].call.shown = k.call.shown /\ turn'[t].call.left \subseteq Connections
    BY <2>2, <2>3, NoCallIs DEF WentOn
  <2>5. QED
    BY <2>1, <2>2, <2>3, <2>4, ListTrue DEF Listing
<1>5. CASE k.pc \in {"job_tool", "job_version", "job_row", "job_run"} /\ JobFails(t)
  <2>1. k.pc \in Working
    BY <1>5 DEF Working
  <2>2. QED
    BY <1>1, <1>5, <2>1, JobFailsStep
<1>6. CASE Answer(t)
  BY <1>1, <1>6, AnswerStep
<1>7. QED
  BY <1>1, <1>2, <1>3, <1>4, <1>5, <1>6

-----------------------------------------------------------------------------
\* One edit changes one of the three, and keeps the tables what they are.
LEMMA EditIs ==
    ASSUME db \in Databases, EditConnection \/ DeleteConnection \/ EditRule \/ EditAccess \/ EditTool
    PROVE  db' \in Databases /\ OneEdit(db, db')
<1>1. CASE EditConnection
  <2>1. PICK c \in Connections, host \in Hosts, mode \in Modes :
            db' = [db EXCEPT !.conns[c].host = host, !.conns[c].mode = mode]
    BY <1>1 DEF EditConnection
  <2> DEFINE row == db.conns[c]
             next == [row EXCEPT !.host = host, !.mode = mode]
  <2>2. next \in [live: BOOLEAN, host: Hosts, mode: Modes]
    <3>1. row \in [live: BOOLEAN, host: Hosts, mode: Modes]
      BY DEF Databases
    <3>2. QED
      BY <3>1
  <2>3. db' = [db EXCEPT !.conns[c] = next]
    BY <2>1 DEF Databases
  <2> HIDE DEF next
  <2>4. QED
    BY <2>2, <2>3 DEF Databases, OneEdit
<1>2. CASE DeleteConnection
  <2>1. PICK c \in Connections : db' = [db EXCEPT !.conns[c].live = FALSE]
    BY <1>2 DEF DeleteConnection
  <2> DEFINE row == db.conns[c]
             next == [row EXCEPT !.live = FALSE]
  <2>2. next \in [live: BOOLEAN, host: Hosts, mode: Modes]
    <3>1. row \in [live: BOOLEAN, host: Hosts, mode: Modes]
      BY DEF Databases
    <3>2. QED
      BY <3>1
  <2>3. db' = [db EXCEPT !.conns[c] = next]
    BY <2>1 DEF Databases
  <2> HIDE DEF next
  <2>4. QED
    BY <2>2, <2>3 DEF Databases, OneEdit
<1>3. CASE EditRule
  <2>1. PICK c \in Connections, old \in Rules, new \in Rules :
            \/ db' = [db EXCEPT !.rules[c] = @ \cup {new}]
            \/ db' = [db EXCEPT !.rules[c] = @ \ {old}]
            \/ db' = [db EXCEPT !.rules[c] = (@ \ {old}) \cup {new}]
    BY <1>3 DEF EditRule
  <2>2. PICK rules \in SUBSET Rules : db' = [db EXCEPT !.rules[c] = rules]
    <3>1. db.rules[c] \subseteq Rules
      BY DEF Databases
    <3>2. QED
      BY <2>1, <3>1
  <2>3. QED
    BY <2>2 DEF Databases, OneEdit
<1>4. CASE EditAccess
  <2>1. \/ \E c \in Connections, level \in {"none", "read", "write"} :
               db' = [db EXCEPT !.access[c] = level]
        \/ \E offered \in SUBSET Builtins : db' = [db EXCEPT !.offered = offered]
        \/ \E usable \in SUBSET ToolIds : db' = [db EXCEPT !.usable = usable]
    <3>1. db.offered \subseteq Builtins /\ db.usable \subseteq ToolIds
      BY DEF Databases
    <3>2. CASE \E n \in Builtins :
                   db' = [db EXCEPT !.offered = IF n \in @ THEN @ \ {n} ELSE @ \cup {n}]
      <4>1. PICK n \in Builtins :
                   db' = [db EXCEPT !.offered = IF n \in @ THEN @ \ {n} ELSE @ \cup {n}]
        BY <3>2
      <4> DEFINE offered == IF n \in db.offered THEN db.offered \ {n} ELSE db.offered \cup {n}
      <4>2. offered \in SUBSET Builtins
        BY <3>1
      <4>3. db' = [db EXCEPT !.offered = offered]
        BY <4>1
      <4> HIDE DEF offered
      <4>4. QED
        BY <4>2, <4>3
    <3>3. CASE \E i \in ToolIds :
                   db' = [db EXCEPT !.usable = IF i \in @ THEN @ \ {i} ELSE @ \cup {i}]
      <4>1. PICK i \in ToolIds :
                   db' = [db EXCEPT !.usable = IF i \in @ THEN @ \ {i} ELSE @ \cup {i}]
        BY <3>3
      <4> DEFINE usable == IF i \in db.usable THEN db.usable \ {i} ELSE db.usable \cup {i}
      <4>2. usable \in SUBSET ToolIds
        BY <3>1
      <4>3. db' = [db EXCEPT !.usable = usable]
        BY <4>1
      <4> HIDE DEF usable
      <4>4. QED
        BY <4>2, <4>3
    <3>4. QED
      BY <1>4, <3>2, <3>3 DEF EditAccess
  <2>2. CASE \E c \in Connections, level \in {"none", "read", "write"} :
                 db' = [db EXCEPT !.access[c] = level]
    <3>1. PICK c \in Connections, level \in {"none", "read", "write"} :
              db' = [db EXCEPT !.access[c] = level]
      BY <2>2
    <3> DEFINE access == [db.access EXCEPT ![c] = level]
    <3>2. access \in [Connections -> {"none", "read", "write"}]
      BY DEF Databases
    <3>3. db' = [db EXCEPT !.access = access]
      BY <3>1
    <3> HIDE DEF access
    <3>4. QED
      BY <3>2, <3>3 DEF Databases, OneEdit
  <2>3. CASE \E offered \in SUBSET Builtins : db' = [db EXCEPT !.offered = offered]
    BY <2>3 DEF Databases, OneEdit
  <2>4. CASE \E usable \in SUBSET ToolIds : db' = [db EXCEPT !.usable = usable]
    BY <2>4 DEF Databases, OneEdit
  <2>5. QED
    BY <2>1, <2>2, <2>3, <2>4
<1>5. CASE EditTool
  <2> DEFINE Row == [life: {"free", "live", "deleting", "gone"}, name: STRING,
                     versions: Nat, by: {"none", "user", "model"}]
  <2>1. PICK i \in ToolIds :
            \/ \E name \in ToolNames : db' = [db EXCEPT !.tools[i] = NewTool(name, "user")]
            \/ db' = [db EXCEPT !.tools[i].life = "deleting", !.tools[i].versions = 0]
            \/ db' = [db EXCEPT !.tools[i].life = "gone"]
            \/ db' = [db EXCEPT !.tools[i].versions = @ + 1]
    BY <1>5 DEF EditTool
  <2>2. db.tools[i] \in Row
    BY DEF Databases
  <2>3. PICK row \in Row : db' = [db EXCEPT !.tools[i] = row]
    <3> DEFINE old == db.tools[i]
    <3>1. CASE \E name \in ToolNames : db' = [db EXCEPT !.tools[i] = NewTool(name, "user")]
      <4>1. \A name \in ToolNames : NewTool(name, "user") \in Row
        BY RemoteToolsAssumption DEF NewTool, RemoteToolsAssumption
      <4>2. QED
        BY <3>1, <4>1
    <3>2. CASE db' = [db EXCEPT !.tools[i].life = "deleting", !.tools[i].versions = 0]
      <4> DEFINE next == [old EXCEPT !.life = "deleting", !.versions = 0]
      <4>1. next \in Row
        BY <2>2
      <4>2. db' = [db EXCEPT !.tools[i] = next]
        BY <3>2 DEF Databases
      <4> HIDE DEF next
      <4>3. QED
        BY <4>1, <4>2
    <3>3. CASE db' = [db EXCEPT !.tools[i].life = "gone"]
      <4> DEFINE next == [old EXCEPT !.life = "gone"]
      <4>1. next \in Row
        BY <2>2
      <4>2. db' = [db EXCEPT !.tools[i] = next]
        BY <3>3
      <4> HIDE DEF next
      <4>3. QED
        BY <4>1, <4>2
    <3>4. CASE db' = [db EXCEPT !.tools[i].versions = @ + 1]
      <4> DEFINE next == [old EXCEPT !.versions = @ + 1]
      <4>1. next \in Row
        BY <2>2
      <4>2. db' = [db EXCEPT !.tools[i] = next]
        BY <3>4
      <4> HIDE DEF next
      <4>3. QED
        BY <4>1, <4>2
    <3>5. QED
      BY <2>1, <3>1, <3>2, <3>3, <3>4
  <2>4. QED
    BY <2>3 DEF Databases, OneEdit
<1>6. QED
  BY <1>1, <1>2, <1>3, <1>4, <1>5

LEMMA EditStep ==
    ASSUME NEW before, KeptBy(before), Watch, Edit, NEW old, old = db
    PROVE  KeptBy(old)'
<1>1. db' \in Databases /\ OneEdit(old, db') /\ edits \in Nat /\ edits' = edits + 1 /\ turn' = turn
  BY EditIs DEF Edit, KeptBy
<1>2. ASSUME NEW t \in Turns PROVE TurnTrue(turn'[t], could'[t], db', edits', old)
  <2>1. TurnTrue(turn[t], could[t], db, edits, before)
    BY DEF KeptBy
  <2>2. turn[t].pc \notin Resting => could'[t] = could[t] \cup AllowedTo(turn[t], db')
    BY <1>1, WatchIs
  <2>3. QED
    BY <1>1, <2>1, <2>2, TurnEdited
<1>3. QED
  BY <1>1, <1>2 DEF KeptBy

ReachedInv == \E before : KeptBy(before)

LEMMA InitKept == Init => ReachedInv
<1> SUFFICES ASSUME Init PROVE ReachedInv
  OBVIOUS
<1>1. PICK before : before = db
  OBVIOUS
<1>2. OneEdit(before, db) /\ edits = 0 /\ db \in Databases
  BY <1>1, RemoteToolsAssumption DEF OneEdit, Init, RemoteToolsAssumption
<1>3. \A t \in Turns : IsTurn(turn[t]) /\ turn[t].pc \in Resting /\ turn[t].call = NoCall
  BY DEF Init, IsTurn, Resting
<1>4. turn = [t \in Turns |-> turn[t]]
  BY DEF Init
<1>5. KeptBy(before)
  BY <1>2, <1>3, <1>4, IdleIsTrue DEF KeptBy
<1>6. QED
  BY <1>5 DEF ReachedInv

LEMMA StatementStep ==
    ASSUME NEW before, KeptBy(before), Watch, NEW t \in Turns, Statement(t)
    PROVE  StepTrue(t, before) /\ db' \in Databases /\ SameRules(db, db')
<1>1. CASE UNCHANGED db
  <2>1. db' \in Databases /\ SameRules(db, db')
    BY <1>1 DEF KeptBy, SameRules
  <2>2. CASE BuildBuiltins(t) \/ BuildCustom(t)
    BY <2>1, <2>2, BuildStep
  <2>3. CASE ListRows(t) \/ SiftRow(t)
    BY <1>1, <2>1, <2>3, ListStep
  <2>4. CASE SSHCheck(t) \/ SSHRow(t) \/ SSHRules(t) \/ SSHExecute(t)
    BY <1>1, <2>1, <2>4, CommandStep
  <2>5. CASE Creates(t)
    BY <2>5, CreateStep
  <2>6. CASE Runs(t)
    BY <1>1, <2>1, <2>6, RunStep
  <2>7. CASE Tell(t)
    BY <2>1, <2>7, AnswerStep DEF Tell
  <2>8. QED
    BY <2>2, <2>3, <2>4, <2>5, <2>6, <2>7 DEF Statement, Creates, Runs
<1>2. CASE ~UNCHANGED db
  <2>1. Creates(t)
    BY <1>2 DEF Statement, Creates, BuildBuiltins, BuildCustom, ListRows, SiftRow, SSHCheck,
                SSHRow, SSHRules, SSHExecute, CustomCheck, JobTool, JobVersion, JobRow, JobRun, Tell
  <2>2. QED
    BY <2>1, CreateStep
<1>3. QED
  BY <1>1, <1>2

LEMMA NextKept == ReachedInv /\ [Next]_vars => ReachedInv'
<1> SUFFICES ASSUME ReachedInv, [Next]_vars PROVE ReachedInv'
  OBVIOUS
<1>1. PICK before : KeptBy(before)
  BY DEF ReachedInv
<1>2. ASSUME Watch, NEW t \in Turns, Statement(t), UNCHANGED edits PROVE ReachedInv'
  BY <1>1, <1>2, StatementStep, TurnStep DEF ReachedInv
<1>3. ASSUME Watch, NEW t \in Turns, Begin(t) \/ Fail(t), UNCHANGED edits PROVE ReachedInv'
  <2>1. StepTrue(t, before) /\ UNCHANGED db
    BY <1>1, <1>3, BeginStep, FailStep
  <2>2. db' \in Databases /\ SameRules(db, db')
    BY <1>1, <2>1 DEF KeptBy, SameRules
  <2>3. QED
    BY <1>1, <1>3, <2>1, <2>2, TurnStep DEF ReachedInv
<1>4. ASSUME Watch, Edit PROVE ReachedInv'
  <2>1. PICK old : old = db
    OBVIOUS
  <2>2. QED
    BY <1>1, <1>4, <2>1, EditStep DEF ReachedInv
<1>5. CASE UNCHANGED vars
  <2>1. KeptBy(before)'
    BY <1>1, <1>5 DEF KeptBy, vars
  <2>2. QED
    BY <2>1 DEF ReachedInv
<1>6. QED
  BY <1>2, <1>3, <1>4, <1>5 DEF Next

\* A command is run, a tool sent and a connection shown only if the caller was
\* allowed it at one instant since the call began, though access, row and rules are
\* read one by one; and a command escapes that only if two edits fell into the call.
THEOREM ReachedStaysAllowed == Spec => []ReachedWasAllowed
<1>1. Init => ReachedInv
  BY InitKept
<1>2. ReachedInv /\ [Next]_vars => ReachedInv'
  BY NextKept
<1>3. ReachedInv => ReachedWasAllowed
  BY DEF ReachedInv, KeptBy, TurnTrue, CommandTrue, ReachedWasAllowed, Listing, Commanding, Working
<1>4. QED
  BY <1>1, <1>2, <1>3, PTL DEF Spec

-----------------------------------------------------------------------------
\* A tool by the model without source, and a turn that is on its way to store it.
Sourceless(i) ==
    db.tools[i].life = "live" /\ db.tools[i].by = "model" /\ db.tools[i].versions = 0

MadeBy(t, i) == turn[t].call.tool = i /\ turn[t].pc \in Creating

SourceInv == ReachedInv /\ faults \in Nat /\ ModelToolsHaveSource

LEMMA SourceIs ==
    \A i : i \in Stranded <=> i \in ToolIds /\ Sourceless(i) /\ ~\E t \in Turns : MadeBy(t, i)
  BY DEF Stranded, BeingMade, Sourceless, MadeBy, Creating

LEMMA SourceIsNext ==
    \A i : i \in Stranded' <=> i \in ToolIds /\ Sourceless(i)' /\ ~\E t \in Turns : MadeBy(t, i)'
  BY DEF Stranded, BeingMade, Sourceless, MadeBy, Creating

\* A step that strands no tool.
LEMMA StrandsNone ==
    ASSUME SourceInv, UNCHANGED faults, Stranded' \subseteq Stranded
    PROVE  ModelToolsHaveSource'
<1>1. IsFiniteSet(Stranded) /\ Cardinality(Stranded) <= faults /\ faults \in Nat
  BY DEF SourceInv, ModelToolsHaveSource
<1>2. IsFiniteSet(Stranded') /\ Cardinality(Stranded') <= Cardinality(Stranded)
  BY <1>1, FS_Subset
<1>3. Cardinality(Stranded) \in Nat /\ Cardinality(Stranded') \in Nat
  BY <1>1, <1>2, FS_CardinalityType
<1>4. Cardinality(Stranded') <= faults'
  BY <1>1, <1>2, <1>3
<1>5. QED
  BY <1>2, <1>4 DEF ModelToolsHaveSource

\* A step of a turn that stores no tool, while no tool loses its source.
LEMMA OtherStep ==
    ASSUME NEW t \in Turns, turn[t].pc \notin Creating,
           \A u \in Turns \ {t} : turn'[u] = turn[u],
           \A i \in ToolIds : Sourceless(i)' => Sourceless(i) \/ MadeBy(t, i)'
    PROVE  Stranded' \subseteq Stranded
<1> SUFFICES ASSUME NEW i \in ToolIds, Sourceless(i)', ~\E u \in Turns : MadeBy(u, i)'
             PROVE  Sourceless(i) /\ ~\E u \in Turns : MadeBy(u, i)
  BY SourceIs, SourceIsNext
<1>1. Sourceless(i)
  OBVIOUS
<1>2. \A u \in Turns : MadeBy(u, i) => u # t /\ MadeBy(u, i)'
  BY DEF MadeBy
<1>3. QED
  BY <1>1, <1>2

\* A failed statement strands the tool of its own turn, at most.
LEMMA FailStrands ==
    ASSUME SourceInv, NEW t \in Turns, Fail(t), \A u \in Turns \ {t} : turn'[u] = turn[u]
    PROVE  faults' \in Nat /\ ModelToolsHaveSource'
<1>1. IsFiniteSet(Stranded) /\ Cardinality(Stranded) <= faults /\ faults \in Nat
  BY DEF SourceInv, ModelToolsHaveSource
<1>2. faults' = faults + 1 /\ UNCHANGED db
  BY DEF Fail
<1> DEFINE own == turn[t].call.tool
           all == Stranded \cup {own}
<1>3. Stranded' \subseteq all
  <2> SUFFICES ASSUME NEW i \in Stranded', i # own PROVE i \in Stranded
    OBVIOUS
  <2>1. i \in ToolIds /\ Sourceless(i) /\ ~\E u \in Turns : MadeBy(u, i)'
    BY <1>2, SourceIsNext DEF Sourceless
  <2>2. \A u \in Turns : MadeBy(u, i) => u # t /\ MadeBy(u, i)'
    BY DEF MadeBy
  <2>3. QED
    BY <2>1, <2>2, SourceIs
<1>4. IsFiniteSet(all) /\ Cardinality(all) <= Cardinality(Stranded) + 1
  <2>1. Cardinality(Stranded) \in Nat
    BY <1>1, FS_CardinalityType
  <2>2. IsFiniteSet(all) /\ Cardinality(all) = IF own \in Stranded THEN Cardinality(Stranded)
                                               ELSE Cardinality(Stranded) + 1
    BY <1>1, FS_AddElement
  <2>3. QED
    BY <2>1, <2>2
<1> HIDE DEF all
<1>5. IsFiniteSet(Stranded') /\ Cardinality(Stranded') <= Cardinality(all)
  BY <1>3, <1>4, FS_Subset
<1>6. /\ Cardinality(Stranded) \in Nat /\ Cardinality(Stranded') \in Nat
      /\ Cardinality(all) \in Nat
  BY <1>1, <1>4, <1>5, FS_CardinalityType
<1>7. Cardinality(Stranded') <= faults'
  BY <1>1, <1>2, <1>4, <1>5, <1>6
<1>8. QED
  BY <1>1, <1>2, <1>5, <1>7 DEF ModelToolsHaveSource

\* The statements of create_custom_tool.
LEMMA CreateSource ==
    ASSUME SourceInv, Watch, NEW t \in Turns, Creates(t)
    PROVE  Stranded' \subseteq Stranded
<1> DEFINE k == turn[t]
<1>1. PICK before : KeptBy(before)
  BY DEF SourceInv, ReachedInv
<1>2. /\ IsTurn(k) /\ turn = [x \in Turns |-> turn[x]] /\ db \in Databases
      /\ k.pc \in Creating => k.call.tool \in ToolIds
  BY <1>1 DEF KeptBy, TurnTrue
<1>3. \A u \in Turns \ {t} : turn'[u] = turn[u]
  BY <1>1, CreateStep DEF StepTrue
<1>4. CASE CreateCheck(t)
  <2>1. k.pc \notin Creating /\ \A i \in ToolIds : Sourceless(i)' = Sourceless(i)
    BY <1>4 DEF CreateCheck, Creating, Sourceless
  <2>2. QED
    BY <1>3, <2>1, OtherStep
<1>5. CASE CreateTool(t)
  <2>1. k.pc \notin Creating
    BY <1>5 DEF CreateTool, Creating
  <2>2. ASSUME NEW i \in ToolIds, Sourceless(i)' PROVE Sourceless(i) \/ MadeBy(t, i)'
    <3>1. CASE UNCHANGED db
      BY <2>2, <3>1 DEF Sourceless
    <3>2. CASE ~UNCHANGED db
      <4>1. PICK j \in Fresh : /\ db' = [db EXCEPT !.tools[j] = NewTool(k.call.name, "model")]
                               /\ Go(t, "create_grant", [tool |-> j])
        BY <1>5, <3>2 DEF CreateTool
      <4>2. j \in ToolIds /\ db'.tools = [db.tools EXCEPT ![j] = NewTool(k.call.name, "model")]
        BY <1>2, <4>1 DEF Fresh, Databases
      <4>3. turn'[t].pc = "create_grant" /\ turn'[t].call.tool = j
        <5>1. /\ turn'[t].pc = "create_grant"
              /\ turn'[t].call = [x \in DOMAIN NoCall |-> IF x \in DOMAIN [tool |-> j] THEN [tool |-> j][x]
                                                          ELSE turn[t].call[x]]
          BY <1>2, <4>1, GoIs
        <5>2. QED
          BY <5>1, NoCallIs
      <4>4. CASE i = j
        BY <4>3, <4>4 DEF MadeBy, Creating
      <4>5. CASE i # j
        <5>1. db'.tools[i] = db.tools[i]
          BY <1>2, <4>2, <4>5 DEF Databases
        <5>2. QED
          BY <2>2, <5>1 DEF Sourceless
      <4>6. QED
        BY <4>4, <4>5
    <3>3. QED
      BY <3>1, <3>2
  <2>3. QED
    BY <1>3, <2>1, <2>2, OtherStep
\* The turn stays on its way with the tool.
<1>6. ASSUME NEW pc \in Creating, k.pc \in Creating, Go(t, pc, <<>>), db'.tools = db.tools
      PROVE  Stranded' \subseteq Stranded
  <2>1. turn'[t].pc = pc /\ turn'[t].call.tool = k.call.tool
    <3>1. /\ turn'[t].pc = pc
          /\ turn'[t].call = [x \in DOMAIN NoCall |-> IF x \in DOMAIN <<>> THEN <<>>[x]
                                                      ELSE turn[t].call[x]]
      BY <1>2, <1>6, GoIs
    <3>2. QED
      BY <3>1, NoCallIs
  <2>2. \A i : \A u \in Turns : MadeBy(u, i) => MadeBy(u, i)'
    BY <1>3, <1>6, <2>1 DEF MadeBy
  <2>3. \A i \in ToolIds : Sourceless(i)' => Sourceless(i)
    BY <1>6 DEF Sourceless
  <2>4. QED
    BY <2>2, <2>3, SourceIs, SourceIsNext
\* The turn leaves it, and the tool is deleted or has its version.
<1>7. ASSUME k.pc \in Creating,
             \A i \in ToolIds : Sourceless(i)' => Sourceless(i) /\ i # k.call.tool
      PROVE  Stranded' \subseteq Stranded
  <2>1. \A i \in ToolIds : \A u \in Turns :
            MadeBy(u, i) /\ i # k.call.tool => MadeBy(u, i)'
    BY <1>3 DEF MadeBy
  <2>2. QED
    BY <1>7, <2>1, SourceIs, SourceIsNext
<1>8. CASE GrantCreatorAccess(t)
  <2>1. k.pc \in Creating /\ Go(t, "create_find", <<>>) /\ db'.tools = db.tools
    BY <1>2, <1>8 DEF GrantCreatorAccess, Creating, Next1, Databases
  <2>2. QED
    BY <1>6, <2>1 DEF Creating
<1>9. CASE FindTool(t)
  <2>1. k.pc \in Creating /\ UNCHANGED db
    BY <1>9 DEF FindTool, Creating
  <2>2. CASE Stored(k.call.tool)
    <3>1. Go(t, "create_version", <<>>)
      BY <1>9, <2>2 DEF FindTool, Next1
    <3>2. QED
      BY <1>6, <2>1, <3>1 DEF Creating
  <2>3. CASE ~Stored(k.call.tool)
    <3>1. \A i \in ToolIds : Sourceless(i)' => Sourceless(i) /\ i # k.call.tool
      BY <2>1, <2>3 DEF Sourceless, Stored
    <3>2. QED
      BY <1>7, <2>1, <3>1
  <2>4. QED
    BY <2>2, <2>3
<1>10. CASE CreateVersion(t)
  <2> DEFINE tool == k.call.tool
             row == db.tools[tool]
             next == [row EXCEPT !.versions = @ + 1]
  <2>1. k.pc \in Creating /\ db' = [db EXCEPT !.tools[tool].versions = @ + 1]
    BY <1>10 DEF CreateVersion, Creating
  <2>2. row.versions \in Nat /\ tool \in ToolIds
    BY <1>2, <2>1 DEF Databases
  <2>3. db'.tools = [db.tools EXCEPT ![tool] = next]
    BY <1>2, <2>1 DEF Databases
  <2>4. next.versions # 0
    BY <1>2, <2>2 DEF Databases
  <2> HIDE DEF next, row, tool
  <2>5. /\ db'.tools[tool].versions # 0
        /\ \A i \in ToolIds \ {tool} : db'.tools[i] = db.tools[i]
    BY <1>2, <2>2, <2>3, <2>4 DEF Databases
  <2>6. \A i \in ToolIds : Sourceless(i)' => Sourceless(i) /\ i # tool
    BY <2>5 DEF Sourceless
  <2>7. QED
    BY <1>7, <2>1, <2>6 DEF tool
<1>11. QED
  BY <1>4, <1>5, <1>8, <1>9, <1>10 DEF Creates

\* No edit takes the source of a tool that is not deleted.
LEMMA EditSource ==
    ASSUME SourceInv, Edit
    PROVE  Stranded' \subseteq Stranded
<1> DEFINE Row == [life: {"free", "live", "deleting", "gone"}, name: STRING,
                   versions: Nat, by: {"none", "user", "model"}]
<1>1. db \in Databases
  BY DEF SourceInv, ReachedInv, KeptBy
<1>2. ASSUME NEW i \in ToolIds, Sourceless(i)' PROVE Sourceless(i)
  <2>1. CASE db'.tools = db.tools
    BY <1>2, <2>1 DEF Sourceless
  <2>2. ASSUME NEW j \in ToolIds, NEW row \in Row, db' = [db EXCEPT !.tools[j] = row],
               row.life = "live" /\ row.versions = 0 => row.by # "model"
        PROVE  Sourceless(i)
    <3>1. db'.tools[j] = row /\ \A x \in ToolIds \ {j} : db'.tools[x] = db.tools[x]
      BY <1>1, <2>2 DEF Databases
    <3>2. QED
      BY <1>2, <2>2, <3>1 DEF Sourceless
  <2>3. CASE EditTool
    <3>1. PICK j \in ToolIds :
            \/ \E name \in ToolNames : db' = [db EXCEPT !.tools[j] = NewTool(name, "user")]
            \/ db' = [db EXCEPT !.tools[j].life = "deleting", !.tools[j].versions = 0]
            \/ db' = [db EXCEPT !.tools[j].life = "gone"]
            \/ db' = [db EXCEPT !.tools[j].versions = @ + 1]
      BY <2>3 DEF EditTool
    <3> DEFINE old == db.tools[j]
    <3>2. old \in Row
      BY <1>1 DEF Databases
    <3>3. ASSUME NEW name \in ToolNames, db' = [db EXCEPT !.tools[j] = NewTool(name, "user")]
          PROVE  Sourceless(i)
      <4> DEFINE next == NewTool(name, "user")
      <4>1. next \in Row /\ next.by = "user"
        BY RemoteToolsAssumption DEF NewTool, RemoteToolsAssumption
      <4>2. db' = [db EXCEPT !.tools[j] = next]
        BY <3>3
      <4> HIDE DEF next, Row
      <4>3. QED
        BY <2>2, <4>1, <4>2
    <3>4. CASE db' = [db EXCEPT !.tools[j].life = "deleting", !.tools[j].versions = 0]
      <4> DEFINE next == [old EXCEPT !.life = "deleting", !.versions = 0]
      <4>1. next \in Row /\ next.life = "deleting"
        BY <3>2
      <4>2. db' = [db EXCEPT !.tools[j] = next]
        BY <1>1, <3>4 DEF Databases
      <4> HIDE DEF next, Row
      <4>3. QED
        BY <2>2, <4>1, <4>2
    <3>5. CASE db' = [db EXCEPT !.tools[j].life = "gone"]
      <4> DEFINE next == [old EXCEPT !.life = "gone"]
      <4>1. next \in Row /\ next.life = "gone"
        BY <3>2
      <4>2. db' = [db EXCEPT !.tools[j] = next]
        BY <1>1, <3>5 DEF Databases
      <4> HIDE DEF next, Row
      <4>3. QED
        BY <2>2, <4>1, <4>2
    <3>6. CASE db' = [db EXCEPT !.tools[j].versions = @ + 1]
      <4> DEFINE next == [old EXCEPT !.versions = @ + 1]
      <4>1. next \in Row /\ next.versions # 0
        BY <3>2
      <4>2. db' = [db EXCEPT !.tools[j] = next]
        BY <1>1, <3>6 DEF Databases
      <4> HIDE DEF next, Row
      <4>3. QED
        BY <2>2, <4>1, <4>2
    <3>7. QED
      BY <3>1, <3>3, <3>4, <3>5, <3>6
  <2>4. EditConnection \/ DeleteConnection \/ EditRule \/ EditAccess => db'.tools = db.tools
    BY <1>1 DEF EditConnection, DeleteConnection, EditRule, EditAccess, Databases
  <2>5. QED
    BY <2>1, <2>3, <2>4 DEF Edit
<1>3. \A i, t : MadeBy(t, i)' <=> MadeBy(t, i)
  BY DEF MadeBy, Edit
<1>4. QED
  BY <1>2, <1>3, SourceIs, SourceIsNext

LEMMA NextSource == SourceInv /\ [Next]_vars => SourceInv'
<1> SUFFICES ASSUME SourceInv, [Next]_vars PROVE faults' \in Nat /\ ModelToolsHaveSource'
  BY NextKept DEF SourceInv
<1>1. PICK before : KeptBy(before)
  BY DEF SourceInv, ReachedInv
<1>2. ASSUME Watch, NEW t \in Turns, Statement(t), UNCHANGED faults
      PROVE  faults' \in Nat /\ ModelToolsHaveSource'
  <2>1. CASE Creates(t)
    BY <1>2, <2>1, CreateSource, StrandsNone DEF SourceInv
  <2>2. CASE ~Creates(t)
    <3>1. \A u \in Turns \ {t} : turn'[u] = turn[u]
      BY <1>1, <1>2, StatementStep DEF StepTrue
    <3>2. turn[t].pc \notin Creating /\ UNCHANGED db
      BY <1>2, <2>2 DEF Statement, Creates, Creating, BuildBuiltins, BuildCustom, ListRows, SiftRow,
           SSHCheck, SSHRow, SSHRules, SSHExecute, CustomCheck, JobTool, JobVersion, JobRow, JobRun, Tell
    <3>3. \A i \in ToolIds : Sourceless(i)' = Sourceless(i)
      BY <3>2 DEF Sourceless
    <3>4. QED
      BY <1>2, <3>1, <3>2, <3>3, OtherStep, StrandsNone DEF SourceInv
  <2>3. QED
    BY <2>1, <2>2
<1>3. ASSUME Watch, NEW t \in Turns, Begin(t), UNCHANGED faults
      PROVE  faults' \in Nat /\ ModelToolsHaveSource'
  <2>1. /\ \A u \in Turns \ {t} : turn'[u] = turn[u]
        /\ \A i \in ToolIds : Sourceless(i)' = Sourceless(i)
    BY <1>1, <1>3, BeginStep DEF StepTrue, Sourceless
  <2>2. turn[t].pc \notin Creating
    BY <1>3 DEF Begin, Creating
  <2>3. QED
    BY <1>3, <2>1, <2>2, OtherStep, StrandsNone DEF SourceInv
<1>4. ASSUME Watch, NEW t \in Turns, Fail(t) PROVE faults' \in Nat /\ ModelToolsHaveSource'
  <2>1. \A u \in Turns \ {t} : turn'[u] = turn[u]
    BY <1>1, <1>4, FailStep DEF StepTrue
  <2>2. QED
    BY <1>4, <2>1, FailStrands
<1>5. ASSUME Edit, UNCHANGED faults PROVE faults' \in Nat /\ ModelToolsHaveSource'
  BY <1>5, EditSource, StrandsNone DEF SourceInv
<1>6. CASE UNCHANGED vars
  BY <1>6, StrandsNone DEF vars, SourceInv, Stranded, BeingMade, Call
<1>7. QED
  BY <1>2, <1>3, <1>4, <1>5, <1>6 DEF Next

\* The tool a model has stored with create_custom_tool has source that compiles, or is
\* on its way to get it, whatever the other turns and tabs do meanwhile: a statement
\* that fails between the two rows costs one name, that of its own turn, and no other
\* way leads to a name taken by a tool that cannot run.
THEOREM ModelToolsKeepSource == Spec => []ModelToolsHaveSource
<1>1. Init => SourceInv
  <2> SUFFICES ASSUME Init PROVE Stranded = {} /\ faults = 0
    BY InitKept, FS_EmptySet DEF SourceInv, ModelToolsHaveSource
  <2>1. QED
    BY RemoteToolsAssumption DEF Stranded, Init, RemoteToolsAssumption
<1>2. SourceInv /\ [Next]_vars => SourceInv'
  BY NextSource
<1>3. SourceInv => ModelToolsHaveSource
  BY DEF SourceInv
<1>4. QED
  BY <1>1, <1>2, <1>3, PTL DEF Spec

-----------------------------------------------------------------------------
(* The rules of a connection, which come in no order. *)

(* Some position of a list of rules that match a command is the first. *)
LEMMA FirstHit ==
    ASSUME NEW n \in Nat, NEW hits, hits \subseteq 1 .. n, hits # {}
    PROVE  \E i \in hits : \A j \in hits : i <= j
<1>1. hits \subseteq Nat
  OBVIOUS
<1>2. PICK i \in hits : \A j \in hits : <<j, i>> \notin OpToRel(<, Nat)
  BY <1>1, NatLessThanWellFounded, WFMin
<1>3. \A j \in hits : ~(j < i)
  BY <1>1, <1>2 DEF OpToRel
<1>4. \A j \in hits : i <= j
  BY <1>1, <1>3
<1>5. QED
  BY <1>4

(* An order has every rule somewhere, each in one place. *)
LEMMA OrdersAre ==
    ASSUME NEW table, IsFiniteSet(table)
    PROVE  /\ Cardinality(table) \in Nat /\ \E order : order \in Orders(table)
           /\ \A order \in Orders(table) :
                  /\ order \in [1 .. Cardinality(table) -> table]
                  /\ \A rule \in table : \E i \in 1 .. Cardinality(table) : order[i] = rule
<1>1. PICK n : n = Cardinality(table)
  OBVIOUS
<1>2. n \in Nat /\ \E order : order \in Bijection(1 .. n, table)
  BY <1>1, FS_CardinalityType DEF ExistsBijection
<1>3. \E order : order \in Orders(table)
  <2>1. PICK order : order \in Bijection(1 .. n, table)
    BY <1>2
  <2>2. order \in [1 .. n -> table] /\ \A i, j \in 1 .. n : order[i] = order[j] => i = j
    BY <2>1 DEF Bijection, Injection, IsInjective
  <2>3. order \in Orders(table)
    BY <1>1, <2>2 DEF Orders
  <2>4. QED
    BY <2>3
<1>4. ASSUME NEW order \in Orders(table)
      PROVE  order \in [1 .. n -> table] /\ \A rule \in table : \E i \in 1 .. n : order[i] = rule
  <2>1. order \in [1 .. n -> table] /\ \A i, j \in 1 .. n : order[i] = order[j] => i = j
    BY <1>1 DEF Orders
  <2>2. order \in Injection(1 .. n, table)
    BY <2>1 DEF Injection, IsInjective
  <2>3. Cardinality(1 .. n) = n
    BY <1>2, FS_Interval
  <2>4. order \in Surjection(1 .. n, table)
    BY <1>1, <2>2, <2>3, FS_Injection
  <2>5. QED
    BY <2>1, <2>4 DEF Surjection
<1>5. QED
  BY <1>1, <1>2, <1>3, <1>4

(* A rule may come first: exchange it with the one that does. *)
LEMMA MayComeFirst ==
    ASSUME NEW table, IsFiniteSet(table), NEW rule \in table
    PROVE  \E order \in Orders(table) : 1 \in DOMAIN order /\ order[1] = rule
<1>1. PICK n : n = Cardinality(table) /\ n \in Nat
  BY OrdersAre
<1>2. PICK order \in Orders(table) : TRUE
  BY OrdersAre
<1>3. order \in [1 .. n -> table] /\ \A i, j \in 1 .. n : order[i] = order[j] => i = j
  BY <1>1 DEF Orders
<1>4. PICK k \in 1 .. n : order[k] = rule
  BY <1>1, OrdersAre
<1>5. 1 \in 1 .. n
  BY <1>1, <1>4
<1>6. PICK other : other = [i \in 1 .. n |-> IF i = 1 THEN order[k] ELSE IF i = k THEN order[1] ELSE order[i]]
  OBVIOUS
<1>7. other \in [1 .. n -> table] /\ other[1] = rule
  BY <1>3, <1>4, <1>5, <1>6
<1>8. ASSUME NEW i \in 1 .. n, NEW j \in 1 .. n, other[i] = other[j] PROVE i = j
  BY <1>3, <1>4, <1>5, <1>6, <1>8
<1>9. other \in Orders(table)
  BY <1>1, <1>7, <1>8 DEF Orders
<1>10. QED
  BY <1>5, <1>7, <1>9

\* What the rules of a connection make of a command: what the mode says if none matches,
\* and otherwise what any one of those that match says, for the query gives them in no
\* order.  So the verdict is certain if and only if the rules that match agree.
THEOREM AnyMatchMayDecide ==
    ASSUME NEW mode, NEW table, IsFiniteSet(table), NEW command,
           \A rule \in table : rule.allowed \in BOOLEAN
    PROVE  Verdicts(mode, table, command) =
               IF \E rule \in table : Matches(rule, command)
               THEN {rule.allowed : rule \in {r \in table : Matches(r, command)}}
               ELSE {mode = "prohibited"}
<1>1. PICK n : n = Cardinality(table) /\ n \in Nat
  BY OrdersAre
<1> DEFINE hits(order) == {i \in DOMAIN order : Matches(order[i], command)}
<1>2. ASSUME NEW order \in Orders(table)
      PROVE  /\ order \in [1 .. n -> table] /\ hits(order) \subseteq 1 .. n
             /\ hits(order) = {} <=> ~\E rule \in table : Matches(rule, command)
  <2>1. order \in [1 .. n -> table] /\ \A rule \in table : \E i \in 1 .. n : order[i] = rule
    BY <1>1, OrdersAre
  <2>2. DOMAIN order = 1 .. n
    BY <2>1
  <2>3. hits(order) \subseteq 1 .. n
    BY <2>2
  <2>4. hits(order) = {} <=> ~\E rule \in table : Matches(rule, command)
    BY <2>1, <2>2
  <2>5. QED
    BY <2>1, <2>3, <2>4
<1>3. CASE ~\E rule \in table : Matches(rule, command)
  <2>1. ASSUME NEW order \in Orders(table)
        PROVE  Evaluate(buildCommandPolicy(mode), order, command) = (mode = "prohibited")
    <3>1. hits(order) = {}
      BY <1>2, <1>3
    <3>2. Evaluate(buildCommandPolicy(mode), order, command) = (buildCommandPolicy(mode) = "prohibited")
      BY <3>1 DEF Evaluate
    <3>3. (buildCommandPolicy(mode) = "prohibited") = (mode = "prohibited")
      BY DEF buildCommandPolicy
    <3>4. QED
      BY <3>2, <3>3
  <2>2. Orders(table) # {}
    BY OrdersAre
  <2>3. Verdicts(mode, table, command) = {mode = "prohibited"}
    BY <2>1, <2>2 DEF Verdicts
  <2>4. QED
    BY <1>3, <2>3
<1>4. CASE \E rule \in table : Matches(rule, command)
  <2> DEFINE said == {rule.allowed : rule \in {r \in table : Matches(r, command)}}
  <2>1. ASSUME NEW order \in Orders(table)
        PROVE  \E i \in hits(order) : /\ \A j \in hits(order) : i <= j
                                      /\ Evaluate(buildCommandPolicy(mode), order, command) = order[i].allowed
    <3>1. hits(order) # {} /\ hits(order) \subseteq 1 .. n
      BY <1>2, <1>4
    <3>2. PICK i : i = CHOOSE k \in hits(order) : \A j \in hits(order) : k <= j
      OBVIOUS
    <3>3. i \in hits(order) /\ \A j \in hits(order) : i <= j
      <4>1. \E k \in hits(order) : \A j \in hits(order) : k <= j
        BY <1>1, <3>1, FirstHit
      <4>2. QED
        BY <3>2, <4>1
    <3>4. Evaluate(buildCommandPolicy(mode), order, command) = order[i].allowed
      BY <3>1, <3>2 DEF Evaluate
    <3>5. QED
      BY <3>3, <3>4
  <2>2. ASSUME NEW verdict \in Verdicts(mode, table, command) PROVE verdict \in said
    <3>1. PICK order \in Orders(table) : verdict = Evaluate(buildCommandPolicy(mode), order, command)
      BY DEF Verdicts
    <3>2. PICK i \in hits(order) : verdict = order[i].allowed
      BY <2>1, <3>1
    <3>3. order[i] \in table /\ Matches(order[i], command)
      BY <1>2, <3>1
    <3>4. QED
      BY <3>2, <3>3
  <2>3. ASSUME NEW rule \in table, Matches(rule, command) PROVE rule.allowed \in Verdicts(mode, table, command)
    <3>1. PICK order \in Orders(table) : 1 \in DOMAIN order /\ order[1] = rule
      BY MayComeFirst
    <3>2. 1 \in hits(order) /\ hits(order) \subseteq 1 .. n
      BY <1>2, <2>3, <3>1
    <3>3. PICK i \in hits(order) : /\ \A j \in hits(order) : i <= j
                                   /\ Evaluate(buildCommandPolicy(mode), order, command) = order[i].allowed
      BY <2>1, <3>1
    <3>4. i = 1
      <4> HIDE DEF hits
      <4>1. i <= 1 /\ i \in 1 .. n
        BY <3>2, <3>3
      <4>2. QED
        BY <1>1, <4>1
    <3>5. QED
      BY <3>1, <3>3, <3>4 DEF Verdicts
  <2>4. Verdicts(mode, table, command) = said
    BY <2>2, <2>3
  <2>5. QED
    BY <1>4, <2>4
<1>5. QED
  BY <1>3, <1>4

-----------------------------------------------------------------------------
(* The terminal: a ticket lets two requests in only if both read it before *)
(* either deleted it, or if a DEL failed.                                  *)

Served == {"row", "upgrade", "dial", "read", "write", "wait", "ended"}
Places == {Idle, "get", "del", "refused"} \cup Served

States == {"none", "checked", "live", "gone"}
Minted == [state : States] \cup [state : States, conn : Writable]

(* As much of the type as one use depends on. *)
TypeInv ==
  /\ at \in [Requests -> Places]
  /\ ask = [r \in Requests |-> ask[r]]
  /\ \A r \in Requests : at[r] # Idle => ask[r] \in [ticket : Tickets, conn : Conns]
  /\ ticket = [t \in Tickets |-> ticket[t]]
  /\ \A t \in Tickets : ticket[t] \in Minted

Same(r, q) == r # q /\ ask[r].ticket = ask[q].ticket
Excused(r, q) == {r, q} \in together \/ ask[r].ticket \in kept

(* Whoever got past Redeem left its ticket deleted, or undeletable for good. *)
Spent ==
  \A r \in Requests : at[r] \in Served =>
    ticket[ask[r].ticket].state = "gone" \/ ask[r].ticket \in kept

(* Two of one ticket of whom each has read it. *)
Readers ==
  \A r, q \in Requests :
    Same(r, q) /\ at[r] \in Served \cup {"del"} /\ at[q] \in Served \cup {"del"} => Excused(r, q)

UseInv == TypeInv /\ Spent /\ Readers

LEMMA UseInit == TerminalInit => UseInv
  BY DEF TerminalInit, UseInv, TypeInv, Minted, States, Spent, Readers, Same, Places, Served, Idle

(* What the other steps of a request do: it stays on the same side of Redeem. *)
Onward ==
  /\ UNCHANGED <<ticket, kept, ask, together>>
  /\ at' \in [Requests -> Places]
  /\ \A r \in Requests : at'[r] = at[r] \/ (at[r] \in Served /\ at'[r] \in Served)
                                        \/ (at[r] # Idle /\ at'[r] = "refused")

LEMMA OnwardStep == UseInv /\ Onward => UseInv'
<1> SUFFICES ASSUME UseInv, Onward PROVE UseInv'
  OBVIOUS
<1>1. TypeInv'
  BY DEF UseInv, TypeInv, Onward, Served, Idle
<1>2. Spent'
  BY DEF UseInv, Spent, Onward, Served
<1>3. Readers'
  BY DEF UseInv, Readers, Same, Excused, Onward, Served
<1>4. QED
  BY <1>1, <1>2, <1>3 DEF UseInv

(* A ticket changes, and is not brought back once it is gone. *)
Mint ==
  /\ UNCHANGED <<kept, ask, together, at>>
  /\ ticket' = [t \in Tickets |-> ticket'[t]]
  /\ \A t \in Tickets : \/ ticket'[t] = ticket[t]
                        \/ /\ ticket[t].state # "gone"
                           /\ ticket'[t] \in Minted

LEMMA MintStep == UseInv /\ Mint => UseInv'
<1> SUFFICES ASSUME UseInv, Mint PROVE UseInv'
  OBVIOUS
<1>1. TypeInv'
  BY DEF UseInv, TypeInv, Mint
<1>2. Spent'
  <2> SUFFICES ASSUME NEW r \in Requests, at[r] \in Served
               PROVE  ticket'[ask[r].ticket].state = "gone" \/ ask[r].ticket \in kept
    BY DEF Spent, Mint
  <2>1. ask[r].ticket \in Tickets
    BY DEF UseInv, TypeInv, Served, Idle
  <2>2. QED
    BY <2>1 DEF UseInv, Spent, Mint
<1>3. Readers'
  BY DEF UseInv, Readers, Same, Excused, Mint
<1>4. QED
  BY <1>1, <1>2, <1>3 DEF UseInv

LEMMA WorldStep == UseInv /\ World => UseInv'
<1> SUFFICES ASSUME UseInv, World PROVE UseInv'
  OBVIOUS
<1>1. ASSUME NEW t \in Tickets, NEW c \in Conns, AskTicket(t, c) PROVE UseInv'
  <2>1. Mint
    BY <1>1 DEF AskTicket, Mint, UseInv, TypeInv, Minted, States
  <2>2. QED
    BY <2>1, MintStep
<1>2. ASSUME NEW t \in Tickets, Issue(t) \/ Expire(t) PROVE UseInv'
  <2>1. ticket[t] \in Minted
    BY DEF UseInv, TypeInv
  <2>2. Mint
    BY <1>2, <2>1 DEF Issue, Expire, Mint, UseInv, TypeInv, Minted, States
  <2>3. QED
    BY <2>2, MintStep
<1>3. ASSUME NEW r \in Requests, NEW t \in Tickets, NEW c \in Conns, Open(r, t, c) PROVE UseInv'
  <2>1. /\ at[r] = Idle /\ at' = [at EXCEPT ![r] = "get"]
        /\ ask' = [ask EXCEPT ![r] = [ticket |-> t, conn |-> c]]
        /\ UNCHANGED <<ticket, kept, together>>
    BY <1>3 DEF Open, Goto, tickets
  <2>2. \A q \in Requests \ {r} : at'[q] = at[q] /\ ask'[q] = ask[q]
    BY <2>1 DEF UseInv, TypeInv
  <2>3. at'[r] = "get" /\ ask'[r] = [ticket |-> t, conn |-> c]
    BY <2>1 DEF UseInv, TypeInv
  <2>4. TypeInv'
    <3>1. at' \in [Requests -> Places]
      BY <2>1 DEF UseInv, TypeInv, Places
    <3>2. ask' = [q \in Requests |-> ask'[q]]
      BY <2>1 DEF UseInv, TypeInv
    <3>3. \A q \in Requests : at'[q] # Idle => ask'[q] \in [ticket : Tickets, conn : Conns]
      BY <2>2, <2>3 DEF UseInv, TypeInv
    <3>4. QED
      BY <2>1, <3>1, <3>2, <3>3 DEF UseInv, TypeInv
  <2>5. Spent'
    BY <2>1, <2>2, <2>3 DEF UseInv, Spent, Served
  <2>6. Readers'
    BY <2>1, <2>2, <2>3 DEF UseInv, Readers, Same, Excused, Served
  <2>7. QED
    BY <2>4, <2>5, <2>6 DEF UseInv
<1>4. ASSUME UNCHANGED <<ticket, kept, at, ask, together>> PROVE UseInv'
  <2>1. Onward
    BY <1>4 DEF Onward, UseInv, TypeInv
  <2>2. QED
    BY <2>1, OnwardStep
<1>5. CASE Delete
  BY <1>4, <1>5 DEF Delete
<1>6. ASSUME NEW r \in Requests, Leave(r) \/ Consume(r) \/ EndShell(r) PROVE UseInv'
  BY <1>4, <1>6 DEF Leave, Consume, EndShell, tickets
<1>7. ASSUME NEW r \in Requests, NEW k \in Kinds, Type(r, k) PROVE UseInv'
  BY <1>4, <1>7 DEF Type, tickets
<1>8. ASSUME NEW r \in Requests, NEW s \in Streams, Emit(r, s) PROVE UseInv'
  BY <1>4, <1>8 DEF Emit, tickets
<1>9. QED
  BY <1>1, <1>2, <1>3, <1>5, <1>6, <1>7, <1>8 DEF World

(* Redeem itself: GET joins those who have read the ticket, DEL spends it. *)
LEMMA GetStep ==
  ASSUME UseInv, NEW r \in Requests, Get(r)
  PROVE  UseInv'
<1>1. UNCHANGED <<ticket, kept, ask>> /\ at[r] = "get"
  BY DEF Get, tickets
<1>2. CASE at' = [at EXCEPT ![r] = "refused"]
  <2>1. at'[r] = "refused"
    BY <1>2 DEF UseInv, TypeInv
  <2>2. together' = together
    BY <2>1 DEF Get
  <2>3. Onward
    BY <1>1, <1>2, <2>2 DEF Onward, UseInv, TypeInv, Places, Idle
  <2>4. QED
    BY <2>3, OnwardStep
<1>3. CASE at' = [at EXCEPT ![r] = "del"] /\ ticket[ask[r].ticket].state = "live"
  <2>1. at'[r] = "del" /\ \A q \in Requests \ {r} : at'[q] = at[q]
    BY <1>3 DEF UseInv, TypeInv
  <2>2. together' = together \cup
          {{r, q} : q \in {q \in Requests \ {r} : at[q] = "del" /\ ask[q].ticket = ask[r].ticket}}
    BY <2>1 DEF Get
  <2>3. TypeInv'
    <3>1. at' \in [Requests -> Places]
      BY <1>3 DEF UseInv, TypeInv, Places
    <3>2. QED
      BY <1>1, <2>1, <3>1 DEF UseInv, TypeInv, Idle
  <2>4. Spent'
    BY <1>1, <2>1 DEF UseInv, Spent, Served
  <2>5. \A q \in Requests : Same(r, q) /\ at[q] \in Served \cup {"del"}
                              => {r, q} \in together' \/ ask[r].ticket \in kept
    <3> SUFFICES ASSUME NEW q \in Requests, Same(r, q), at[q] \in Served \cup {"del"}
                 PROVE  {r, q} \in together' \/ ask[r].ticket \in kept
      OBVIOUS
    <3>1. CASE at[q] = "del"
      BY <2>2, <3>1 DEF Same
    <3>2. CASE at[q] \in Served
      BY <1>3, <3>2 DEF UseInv, Spent, Same
    <3>3. QED
      BY <3>1, <3>2
  <2>6. Readers'
    <3> SUFFICES ASSUME NEW p \in Requests, NEW q \in Requests, Same(p, q),
                        at'[p] \in Served \cup {"del"}, at'[q] \in Served \cup {"del"}
                 PROVE  {p, q} \in together' \/ ask[p].ticket \in kept
      BY <1>1 DEF Readers, Same, Excused
    <3>1. CASE p # r /\ q # r
      BY <2>1, <2>2, <3>1 DEF UseInv, Readers, Excused
    <3>2. CASE p = r
      BY <2>1, <2>5, <3>2 DEF Same
    <3>3. CASE q = r
      <4>1. Same(r, p)
        BY <3>3 DEF Same
      <4>2. {r, p} \in together' \/ ask[r].ticket \in kept
        BY <2>1, <2>5, <3>3, <4>1 DEF Same
      <4>3. {r, p} = {p, q} /\ ask[r].ticket = ask[p].ticket
        BY <3>3 DEF Same
      <4>4. QED
        BY <4>2, <4>3
    <3>4. QED
      BY <3>1, <3>2, <3>3
  <2>7. QED
    BY <2>3, <2>4, <2>6 DEF UseInv
<1>4. QED
  BY <1>2, <1>3 DEF Get, Goto

LEMMA DelStep ==
  ASSUME UseInv, NEW r \in Requests, Del(r)
  PROVE  UseInv'
<1>1. /\ at[r] = "del" /\ UNCHANGED <<ask, together>>
      /\ at' = [at EXCEPT ![r] = "row"] \/ at' = [at EXCEPT ![r] = "refused"]
  BY DEF Del, Goto
<1>2. at'[r] \in {"row", "refused"} /\ \A q \in Requests \ {r} : at'[q] = at[q]
  BY <1>1 DEF UseInv, TypeInv
<1>3. ask[r] \in [ticket : Tickets, conn : Conns]
  BY <1>1 DEF UseInv, TypeInv, Idle
<1>4. kept \subseteq kept'
  BY DEF Del
<1>5. /\ ticket' = [t \in Tickets |-> ticket'[t]]
      /\ \A t \in Tickets : \/ ticket'[t] = ticket[t]
                            \/ /\ ticket'[t] \in Minted
                               /\ ticket'[t].state = "gone"
      /\ ticket'[ask[r].ticket].state = "gone" \/ ask[r].ticket \in kept'
  <2>1. CASE ticket' = ticket /\ ask[r].ticket \in kept'
    BY <2>1 DEF UseInv, TypeInv
  <2>2. CASE ticket' = [ticket EXCEPT ![ask[r].ticket].state = "gone"]
    <3> DEFINE old == ticket[ask[r].ticket]
               new == ticket'[ask[r].ticket]
    <3>1. ask[r].ticket \in Tickets
      BY <1>3
    <3>2. /\ ticket' = [t \in Tickets |-> ticket'[t]]
          /\ new = [old EXCEPT !.state = "gone"]
          /\ \A t \in Tickets : t # ask[r].ticket => ticket'[t] = ticket[t]
      BY <2>2, <3>1 DEF UseInv, TypeInv
    <3>3. old \in Minted
      BY <3>1 DEF UseInv, TypeInv
    <3>4. /\ new \in Minted
          /\ new.state = "gone"
      BY <3>2, <3>3 DEF Minted, States
    <3>5. QED
      BY <3>2, <3>4
  <2>3. QED
    BY <2>1, <2>2 DEF Del
<1>6. TypeInv'
  <2>1. at' \in [Requests -> Places]
    BY <1>1 DEF UseInv, TypeInv, Places, Served
  <2>2. \A q \in Requests : at'[q] # Idle => ask'[q] \in [ticket : Tickets, conn : Conns]
    BY <1>1, <1>2, <1>3 DEF UseInv, TypeInv
  <2>3. QED
    BY <1>1, <1>5, <2>1, <2>2 DEF UseInv, TypeInv
<1>7. Spent'
  <2> SUFFICES ASSUME NEW q \in Requests, at'[q] \in Served
               PROVE  ticket'[ask[q].ticket].state = "gone" \/ ask[q].ticket \in kept'
    BY <1>1 DEF Spent
  <2>1. CASE q = r
    BY <1>5, <2>1
  <2>2. CASE q # r
    <3>1. at[q] \in Served /\ ask[q].ticket \in Tickets
      BY <1>2, <2>2 DEF UseInv, TypeInv, Served, Idle
    <3>2. QED
      BY <1>4, <1>5, <3>1 DEF UseInv, Spent
  <2>3. QED
    BY <2>1, <2>2
<1>8. Readers'
  <2>1. \A q \in Requests : at'[q] \in Served \cup {"del"} => at[q] \in Served \cup {"del"}
    BY <1>1, <1>2
  <2>2. QED
    BY <1>1, <1>4, <2>1 DEF UseInv, Readers, Same, Excused
<1>9. QED
  BY <1>6, <1>7, <1>8 DEF UseInv

LEMMA UseStep == UseInv /\ [TerminalNext]_terminalVars => UseInv'
<1> SUFFICES ASSUME UseInv, [TerminalNext]_terminalVars PROVE UseInv'
  OBVIOUS
<1>1. ASSUME NEW r \in Requests, LoadConnection(r) \/ Upgrade(r) \/ StartShell(r) PROVE UseInv'
  <2>1. Onward
    BY <1>1 DEF LoadConnection, Upgrade, StartShell, Return, Goto, tickets, Onward, UseInv,
                TypeInv, Places, Served, Idle
  <2>2. QED
    BY <2>1, OnwardStep
<1>2. ASSUME NEW r \in Requests, Handle(r) PROVE UseInv'
  <2>1. Onward
    BY <1>2 DEF Handle, ReadMessage, HandleMessage, LeaveLoop, CloseOut, WriteStdin, Wait, Return,
                Goto, tickets, Onward, UseInv, TypeInv, Places, Served, Idle
  <2>2. QED
    BY <2>1, OnwardStep
<1>3. ASSUME UNCHANGED <<ticket, kept, at, ask, together>> PROVE UseInv'
  <2>1. Onward
    BY <1>3 DEF Onward, UseInv, TypeInv
  <2>2. QED
    BY <2>1, OnwardStep
<1>4. ASSUME NEW r \in Requests, NEW s \in Streams, Copy(r, s) \/ ReadPipe(r, s) PROVE UseInv'
  BY <1>3, <1>4 DEF Copy, TakeOutput, WriteFails, ReadPipe, tickets
<1>5. ASSUME NEW r \in Requests, WriteMessage(r) PROVE UseInv'
  BY <1>3, <1>5 DEF WriteMessage, tickets
<1>6. CASE UNCHANGED terminalVars
  BY <1>3, <1>6 DEF terminalVars, tickets
<1>7. QED
  BY <1>1, <1>2, <1>4, <1>5, <1>6, WorldStep, GetStep, DelStep DEF TerminalNext, Serve, Show

(* One ticket, one shell, as far as the code keeps what ticket.go:53-54     *)
(* says, for any number of requests that show one ticket at any time.      *)
THEOREM TicketServesOnce == TerminalSpec => []OneUse
<1>1. UseInv => OneUse
  BY DEF UseInv, TypeInv, Readers, Same, Excused, OneUse, Redeemed, Places, Served
<1>2. QED
  BY <1>1, UseInit, UseStep, PTL DEF TerminalSpec
=============================================================================
