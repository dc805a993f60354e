---------------------------- MODULE CommandPolicy ----------------------------
(***************************************************************************)
(* internal/tools/command: which commands the rules of a connection let    *)
(* through.  A rule is [program, prefixes, allowed]: prefixes is a set of  *)
(* argument lists, for one that fits is enough, whichever it is.           *)
(***************************************************************************)
EXTENDS Naturals, Sequences, FiniteSets

HasArgsPrefix(args, prefix) ==
    Len(prefix) <= Len(args) /\ SubSeq(args, 1, Len(prefix)) = prefix

Matches(rule, command) ==
    /\ rule.program = command.program
    /\ \/ rule.prefixes = {}
       \/ \E prefix \in rule.prefixes : HasArgsPrefix(command.args, prefix)

\* The first rule that matches decides, and the mode if none does.
Evaluate(mode, rules, command) ==
    LET hits == {i \in DOMAIN rules : Matches(rules[i], command)}
    IN  IF hits = {} THEN mode = "prohibited"
        ELSE rules[CHOOSE i \in hits : \A j \in hits : i <= j].allowed

\* The orders Postgres may return a set of rows in, for a query without ORDER BY.
Orders(rows) ==
    {order \in [1..Cardinality(rows) -> rows] :
        \A i, j \in DOMAIN order : order[i] = order[j] => i = j}

\* Any mode but "prohibited" is "accept", the allow-list.
buildCommandPolicy(mode) == IF mode = "prohibited" THEN mode ELSE "accept"

Verdicts(mode, rows, command) ==
    {Evaluate(buildCommandPolicy(mode), order, command) : order \in Orders(rows)}
=============================================================================
