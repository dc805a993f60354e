---------------------------- MODULE MCRemoteTools ----------------------------
(***************************************************************************)
(* RemoteTools with a turn of two calls, one connection and two custom     *)
(* tools: one stored under the name of a builtin or one of its own, and    *)
(* one to be created.  The rules overlap.                                  *)
(***************************************************************************)
EXTENDS RemoteTools

CONSTANT t1

MCBuiltins == {"list_ssh_connections", "ssh_execute", "create_custom_tool"}
Rule(prefixes, allowed) == [program |-> "git", prefixes |-> prefixes, allowed |-> allowed]
MCRules == {Rule({}, FALSE), Rule({<<"status">>}, TRUE)}
MCCommands == {[program |-> "git", args |-> <<"status", "-s">>],
               [program |-> "git", args |-> <<"push">>]}

NoRow == [life |-> "free", name |-> "none", versions |-> 0, by |-> "none"]
MCFirst ==
    {[conns |-> <<[live |-> TRUE, host |-> "old", mode |-> mode]>>,
      rules |-> <<rules>>, access |-> <<level>>,
      offered |-> MCBuiltins, usable |-> {1},
      tools |-> <<[life |-> "live", name |-> name, versions |-> 1, by |-> "user"], NoRow, NoRow>>] :
        mode \in Modes, rules \in {{}, {Rule({}, FALSE)}, MCRules}, level \in {"read", "write"},
        name \in {"own", "ssh_execute"}}
=============================================================================
