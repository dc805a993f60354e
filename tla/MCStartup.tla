------------------------------ MODULE MCStartup ------------------------------
(* Startup on an empty database and on one of an older release. *)
EXTENDS Startup

CONSTANTS s1, s2

MCTypes == <<"user", "conversation">>
MCAgentTools == <<"ssh_execute">>
MCFileTools == <<"read_file", "edit_file">>

Empty == [row |-> [name \in Rows |-> "none"], members |-> 0,
          grants |-> [t \in ToSet(MCTypes) |-> 0],
          versions |-> [f \in ToSet(MCFileTools) |-> <<>>], gaps |-> {"tables"}]

\* An older release: one resource type less, one file tool still a stub of the
\* catalog, and the other with its faulty first version and perhaps one of a user.
Older(users) ==
    [row |-> [name \in Rows |-> IF name = "edit_file" THEN "none" ELSE "live"], members |-> 1,
     grants |-> ("user" :> 1 @@ "conversation" :> 0),
     versions |-> ("read_file" :> <<Version("1.0.0", "faulty")>> \o users @@ "edit_file" :> <<>>),
     gaps |-> Backfills]

MCDatabases == {Empty} \cup {Older(users) : users \in {<<>>, <<Version("1.0.1", "users")>>,
                                                      <<Version("2.0.0", "users")>>}}
Alike == Permutations(Processes)
==============================================================================
