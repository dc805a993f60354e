----------------------------- MODULE MCChatTurn -----------------------------
(***************************************************************************)
(* ChatTurn with two tabs, one rename and one deletion.                    *)
(***************************************************************************)
EXTENDS ChatTurn, TLC

Call == [id |-> "a", name |-> "ssh_execute", parsed |-> TRUE]

\* A reply that took a tool call: a history cut anywhere inside it would show.
MCBatches ==
    {<<UserMessage, AssistantCalls(<<Call>>), ToolMessage(Result(Call, "none")),
       AssistantText("said")>>}

\* Rename, or archive.
MCRequests == {{"title"}, {"archived"}}

\* Nothing tells one tab from the other.
Tabs == Permutations(Turns)
=============================================================================
