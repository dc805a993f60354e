----------------------------- MODULE MCAgentRun -----------------------------
(***************************************************************************)
(* AgentRun on two round-trips of at most two calls, with the requests its *)
(* histories turn into.                                                    *)
(***************************************************************************)
EXTENDS AgentRequests

Call(id, name, parsed) == [id |-> id, name |-> name, parsed |-> parsed]

\* Create a tool, use the tool it may have created, use a builtin that may not
\* be granted, and a call that was cut off. Two of them share an ID.
MCCalls == {Call("a", "create_custom_tool", TRUE), Call("b", "fresh", TRUE),
            Call("c", "ssh_execute", TRUE), Call("c", "fresh", FALSE)}

Earlier == Call("c", "ssh_execute", TRUE)

\* An empty conversation, and one whose earlier turn ran two calls.
MCHistories ==
    {<<>>,
     <<UserMessage, AssistantCalls(<<Earlier, Earlier>>),
       ToolMessage([id |-> "c", name |-> "ssh_execute", error |-> "none"]),
       ToolMessage([id |-> "c", name |-> "ssh_execute", error |-> "refused"]),
       AssistantText("said")>>}
=============================================================================
