---------------------------- MODULE ChatMessages ----------------------------
(***************************************************************************)
(* The message history of a conversation (internal/ai_model/interface.go): *)
(* what a user message, an assistant reply, a request for tool calls and a *)
(* tool result look like, and when such a history is well formed.          *)
(*                                                                         *)
(* Wording is abstracted to its origin: text is "prompt" for the user's    *)
(* words, "said" for the model's, "stopped" and "providerError" for the    *)
(* two notes agent.Run writes itself, and "none" for an empty Content.  A  *)
(* call keeps what Run looks at: its ID, its name, and whether its         *)
(* arguments parsed (no MetadataParseError).                               *)
(***************************************************************************)
EXTENDS Naturals, Sequences, FiniteSets

Roles == {"user", "assistant", "tool"}

Texts == {"none", "prompt", "said", "stopped", "providerError"}

\* The error of a result: none, or which return statement of executeTool
\* built it.
Errors == {"none", "unparsed", "unknown", "broke", "refused"}

Message(Calls, Results) ==
    [role: Roles, text: Texts, calls: Seq(Calls), results: Seq(Results)]

UserMessage == [role |-> "user", text |-> "prompt",
                calls |-> <<>>, results |-> <<>>]

AssistantText(text) == [role |-> "assistant", text |-> text,
                        calls |-> <<>>, results |-> <<>>]

\* Only the calls: Run leaves Content out of this message.
AssistantCalls(calls) == [role |-> "assistant", text |-> "none",
                          calls |-> calls, results |-> <<>>]

ToolMessage(result) == [role |-> "tool", text |-> "none",
                        calls |-> <<>>, results |-> <<result>>]

Result(call, error) == [id |-> call.id, name |-> call.name, error |-> error]

\* ToolResult.Result is set only when Execute returned without an error; the
\* three early returns of executeTool leave it nil.
HasData(result) == result.error \in {"none", "refused"}

-----------------------------------------------------------------------------
\* Of the positions S, position i is the one with this number.
RankIn(S, i) == Cardinality({j \in S : j <= i})

\* m is a tool message that answers this very call.
Answers(m, call) == \E e \in Errors : m = ToolMessage(Result(call, e))

\* The first n calls of the message at position i are answered, one tool
\* message each, in order, right behind it.
AnsweredTo(msgs, i, n) ==
    \A k \in 1 .. n : /\ i + k \in DOMAIN msgs
                      /\ Answers(msgs[i + k], msgs[i].calls[k])

\* Every tool message sits behind the request it answers.
NoStrayResult(msgs) ==
    \A j \in DOMAIN msgs :
        msgs[j].role = "tool" =>
            \E i \in 1 .. j - 1 : j - i \in DOMAIN msgs[i].calls

\* What every provider demands of a history before the next request: each
\* requested call has exactly one answer, in its place.
Answered(msgs) ==
    /\ \A i \in DOMAIN msgs : AnsweredTo(msgs, i, Len(msgs[i].calls))
    /\ NoStrayResult(msgs)

\* A message that ends a turn.
Closes(m) == m.role = "assistant" /\ m.calls = <<>>

\* The messages behind position n are one turn so far: the user's message,
\* then only calls and results until the one message that closes it.
IsTurnFrom(msgs, n) ==
    /\ Len(msgs) > n
    /\ msgs[n + 1] = UserMessage
    /\ \A i \in n + 2 .. Len(msgs) :
           /\ msgs[i].role # "user"
           /\ Closes(msgs[i]) => i = Len(msgs)
=============================================================================
