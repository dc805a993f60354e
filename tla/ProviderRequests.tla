-------------------------- MODULE ProviderRequests --------------------------
(***************************************************************************)
(* What the model is actually sent: buildOpenAIMessages (models/openai.go) *)
(* and buildAnthropicMessages (models/anthropic.go) turn the history into  *)
(* the provider's request.  An item keeps its role, the IDs of the calls   *)
(* it makes and the answers it carries; the text of an answer is "null"    *)
(* when ToolResult.Result is nil, for only Result is encoded.              *)
(***************************************************************************)
EXTENDS ChatMessages, SequencesExt

Item(role, uses, answers) == [role |-> role, uses |-> uses, answers |-> answers]

\* json.Marshal(toolResult.Result); Error is not sent.
Sent(result) == [id |-> result.id,
                 content |-> IF HasData(result) THEN "data" ELSE "null"]

CallIDs(m) == [k \in DOMAIN m.calls |-> m.calls[k].id]
SentResults(m) == [k \in DOMAIN m.results |-> Sent(m.results[k])]

\* A user or assistant message with neither text nor calls is dropped.
IsEmpty(m) == m.text = "none" /\ m.calls = <<>>

\* One OpenAI item per message, and one per tool result.
OpenAIItems(m) ==
    IF m.role = "tool"
    THEN [k \in DOMAIN m.results |-> Item("tool", <<>>, <<Sent(m.results[k])>>)]
    ELSE IF IsEmpty(m) THEN <<>> ELSE <<Item(m.role, CallIDs(m), <<>>)>>

ToOpenAI(msgs) == FlattenSeq([i \in DOMAIN msgs |-> OpenAIItems(msgs[i])])

\* flushToolResults: the results gathered so far become one user message.
Flush(acc) ==
    IF acc.pending = <<>> THEN acc
    ELSE [out |-> Append(acc.out, Item("user", <<>>, acc.pending)), pending |-> <<>>]

\* Mutant of AnthropicStep: an assistant message does not flush the results of
\* the request before it.
AnthropicLazyStep(acc, m) ==
    IF m.role = "tool"
    THEN [acc EXCEPT !.pending = @ \o SentResults(m)]
    ELSE LET flushed == IF m.role = "user" THEN Flush(acc) ELSE acc
         IN  IF IsEmpty(m) THEN flushed
             ELSE [flushed EXCEPT !.out = Append(@, Item(m.role, CallIDs(m), <<>>))]

AnthropicStep(acc, m) ==
    IF m.role = "tool"
    THEN [acc EXCEPT !.pending = @ \o SentResults(m)]
    ELSE IF IsEmpty(m) THEN Flush(acc)
         ELSE [Flush(acc) EXCEPT !.out = Append(@, Item(m.role, CallIDs(m), <<>>))]

\* The loop over the messages: what it holds behind the nth.
ToAnthropic(msgs) ==
    LET held[n \in 0 .. Len(msgs)] ==
            IF n = 0 THEN [out |-> <<>>, pending |-> <<>>]
            ELSE AnthropicStep(held[n - 1], msgs[n])
    IN  Flush(held[Len(msgs)]).out

-----------------------------------------------------------------------------
AnswerIDs(item) == [k \in DOMAIN item.answers |-> item.answers[k].id]

\* OpenAI's rule: a message with n calls is followed by n tool items, one per
\* call, and there is no other tool item.
OpenAIAccepts(items) ==
    LET Owed(i) == Len(items[i].uses)
    IN  /\ \A i \in DOMAIN items : \A k \in 1 .. Owed(i) :
               /\ i + k \in DOMAIN items
               /\ AnswerIDs(items[i + k]) = <<items[i].uses[k]>>
        /\ \A j \in DOMAIN items : items[j].role = "tool" =>
               \E i \in 1 .. j - 1 : j - i <= Owed(i)

\* Anthropic's rule: the message behind one with tool_use blocks is a user
\* message with exactly their tool_result blocks, and there are no others.
AnthropicAccepts(items) ==
    \A i \in DOMAIN items :
        /\ items[i].uses # <<>> =>
               /\ i + 1 \in DOMAIN items
               /\ AnswerIDs(items[i + 1]) = items[i].uses
        /\ items[i].answers # <<>> =>
               /\ i > 1
               /\ items[i - 1].uses = AnswerIDs(items[i])
=============================================================================
