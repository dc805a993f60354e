------------------------------ MODULE AgentRun ------------------------------
(***************************************************************************)
(* One turn of the agent: Agent.Run of internal/agent/agent.go, called by  *)
(* chat.Handler.SendMessage with the stored history and the user's new     *)
(* message.  The model and the tools are external: a reply is any text,    *)
(* any non-empty list of calls or an error; a tool that runs may answer,   *)
(* refuse or return an error.  What Run does with them is all here.        *)
(***************************************************************************)
EXTENDS ChatMessages

CONSTANTS MaxToolIterations,  \* chat_settings.MaxToolIntegration of the turn
          Calls,              \* the tool calls a model may ask for
          MaxCalls,           \* bound: calls in one reply
          Histories,          \* the stored histories a turn may start from
          BuiltinNames,       \* tool names a registry can start with
          FreshNames,         \* names create_custom_tool may be asked to add
          Creator             \* the name "create_custom_tool"

Names == BuiltinNames \cup FreshNames

ASSUME LimitAssumption ==
    /\ MaxToolIterations \in Nat \ {0}
    /\ MaxCalls \in Nat \ {0}

\* A reply names any call ID, twice the same one too: Gemini leaves it empty.
ASSUME CallAssumption ==
    \A c \in Calls : DOMAIN c = {"id", "name", "parsed"} /\ c.parsed \in BOOLEAN

Results == {Result(c, e) : c \in Calls, e \in Errors}

ASSUME HistoryAssumption ==
    \A h \in Histories : /\ h \in Seq(Message(Calls, Results))
                         /\ Answered(h)

VARIABLES history,    \* the loaded history, messages[:originalLen]
          messages,   \* Run's growing slice
          iteration,  \* completed round-trips of the loop
          pc,         \* where Run stands
          calls,      \* response.ToolCalls of the round-trip under way
          next,       \* the call the inner loop is at
          registry,   \* the names the turn's tools.Registry holds
          offered,    \* the Tools of the last ChatRequest
          spoke,      \* the stream under way has called onChunk
          events      \* the SSE events so far, in order

vars == <<history, messages, iteration, pc, calls, next, registry, offered,
          spoke, events>>

Places == {"request", "streaming", "calls", "executing", "returned"}

Event == [kind: {"chunk"}] \cup [kind: {"tool_call", "tool_result"}, id: {c.id : c \in Calls}]

TypeOK ==
    /\ history \in Histories
    /\ messages \in Seq(Message(Calls, Results))
    /\ iteration \in 0 .. MaxToolIterations
    /\ pc \in Places
    /\ calls \in Seq(Calls)
    /\ next \in Nat
    /\ registry \subseteq Names
    /\ offered \subseteq Names
    /\ spoke \in BOOLEAN
    /\ events \in Seq(Event)

-----------------------------------------------------------------------------
\* Which builtins the caller was granted decides what buildRegistry registers;
\* a custom tool of an earlier turn may already hold a fresh name.
Init ==
    /\ history \in Histories
    /\ messages = Append(history, UserMessage)
    /\ iteration = 0
    /\ pc = "request"
    /\ calls = <<>>
    /\ next = 1
    /\ registry \in SUBSET Names
    /\ offered = {}
    /\ spoke = FALSE
    /\ events = <<>>

\* Mutant of StreamChat: the loop runs once more than the cap.
StreamChatOnceMore ==
    /\ pc = "request"
    /\ iteration <= MaxToolIterations
    /\ offered' = registry
    /\ spoke' = FALSE
    /\ pc' = "streaming"
    /\ UNCHANGED <<history, messages, iteration, calls, next, registry, events>>

\* The loop head below the cap: StreamChat goes out with the whole history and
\* the registry as it stands now.
StreamChat ==
    /\ pc = "request"
    /\ iteration < MaxToolIterations
    /\ offered' = registry
    /\ spoke' = FALSE
    /\ pc' = "streaming"
    /\ UNCHANGED <<history, messages, iteration, calls, next, registry, events>>

\* A piece of text arrives. One event stands for all the chunks of a stream.
OnChunk ==
    /\ pc = "streaming"
    /\ ~spoke
    /\ spoke' = TRUE
    /\ events' = Append(events, [kind |-> "chunk"])
    /\ UNCHANGED <<history, messages, iteration, pc, calls, next, registry, offered>>

Return(text) ==
    /\ messages' = Append(messages, AssistantText(text))
    /\ pc' = "returned"
    /\ UNCHANGED <<history, iteration, calls, next, registry, offered, spoke, events>>

\* Mutants of ProviderError: the note replaces what the turn has done; the
\* note is written but the loop goes on to the next round-trip.
ForgetfulProviderError ==
    /\ pc = "streaming"
    /\ messages' = Append(history, AssistantText("providerError"))
    /\ pc' = "returned"
    /\ UNCHANGED <<history, iteration, calls, next, registry, offered, spoke, events>>

RetriedProviderError ==
    /\ pc = "streaming"
    /\ messages' = Append(messages, AssistantText("providerError"))
    /\ pc' = "request"
    /\ iteration' = iteration + 1
    /\ UNCHANGED <<history, calls, next, registry, offered, spoke, events>>

\* StreamChat fails, at once or in mid-stream: the turn keeps what it has and
\* closes with a note.
ProviderError == pc = "streaming" /\ Return("providerError")

FinalAnswer == pc = "streaming" /\ Return(IF spoke THEN "said" ELSE "none")

Replies == UNION {[1 .. n -> Calls] : n \in 1 .. MaxCalls}

ToolCalls ==
    /\ pc = "streaming"
    /\ \E reply \in Replies :
           /\ calls' = reply
           /\ messages' = Append(messages, AssistantCalls(reply))
    /\ next' = 1
    /\ pc' = "calls"
    /\ UNCHANGED <<history, iteration, registry, offered, spoke, events>>

Current == calls[next]

OnToolCall ==
    /\ pc = "calls"
    /\ events' = Append(events, [kind |-> "tool_call", id |-> Current.id])
    /\ pc' = "executing"
    /\ UNCHANGED <<history, messages, iteration, calls, next, registry, offered, spoke>>

-----------------------------------------------------------------------------
\* Mutants of ExecuteTool: a name the registry does not hold is not handled;
\* the created tool is registered in a registry of its own.
ExecuteKnownTool(error) ==
    /\ Current.parsed => Current.name \in registry
    /\ error = IF Current.parsed THEN "none" ELSE "unparsed"
    /\ UNCHANGED registry

ExecuteInFreshRegistry(error) ==
    /\ error = IF ~Current.parsed THEN "unparsed"
               ELSE IF Current.name \in registry THEN "none" ELSE "unknown"
    /\ registry' = IF error = "none" /\ Current.name = Creator
                   THEN FreshNames ELSE registry

\* executeTool: with which error this call may end, and the registry after it.
\* Only a create_custom_tool that succeeds changes the registry, and only by a
\* name it did not hold. No tool of this repository returns "broke", a Go error;
\* the Tool interface allows it.
ExecuteTool(error) ==
    \/ /\ ~Current.parsed
       /\ error = "unparsed"
       /\ UNCHANGED registry
    \/ /\ Current.parsed
       /\ Current.name \notin registry
       /\ error = "unknown"
       /\ UNCHANGED registry
    \/ /\ Current.parsed
       /\ Current.name \in registry
       /\ error \in {"broke", "refused"}
       /\ UNCHANGED registry
    \/ /\ Current.parsed
       /\ Current.name \in registry
       /\ error = "none"
       /\ IF Current.name = Creator
          THEN \E n \in Names \ registry : registry' = registry \cup {n}
          ELSE UNCHANGED registry

\* The inner loop ends: on to the next call, or to the next round-trip.
Advance ==
    IF next = Len(calls)
    THEN pc' = "request" /\ iteration' = iteration + 1 /\ UNCHANGED next
    ELSE pc' = "calls" /\ next' = next + 1 /\ UNCHANGED iteration

\* Mutants of OnToolResult: the callback is skipped for a failed call; the
\* result carries the ID of the first call of the reply.
OnToolResultIfOk ==
    /\ pc = "executing"
    /\ \E e \in Errors :
           /\ ExecuteTool(e)
           /\ events' = IF e = "none"
                        THEN Append(events, [kind |-> "tool_result", id |-> Current.id])
                        ELSE events
           /\ messages' = Append(messages, ToolMessage(Result(Current, e)))
    /\ Advance
    /\ UNCHANGED <<history, calls, offered, spoke>>

OnToolResultOfFirst ==
    /\ pc = "executing"
    /\ \E e \in Errors :
           /\ ExecuteTool(e)
           /\ events' = Append(events, [kind |-> "tool_result", id |-> Current.id])
           /\ messages' = Append(messages, ToolMessage(Result(calls[1], e)))
    /\ Advance
    /\ UNCHANGED <<history, calls, offered, spoke>>

OnToolResult ==
    /\ pc = "executing"
    /\ \E e \in Errors :
           /\ ExecuteTool(e)
           /\ events' = Append(events, [kind |-> "tool_result", id |-> Current.id])
           /\ messages' = Append(messages, ToolMessage(Result(Current, e)))
    /\ Advance
    /\ UNCHANGED <<history, calls, offered, spoke>>

\* The cap: the loop is not entered again.
Stopped == pc = "request" /\ iteration >= MaxToolIterations /\ Return("stopped")

Done == pc = "returned" /\ UNCHANGED vars

Next == \/ StreamChat \/ OnChunk \/ ProviderError \/ FinalAnswer \/ ToolCalls
        \/ OnToolCall \/ OnToolResult \/ Stopped \/ Done

\* Run is one goroutine; its calls to the model and the tools return.
Spec == Init /\ [][Next]_vars /\ WF_vars(Next)

-----------------------------------------------------------------------------
\* The position of the request whose calls are being worked on.
Asked == Len(messages) - (next - 1)

\* Between round-trips each call of the history has its one answer behind it,
\* in order; while the calls of a reply are worked on, those before `next` do
\* and the rest have none yet (the append of lines 89-106 of agent.go). A
\* provider refuses any other history, on this turn and on every later one.
CallsAnswered ==
    IF pc \in {"calls", "executing"}
    THEN /\ Asked \in DOMAIN messages
         /\ messages[Asked] = AssistantCalls(calls)
         /\ next \in DOMAIN calls
         /\ \A i \in DOMAIN messages :
                AnsweredTo(messages, i,
                           IF i = Asked THEN next - 1 ELSE Len(messages[i].calls))
         /\ NoStrayResult(messages)
    ELSE Answered(messages)

\* The slice SendMessage cuts off at originalLen is one turn: it starts with the
\* user's message and is closed by one assistant message, the last, exactly when
\* Run has returned, whichever of its three returns was taken.
TurnClosesOnce ==
    /\ IsTurnFrom(messages, Len(history))
    /\ Closes(messages[Len(messages)]) <=> pc = "returned"

\* A provider error, a failed tool or the cap never costs the turn anything it
\* already recorded (the promise of the comment at agent.go:61-72).
RecordOnlyGrows ==
    [][/\ Len(messages') = Len(messages) + 1
       /\ \A i \in DOMAIN messages : messages'[i] = messages[i]]_messages

\* The events about tools, and the tool messages of the turn, by their positions.
Told == {i \in DOMAIN events : events[i].kind # "chunk"}
Recorded == {j \in Len(history) + 1 .. Len(messages) : messages[j].role = "tool"}

\* What the browser was told is what the history records: a tool_call and then
\* its tool_result for each tool message of the turn, in that order, and one
\* more tool_call while a tool is running.
EventsMatchHistory ==
    /\ Cardinality(Told) = 2 * Cardinality(Recorded) + (IF pc = "executing" THEN 1 ELSE 0)
    /\ \A i \in Told, j \in Recorded :
           LET id == messages[j].results[1].id
           IN  /\ RankIn(Told, i) = 2 * RankIn(Recorded, j) - 1 =>
                      events[i] = [kind |-> "tool_call", id |-> id]
               /\ RankIn(Told, i) = 2 * RankIn(Recorded, j) =>
                      events[i] = [kind |-> "tool_result", id |-> id]
    /\ pc = "executing" =>
           \A i \in Told : RankIn(Told, i) = Cardinality(Told) =>
               events[i] = [kind |-> "tool_call", id |-> Current.id]

\* A tool the last request offered is still there when the model's reply calls
\* it, also after a create_custom_tool in between: no such call is answered
\* "unknown tool".
OfferedStaysCallable ==
    [][\A r \in Results :
           messages' = Append(messages, ToolMessage(r)) /\ r.error = "unknown" =>
               Current.name \notin offered]_messages

\* Run ends: the cap bounds a model that never stops asking for tools.
RunReturns == <>(pc = "returned")
=============================================================================
