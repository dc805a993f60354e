--------------------------- MODULE AgentRunProofs ---------------------------
(***************************************************************************)
(* AgentRun's safety for every cap, every set of calls and every history.  *)
(***************************************************************************)
EXTENDS AgentRequests, FiniteSetTheorems, WellFoundedInduction, TLAPS

\* What the loop of Run keeps besides the types: the body runs below the cap,
\* the inner loop points at a call, and the registry still holds every tool of
\* the last request.
LoopInv ==
    /\ pc \in {"streaming", "calls", "executing"} =>
           iteration < MaxToolIterations /\ offered \subseteq registry
    /\ pc \in {"calls", "executing"} => next \in DOMAIN calls

-----------------------------------------------------------------------------
\* Messages of the four shapes Run appends are messages.
LEMMA MessageShapes ==
    /\ UserMessage \in Message(Calls, Results)
    /\ \A t \in Texts : AssistantText(t) \in Message(Calls, Results)
    /\ \A cs \in Seq(Calls) : AssistantCalls(cs) \in Message(Calls, Results)
    /\ \A r \in Results : ToolMessage(r) \in Message(Calls, Results)
  BY DEF UserMessage, AssistantText, AssistantCalls, ToolMessage, Message, Roles, Texts

\* A reply is a non-empty sequence of calls.
LEMMA ReplyIsSequence ==
    ASSUME NEW reply \in Replies
    PROVE  reply \in Seq(Calls) /\ 1 \in DOMAIN reply
  BY LimitAssumption DEF Replies

LEMMA TypeInit == Init => TypeOK /\ LoopInv
<1> SUFFICES ASSUME Init PROVE TypeOK /\ LoopInv
  OBVIOUS
<1>1. messages \in Seq(Message(Calls, Results))
  BY HistoryAssumption, MessageShapes DEF Init
<1>2. calls \in Seq(Calls) /\ events \in Seq(Event)
  BY DEF Init
<1>3. iteration \in 0 .. MaxToolIterations /\ next \in Nat
  BY LimitAssumption DEF Init
<1>4. QED
  BY <1>1, <1>2, <1>3 DEF Init, TypeOK, LoopInv, Places

LEMMA TypeStep == TypeOK /\ LoopInv /\ [Next]_vars => TypeOK' /\ LoopInv'
<1> SUFFICES ASSUME TypeOK, LoopInv, [Next]_vars PROVE TypeOK' /\ LoopInv'
  OBVIOUS
<1> USE LimitAssumption DEF TypeOK, LoopInv, Places
<1>1. CASE StreamChat
  BY <1>1 DEF StreamChat
<1>2. CASE OnChunk
  BY <1>2 DEF OnChunk, Event
<1>3. ASSUME NEW t \in Texts, Return(t) PROVE TypeOK' /\ LoopInv'
  BY <1>3, MessageShapes DEF Return
<1>4. CASE ProviderError
  BY <1>3, <1>4 DEF ProviderError, Texts
<1>5. CASE FinalAnswer
  BY <1>3, <1>5 DEF FinalAnswer, Texts
<1>6. CASE ToolCalls
  BY <1>6, ReplyIsSequence, MessageShapes DEF ToolCalls
<1>7. CASE OnToolCall
  <2>1. Current \in Calls
    BY <1>7 DEF OnToolCall, Current
  <2>2. [kind |-> "tool_call", id |-> Current.id] \in Event
    BY <2>1 DEF Event
  <2>3. QED
    BY <1>7, <2>2 DEF OnToolCall
<1>8. CASE OnToolResult
  <2>1. Current \in Calls
    BY <1>8 DEF OnToolResult, Current
  <2>2. PICK e \in Errors :
            /\ ExecuteTool(e)
            /\ events' = Append(events, [kind |-> "tool_result", id |-> Current.id])
            /\ messages' = Append(messages, ToolMessage(Result(Current, e)))
    BY <1>8 DEF OnToolResult
  <2>3. messages' \in Seq(Message(Calls, Results))
    <3>1. Result(Current, e) \in Results
      BY <2>1 DEF Results
    <3>2. QED
      BY <2>2, <3>1, MessageShapes
  <2>4. events' \in Seq(Event)
    BY <2>1, <2>2 DEF Event
  <2>5. registry' \subseteq Names /\ registry \subseteq registry'
    BY <2>2 DEF ExecuteTool
  <2>6. /\ pc' \in {"request", "calls"} /\ iteration' \in 0 .. MaxToolIterations
        /\ next' \in Nat
        /\ pc' = "calls" => next' \in DOMAIN calls /\ UNCHANGED iteration
    BY <1>8 DEF OnToolResult, Advance
  <2>7. QED
    BY <1>8, <2>3, <2>4, <2>5, <2>6 DEF OnToolResult
<1>9. CASE Stopped
  BY <1>3, <1>9 DEF Stopped, Texts
<1>10. CASE UNCHANGED vars
  BY <1>10 DEF vars
<1>11. QED
  BY <1>1, <1>2, <1>4, <1>5, <1>6, <1>7, <1>8, <1>9, <1>10 DEF Next, Done

\* Type correctness: every variable keeps its type, the loop its counters.
THEOREM TypeCorrect == Spec => [](TypeOK /\ LoopInv)
  BY TypeInit, TypeStep, PTL DEF Spec

-----------------------------------------------------------------------------
\* What a message appended to a history leaves as it was.
LEMMA AppendKeepsAnswers ==
    ASSUME NEW msgs \in Seq(Message(Calls, Results)),
           NEW m \in Message(Calls, Results),
           NEW i \in DOMAIN msgs, NEW n \in Nat, AnsweredTo(msgs, i, n)
    PROVE  AnsweredTo(Append(msgs, m), i, n)
<1> SUFFICES ASSUME NEW k \in 1 .. n
             PROVE  /\ i + k \in DOMAIN Append(msgs, m)
                    /\ Answers(Append(msgs, m)[i + k], Append(msgs, m)[i].calls[k])
  BY DEF AnsweredTo
<1>1. i + k \in DOMAIN msgs /\ Answers(msgs[i + k], msgs[i].calls[k])
  BY DEF AnsweredTo
<1>2. /\ i + k \in DOMAIN Append(msgs, m)
      /\ Append(msgs, m)[i + k] = msgs[i + k]
      /\ Append(msgs, m)[i] = msgs[i]
  BY <1>1
<1>3. QED
  BY <1>1, <1>2

LEMMA AppendKeepsNoStray ==
    ASSUME NEW msgs \in Seq(Message(Calls, Results)),
           NEW m \in Message(Calls, Results), NoStrayResult(msgs),
           m.role = "tool" =>
               \E i \in DOMAIN msgs : Len(msgs) + 1 - i \in DOMAIN msgs[i].calls
    PROVE  NoStrayResult(Append(msgs, m))
<1> DEFINE longer == Append(msgs, m)
<1> SUFFICES ASSUME NEW j \in DOMAIN longer, longer[j].role = "tool"
             PROVE  \E i \in 1 .. j - 1 : j - i \in DOMAIN longer[i].calls
  BY DEF NoStrayResult
<1>1. CASE j \in DOMAIN msgs
  <2>1. PICK i \in 1 .. j - 1 : j - i \in DOMAIN msgs[i].calls
    BY <1>1 DEF NoStrayResult
  <2>2. longer[i] = msgs[i]
    BY <1>1
  <2>3. QED
    BY <2>1, <2>2
<1>2. CASE j = Len(msgs) + 1
  <2>1. m.role = "tool"
    BY <1>2
  <2>2. PICK i \in DOMAIN msgs : Len(msgs) + 1 - i \in DOMAIN msgs[i].calls
    BY <2>1
  <2>3. longer[i] = msgs[i] /\ i \in 1 .. j - 1
    BY <1>2
  <2>4. QED
    BY <1>2, <2>2, <2>3
<1>3. QED
  BY <1>1, <1>2

\* A message without calls that is no result keeps a history answered.
LEMMA AppendPlain ==
    ASSUME NEW msgs \in Seq(Message(Calls, Results)), Answered(msgs),
           NEW m \in Message(Calls, Results), m.role # "tool", m.calls = <<>>
    PROVE  Answered(Append(msgs, m))
<1> DEFINE longer == Append(msgs, m)
<1>1. NoStrayResult(longer)
  BY AppendKeepsNoStray DEF Answered
<1>2. ASSUME NEW i \in DOMAIN longer
      PROVE  AnsweredTo(longer, i, Len(longer[i].calls))
  <2>1. CASE i \in DOMAIN msgs
    <3>1. longer[i] = msgs[i] /\ Len(msgs[i].calls) \in Nat
      BY <2>1 DEF Message
    <3>2. QED
      BY <2>1, <3>1, AppendKeepsAnswers DEF Answered
  <2>2. CASE i = Len(msgs) + 1
    <3>1. Len(longer[i].calls) = 0
      BY <2>2
    <3>2. QED
      BY <3>1 DEF AnsweredTo
  <2>3. QED
    BY <2>1, <2>2
<1>3. QED
  BY <1>1, <1>2 DEF Answered

LEMMA AnsweredInit == Init => CallsAnswered
<1> SUFFICES ASSUME Init PROVE CallsAnswered
  OBVIOUS
<1>1. Answered(Append(history, UserMessage))
  BY HistoryAssumption, MessageShapes, AppendPlain DEF Init, UserMessage
<1>2. QED
  BY <1>1 DEF Init, CallsAnswered

LEMMA AnsweredStep ==
    TypeOK /\ LoopInv /\ CallsAnswered /\ [Next]_vars => CallsAnswered'
<1> SUFFICES ASSUME TypeOK, LoopInv, CallsAnswered, [Next]_vars
             PROVE  CallsAnswered'
  OBVIOUS
<1>1. CASE StreamChat
  BY <1>1 DEF StreamChat, CallsAnswered
<1>2. CASE OnChunk
  BY <1>2 DEF OnChunk, CallsAnswered
<1>3. ASSUME NEW t \in Texts, Return(t), pc \in {"request", "streaming"}
      PROVE  CallsAnswered'
  <2>1. Answered(Append(messages, AssistantText(t)))
    BY <1>3, MessageShapes, AppendPlain DEF TypeOK, CallsAnswered, AssistantText
  <2>2. QED
    BY <1>3, <2>1 DEF Return, CallsAnswered
<1>4. CASE ProviderError
  BY <1>3, <1>4 DEF ProviderError, Texts
<1>5. CASE FinalAnswer
  BY <1>3, <1>5 DEF FinalAnswer, Texts
<1>6. CASE ToolCalls
  <2>1. PICK reply \in Replies :
            calls' = reply /\ messages' = Append(messages, AssistantCalls(reply))
    BY <1>6 DEF ToolCalls
  <2>2. reply \in Seq(Calls) /\ 1 \in DOMAIN reply
    BY ReplyIsSequence
  <2>3. AssistantCalls(reply) \in Message(Calls, Results)
    BY <2>2, MessageShapes
  <2>4. messages \in Seq(Message(Calls, Results)) /\ Answered(messages)
    BY <1>6 DEF TypeOK, ToolCalls, CallsAnswered
  <2>5. NoStrayResult(messages')
    BY <2>1, <2>3, <2>4, AppendKeepsNoStray DEF Answered, AssistantCalls
  <2>6. Asked' = Len(messages) + 1 /\ next' = 1 /\ pc' = "calls"
    BY <1>6, <2>1, <2>3, <2>4 DEF ToolCalls, Asked
  <2>7. ASSUME NEW i \in DOMAIN messages'
        PROVE  AnsweredTo(messages', i,
                          IF i = Asked' THEN next' - 1 ELSE Len(messages'[i].calls))
    <3>1. CASE i \in DOMAIN messages
      <4>1. messages'[i] = messages[i] /\ Len(messages[i].calls) \in Nat
        BY <2>1, <2>3, <2>4, <3>1 DEF Message
      <4>2. AnsweredTo(messages', i, Len(messages[i].calls))
        BY <2>1, <2>3, <2>4, <3>1, <4>1, AppendKeepsAnswers DEF Answered
      <4>3. i # Asked'
        BY <2>4, <2>6, <3>1
      <4>4. QED
        BY <4>1, <4>2, <4>3
    <3>2. CASE i = Asked'
      BY <2>6, <3>2 DEF AnsweredTo
    <3>3. QED
      BY <2>1, <2>3, <2>4, <2>6, <3>1, <3>2
  <2>8. Asked' \in DOMAIN messages' /\ messages'[Asked'] = AssistantCalls(calls')
    BY <2>1, <2>3, <2>4, <2>6
  <2>9. QED
    BY <2>1, <2>2, <2>5, <2>6, <2>7, <2>8 DEF CallsAnswered
<1>7. CASE OnToolCall
  BY <1>7 DEF OnToolCall, CallsAnswered, Asked
<1>8. CASE OnToolResult
  <2> DEFINE at == Asked
  <2>1. PICK e \in Errors :
            messages' = Append(messages, ToolMessage(Result(Current, e)))
    BY <1>8 DEF OnToolResult
  <2> DEFINE m == ToolMessage(Result(Current, e))
  <2>2. /\ messages \in Seq(Message(Calls, Results)) /\ calls \in Seq(Calls)
        /\ next \in DOMAIN calls /\ NoStrayResult(messages)
        /\ at \in DOMAIN messages /\ messages[at] = AssistantCalls(calls)
        /\ at + next = Len(messages) + 1
    BY <1>8 DEF TypeOK, LoopInv, OnToolResult, CallsAnswered, Asked
  <2>3. messages[at].calls = calls
    BY <2>2 DEF AssistantCalls
  <2>4. m \in Message(Calls, Results)
    <3>1. Current \in Calls
      BY <2>2 DEF Current
    <3>2. Result(Current, e) \in Results
      BY <3>1 DEF Results
    <3>3. QED
      BY <3>2, MessageShapes
  <2>5. NoStrayResult(messages')
    <3>1. Len(messages) + 1 - at \in DOMAIN messages[at].calls
      BY <2>2, <2>3
    <3>2. QED
      BY <2>1, <2>2, <2>4, <3>1, AppendKeepsNoStray
  <2>6. AnsweredTo(messages', at, next)
    <3>1. AnsweredTo(messages', at, next - 1)
      BY <1>8, <2>1, <2>2, <2>4, AppendKeepsAnswers DEF OnToolResult, CallsAnswered
    <3>2. /\ at + next \in DOMAIN messages' /\ messages'[at + next] = m
          /\ messages'[at] = messages[at]
      BY <2>1, <2>2, <2>4
    <3>3. Answers(messages'[at + next], messages'[at].calls[next])
      BY <2>3, <3>2 DEF Answers, Current
    <3>4. QED
      BY <2>2, <3>1, <3>2, <3>3 DEF AnsweredTo
  <2>7. ASSUME NEW i \in DOMAIN messages, i # at
        PROVE  AnsweredTo(messages', i, Len(messages[i].calls))
    <3>1. AnsweredTo(messages, i, Len(messages[i].calls))
      BY <1>8, <2>7 DEF OnToolResult, CallsAnswered
    <3>2. Len(messages[i].calls) \in Nat
      BY <2>2 DEF Message
    <3>3. QED
      BY <2>1, <2>2, <2>4, <3>1, <3>2, AppendKeepsAnswers
  <2>8. /\ DOMAIN messages' = 1 .. Len(messages) + 1
        /\ Len(messages') = Len(messages) + 1
        /\ \A i \in DOMAIN messages : messages'[i] = messages[i]
        /\ messages'[Len(messages) + 1].calls = <<>>
    BY <2>1, <2>2, <2>4 DEF ToolMessage
  <2>9. AnsweredTo(messages', Len(messages) + 1, Len(messages'[Len(messages) + 1].calls))
    BY <2>8 DEF AnsweredTo
  <2>10. CASE next = Len(calls)
    <3>1. pc' = "request"
      BY <1>8, <2>10 DEF OnToolResult, Advance
    <3>2. ASSUME NEW i \in DOMAIN messages'
          PROVE  AnsweredTo(messages', i, Len(messages'[i].calls))
      <4>1. CASE i = at
        BY <2>2, <2>3, <2>6, <2>8, <2>10, <4>1
      <4>2. CASE i \in DOMAIN messages /\ i # at
        BY <2>7, <2>8, <4>2
      <4>3. CASE i = Len(messages) + 1
        BY <2>9, <4>3
      <4>4. QED
        BY <2>2, <2>8, <4>1, <4>2, <4>3
    <3>3. QED
      BY <2>5, <3>1, <3>2 DEF CallsAnswered, Answered
  <2>11. CASE next # Len(calls)
    <3>1. pc' = "calls" /\ next' = next + 1 /\ calls' = calls
      BY <1>8, <2>11 DEF OnToolResult, Advance
    <3>2. Asked' = at
      BY <2>2, <2>8, <3>1 DEF Asked
    <3>3. ASSUME NEW i \in DOMAIN messages'
          PROVE  AnsweredTo(messages', i,
                     IF i = Asked' THEN next' - 1 ELSE Len(messages'[i].calls))
      <4>1. CASE i = at
        BY <2>2, <2>6, <3>1, <3>2, <4>1
      <4>2. CASE i \in DOMAIN messages /\ i # at
        BY <2>7, <2>8, <3>2, <4>2
      <4>3. CASE i = Len(messages) + 1
        BY <2>2, <2>9, <3>2, <4>3
      <4>4. QED
        BY <2>2, <2>8, <4>1, <4>2, <4>3
    <3>4. next' \in DOMAIN calls'
      BY <2>2, <2>11, <3>1
    <3>5. Asked' \in DOMAIN messages' /\ messages'[Asked'] = AssistantCalls(calls')
      BY <2>2, <2>8, <3>1, <3>2
    <3>6. QED
      BY <2>5, <3>1, <3>3, <3>4, <3>5 DEF CallsAnswered
  <2>12. QED
    BY <2>10, <2>11
<1>9. CASE Stopped
  BY <1>3, <1>9 DEF Stopped, Texts
<1>10. CASE UNCHANGED vars
  BY <1>10 DEF vars, CallsAnswered, Asked
<1>11. QED
  BY <1>1, <1>2, <1>4, <1>5, <1>6, <1>7, <1>8, <1>9, <1>10 DEF Next, Done

\* Every history Run sends to the model or returns answers each call once, in
\* its place, whatever the model asks for and however the tools fail.
THEOREM CallsAlwaysAnswered == Spec => []CallsAnswered
  BY TypeInit, TypeStep, AnsweredInit, AnsweredStep, PTL DEF Spec

-----------------------------------------------------------------------------
\* One more message of a turn that was still open.
LEMMA AppendToTurn ==
    ASSUME NEW msgs \in Seq(Message(Calls, Results)),
           NEW m \in Message(Calls, Results), NEW n \in Nat,
           IsTurnFrom(msgs, n), ~Closes(msgs[Len(msgs)]), m.role # "user"
    PROVE  /\ IsTurnFrom(Append(msgs, m), n)
           /\ Append(msgs, m)[Len(Append(msgs, m))] = m
<1> DEFINE longer == Append(msgs, m)
<1>1. /\ Len(longer) = Len(msgs) + 1 /\ longer[Len(msgs) + 1] = m
      /\ \A i \in 1 .. Len(msgs) : longer[i] = msgs[i]
  OBVIOUS
<1>2. Len(longer) > n /\ longer[n + 1] = UserMessage
  BY <1>1 DEF IsTurnFrom
<1>3. ASSUME NEW i \in n + 2 .. Len(longer)
      PROVE  longer[i].role # "user" /\ (Closes(longer[i]) => i = Len(longer))
  <2>1. CASE i = Len(longer)
    BY <1>1, <2>1
  <2>2. CASE i # Len(longer)
    <3>1. i \in n + 2 .. Len(msgs) /\ longer[i] = msgs[i]
      BY <1>1, <2>2
    <3>2. msgs[i].role # "user" /\ (Closes(msgs[i]) => i = Len(msgs))
      BY <3>1 DEF IsTurnFrom
    <3>3. ~Closes(msgs[i])
      BY <3>2
    <3>4. QED
      BY <3>1, <3>2, <3>3
  <2>3. QED
    BY <2>1, <2>2
<1>4. QED
  BY <1>1, <1>2, <1>3 DEF IsTurnFrom

LEMMA TurnInit == Init => TurnClosesOnce
<1> SUFFICES ASSUME Init PROVE TurnClosesOnce
  OBVIOUS
<1>1. history \in Seq(Message(Calls, Results))
  BY HistoryAssumption DEF Init
<1>2. Len(messages) = Len(history) + 1 /\ messages[Len(history) + 1] = UserMessage
  BY <1>1 DEF Init
<1>3. IsTurnFrom(messages, Len(history))
  BY <1>1, <1>2 DEF IsTurnFrom
<1>4. QED
  BY <1>2, <1>3 DEF Init, TurnClosesOnce, Closes, UserMessage

LEMMA TurnStep ==
    TypeOK /\ LoopInv /\ TurnClosesOnce /\ [Next]_vars => TurnClosesOnce'
<1> SUFFICES ASSUME TypeOK, LoopInv, TurnClosesOnce, [Next]_vars
             PROVE  TurnClosesOnce'
  OBVIOUS
<1>0. messages \in Seq(Message(Calls, Results)) /\ Len(history) \in Nat
  BY HistoryAssumption DEF TypeOK
<1>1. CASE StreamChat
  BY <1>1 DEF StreamChat, TurnClosesOnce
<1>2. CASE OnChunk
  BY <1>2 DEF OnChunk, TurnClosesOnce
<1>3. ASSUME NEW t \in Texts, Return(t), pc # "returned"
      PROVE  TurnClosesOnce'
  <2>1. AssistantText(t).role # "user" /\ Closes(AssistantText(t))
    BY DEF AssistantText, Closes
  <2>2. /\ IsTurnFrom(messages', Len(history))
        /\ messages'[Len(messages')] = AssistantText(t)
    BY <1>0, <1>3, <2>1, MessageShapes, AppendToTurn DEF Return, TurnClosesOnce
  <2>3. QED
    BY <1>3, <2>1, <2>2 DEF Return, TurnClosesOnce
<1>4. CASE ProviderError
  BY <1>3, <1>4 DEF ProviderError, Texts
<1>5. CASE FinalAnswer
  BY <1>3, <1>5 DEF FinalAnswer, Texts
<1>6. CASE ToolCalls
  <2>1. PICK reply \in Replies : messages' = Append(messages, AssistantCalls(reply))
    BY <1>6 DEF ToolCalls
  <2>2. /\ AssistantCalls(reply).role # "user" /\ ~Closes(AssistantCalls(reply))
        /\ AssistantCalls(reply) \in Message(Calls, Results)
    BY ReplyIsSequence, MessageShapes DEF AssistantCalls, Closes
  <2>3. /\ IsTurnFrom(messages', Len(history))
        /\ messages'[Len(messages')] = AssistantCalls(reply)
    BY <1>0, <1>6, <2>1, <2>2, AppendToTurn DEF ToolCalls, TurnClosesOnce
  <2>4. QED
    BY <1>6, <2>2, <2>3 DEF ToolCalls, TurnClosesOnce
<1>7. CASE OnToolCall
  BY <1>7 DEF OnToolCall, TurnClosesOnce
<1>8. CASE OnToolResult
  <2>1. PICK e \in Errors :
            messages' = Append(messages, ToolMessage(Result(Current, e)))
    BY <1>8 DEF OnToolResult
  <2> DEFINE m == ToolMessage(Result(Current, e))
  <2>2. m \in Message(Calls, Results)
    <3>1. Current \in Calls
      BY <1>8 DEF OnToolResult, TypeOK, LoopInv, Current
    <3>2. Result(Current, e) \in Results
      BY <3>1 DEF Results
    <3>3. QED
      BY <3>2, MessageShapes
  <2>3. m.role # "user" /\ ~Closes(m)
    BY DEF ToolMessage, Closes
  <2>4. IsTurnFrom(messages', Len(history)) /\ messages'[Len(messages')] = m
    BY <1>0, <1>8, <2>1, <2>2, <2>3, AppendToTurn DEF OnToolResult, TurnClosesOnce
  <2>5. pc' # "returned" /\ history' = history
    BY <1>8 DEF OnToolResult, Advance
  <2>6. QED
    BY <2>3, <2>4, <2>5 DEF TurnClosesOnce
<1>9. CASE Stopped
  BY <1>3, <1>9 DEF Stopped, Texts
<1>10. CASE UNCHANGED vars
  BY <1>10 DEF vars, TurnClosesOnce
<1>11. QED
  BY <1>1, <1>2, <1>4, <1>5, <1>6, <1>7, <1>8, <1>9, <1>10 DEF Next, Done

\* What SendMessage appends to the conversation is one whole turn: it starts with
\* the user's message and has one closing message, its last, once Run returned.
THEOREM TurnAlwaysCloses == Spec => []TurnClosesOnce
  BY TypeInit, TypeStep, TurnInit, TurnStep, PTL DEF Spec

-----------------------------------------------------------------------------
\* No step of Run loses or changes a message already recorded.
THEOREM RecordNeverShrinks == Spec => RecordOnlyGrows
<1> DEFINE Grows == /\ Len(messages') = Len(messages) + 1
                    /\ \A i \in DOMAIN messages : messages'[i] = messages[i]
<1>1. TypeOK /\ LoopInv /\ [Next]_vars => [Grows]_messages
  <2> SUFFICES ASSUME TypeOK, [Next]_vars, messages' # messages
               PROVE  Grows
    OBVIOUS
  <2>1. ASSUME NEW m, messages' = Append(messages, m) PROVE Grows
    BY <2>1 DEF TypeOK
  <2>2. \E m : messages' = Append(messages, m)
    BY DEF Next, StreamChat, OnChunk, ProviderError, FinalAnswer, ToolCalls,
           OnToolCall, OnToolResult, Stopped, Done, Return, vars
  <2>3. QED
    BY <2>1, <2>2
<1>2. QED
  BY <1>1, TypeInit, TypeStep, PTL DEF Spec, RecordOnlyGrows

\* A tool the model was offered in its last request is never answered with
\* "unknown tool".
THEOREM OfferedAlwaysCallable == Spec => OfferedStaysCallable
<1> DEFINE Callable ==
        \A r \in Results :
            messages' = Append(messages, ToolMessage(r)) /\ r.error = "unknown" =>
                Current.name \notin offered
<1>1. TypeOK /\ LoopInv /\ [Next]_vars => [Callable]_messages
  <2> SUFFICES ASSUME TypeOK, LoopInv, [Next]_vars, messages' # messages,
                      NEW r \in Results,
                      messages' = Append(messages, ToolMessage(r)), r.error = "unknown"
               PROVE  Current.name \notin offered
    OBVIOUS
  <2>1. messages'[Len(messages) + 1] = ToolMessage(r)
    BY DEF TypeOK
  <2>2. CASE OnToolResult
    <3>1. PICK e \in Errors :
              /\ ExecuteTool(e)
              /\ messages' = Append(messages, ToolMessage(Result(Current, e)))
      BY <2>2 DEF OnToolResult
    <3>2. messages'[Len(messages) + 1] = ToolMessage(Result(Current, e))
      BY <3>1 DEF TypeOK
    <3>3. r = Result(Current, e)
      BY <2>1, <3>2 DEF ToolMessage
    <3>4. e = "unknown"
      BY <3>3 DEF Result
    <3>5. Current.name \notin registry
      BY <3>1, <3>4 DEF ExecuteTool
    <3>6. offered \subseteq registry
      BY <2>2 DEF OnToolResult, LoopInv
    <3>7. QED
      BY <3>5, <3>6
  <2>3. ASSUME NEW t, messages' = Append(messages, AssistantText(t)) PROVE FALSE
    <3>1. messages'[Len(messages) + 1] = AssistantText(t)
      BY <2>3 DEF TypeOK
    <3>2. QED
      BY <2>1, <3>1 DEF AssistantText, ToolMessage
  <2>4. ASSUME NEW cs, messages' = Append(messages, AssistantCalls(cs)) PROVE FALSE
    <3>1. messages'[Len(messages) + 1] = AssistantCalls(cs)
      BY <2>4 DEF TypeOK
    <3>2. QED
      BY <2>1, <3>1 DEF AssistantCalls, ToolMessage
  <2>5. QED
    BY <2>2, <2>3, <2>4 DEF Next, StreamChat, OnChunk, ProviderError, FinalAnswer,
       ToolCalls, OnToolCall, Stopped, Done, Return, vars
<1>2. QED
  BY <1>1, TypeInit, TypeStep, PTL DEF Spec, OfferedStaysCallable

-----------------------------------------------------------------------------
\* One more position behind all the others has the next number, and the others
\* keep theirs.
LEMMA RankOfLast ==
    ASSUME NEW S, IsFiniteSet(S), S \subseteq Nat, NEW n \in Nat, \A i \in S : i < n
    PROVE  /\ IsFiniteSet(S \cup {n}) /\ Cardinality(S \cup {n}) = Cardinality(S) + 1
           /\ RankIn(S \cup {n}, n) = Cardinality(S) + 1
           /\ \A i \in S : RankIn(S \cup {n}, i) = RankIn(S, i)
<1>1. n \notin S
  OBVIOUS
<1>2. IsFiniteSet(S \cup {n}) /\ Cardinality(S \cup {n}) = Cardinality(S) + 1
  BY <1>1, FS_AddElement
<1>3. {j \in S \cup {n} : j <= n} = S \cup {n}
  <2>1. \A j \in S \cup {n} : j <= n
    OBVIOUS
  <2>2. QED
    BY <2>1
<1>4. ASSUME NEW i \in S PROVE {j \in S \cup {n} : j <= i} = {j \in S : j <= i}
  <2>1. ~(n <= i)
    OBVIOUS
  <2>2. QED
    BY <2>1
<1>5. QED
  BY <1>2, <1>3, <1>4 DEF RankIn

LEMMA RankBounds ==
    ASSUME NEW S, IsFiniteSet(S), S \subseteq Nat, NEW i \in S
    PROVE  Cardinality(S) \in Nat /\ RankIn(S, i) \in 1 .. Cardinality(S)
<1> DEFINE upTo == {j \in S : j <= i}
<1>1. /\ IsFiniteSet(upTo) /\ Cardinality(upTo) \in Nat
      /\ Cardinality(S) \in Nat /\ Cardinality(upTo) <= Cardinality(S)
  BY FS_Subset, FS_CardinalityType
<1>2. i \in upTo
  OBVIOUS
<1>3. Cardinality(upTo) # 0
  BY <1>1, <1>2, FS_EmptySet
<1>4. QED
  BY <1>1, <1>3 DEF RankIn

\* Events and messages are as many as they are.
LEMMA Positions ==
    ASSUME TypeOK
    PROVE  /\ IsFiniteSet(Told) /\ Told \subseteq 1 .. Len(events)
           /\ IsFiniteSet(Recorded) /\ Recorded \subseteq 1 .. Len(messages)
           /\ Len(events) \in Nat /\ Len(messages) \in Nat /\ Len(history) \in Nat
<1>1. Len(events) \in Nat /\ Len(messages) \in Nat /\ Len(history) \in Nat
  BY HistoryAssumption DEF TypeOK
<1>2. Told \subseteq 1 .. Len(events) /\ Recorded \subseteq 1 .. Len(messages)
  BY <1>1 DEF Told, Recorded, TypeOK
<1>3. IsFiniteSet(1 .. Len(events)) /\ IsFiniteSet(1 .. Len(messages))
  BY <1>1, FS_Interval
<1>4. QED
  BY <1>1, <1>2, <1>3, FS_Subset

\* Events and tool messages, paired by their numbers, and the last event told.
Pairs(T, R, ev, ms) ==
    \A i \in T, j \in R :
        /\ RankIn(T, i) = 2 * RankIn(R, j) - 1 =>
               ev[i] = [kind |-> "tool_call", id |-> ms[j].results[1].id]
        /\ RankIn(T, i) = 2 * RankIn(R, j) =>
               ev[i] = [kind |-> "tool_result", id |-> ms[j].results[1].id]

LastIsCall(T, ev, id) ==
    \A i \in T : RankIn(T, i) = Cardinality(T) => ev[i] = [kind |-> "tool_call", id |-> id]

\* All calls have their results, and one more is told.
LEMMA CallIsTold ==
    ASSUME NEW T, IsFiniteSet(T), T \subseteq Nat, NEW R, IsFiniteSet(R), R \subseteq Nat,
           NEW n \in Nat, \A i \in T : i < n,
           NEW ev, NEW ev2, \A i \in T : ev2[i] = ev[i], NEW ms,
           NEW id, ev2[n] = [kind |-> "tool_call", id |-> id],
           Cardinality(T) = 2 * Cardinality(R), Pairs(T, R, ev, ms)
    PROVE  /\ Cardinality(T \cup {n}) = 2 * Cardinality(R) + 1
           /\ Pairs(T \cup {n}, R, ev2, ms)
           /\ LastIsCall(T \cup {n}, ev2, id)
<1>1. /\ Cardinality(T \cup {n}) = Cardinality(T) + 1
      /\ RankIn(T \cup {n}, n) = Cardinality(T) + 1
      /\ \A i \in T : RankIn(T \cup {n}, i) = RankIn(T, i)
  BY RankOfLast
<1>2. /\ Cardinality(T) \in Nat /\ Cardinality(R) \in Nat
      /\ \A i \in T : RankIn(T, i) \in 1 .. Cardinality(T)
      /\ \A j \in R : RankIn(R, j) \in 1 .. Cardinality(R)
  BY RankBounds, FS_CardinalityType
<1>3. ASSUME NEW i \in T, NEW j \in R
      PROVE  /\ RankIn(T \cup {n}, i) = 2 * RankIn(R, j) - 1 =>
                    ev2[i] = [kind |-> "tool_call", id |-> ms[j].results[1].id]
             /\ RankIn(T \cup {n}, i) = 2 * RankIn(R, j) =>
                    ev2[i] = [kind |-> "tool_result", id |-> ms[j].results[1].id]
  <2>1. RankIn(T \cup {n}, i) = RankIn(T, i) /\ ev2[i] = ev[i]
    BY <1>1
  <2>2. QED
    BY <2>1 DEF Pairs
<1>4. ASSUME NEW j \in R
      PROVE  /\ RankIn(T \cup {n}, n) # 2 * RankIn(R, j) - 1
             /\ RankIn(T \cup {n}, n) # 2 * RankIn(R, j)
  <2>1. RankIn(R, j) \in Nat /\ RankIn(R, j) <= Cardinality(R)
    BY <1>2
  <2>2. RankIn(T \cup {n}, n) = 2 * Cardinality(R) + 1
    BY <1>1
  <2>3. QED
    BY <1>2, <2>1, <2>2
<1>5. Pairs(T \cup {n}, R, ev2, ms)
  BY <1>3, <1>4 DEF Pairs
<1>6. ASSUME NEW i \in T PROVE RankIn(T \cup {n}, i) # Cardinality(T \cup {n})
  <2>1. RankIn(T, i) \in Nat /\ RankIn(T, i) <= Cardinality(T)
    BY <1>2
  <2>2. RankIn(T \cup {n}, i) <= Cardinality(T)
    BY <1>1, <2>1
  <2>3. QED
    BY <1>1, <1>2, <2>1, <2>2
<1>7. LastIsCall(T \cup {n}, ev2, id)
  BY <1>6 DEF LastIsCall
<1>8. QED
  BY <1>1, <1>2, <1>5, <1>7

\* The one call without a result gets it, and the history its tool message.
LEMMA ResultIsTold ==
    ASSUME NEW T, IsFiniteSet(T), T \subseteq Nat, NEW R, IsFiniteSet(R), R \subseteq Nat,
           NEW n \in Nat, \A i \in T : i < n, NEW k \in Nat, \A j \in R : j < k,
           NEW ev, NEW ev2, \A i \in T : ev2[i] = ev[i],
           NEW ms, NEW ms2, \A j \in R : ms2[j] = ms[j],
           NEW id, ev2[n] = [kind |-> "tool_result", id |-> id], ms2[k].results[1].id = id,
           Cardinality(T) = 2 * Cardinality(R) + 1, Pairs(T, R, ev, ms), LastIsCall(T, ev, id)
    PROVE  /\ Cardinality(T \cup {n}) = 2 * Cardinality(R \cup {k})
           /\ Pairs(T \cup {n}, R \cup {k}, ev2, ms2)
<1>1. /\ Cardinality(T \cup {n}) = Cardinality(T) + 1
      /\ RankIn(T \cup {n}, n) = Cardinality(T) + 1
      /\ \A i \in T : RankIn(T \cup {n}, i) = RankIn(T, i)
      /\ Cardinality(R \cup {k}) = Cardinality(R) + 1
      /\ RankIn(R \cup {k}, k) = Cardinality(R) + 1
      /\ \A j \in R : RankIn(R \cup {k}, j) = RankIn(R, j)
  BY RankOfLast
<1>2. /\ Cardinality(T) \in Nat /\ Cardinality(R) \in Nat
      /\ \A i \in T : RankIn(T, i) \in 1 .. Cardinality(T)
      /\ \A j \in R : RankIn(R, j) \in 1 .. Cardinality(R)
  BY RankBounds, FS_CardinalityType
<1>3. ASSUME NEW i \in T, NEW j \in R
      PROVE  /\ RankIn(T \cup {n}, i) = 2 * RankIn(R \cup {k}, j) - 1 =>
                    ev2[i] = [kind |-> "tool_call", id |-> ms2[j].results[1].id]
             /\ RankIn(T \cup {n}, i) = 2 * RankIn(R \cup {k}, j) =>
                    ev2[i] = [kind |-> "tool_result", id |-> ms2[j].results[1].id]
  <2>1. RankIn(T \cup {n}, i) = RankIn(T, i) /\ RankIn(R \cup {k}, j) = RankIn(R, j)
    BY <1>1
  <2>2. ev2[i] = ev[i] /\ ms2[j] = ms[j]
    OBVIOUS
  <2>3. /\ RankIn(T, i) = 2 * RankIn(R, j) - 1 =>
               ev[i] = [kind |-> "tool_call", id |-> ms[j].results[1].id]
        /\ RankIn(T, i) = 2 * RankIn(R, j) =>
               ev[i] = [kind |-> "tool_result", id |-> ms[j].results[1].id]
    BY DEF Pairs
  <2>4. QED
    BY <2>1, <2>2, <2>3
<1>4. ASSUME NEW j \in R
      PROVE  /\ RankIn(T \cup {n}, n) # 2 * RankIn(R \cup {k}, j) - 1
             /\ RankIn(T \cup {n}, n) # 2 * RankIn(R \cup {k}, j)
  <2>1. RankIn(R, j) \in Nat /\ RankIn(R, j) <= Cardinality(R)
    BY <1>2
  <2>2. RankIn(R \cup {k}, j) = RankIn(R, j)
    BY <1>1
  <2>3. RankIn(T \cup {n}, n) = 2 * Cardinality(R) + 2
    BY <1>1, <1>2
  <2>4. QED
    BY <1>2, <2>1, <2>2, <2>3
<1>5. ASSUME NEW i \in T
      PROVE  /\ RankIn(T \cup {n}, i) = 2 * RankIn(R \cup {k}, k) - 1 =>
                    ev2[i] = [kind |-> "tool_call", id |-> ms2[k].results[1].id]
             /\ RankIn(T \cup {n}, i) # 2 * RankIn(R \cup {k}, k)
  <2>1. /\ RankIn(T, i) \in Nat /\ RankIn(T, i) <= 2 * Cardinality(R) + 1
        /\ RankIn(T \cup {n}, i) = RankIn(T, i)
    <3>1. RankIn(T, i) \in Nat /\ RankIn(T, i) <= Cardinality(T)
      BY <1>2
    <3>2. QED
      BY <1>1, <3>1
  <2>2. 2 * RankIn(R \cup {k}, k) = 2 * Cardinality(R) + 2
    BY <1>1, <1>2
  <2>3. RankIn(T \cup {n}, i) # 2 * RankIn(R \cup {k}, k)
    BY <1>2, <2>1, <2>2
  <2>4. ASSUME RankIn(T \cup {n}, i) = 2 * RankIn(R \cup {k}, k) - 1
        PROVE  ev2[i] = [kind |-> "tool_call", id |-> ms2[k].results[1].id]
    <3>1. RankIn(T, i) = Cardinality(T)
      BY <1>2, <2>1, <2>2, <2>4
    <3>2. ev[i] = [kind |-> "tool_call", id |-> id]
      BY <3>1 DEF LastIsCall
    <3>3. QED
      BY <3>2
  <2>5. QED
    BY <2>3, <2>4
<1>6. /\ RankIn(T \cup {n}, n) # 2 * RankIn(R \cup {k}, k) - 1
      /\ ev2[n] = [kind |-> "tool_result", id |-> ms2[k].results[1].id]
  BY <1>1, <1>2
<1>7. Pairs(T \cup {n}, R \cup {k}, ev2, ms2)
  BY <1>3, <1>4, <1>5, <1>6 DEF Pairs
<1>8. QED
  BY <1>1, <1>2, <1>7

LEMMA ToldGrows ==
    ASSUME TypeOK, NEW e \in Event, e.kind # "chunk", events' = Append(events, e)
    PROVE  /\ Told' = Told \cup {Len(events) + 1} /\ events'[Len(events) + 1] = e
           /\ \A i \in Told : events'[i] = events[i]
<1>1. events \in Seq(Event)
  BY DEF TypeOK
<1>2. /\ DOMAIN events' = DOMAIN events \cup {Len(events) + 1}
      /\ events'[Len(events) + 1] = e
      /\ \A i \in DOMAIN events : events'[i] = events[i]
  BY <1>1
<1>3. QED
  BY <1>1, <1>2 DEF Told

LEMMA RecordedGrows ==
    ASSUME TypeOK, TurnClosesOnce, NEW m \in Message(Calls, Results), m.role = "tool",
           messages' = Append(messages, m), UNCHANGED history
    PROVE  /\ Recorded' = Recorded \cup {Len(messages) + 1}
           /\ messages'[Len(messages) + 1] = m
           /\ \A j \in Recorded : messages'[j] = messages[j]
<1>1. /\ Recorded \subseteq 1 .. Len(messages)
      /\ Len(messages) \in Nat /\ Len(history) \in Nat /\ Len(messages) > Len(history)
  BY Positions DEF TurnClosesOnce, IsTurnFrom
<1>2. messages \in Seq(Message(Calls, Results))
  BY DEF TypeOK
<1>3. /\ Len(messages') = Len(messages) + 1 /\ messages'[Len(messages) + 1] = m
      /\ \A j \in 1 .. Len(messages) : messages'[j] = messages[j]
  BY <1>2
<1>4. QED
  BY <1>1, <1>3 DEF Recorded

\* A message that is no result is not counted, nor is a chunk.
LEMMA RecordedStays ==
    ASSUME TypeOK, NEW m \in Message(Calls, Results), m.role # "tool",
           messages' = Append(messages, m), UNCHANGED history
    PROVE  Recorded' = Recorded /\ \A j \in Recorded : messages'[j] = messages[j]
<1>1. messages \in Seq(Message(Calls, Results)) /\ Len(history) \in Nat
  BY Positions DEF TypeOK
<1>2. /\ Len(messages') = Len(messages) + 1 /\ messages'[Len(messages) + 1] = m
      /\ \A j \in 1 .. Len(messages) : messages'[j] = messages[j]
  BY <1>1
<1>3. QED
  BY <1>1, <1>2 DEF Recorded

LEMMA ToldStays ==
    ASSUME TypeOK, events' = Append(events, [kind |-> "chunk"])
    PROVE  Told' = Told /\ \A i \in Told : events'[i] = events[i]
<1>1. events \in Seq(Event)
  BY DEF TypeOK
<1>2. /\ DOMAIN events' = DOMAIN events \cup {Len(events) + 1}
      /\ events'[Len(events) + 1] = [kind |-> "chunk"]
      /\ \A i \in DOMAIN events : events'[i] = events[i]
  BY <1>1
<1>3. QED
  BY <1>1, <1>2 DEF Told

\* The invariant in these terms.
LEMMA MatchParts ==
    EventsMatchHistory <=>
        /\ Cardinality(Told) = 2 * Cardinality(Recorded) + (IF pc = "executing" THEN 1 ELSE 0)
        /\ Pairs(Told, Recorded, events, messages)
        /\ pc = "executing" => LastIsCall(Told, events, Current.id)
  BY DEF EventsMatchHistory, Pairs, LastIsCall

LEMMA MatchPartsNext ==
    EventsMatchHistory' <=>
        /\ Cardinality(Told') =
               2 * Cardinality(Recorded') + (IF pc' = "executing" THEN 1 ELSE 0)
        /\ Pairs(Told', Recorded', events', messages')
        /\ pc' = "executing" => LastIsCall(Told', events', Current'.id)
  BY DEF EventsMatchHistory, Pairs, LastIsCall, RankIn

\* Nothing that is told or recorded changes, and no tool begins or ends.
LEMMA MatchStays ==
    ASSUME TypeOK, EventsMatchHistory, Told' = Told, Recorded' = Recorded,
           \A i \in Told : events'[i] = events[i],
           \A j \in Recorded : messages'[j] = messages[j],
           pc = "executing" <=> pc' = "executing", pc = "executing" => Current' = Current
    PROVE  EventsMatchHistory'
<1>1. Pairs(Told, Recorded, events, messages) => Pairs(Told, Recorded, events', messages')
  BY DEF Pairs
<1>2. \A id : LastIsCall(Told, events, id) => LastIsCall(Told, events', id)
  BY DEF LastIsCall
<1>3. QED
  BY <1>1, <1>2, MatchParts, MatchPartsNext

LEMMA MatchInit == Init => EventsMatchHistory
<1> SUFFICES ASSUME Init PROVE EventsMatchHistory
  OBVIOUS
<1>1. Told = {}
  BY DEF Init, Told
<1>2. Recorded = {}
  <2>1. history \in Seq(Message(Calls, Results))
    BY HistoryAssumption DEF Init
  <2>2. Len(messages) = Len(history) + 1 /\ messages[Len(history) + 1] = UserMessage
    BY <2>1 DEF Init
  <2>3. QED
    BY <2>1, <2>2 DEF Recorded, UserMessage
<1>3. Cardinality({}) = 0
  BY FS_EmptySet
<1>4. QED
  BY <1>1, <1>2, <1>3 DEF EventsMatchHistory, Init

LEMMA MatchStep ==
    TypeOK /\ LoopInv /\ TurnClosesOnce /\ EventsMatchHistory /\ [Next]_vars =>
        EventsMatchHistory'
<1> SUFFICES ASSUME TypeOK, LoopInv, TurnClosesOnce, EventsMatchHistory, [Next]_vars
             PROVE  EventsMatchHistory'
  OBVIOUS
<1>0. /\ UNCHANGED events => Told' = Told
      /\ UNCHANGED <<history, messages>> => Recorded' = Recorded
  BY DEF Told, Recorded
<1>1. CASE StreamChat
  BY <1>0, <1>1, MatchStays DEF StreamChat
<1>2. CASE OnChunk
  BY <1>0, <1>2, ToldStays, MatchStays DEF OnChunk
<1>3. ASSUME NEW t \in Texts, Return(t), pc # "executing"
      PROVE  EventsMatchHistory'
  <2>1. AssistantText(t) \in Message(Calls, Results) /\ AssistantText(t).role # "tool"
    BY MessageShapes DEF AssistantText
  <2>2. Recorded' = Recorded /\ \A j \in Recorded : messages'[j] = messages[j]
    BY <1>3, <2>1, RecordedStays DEF Return
  <2>3. QED
    BY <1>0, <1>3, <2>2, MatchStays DEF Return
<1>4. CASE ProviderError
  BY <1>3, <1>4 DEF ProviderError, Texts
<1>5. CASE FinalAnswer
  BY <1>3, <1>5 DEF FinalAnswer, Texts
<1>6. CASE ToolCalls
  <2>1. PICK reply \in Replies : messages' = Append(messages, AssistantCalls(reply))
    BY <1>6 DEF ToolCalls
  <2>2. /\ AssistantCalls(reply) \in Message(Calls, Results)
        /\ AssistantCalls(reply).role # "tool"
    BY ReplyIsSequence, MessageShapes DEF AssistantCalls
  <2>3. Recorded' = Recorded /\ \A j \in Recorded : messages'[j] = messages[j]
    BY <1>6, <2>1, <2>2, RecordedStays DEF ToolCalls
  <2>4. QED
    BY <1>0, <1>6, <2>3, MatchStays DEF ToolCalls
<1>7. CASE OnToolCall
  <2> DEFINE e == [kind |-> "tool_call", id |-> Current.id]
             n == Len(events) + 1
  <2>1. e \in Event /\ e.kind # "chunk"
    BY <1>7 DEF OnToolCall, LoopInv, TypeOK, Current, Event
  <2>2. /\ Told' = Told \cup {n} /\ events'[n] = e
        /\ \A i \in Told : events'[i] = events[i]
    BY <1>7, <2>1, ToldGrows DEF OnToolCall
  <2>3. /\ Recorded' = Recorded /\ UNCHANGED messages /\ Current' = Current
        /\ pc = "calls" /\ pc' = "executing"
    BY <1>0, <1>7 DEF OnToolCall, Current
  <2>4. /\ IsFiniteSet(Told) /\ Told \subseteq Nat /\ n \in Nat /\ \A i \in Told : i < n
        /\ IsFiniteSet(Recorded) /\ Recorded \subseteq Nat /\ Cardinality(Recorded) \in Nat
    BY Positions, FS_CardinalityType
  <2>5. /\ Cardinality(Told) = 2 * Cardinality(Recorded)
        /\ Pairs(Told, Recorded, events, messages)
    BY <2>3, <2>4, MatchParts
  <2>6. /\ Cardinality(Told') = 2 * Cardinality(Recorded') + 1
        /\ Pairs(Told', Recorded', events', messages')
        /\ LastIsCall(Told', events', Current'.id)
    <3>1. events'[n] = [kind |-> "tool_call", id |-> Current.id]
      BY <2>2
    <3> HIDE DEF e
    <3>2. /\ Cardinality(Told \cup {n}) = 2 * Cardinality(Recorded) + 1
          /\ Pairs(Told \cup {n}, Recorded, events', messages)
          /\ LastIsCall(Told \cup {n}, events', Current.id)
      BY <2>2, <2>4, <2>5, <3>1, CallIsTold
    <3>3. QED
      BY <2>2, <2>3, <3>2
  <2>7. QED
    BY <2>3, <2>6, MatchPartsNext
<1>8. CASE OnToolResult
  <2>1. PICK e \in Errors :
            /\ events' = Append(events, [kind |-> "tool_result", id |-> Current.id])
            /\ messages' = Append(messages, ToolMessage(Result(Current, e)))
    BY <1>8 DEF OnToolResult
  <2> DEFINE told == [kind |-> "tool_result", id |-> Current.id]
             m == ToolMessage(Result(Current, e))
             n == Len(events) + 1
             k == Len(messages) + 1
  <2>2. Current \in Calls
    BY <1>8 DEF OnToolResult, TypeOK, LoopInv, Current
  <2>3. /\ told \in Event /\ told.kind # "chunk"
        /\ m \in Message(Calls, Results) /\ m.role = "tool" /\ m.results[1].id = Current.id
    <3>1. Result(Current, e) \in Results
      BY <2>2 DEF Results
    <3>2. QED
      BY <2>2, <3>1, MessageShapes DEF Event, ToolMessage, Result
  <2>4. /\ Told' = Told \cup {n} /\ events'[n] = told
        /\ \A i \in Told : events'[i] = events[i]
    BY <2>1, <2>3, ToldGrows
  <2>5. /\ Recorded' = Recorded \cup {k} /\ messages'[k] = m
        /\ \A j \in Recorded : messages'[j] = messages[j]
    BY <1>8, <2>1, <2>3, RecordedGrows DEF OnToolResult
  <2>6. /\ IsFiniteSet(Told) /\ Told \subseteq Nat /\ n \in Nat /\ \A i \in Told : i < n
        /\ IsFiniteSet(Recorded) /\ Recorded \subseteq Nat
        /\ k \in Nat /\ \A j \in Recorded : j < k
    BY Positions
  <2>7. pc = "executing" /\ pc' # "executing"
    BY <1>8 DEF OnToolResult, Advance
  <2>8. /\ Cardinality(Told) = 2 * Cardinality(Recorded) + 1
        /\ Pairs(Told, Recorded, events, messages)
        /\ LastIsCall(Told, events, Current.id)
    BY <2>7, MatchParts
  <2> HIDE DEF m, told
  <2>9. /\ Cardinality(Told') = 2 * Cardinality(Recorded')
        /\ Pairs(Told', Recorded', events', messages')
    <3>1. /\ events'[n] = [kind |-> "tool_result", id |-> Current.id]
          /\ messages'[k].results[1].id = Current.id
      BY <2>3, <2>4, <2>5 DEF told
    <3>2. /\ Cardinality(Told \cup {n}) = 2 * Cardinality(Recorded \cup {k})
          /\ Pairs(Told \cup {n}, Recorded \cup {k}, events', messages')
      BY <2>4, <2>5, <2>6, <2>8, <3>1, ResultIsTold
    <3>3. QED
      BY <2>4, <2>5, <3>2
  <2>10. Cardinality(Recorded') \in Nat
    BY <2>5, <2>6, RankOfLast, FS_CardinalityType
  <2>11. QED
    BY <2>7, <2>9, <2>10, MatchPartsNext
<1>9. CASE Stopped
  BY <1>3, <1>9 DEF Stopped, Texts
<1>10. CASE UNCHANGED vars
  BY <1>0, <1>10, MatchStays DEF vars, Current
<1>11. QED
  BY <1>1, <1>2, <1>4, <1>5, <1>6, <1>7, <1>8, <1>9, <1>10 DEF Next, Done

\* What the browser was told of tools while a turn ran is what a reload of the
\* conversation shows, call by call and in that order (agent.go:95-106).
THEOREM EventsAlwaysMatch == Spec => []EventsMatchHistory
  BY TypeInit, TypeStep, TurnInit, TurnStep, MatchInit, MatchStep, PTL DEF Spec

-----------------------------------------------------------------------------
(* A set of numbers that has one has a least one. *)
LEMMA Least ==
    ASSUME NEW S, S \subseteq Nat, S # {}
    PROVE  \E n \in S : \A m \in S : n <= m
<1>1. \E n \in S : \A m \in S : <<m, n>> \notin OpToRel(<, Nat)
  BY NatLessThanWellFounded, WFMin
<1>2. PICK n \in S : \A m \in S : <<m, n>> \notin OpToRel(<, Nat)
  BY <1>1
<1>3. \A m \in S : ~(m < n)
  BY <1>2 DEF OpToRel
<1>4. QED
  BY <1>3

(* What FlattenSeq makes of some sequences, one after another. *)
LEMMA Flattened ==
    ASSUME NEW S, NEW s \in Seq(Seq(S)), s # <<>>
    PROVE  \E flat \in [1 .. Len(s) -> Seq(S)] :
              /\ FlattenSeq(s) = flat[Len(s)] /\ flat[1] = s[1]
              /\ \A i \in 2 .. Len(s) : flat[i] = flat[i - 1] \o s[i]
<1> DEFINE Upto(n, f) == /\ f \in [1 .. n -> Seq(S)]
                         /\ \A i \in 1 .. n : f[i] = IF i = 1 THEN s[i] ELSE f[i - 1] \o s[i]
           Can(n) == \E f : Upto(n, f)
           Bad == {n \in 0 .. Len(s) : ~Can(n)}
<1>1. Can(0)
  <2>1. Upto(0, [i \in 1 .. 0 |-> <<>>])
    OBVIOUS
  <2>2. QED
    BY <2>1
<1>2. ASSUME NEW n \in 1 .. Len(s), Can(n - 1) PROVE Can(n)
  <2>1. PICK f : Upto(n - 1, f)
    BY <1>2
  <2> DEFINE g == [i \in 1 .. n |-> IF i < n THEN f[i] ELSE IF n = 1 THEN s[n] ELSE f[n - 1] \o s[n]]
  <2>2. s[n] \in Seq(S) /\ \A i \in 1 .. n - 1 : f[i] \in Seq(S)
    BY <2>1
  <2>3. g \in [1 .. n -> Seq(S)]
    BY <2>2
  <2>4. \A i \in 1 .. n : g[i] = IF i = 1 THEN s[i] ELSE g[i - 1] \o s[i]
    <3>1. \A i \in 1 .. n - 1 : g[i] = f[i]
      <4>1. \A i \in 1 .. n - 1 : i \in 1 .. n /\ i < n
        OBVIOUS
      <4>2. QED
        BY <4>1
    <3>2. \A i \in 1 .. n - 1 : f[i] = IF i = 1 THEN s[i] ELSE f[i - 1] \o s[i]
      BY <2>1
    <3>3. \A i \in 1 .. n - 1 : i # 1 => i - 1 \in 1 .. n - 1
      OBVIOUS
    <3>4. n # 1 => n - 1 \in 1 .. n - 1
      OBVIOUS
    <3>5. g[n] = IF n = 1 THEN s[n] ELSE f[n - 1] \o s[n]
      BY <2>1
    <3> HIDE DEF g
    <3>6. QED
      BY <3>1, <3>2, <3>3, <3>4, <3>5
  <2>5. QED
    BY <2>3, <2>4
<1> HIDE DEF Can
<1>3. Can(Len(s))
  <2> SUFFICES ASSUME Bad # {} PROVE FALSE
    OBVIOUS
  <2>1. PICK n \in Bad : \A m \in Bad : n <= m
    <3>1. Bad \subseteq Nat
      OBVIOUS
    <3> HIDE DEF Bad
    <3>2. QED
      BY <3>1, Least
  <2>2. n \in 1 .. Len(s) /\ ~Can(n) /\ n - 1 \notin Bad
    BY <2>1, <1>1
  <2>3. Can(n - 1)
    BY <2>2
  <2>4. QED
    BY <2>2, <2>3, <1>2
<1>4. PICK f : Upto(Len(s), f)
  BY <1>3 DEF Can
<1> DEFINE Is(h) == h = [i \in 1 .. Len(s) |-> IF i = 1 THEN s[i] ELSE h[i - 1] \o s[i]]
           flat == CHOOSE h : Is(h)
<1>5. Is(f)
  BY <1>4
<1>6. Is(flat)
  BY <1>5
<1> HIDE DEF flat
<1>7. Upto(Len(s), flat)
  <2> DEFINE Wrong == {n \in 1 .. Len(s) : flat[n] \notin Seq(S)}
  <2>0. \A i \in 1 .. Len(s) : flat[i] = IF i = 1 THEN s[i] ELSE flat[i - 1] \o s[i]
    BY <1>6
  <2>1. \A i \in 1 .. Len(s) : s[i] \in Seq(S)
    OBVIOUS
  <2> HIDE DEF Is, flat
  <2>2. Wrong = {}
    <3> SUFFICES ASSUME Wrong # {} PROVE FALSE
      OBVIOUS
    <3>1. PICK n \in Wrong : \A m \in Wrong : n <= m
      <4>1. Wrong \subseteq Nat
        OBVIOUS
      <4> HIDE DEF Wrong
      <4>2. QED
        BY <4>1, Least
    <3>2. n # 1
      BY <2>0, <2>1, <3>1
    <3>3. n - 1 \in 1 .. Len(s) /\ flat[n - 1] \in Seq(S)
      BY <3>1, <3>2
    <3>4. flat[n] = flat[n - 1] \o s[n] /\ s[n] \in Seq(S)
      BY <2>0, <2>1, <3>1, <3>2
    <3>5. flat[n] \in Seq(S)
      BY <3>3, <3>4
    <3>6. QED
      BY <3>1, <3>5
  <2>3. flat \in [1 .. Len(s) -> Seq(S)]
    <3>1. flat = [i \in 1 .. Len(s) |-> flat[i]]
      BY <1>6 DEF Is
    <3>2. \A i \in 1 .. Len(s) : flat[i] \in Seq(S)
      BY <2>2
    <3>3. QED
      BY <3>1, <3>2
  <2>4. QED
    BY <2>0, <2>3
<1>8. FlattenSeq(s) = flat[Len(s)]
  BY DEF FlattenSeq, flat
<1>9. Len(s) \in 1 .. Len(s) /\ \A i \in 2 .. Len(s) : i \in 1 .. Len(s) /\ i # 1
  OBVIOUS
<1>10. flat[1] = s[1] /\ \A i \in 2 .. Len(s) : flat[i] = flat[i - 1] \o s[i]
  <2>1. 1 \in 1 .. Len(s)
    BY <1>9
  <2> HIDE DEF flat
  <2>2. QED
    BY <1>7, <1>9, <2>1
<1> HIDE DEF flat
<1>11. QED
  BY <1>7, <1>8, <1>10

\* A fact that holds at 0, and of a number up to n when it holds of the one before,
\* holds of all of them.
LEMMA UpTo ==
    ASSUME NEW n \in Nat, NEW G, 0 \in G, \A i \in 1 .. n : i - 1 \in G => i \in G
    PROVE  0 .. n \subseteq G
<1> SUFFICES ASSUME NEW m \in 0 .. n, m \notin G PROVE FALSE
  OBVIOUS
<1> DEFINE bad == (0 .. n) \ G
<1>1. bad \subseteq Nat /\ bad # {}
  OBVIOUS
<1>2. PICK i \in bad : \A j \in bad : i <= j
  BY <1>1, Least
<1>3. i \in 1 .. n /\ i - 1 \in 0 .. n /\ i - 1 \notin bad
  BY <1>2
<1>4. QED
  BY <1>2, <1>3

(* Two sequences, one behind the other. *)
LEMMA Joined ==
    ASSUME NEW S, NEW a \in Seq(S), NEW b \in Seq(S)
    PROVE  /\ a \o b \in Seq(S) /\ Len(a \o b) = Len(a) + Len(b)
           /\ Len(a) \in Nat /\ Len(b) \in Nat
           /\ \A i \in 1 .. Len(a) : (a \o b)[i] = a[i]
           /\ \A i \in 1 .. Len(b) : (a \o b)[Len(a) + i] = b[i]
  OBVIOUS

(* The one position that adding at most one item adds. *)
LEMMA OneMore ==
    ASSUME NEW a \in Nat, NEW l \in {0, 1}, NEW p \in 1 .. a + l, p \notin 1 .. a
    PROVE  l = 1 /\ p = a + l
  OBVIOUS

-----------------------------------------------------------------------------
\* The items of a history, one message after another: behind message i there are
\* at[i] of them, and the item of a message that has one is the at[i]th.
PlacedAt(s, items, at) ==
    /\ at \in [0 .. Len(s) -> Nat] /\ at[0] = 0 /\ at[Len(s)] = Len(items)
    /\ \A i \in 1 .. Len(s) : at[i] = at[i - 1] + Len(s[i])
    /\ \A i \in 1 .. Len(s) : Len(s[i]) = 1 =>
           at[i] \in DOMAIN items /\ items[at[i]] = s[i][1]
    /\ \A p \in DOMAIN items : \E i \in 1 .. Len(s) : Len(s[i]) = 1 /\ at[i] = p

(* In a history whose messages make one item or none, each item has its place. *)
LEMMA Placed ==
    ASSUME NEW S, NEW s \in Seq(Seq(S)), \A i \in DOMAIN s : Len(s[i]) \in {0, 1}
    PROVE  FlattenSeq(s) \in Seq(S) /\ \E at : PlacedAt(s, FlattenSeq(s), at)
<1>1. CASE s = <<>>
  <2> DEFINE none == [i \in 0 .. 0 |-> 0]
  <2>1. FlattenSeq(s) = <<>> /\ Len(s) = 0
    BY <1>1 DEF FlattenSeq
  <2>2. none \in [0 .. Len(s) -> Nat] /\ none[0] = 0
    BY <2>1
  <2>3. <<>> \in Seq(S) /\ Len(<<>>) = 0 /\ DOMAIN <<>> = {} /\ 1 .. 0 = {}
    OBVIOUS
  <2> HIDE DEF none
  <2>4. /\ none[0] = 0 /\ none[Len(s)] = Len(FlattenSeq(s)) /\ FlattenSeq(s) \in Seq(S)
        /\ DOMAIN FlattenSeq(s) = {} /\ 1 .. Len(s) = {}
    BY <2>1, <2>2, <2>3
  <2>5. PlacedAt(s, FlattenSeq(s), none)
    BY <2>2, <2>4 DEF PlacedAt
  <2>6. QED
    BY <2>4, <2>5
<1>2. CASE s # <<>>
  <2>1. PICK flat \in [1 .. Len(s) -> Seq(S)] :
              /\ FlattenSeq(s) = flat[Len(s)] /\ flat[1] = s[1]
              /\ \A i \in 2 .. Len(s) : flat[i] = flat[i - 1] \o s[i]
    BY <1>2, Flattened
  <2> DEFINE n == Len(s)
             at == [i \in 0 .. n |-> IF i = 0 THEN 0 ELSE Len(flat[i])]
             upTo == [i \in 0 .. n |-> IF i = 0 THEN <<>> ELSE flat[i]]
  <2>2. n \in Nat \ {0} /\ \A i \in 1 .. n : flat[i] \in Seq(S) /\ s[i] \in Seq(S) /\ Len(s[i]) \in {0, 1}
    BY <1>2
  <2>3. at[0] = 0 /\ upTo[0] = <<>> /\ at \in [0 .. n -> Nat] /\ upTo[n] = FlattenSeq(s)
    <3>1. 0 \in 0 .. n /\ n \in 0 .. n /\ n # 0
      BY <2>2
    <3>2. upTo[n] = flat[n]
      BY <3>1
    <3>3. \A i \in 0 .. n : i # 0 => Len(flat[i]) \in Nat
      BY <2>2
    <3>4. at \in [0 .. n -> Nat]
      BY <3>3
    <3>5. QED
      BY <2>1, <3>1, <3>2, <3>4
  <2>4. \A i \in 0 .. n : upTo[i] \in Seq(S) /\ at[i] = Len(upTo[i])
    BY <2>2
  <2>5. \A i \in 1 .. n : upTo[i] = upTo[i - 1] \o s[i]
    <3> SUFFICES ASSUME NEW i \in 1 .. n PROVE upTo[i] = upTo[i - 1] \o s[i]
      OBVIOUS
    <3>1. i = 1 \/ i \in 2 .. n
      OBVIOUS
    <3>2. CASE i = 1
      BY <2>1, <2>2, <3>2
    <3>3. CASE i \in 2 .. n
      <4>1. i \in 0 .. n /\ i - 1 \in 0 .. n /\ i # 0 /\ i - 1 # 0
        BY <2>2, <3>3
      <4>2. upTo[i] = flat[i] /\ upTo[i - 1] = flat[i - 1]
        BY <4>1
      <4> HIDE DEF upTo, at
      <4>3. QED
        BY <2>1, <3>3, <4>2
    <3>4. QED
      BY <3>1, <3>2, <3>3
  <2> HIDE DEF n, at, upTo
  <2>6. \A i \in 1 .. n : i - 1 \in 0 .. n /\ i \in 0 .. n /\ at[i] = at[i - 1] + Len(s[i])
    <3> SUFFICES ASSUME NEW i \in 1 .. n
                 PROVE  i - 1 \in 0 .. n /\ i \in 0 .. n /\ at[i] = at[i - 1] + Len(s[i])
      OBVIOUS
    <3>1. i - 1 \in 0 .. n /\ i \in 0 .. n
      BY <2>2
    <3>2. upTo[i - 1] \in Seq(S) /\ s[i] \in Seq(S) /\ upTo[i] = upTo[i - 1] \o s[i]
      BY <2>2, <2>4, <2>5, <3>1
    <3>3. Len(upTo[i]) = Len(upTo[i - 1]) + Len(s[i])
      BY <3>2, Joined
    <3>4. QED
      BY <2>4, <3>1, <3>3
  <2> DEFINE Stays(m) == \A i \in 1 .. m : Len(s[i]) = 1 =>
                             at[i] \in 1 .. at[m] /\ upTo[m][at[i]] = s[i][1]
             Comes(m) == \A p \in 1 .. at[m] : \E i \in 1 .. m : Len(s[i]) = 1 /\ at[i] = p
             G == {m \in 0 .. n : Stays(m) /\ Comes(m)}
  <2>7. 0 \in G
    BY <2>2, <2>3
  <2>8. ASSUME NEW m \in 1 .. n, Stays(m - 1), Comes(m - 1) PROVE Stays(m) /\ Comes(m)
    <3>1. /\ upTo[m - 1] \in Seq(S) /\ Len(upTo[m - 1]) = at[m - 1] /\ at[m - 1] \in Nat
          /\ s[m] \in Seq(S) /\ upTo[m] = upTo[m - 1] \o s[m] /\ at[m] = at[m - 1] + Len(s[m])
          /\ at[m] \in Nat /\ Len(s[m]) \in {0, 1}
      <4>1. m - 1 \in 0 .. n /\ m \in 0 .. n
        BY <2>6
      <4>2. at[m - 1] \in Nat /\ at[m] \in Nat
        BY <2>3, <4>1
      <4>3. QED
        BY <2>2, <2>4, <2>5, <2>6, <4>1, <4>2
    <3>9. /\ \A p \in 1 .. at[m - 1] : upTo[m][p] = upTo[m - 1][p]
          /\ \A p \in 1 .. Len(s[m]) : upTo[m][at[m - 1] + p] = s[m][p]
      <4>1. /\ \A p \in 1 .. Len(upTo[m - 1]) : (upTo[m - 1] \o s[m])[p] = upTo[m - 1][p]
            /\ \A p \in 1 .. Len(s[m]) : (upTo[m - 1] \o s[m])[Len(upTo[m - 1]) + p] = s[m][p]
        <5>1. upTo[m - 1] \in Seq(S) /\ s[m] \in Seq(S)
          BY <3>1
        <5>2. \A a, b \in Seq(S) : /\ \A p \in 1 .. Len(a) : (a \o b)[p] = a[p]
                                  /\ \A p \in 1 .. Len(b) : (a \o b)[Len(a) + p] = b[p]
          BY Joined
        <5>3. QED
          BY <5>1, <5>2
      <4>2. QED
        BY <3>1, <4>1
    <3>2. Stays(m)
      <4> SUFFICES ASSUME NEW i \in 1 .. m, Len(s[i]) = 1
                   PROVE  at[i] \in 1 .. at[m] /\ upTo[m][at[i]] = s[i][1]
        OBVIOUS
      <4>1. CASE i = m
        <5>1. at[i] = at[m - 1] + 1 /\ Len(s[m]) = 1
          BY <3>1, <4>1
        <5>2. upTo[m][at[m - 1] + 1] = s[m][1]
          BY <3>9, <5>1
        <5>3. QED
          <6>1. at[m] = at[m - 1] + 1 /\ at[m] \in Nat /\ at[m - 1] \in Nat
            BY <3>1, <5>1
          <6>2. at[m] \in 1 .. at[m]
            BY <6>1
          <6>3. QED
            BY <4>1, <5>2, <6>1, <6>2
      <4>2. CASE i # m
        <5>1. i \in 1 .. m - 1
          BY <4>2
        <5>2. at[i] \in 1 .. at[m - 1] /\ upTo[m - 1][at[i]] = s[i][1]
          BY <2>8, <5>1
        <5>3. upTo[m][at[i]] = s[i][1]
          BY <3>9, <5>2
        <5>4. at[i] \in 1 .. at[m]
          BY <3>1, <5>2
        <5>5. QED
          BY <5>3, <5>4
      <4>3. QED
        BY <4>1, <4>2
    <3>3. Comes(m)
      <4> SUFFICES ASSUME NEW p \in 1 .. at[m]
                   PROVE  \E i \in 1 .. m : Len(s[i]) = 1 /\ at[i] = p
        OBVIOUS
      <4>1. CASE p \in 1 .. at[m - 1]
        <5>1. PICK i \in 1 .. m - 1 : Len(s[i]) = 1 /\ at[i] = p
          BY <2>8, <4>1
        <5>2. i \in 1 .. m
          OBVIOUS
        <5>3. QED
          BY <5>1, <5>2
      <4>2. CASE p \notin 1 .. at[m - 1]
        <5>2. Len(s[m]) = 1 /\ at[m] = p
          <6>1. at[m - 1] \in Nat /\ at[m] = at[m - 1] + Len(s[m]) /\ Len(s[m]) \in {0, 1}
            BY <3>1
          <6> HIDE DEF Stays, Comes, G
          <6>2. p \in 1 .. at[m - 1] + Len(s[m])
            BY <6>1
          <6>3. QED
            BY <4>2, <6>1, <6>2, OneMore
        <5>3. QED
          BY <5>2
      <4>3. QED
        BY <4>1, <4>2
    <3>4. QED
      BY <3>2, <3>3
  <2>9. \A m \in 1 .. n : m - 1 \in G => m \in G
    <3>1. \A m \in 1 .. n : m - 1 \in G => Stays(m - 1) /\ Comes(m - 1)
      OBVIOUS
    <3>2. \A m \in 1 .. n : m - 1 \in G => Stays(m) /\ Comes(m)
      <4> HIDE DEF Stays, Comes, G
      <4>1. QED
        BY <2>8, <3>1
    <3>3. QED
      <4> SUFFICES ASSUME NEW m \in 1 .. n, m - 1 \in G PROVE m \in 0 .. n /\ Stays(m) /\ Comes(m)
        OBVIOUS
      <4>1. m \in 0 .. n
        BY <2>2
      <4> HIDE DEF Stays, Comes, G
      <4>2. QED
        BY <3>2, <4>1
  <2>10. n \in G
    <3> HIDE DEF G
    <3>1. 0 .. n \subseteq G
      BY <2>2, <2>7, <2>9, UpTo
    <3>2. QED
      BY <2>2, <3>1
  <2>11. Stays(n) /\ Comes(n)
    BY <2>10
  <2>12. at[n] = Len(FlattenSeq(s)) /\ FlattenSeq(s) \in Seq(S) /\ DOMAIN FlattenSeq(s) = 1 .. at[n]
    <3>1. n \in 0 .. n
      BY <2>2
    <3>2. QED
      BY <2>3, <2>4, <3>1
  <2>13. QED
    <3>1. \A i \in 1 .. n : Len(s[i]) = 1 =>
              at[i] \in DOMAIN FlattenSeq(s) /\ FlattenSeq(s)[at[i]] = s[i][1]
      BY <2>3, <2>11, <2>12
    <3>2. \A p \in DOMAIN FlattenSeq(s) : \E i \in 1 .. n : Len(s[i]) = 1 /\ at[i] = p
      BY <2>11, <2>12
    <3> HIDE DEF Stays, Comes, G
    <3>3. /\ at[0] = 0 /\ at[n] = Len(FlattenSeq(s)) /\ FlattenSeq(s) \in Seq(S)
          /\ \A i \in 1 .. n : at[i] = at[i - 1] + Len(s[i])
      BY <2>3, <2>6, <2>12
    <3>4. PlacedAt(s, FlattenSeq(s), at)
      BY <2>3, <3>1, <3>2, <3>3 DEF n, PlacedAt
    <3>5. QED
      BY <3>3, <3>4
<1>3. QED
  BY <1>1, <1>2

-----------------------------------------------------------------------------
\* The items of a request: who speaks, the calls it makes and the answers it has.
Ids   == {c.id : c \in Calls}
Parts == [id : Ids, content : {"data", "null"}]
Items == [role : Roles, uses : Seq(Ids), answers : Seq(Parts)]

\* What a message that answers a call is, and what becomes of it.
LEMMA AnswerSent ==
    ASSUME NEW m \in Message(Calls, Results), NEW c \in Calls, Answers(m, c)
    PROVE  /\ m.role = "tool" /\ m.calls = <<>> /\ Len(m.calls) = 0
           /\ \E part \in Parts : /\ part.id = c.id
                                  /\ SentResults(m) = <<part>>
                                  /\ OpenAIItems(m) = <<Item("tool", <<>>, <<part>>)>>
<1>1. PICK e \in Errors : m = ToolMessage(Result(c, e))
  BY DEF Answers
<1>2. /\ m.role = "tool" /\ m.calls = <<>> /\ m.results = <<Result(c, e)>>
  BY <1>1 DEF ToolMessage
<1> DEFINE part == Sent(Result(c, e))
<1>3. part \in Parts /\ part.id = c.id
  BY CallAssumption DEF Sent, Result, Parts, Ids
<1>4. DOMAIN m.results = {1} /\ m.results[1] = Result(c, e)
  BY <1>2
<1> HIDE DEF part
<1>5. SentResults(m) = <<part>>
  BY <1>4 DEF SentResults, part
<1>6. OpenAIItems(m) = <<Item("tool", <<>>, <<part>>)>>
  BY <1>2, <1>4 DEF OpenAIItems, part
<1>7. QED
  BY <1>2, <1>3, <1>5, <1>6

\* What becomes of a message of the user or of the model.
LEMMA SpeechSent ==
    ASSUME NEW m \in Message(Calls, Results)
    PROVE  /\ CallIDs(m) \in Seq(Ids) /\ Len(CallIDs(m)) = Len(m.calls) /\ Len(m.calls) \in Nat
           /\ \A k \in 1 .. Len(m.calls) : m.calls[k] \in Calls /\ CallIDs(m)[k] = m.calls[k].id
           /\ Item(m.role, CallIDs(m), <<>>) \in Items
           /\ m.role # "tool" /\ IsEmpty(m) => OpenAIItems(m) = <<>>
           /\ m.role # "tool" /\ ~IsEmpty(m) => OpenAIItems(m) = <<Item(m.role, CallIDs(m), <<>>)>>
           /\ m.calls # <<>> => ~IsEmpty(m)
           /\ m.calls = <<>> <=> Len(m.calls) = 0
<1>1. m.calls \in Seq(Calls) /\ m.role \in Roles
  BY DEF Message
<1>2. \A k \in 1 .. Len(m.calls) : m.calls[k] \in Calls /\ m.calls[k].id \in Ids
  BY <1>1 DEF Ids
<1>3. CallIDs(m) = [k \in 1 .. Len(m.calls) |-> m.calls[k].id] /\ Len(m.calls) \in Nat
  BY <1>1 DEF CallIDs
<1>4. CallIDs(m) \in Seq(Ids) /\ Len(CallIDs(m)) = Len(m.calls)
  BY <1>2, <1>3
<1>5. Item(m.role, CallIDs(m), <<>>) \in Items
  BY <1>1, <1>4 DEF Item, Items
<1>6. \A k \in 1 .. Len(m.calls) : CallIDs(m)[k] = m.calls[k].id
  BY <1>3
<1>7. m.calls = <<>> <=> Len(m.calls) = 0
  BY <1>1
<1>8. /\ m.role # "tool" /\ IsEmpty(m) => OpenAIItems(m) = <<>>
      /\ m.role # "tool" /\ ~IsEmpty(m) => OpenAIItems(m) = <<Item(m.role, CallIDs(m), <<>>)>>
  BY DEF OpenAIItems
<1>9. m.calls # <<>> => ~IsEmpty(m)
  BY DEF IsEmpty
<1>10. QED
  BY <1>2, <1>3, <1>4, <1>5, <1>6, <1>7, <1>8, <1>9

\* Every answer stands where it belongs, and every call has one.
LEMMA AnswersPlaced ==
    ASSUME NEW ms \in Seq(Message(Calls, Results)), Answered(ms)
    PROVE  /\ \A i \in 1 .. Len(ms) : \A k \in 1 .. Len(ms[i].calls) :
                  i + k \in 1 .. Len(ms) /\ Answers(ms[i + k], ms[i].calls[k])
           /\ \A j \in 1 .. Len(ms) : ms[j].role = "tool" =>
                  \E i \in 1 .. j - 1 : j - i \in 1 .. Len(ms[i].calls)
<1>1. \A i \in 1 .. Len(ms) : ms[i] \in Message(Calls, Results) /\ ms[i].calls \in Seq(Calls)
  <2>1. \A i \in 1 .. Len(ms) : ms[i] \in Message(Calls, Results)
    OBVIOUS
  <2>2. \A m \in Message(Calls, Results) : m.calls \in Seq(Calls)
    BY DEF Message
  <2>3. QED
    BY <2>1, <2>2
<1>2. DOMAIN ms = 1 .. Len(ms) /\ \A i \in 1 .. Len(ms) : DOMAIN ms[i].calls = 1 .. Len(ms[i].calls)
  BY <1>1
<1>3. \A i \in 1 .. Len(ms) : \A k \in 1 .. Len(ms[i].calls) :
          i + k \in 1 .. Len(ms) /\ Answers(ms[i + k], ms[i].calls[k])
  BY <1>2 DEF Answered, AnsweredTo
<1>4. \A j \in 1 .. Len(ms) : ms[j].role = "tool" =>
          \E i \in 1 .. j - 1 : j - i \in 1 .. Len(ms[i].calls)
  <2> SUFFICES ASSUME NEW j \in 1 .. Len(ms), ms[j].role = "tool"
               PROVE  \E i \in 1 .. j - 1 : j - i \in 1 .. Len(ms[i].calls)
    OBVIOUS
  <2>1. PICK i \in 1 .. j - 1 : j - i \in DOMAIN ms[i].calls
    BY <1>2 DEF Answered, NoStrayResult
  <2>2. i \in 1 .. Len(ms)
    OBVIOUS
  <2>3. QED
    BY <1>2, <2>1, <2>2
<1>5. QED
  BY <1>3, <1>4

(* Nothing is not of length one. *)
LEMMA EmptyHasNone == \A x : Len(x) = 1 => x # <<>>
<1>1. Len(<<>>) = 0
  OBVIOUS
<1>2. QED
  BY <1>1

\* OpenAI accepts what becomes of a history in which every call is answered.
LEMMA OpenAIAccepted ==
    ASSUME NEW ms \in Seq(Message(Calls, Results)), Answered(ms)
    PROVE  OpenAIAccepts(ToOpenAI(ms))
<1> DEFINE N == Len(ms)
           s == [i \in DOMAIN ms |-> OpenAIItems(ms[i])]
           items == ToOpenAI(ms)
<1>1. N \in Nat /\ DOMAIN ms = 1 .. N /\ \A i \in 1 .. N : ms[i] \in Message(Calls, Results)
  OBVIOUS
<1>2. /\ \A i \in 1 .. N : \A k \in 1 .. Len(ms[i].calls) :
             i + k \in 1 .. N /\ Answers(ms[i + k], ms[i].calls[k])
      /\ \A j \in 1 .. N : ms[j].role = "tool" =>
             \E i \in 1 .. j - 1 : j - i \in 1 .. Len(ms[i].calls)
  BY AnswersPlaced
<1>3. \A i \in 1 .. N : \A k \in 1 .. Len(ms[i].calls) :
          /\ i + k \in 1 .. N /\ ms[i].calls[k] \in Calls
          /\ ms[i + k].role = "tool" /\ Len(ms[i + k].calls) = 0
          /\ \E part \in Parts : /\ part.id = ms[i].calls[k].id
                                 /\ s[i + k] = <<Item("tool", <<>>, <<part>>)>>
  <2> SUFFICES ASSUME NEW i \in 1 .. N, NEW k \in 1 .. Len(ms[i].calls)
               PROVE  /\ i + k \in 1 .. N /\ ms[i].calls[k] \in Calls
                      /\ ms[i + k].role = "tool" /\ Len(ms[i + k].calls) = 0
                      /\ \E part \in Parts : /\ part.id = ms[i].calls[k].id
                                             /\ s[i + k] = <<Item("tool", <<>>, <<part>>)>>
    OBVIOUS
  <2>1. i + k \in 1 .. N /\ Answers(ms[i + k], ms[i].calls[k]) /\ ms[i].calls[k] \in Calls
    BY <1>1, <1>2, SpeechSent
  <2>2. s[i + k] = OpenAIItems(ms[i + k])
    BY <1>1, <2>1
  <2> HIDE DEF s, N
  <2>3. ms[i + k] \in Message(Calls, Results)
    BY <1>1, <2>1
  <2>4. QED
    BY <2>1, <2>2, <2>3, AnswerSent
<1>4. \A i \in 1 .. N : ms[i].role # "tool" =>
          /\ IsEmpty(ms[i]) => s[i] = <<>>
          /\ ~IsEmpty(ms[i]) => s[i] = <<Item(ms[i].role, CallIDs(ms[i]), <<>>)>>
  BY <1>1, SpeechSent
<1>5. \A i \in 1 .. N : s[i] \in Seq(Items) /\ Len(s[i]) \in {0, 1}
  <2> SUFFICES ASSUME NEW i \in 1 .. N PROVE s[i] \in Seq(Items) /\ Len(s[i]) \in {0, 1}
    OBVIOUS
  <2> HIDE DEF s, N
  <2>1. CASE ms[i].role # "tool"
    <3>1. Item(ms[i].role, CallIDs(ms[i]), <<>>) \in Items
      BY <1>1, SpeechSent
    <3>2. s[i] = <<>> \/ s[i] = <<Item(ms[i].role, CallIDs(ms[i]), <<>>)>>
      BY <1>4, <2>1
    <3> DEFINE it == Item(ms[i].role, CallIDs(ms[i]), <<>>)
    <3> HIDE DEF it
    <3>3. \A x \in Items : <<x>> \in Seq(Items) /\ Len(<<x>>) = 1
      OBVIOUS
    <3>4. <<>> \in Seq(Items) /\ Len(<<>>) = 0
      OBVIOUS
    <3>5. QED
      BY <3>1, <3>2, <3>3, <3>4
  <2>2. CASE ms[i].role = "tool"
    <3>1. PICK j \in 1 .. i - 1 : i - j \in 1 .. Len(ms[j].calls)
      BY <1>2, <2>2
    <3>2. j \in 1 .. N /\ j + (i - j) = i
      BY <1>1
    <3>3. PICK part \in Parts : s[i] = <<Item("tool", <<>>, <<part>>)>>
      BY <1>3, <3>1, <3>2
    <3>4. Item("tool", <<>>, <<part>>) \in Items
      BY DEF Item, Items, Roles
    <3>5. QED
      BY <3>3, <3>4
  <2>3. QED
    BY <2>1, <2>2
<1>6. s \in Seq(Seq(Items)) /\ Len(s) = N /\ DOMAIN s = 1 .. N /\ items = FlattenSeq(s)
  <2>1. \A i \in 1 .. N : OpenAIItems(ms[i]) \in Seq(Items)
    BY <1>1, <1>5
  <2>2. QED
    BY <1>1, <2>1 DEF ToOpenAI
<1> HIDE DEF s, N, items
<1>7. PICK at \in [0 .. N -> Nat] :
          /\ at[0] = 0 /\ at[N] = Len(items) /\ items \in Seq(Items)
          /\ \A i \in 1 .. N : at[i] = at[i - 1] + Len(s[i])
          /\ \A i \in 1 .. N : Len(s[i]) = 1 => at[i] \in DOMAIN items /\ items[at[i]] = s[i][1]
          /\ \A p \in DOMAIN items : \E i \in 1 .. N : Len(s[i]) = 1 /\ at[i] = p
  <2>1. \A i \in DOMAIN s : Len(s[i]) \in {0, 1}
    BY <1>5, <1>6
  <2>2. s \in Seq(Seq(Items))
    BY <1>6
  <2>3. items \in Seq(Items) /\ \E at : PlacedAt(s, items, at)
    BY <1>6, <2>1, <2>2, Placed
  <2>4. QED
    BY <1>6, <2>3 DEF PlacedAt
\* The answers of a message come right behind it.
<1>8. ASSUME NEW i \in 1 .. N, NEW k \in 1 .. Len(ms[i].calls)
      PROVE  at[i + k] = at[i] + k
  <2> DEFINE n == Len(ms[i].calls)
             G == {l \in 0 .. n : at[i + l] = at[i] + l}
  <2>1. n \in Nat /\ at[i] \in Nat
    BY <1>1, SpeechSent
  <2>2. 0 \in G
    BY <2>1
  <2>3. \A l \in 1 .. n : l - 1 \in G => l \in G
    <3> SUFFICES ASSUME NEW l \in 1 .. n, at[i + (l - 1)] = at[i] + (l - 1) PROVE at[i + l] = at[i] + l
      BY <2>1
    <3>1. i + l \in 1 .. N /\ \E part \in Parts : s[i + l] = <<Item("tool", <<>>, <<part>>)>>
      BY <1>3
    <3>2. Len(s[i + l]) = 1 /\ (i + l) - 1 = i + (l - 1)
      BY <2>1, <3>1
    <3>3. at[i + l] = at[i + (l - 1)] + 1
      BY <1>7, <3>1, <3>2
    <3>4. QED
      BY <2>1, <3>3
  <2> HIDE DEF n, G
  <2>4. 0 .. n \subseteq G
    BY <2>1, <2>2, <2>3, UpTo
  <2>5. k \in 0 .. n
    BY <2>1 DEF n
  <2>6. QED
    BY <2>4, <2>5 DEF G
<1>9. ASSUME NEW i \in 1 .. N, ms[i].role # "tool", Len(s[i]) = 1
      PROVE  items[at[i]].uses = CallIDs(ms[i])
  <2>1. s[i] = <<Item(ms[i].role, CallIDs(ms[i]), <<>>)>>
    <3>1. s[i] # <<>>
      BY <1>9, EmptyHasNone
    <3>2. QED
      BY <1>4, <1>9, <3>1
  <2>2. s[i][1].uses = CallIDs(ms[i])
    BY <2>1 DEF Item
  <2>3. QED
    BY <1>7, <1>9, <2>2
<1>10. ASSUME NEW p \in DOMAIN items, NEW k \in 1 .. Len(items[p].uses)
       PROVE  p + k \in DOMAIN items /\ AnswerIDs(items[p + k]) = <<items[p].uses[k]>>
  <2>1. PICK i \in 1 .. N : Len(s[i]) = 1 /\ at[i] = p
    BY <1>7
  <2>2. items[p] = s[i][1]
    BY <1>7, <2>1
  <2>3. ms[i].role # "tool"
    <3> SUFFICES ASSUME ms[i].role = "tool" PROVE FALSE
      OBVIOUS
    <3>1. PICK j \in 1 .. i - 1 : i - j \in 1 .. Len(ms[j].calls)
      BY <1>2
    <3>2. j \in 1 .. N /\ j + (i - j) = i
      BY <1>1
    <3>3. PICK part \in Parts : s[i] = <<Item("tool", <<>>, <<part>>)>>
      BY <1>3, <3>1, <3>2
    <3>4. items[p].uses = <<>>
      BY <2>2, <3>3 DEF Item
    <3>5. QED
      BY <3>4
  <2>4. items[p].uses = CallIDs(ms[i])
    BY <1>9, <2>1, <2>3
  <2>5. k \in 1 .. Len(ms[i].calls) /\ items[p].uses[k] = ms[i].calls[k].id
    BY <1>1, <2>4, SpeechSent
  <2>6. PICK part \in Parts : part.id = ms[i].calls[k].id /\ s[i + k] = <<Item("tool", <<>>, <<part>>)>>
    BY <1>3, <2>5
  <2>7. i + k \in 1 .. N /\ at[i + k] = p + k
    BY <1>3, <1>8, <2>1, <2>5
  <2>8. p + k \in DOMAIN items /\ items[p + k] = Item("tool", <<>>, <<part>>)
    <3>1. Len(s[i + k]) = 1 /\ s[i + k][1] = Item("tool", <<>>, <<part>>)
      BY <2>6
    <3>2. QED
      BY <1>7, <2>7, <3>1
  <2>9. AnswerIDs(items[p + k]) = <<part.id>>
    <3>1. items[p + k].answers = <<part>>
      BY <2>8 DEF Item
    <3>2. QED
      BY <3>1 DEF AnswerIDs
  <2>10. QED
    BY <2>5, <2>6, <2>8, <2>9
<1>11. ASSUME NEW p \in DOMAIN items, items[p].role = "tool"
       PROVE  \E q \in 1 .. p - 1 : p - q <= Len(items[q].uses)
  <2>1. PICK i \in 1 .. N : Len(s[i]) = 1 /\ at[i] = p
    BY <1>7
  <2>2. items[p] = s[i][1]
    BY <1>7, <2>1
  <2>3. ms[i].role = "tool"
    <3> SUFFICES ASSUME ms[i].role # "tool" PROVE FALSE
      OBVIOUS
    <3>1. s[i] # <<>>
      BY <2>1, EmptyHasNone
    <3>2. s[i][1] = Item(ms[i].role, CallIDs(ms[i]), <<>>)
      BY <1>4, <3>1
    <3>3. QED
      BY <1>11, <2>2, <3>2 DEF Item
  <2>4. PICK j \in 1 .. i - 1 : i - j \in 1 .. Len(ms[j].calls)
    BY <1>2, <2>3
  <2>5. j \in 1 .. N /\ i - j \in Nat \ {0} /\ j + (i - j) = i
    BY <1>1
  <2>6. at[i] = at[j] + (i - j) /\ at[j] \in Nat
    BY <1>8, <2>4, <2>5
  <2>7. ms[j].role # "tool"
    <3> SUFFICES ASSUME ms[j].role = "tool" PROVE FALSE
      OBVIOUS
    <3>1. PICK h \in 1 .. j - 1 : j - h \in 1 .. Len(ms[h].calls)
      BY <1>2, <2>5
    <3>2. h \in 1 .. N /\ h + (j - h) = j
      BY <1>1, <2>5
    <3>3. Len(ms[j].calls) = 0
      BY <1>3, <3>1, <3>2
    <3>4. QED
      BY <2>4, <3>3
  <2>8. Len(s[j]) = 1
    <3>1. ms[j] \in Message(Calls, Results) /\ ms[j].calls # <<>>
      BY <1>1, <2>4, <2>5
    <3>2. ~IsEmpty(ms[j])
      BY <3>1, SpeechSent
    <3>3. s[j] = <<Item(ms[j].role, CallIDs(ms[j]), <<>>)>>
      BY <1>4, <2>5, <2>7, <3>2
    <3>4. QED
      BY <3>3
  <2>9. items[at[j]].uses = CallIDs(ms[j]) /\ at[j] \in DOMAIN items
    BY <1>7, <1>9, <2>5, <2>7, <2>8
  <2>10. Len(items[at[j]].uses) = Len(ms[j].calls)
    BY <1>1, <2>5, <2>9, SpeechSent
  <2>11. at[j] \in 1 .. p - 1 /\ p - at[j] = i - j
    <3>1. at[j] >= 1
      BY <1>7, <2>9
    <3>2. QED
      BY <2>1, <2>5, <2>6, <3>1
  <2>12. p - at[j] <= Len(items[at[j]].uses)
    BY <2>4, <2>10, <2>11
  <2>13. QED
    BY <2>11, <2>12
<1>12. QED
  BY <1>10, <1>11 DEF OpenAIAccepts, items

-----------------------------------------------------------------------------
\* What the loop of buildAnthropicMessages holds, for a history of any length.
Accs == [out : Seq(Items), pending : Seq(Parts)]

(* Flushing keeps the type of what has been put together, and leaves nothing pending. *)
LEMMA FlushTypes ==
    ASSUME NEW acc \in Accs
    PROVE  Flush(acc) \in Accs /\ Flush(acc).pending = <<>>
<1>1. acc.out \in Seq(Items) /\ acc.pending \in Seq(Parts)
  BY DEF Accs
<1>2. Item("user", <<>>, acc.pending) \in Items
  BY <1>1 DEF Item, Items, Roles
<1>3. CASE acc.pending = <<>>
  BY <1>3 DEF Flush
<1>4. CASE acc.pending # <<>>
  <2>1. Flush(acc) = [out |-> Append(acc.out, Item("user", <<>>, acc.pending)), pending |-> <<>>]
    BY <1>4 DEF Flush
  <2>2. Append(acc.out, Item("user", <<>>, acc.pending)) \in Seq(Items)
    BY <1>1, <1>2
  <2>3. QED
    BY <2>1, <2>2 DEF Accs
<1>5. QED
  BY <1>3, <1>4

(* So does a step of the loop over the history. *)
LEMMA StepTypes ==
    ASSUME NEW acc \in Accs, NEW m \in Message(Calls, Results)
    PROVE  AnthropicStep(acc, m) \in Accs
<1>1. acc.out \in Seq(Items) /\ acc.pending \in Seq(Parts)
  BY DEF Accs
<1>2. CASE m.role = "tool"
  <2>1. m.results \in Seq(Results)
    BY DEF Message
  <2>2. \A r \in Results : Sent(r) \in Parts
    BY CallAssumption DEF Results, Result, Sent, Parts, Ids
  <2>3. SentResults(m) = [k \in 1 .. Len(m.results) |-> Sent(m.results[k])]
    BY <2>1 DEF SentResults
  <2>4. SentResults(m) \in Seq(Parts)
    BY <2>1, <2>2, <2>3
  <2>5. acc.pending \o SentResults(m) \in Seq(Parts)
    BY <1>1, <2>4
  <2>6. AnthropicStep(acc, m) = [acc EXCEPT !.pending = acc.pending \o SentResults(m)]
    BY <1>2 DEF AnthropicStep
  <2>7. QED
    BY <2>5, <2>6 DEF Accs
<1>3. CASE m.role # "tool"
  <2>1. Flush(acc) \in Accs /\ Item(m.role, CallIDs(m), <<>>) \in Items
    BY FlushTypes, SpeechSent
  <2>2. Append(Flush(acc).out, Item(m.role, CallIDs(m), <<>>)) \in Seq(Items)
    BY <2>1 DEF Accs
  <2>3. QED
    BY <1>3, <2>1, <2>2 DEF AnthropicStep, Accs
<1>4. QED
  BY <1>2, <1>3

\* A recursive function over 0 .. n exists.
Repeats(f, A, n, first, step) ==
    /\ f \in [0 .. n -> A] /\ f[0] = first
    /\ \A i \in 1 .. n : f[i] = step[<<f[i - 1], i>>]

(* What is defined at each number from the one before exists. *)
LEMMA Recursion ==
    ASSUME NEW A, NEW n \in Nat, NEW first \in A, NEW step \in [A \X (1 .. n) -> A]
    PROVE  \E f : Repeats(f, A, n, first, step)
<1> DEFINE Can(m) == \E f \in [0 .. m -> A] : f[0] = first /\ \A i \in 1 .. m : f[i] = step[<<f[i - 1], i>>]
           G == {m \in 0 .. n : Can(m)}
<1>1. 0 \in G
  <2>1. [i \in 0 .. 0 |-> first] \in [0 .. 0 -> A] /\ [i \in 0 .. 0 |-> first][0] = first
    OBVIOUS
  <2>2. Can(0)
    <3>1. 1 .. 0 = {}
      OBVIOUS
    <3>2. QED
      BY <2>1, <3>1
  <2>3. QED
    BY <2>2
<1>2. ASSUME NEW m \in 1 .. n, m - 1 \in G PROVE m \in G
  <2>1. PICK f \in [0 .. m - 1 -> A] : f[0] = first /\ \A i \in 1 .. m - 1 : f[i] = step[<<f[i - 1], i>>]
    BY <1>2
  <2> DEFINE g == [i \in 0 .. m |-> IF i < m THEN f[i] ELSE step[<<f[m - 1], m>>]]
  <2>2. m - 1 \in 0 .. m - 1 /\ step[<<f[m - 1], m>>] \in A
    BY <2>1
  <2>3. g \in [0 .. m -> A]
    BY <2>2
  <2>4. \A i \in 0 .. m - 1 : g[i] = f[i]
    <3>1. \A i \in 0 .. m - 1 : i \in 0 .. m /\ i < m
      OBVIOUS
    <3>2. QED
      BY <3>1
  <2>5. g[m] = step[<<f[m - 1], m>>]
    OBVIOUS
  <2> HIDE DEF g
  <2>6. g[0] = first
    BY <2>1, <2>2, <2>4
  <2>7. \A i \in 1 .. m : g[i] = step[<<g[i - 1], i>>]
    <3> SUFFICES ASSUME NEW i \in 1 .. m PROVE g[i] = step[<<g[i - 1], i>>]
      OBVIOUS
    <3>1. CASE i = m
      BY <2>2, <2>4, <2>5, <3>1
    <3>2. CASE i # m
      <4>1. i \in 1 .. m - 1 /\ i \in 0 .. m - 1 /\ i - 1 \in 0 .. m - 1
        BY <3>2
      <4>2. QED
        BY <2>1, <2>4, <4>1
    <3>3. QED
      BY <3>1, <3>2
  <2>8. QED
    BY <2>3, <2>6, <2>7
<1> HIDE DEF G
<1>3. n \in G
  BY <1>1, <1>2, UpTo
<1>4. QED
  BY <1>3 DEF G, Repeats

Holds(ms, h) ==
    /\ h[0] = [out |-> <<>>, pending |-> <<>>]
    /\ \A n \in 1 .. Len(ms) : h[n] = AnthropicStep(h[n - 1], ms[n])
    /\ \A n \in 0 .. Len(ms) : h[n] \in Accs
    /\ ToAnthropic(ms) = Flush(h[Len(ms)]).out

(* The loop over a history can be followed step by step. *)
LEMMA Held ==
    ASSUME NEW ms \in Seq(Message(Calls, Results))
    PROVE  \E h : Holds(ms, h)
<1> DEFINE N == Len(ms)
           none == [out |-> <<>>, pending |-> <<>>]
           step == [x \in Accs \X (1 .. N) |-> AnthropicStep(x[1], ms[x[2]])]
           Is(h) == h = [n \in 0 .. N |-> IF n = 0 THEN none ELSE AnthropicStep(h[n - 1], ms[n])]
           held == CHOOSE h : Is(h)
<1>1. N \in Nat /\ none \in Accs /\ \A i \in 1 .. N : ms[i] \in Message(Calls, Results)
  BY DEF Accs
<1>2. step \in [Accs \X (1 .. N) -> Accs]
  BY <1>1, StepTypes
<1>3. \A acc \in Accs, i \in 1 .. N : step[<<acc, i>>] = AnthropicStep(acc, ms[i])
  OBVIOUS
<1> HIDE DEF step, none, N
<1>4. PICK f \in [0 .. N -> Accs] : f[0] = none /\ \A i \in 1 .. N : f[i] = step[<<f[i - 1], i>>]
  <2>1. \E f : Repeats(f, Accs, N, none, step)
    BY <1>1, <1>2, Recursion
  <2>2. QED
    BY <2>1 DEF Repeats
<1>5. Is(f)
  <2>1. \A i \in 1 .. N : i - 1 \in 0 .. N
    BY <1>1
  <2>2. \A i \in 1 .. N : f[i] = AnthropicStep(f[i - 1], ms[i])
    BY <1>3, <1>4, <2>1
  <2>3. \A i \in 0 .. N : i = 0 \/ i \in 1 .. N
    BY <1>1
  <2>4. \A i \in 0 .. N : f[i] = IF i = 0 THEN none ELSE AnthropicStep(f[i - 1], ms[i])
    BY <1>4, <2>2, <2>3
  <2>5. QED
    BY <1>4, <2>4
<1>6. Is(held)
  BY <1>5
<1> HIDE DEF held
<1>7. held[0] = none /\ \A i \in 1 .. N : held[i] = AnthropicStep(held[i - 1], ms[i])
  <2>1. 0 \in 0 .. N /\ \A i \in 1 .. N : i \in 0 .. N /\ i # 0
    BY <1>1
  <2>2. \A i \in 0 .. N : held[i] = IF i = 0 THEN none ELSE AnthropicStep(held[i - 1], ms[i])
    BY <1>6
  <2>3. QED
    BY <2>1, <2>2
<1> HIDE DEF Is
<1>8. \A i \in 0 .. N : held[i] \in Accs
  <2> DEFINE G == {i \in 0 .. N : held[i] \in Accs}
  <2>1. 0 \in G
    BY <1>1, <1>7
  <2>2. \A i \in 1 .. N : i - 1 \in G => i \in G
    BY <1>1, <1>7, StepTypes
  <2> HIDE DEF G
  <2>3. 0 .. N \subseteq G
    BY <1>1, <2>1, <2>2, UpTo
  <2>4. QED
    BY <2>3 DEF G
<1>9. ToAnthropic(ms) = Flush(held[N]).out
  BY DEF ToAnthropic, held, Is, N, none
<1>10. Holds(ms, held)
  BY <1>7, <1>8, <1>9 DEF Holds, N, none
<1>11. QED
  BY <1>10

\* Behind the nth message, the request of message j is the last item, and what is pending
\* answers its first n - j calls.
OpenAt(ms, acc, j, n) ==
    LET L == Len(acc.out)
    IN  /\ L > 0 /\ acc.out[L].uses = CallIDs(ms[j]) /\ Len(acc.pending) = n - j
        /\ \A k \in 1 .. n - j : acc.pending[k].id = ms[j].calls[k].id

Awaits(ms, j, n) == ms[j].calls # <<>> /\ n - j <= Len(ms[j].calls)

\* The items so far are as Anthropic wants them, but for the answers of the last.
SoundSo(out) ==
    \A i \in 1 .. Len(out) :
        /\ out[i].answers # <<>> => i > 1 /\ out[i - 1].uses = AnswerIDs(out[i])
        /\ out[i].uses # <<>> /\ i < Len(out) => AnswerIDs(out[i + 1]) = out[i].uses

NothingOpen(acc) ==
    acc.pending = <<>> /\ (Len(acc.out) > 0 => acc.out[Len(acc.out)].uses = <<>>)

LoopHolds(ms, acc, n) ==
    /\ SoundSo(acc.out)
    /\ \A j \in 1 .. n : Awaits(ms, j, n) => OpenAt(ms, acc, j, n)
    /\ (\A j \in 1 .. n : ~Awaits(ms, j, n)) => NothingOpen(acc)

\* One more item, which brings the answers of the last or has none when that has no calls.
LEMMA SoundMore ==
    ASSUME NEW out \in Seq(Items), SoundSo(out), NEW item \in Items,
           \/ Len(out) > 0 /\ item.answers # <<>> /\ out[Len(out)].uses = AnswerIDs(item)
           \/ item.answers = <<>> /\ (Len(out) > 0 => out[Len(out)].uses = <<>>)
    PROVE  /\ SoundSo(Append(out, item)) /\ Append(out, item) \in Seq(Items)
           /\ Len(Append(out, item)) = Len(out) + 1 /\ Len(out) \in Nat
           /\ Append(out, item)[Len(out) + 1] = item
<1> DEFINE L == Len(out)
           more == Append(out, item)
<1>1. /\ L \in Nat /\ more \in Seq(Items) /\ Len(more) = L + 1 /\ more[L + 1] = item
      /\ \A i \in 1 .. L : more[i] = out[i]
  OBVIOUS
<1> HIDE DEF more
<1>2. ASSUME NEW i \in 1 .. L + 1
      PROVE  /\ more[i].answers # <<>> => i > 1 /\ more[i - 1].uses = AnswerIDs(more[i])
             /\ more[i].uses # <<>> /\ i < L + 1 => AnswerIDs(more[i + 1]) = more[i].uses
  <2>1. CASE i = L + 1
    <3>1. more[i] = item /\ ~(i < L + 1)
      BY <1>1, <2>1
    <3>2. L > 0 => more[i - 1] = out[L] /\ i > 1
      BY <1>1, <2>1
    <3>3. QED
      BY <3>1, <3>2
  <2>2. CASE i # L + 1
    <3>1. i \in 1 .. L /\ more[i] = out[i]
      BY <1>1, <2>2
    <3>2. more[i].answers # <<>> => i > 1 /\ more[i - 1].uses = AnswerIDs(more[i])
      <4>1. out[i].answers # <<>> => i > 1 /\ out[i - 1].uses = AnswerIDs(out[i])
        BY <3>1 DEF SoundSo
      <4>2. i > 1 => more[i - 1] = out[i - 1]
        BY <1>1, <3>1
      <4>3. QED
        BY <3>1, <4>1, <4>2
    <3>3. ASSUME more[i].uses # <<>> PROVE AnswerIDs(more[i + 1]) = more[i].uses
      <4>1. CASE i < L
        <5>1. i + 1 \in 1 .. L
          BY <1>1, <3>1, <4>1
        <5>2. AnswerIDs(out[i + 1]) = out[i].uses
          BY <3>1, <3>3, <4>1 DEF SoundSo
        <5>3. QED
          BY <1>1, <3>1, <5>1, <5>2
      <4>2. CASE i = L
        <5>1. L > 0 /\ out[L].uses # <<>>
          BY <1>1, <3>1, <3>3, <4>2
        <5>2. out[L].uses = AnswerIDs(item)
          BY <5>1
        <5>3. QED
          BY <1>1, <3>1, <4>2, <5>2
      <4>3. QED
        BY <1>1, <3>1, <4>1, <4>2
    <3>4. QED
      BY <3>2, <3>3
  <2>3. QED
    BY <2>1, <2>2
<1>3. SoundSo(more)
  BY <1>1, <1>2 DEF SoundSo
<1>4. QED
  BY <1>1, <1>3 DEF more

\* What is known of a history in which every call is answered, for the loop.
WellAnswered(ms) ==
    /\ \A i \in 1 .. Len(ms) :
           ms[i] \in Message(Calls, Results) /\ Len(ms[i].calls) \in Nat
    /\ \A i \in 1 .. Len(ms) : ms[i].calls = <<>> <=> Len(ms[i].calls) = 0
    /\ \A i \in 1 .. Len(ms) : \A k \in 1 .. Len(ms[i].calls) :
           /\ i + k \in 1 .. Len(ms)
           /\ ms[i + k].role = "tool" /\ ms[i + k].calls = <<>>
           /\ \E part \in Parts : part.id = ms[i].calls[k].id /\ SentResults(ms[i + k]) = <<part>>
    /\ \A j \in 1 .. Len(ms) : ms[j].role = "tool" =>
           \E i \in 1 .. j - 1 : j - i \in 1 .. Len(ms[i].calls)

(* A history whose calls are answered behind them is one the loop can put in turns. *)
LEMMA IsWellAnswered ==
    ASSUME NEW ms \in Seq(Message(Calls, Results)), Answered(ms)
    PROVE  WellAnswered(ms)
<1>1. \A i \in 1 .. Len(ms) : ms[i] \in Message(Calls, Results)
  OBVIOUS
<1>2. \A i \in 1 .. Len(ms) :
          /\ Len(ms[i].calls) \in Nat /\ (ms[i].calls = <<>> <=> Len(ms[i].calls) = 0)
          /\ \A k \in 1 .. Len(ms[i].calls) : ms[i].calls[k] \in Calls
  BY <1>1, SpeechSent
<1>3. ASSUME NEW i \in 1 .. Len(ms), NEW k \in 1 .. Len(ms[i].calls)
      PROVE  /\ i + k \in 1 .. Len(ms)
             /\ ms[i + k].role = "tool" /\ ms[i + k].calls = <<>>
             /\ \E part \in Parts : part.id = ms[i].calls[k].id /\ SentResults(ms[i + k]) = <<part>>
  <2>1. i + k \in 1 .. Len(ms) /\ Answers(ms[i + k], ms[i].calls[k])
    BY AnswersPlaced
  <2>2. ms[i + k] \in Message(Calls, Results) /\ ms[i].calls[k] \in Calls
    BY <1>1, <1>2, <2>1
  <2>3. QED
    BY <2>1, <2>2, AnswerSent
<1>4. \A j \in 1 .. Len(ms) : ms[j].role = "tool" =>
          \E i \in 1 .. j - 1 : j - i \in 1 .. Len(ms[i].calls)
  BY AnswersPlaced
<1>5. QED
  BY <1>1, <1>2, <1>3, <1>4 DEF WellAnswered

\* Whoever awaits an answer at n gets one at n + 1, unless it has them all.
LEMMA AwaitsNext ==
    ASSUME NEW ms, Len(ms) \in Nat, WellAnswered(ms), NEW n \in 0 .. Len(ms), NEW j \in 1 .. n, Awaits(ms, j, n)
    PROVE  \/ n - j = Len(ms[j].calls)
           \/ n < Len(ms) /\ ms[n + 1].role = "tool" /\ n + 1 - j \in 1 .. Len(ms[j].calls)
<1>1. j \in 1 .. Len(ms) /\ Len(ms[j].calls) \in Nat /\ n - j <= Len(ms[j].calls) /\ n - j \in Nat
  BY DEF WellAnswered, Awaits
<1>2. CASE n - j # Len(ms[j].calls)
  <2>1. n + 1 - j \in 1 .. Len(ms[j].calls) /\ j + (n + 1 - j) = n + 1
    BY <1>1, <1>2
  <2>2. j + (n + 1 - j) \in 1 .. Len(ms) /\ ms[j + (n + 1 - j)].role = "tool"
    BY <1>1, <2>1 DEF WellAnswered
  <2>3. QED
    BY <1>1, <2>1, <2>2
<1>3. QED
  BY <1>2

\* When no answer follows, flushing closes what was open.
LEMMA FlushCloses ==
    ASSUME NEW ms \in Seq(Message(Calls, Results)), WellAnswered(ms), NEW n \in 0 .. Len(ms),
           NEW acc \in Accs, LoopHolds(ms, acc, n), n = Len(ms) \/ ms[n + 1].role # "tool"
    PROVE  SoundSo(Flush(acc).out) /\ NothingOpen(Flush(acc))
<1>1. acc.out \in Seq(Items) /\ acc.pending \in Seq(Parts) /\ SoundSo(acc.out) /\ Len(ms) \in Nat
  BY DEF Accs, LoopHolds
<1>2. ASSUME NEW j \in 1 .. n, Awaits(ms, j, n)
      PROVE  /\ n - j = Len(ms[j].calls) /\ n - j \in Nat \ {0}
             /\ OpenAt(ms, acc, j, n)
             /\ Len(acc.out) > 0 /\ acc.out[Len(acc.out)].uses = AnswerIDs(Item("user", <<>>, acc.pending))
             /\ acc.pending # <<>>
  <2>1. n - j = Len(ms[j].calls) /\ OpenAt(ms, acc, j, n) /\ j \in 1 .. Len(ms)
    BY <1>1, <1>2, AwaitsNext DEF LoopHolds
  <2>2. n - j \in Nat \ {0} /\ ms[j] \in Message(Calls, Results)
    BY <1>2, <2>1 DEF WellAnswered, Awaits
  <2>3. Len(acc.pending) = n - j /\ \A k \in 1 .. n - j : acc.pending[k].id = ms[j].calls[k].id
    BY <2>1 DEF OpenAt
  <2>4. AnswerIDs(Item("user", <<>>, acc.pending)) = [k \in 1 .. n - j |-> acc.pending[k].id]
    BY <1>1, <2>3 DEF AnswerIDs, Item
  <2>5. CallIDs(ms[j]) = [k \in 1 .. n - j |-> ms[j].calls[k].id]
    <3>1. ms[j].calls \in Seq(Calls)
      BY <2>2 DEF Message
    <3>2. QED
      BY <2>1, <3>1 DEF CallIDs
  <2>6. CallIDs(ms[j]) = AnswerIDs(Item("user", <<>>, acc.pending))
    BY <2>3, <2>4, <2>5
  <2>7. acc.pending # <<>>
    <3>1. Len(<<>>) = 0
      OBVIOUS
    <3>2. QED
      BY <2>2, <2>3, <3>1
  <2>8. QED
    BY <2>1, <2>2, <2>6, <2>7 DEF OpenAt
<1>3. CASE \A j \in 1 .. n : ~Awaits(ms, j, n)
  <2>1. NothingOpen(acc)
    BY <1>3 DEF LoopHolds
  <2>2. Flush(acc) = acc
    BY <2>1 DEF NothingOpen, Flush
  <2>3. QED
    BY <1>1, <2>1, <2>2
<1>4. CASE \E j \in 1 .. n : Awaits(ms, j, n)
  <2> DEFINE item == Item("user", <<>>, acc.pending)
  <2>1. PICK j \in 1 .. n : Awaits(ms, j, n)
    BY <1>4
  <2>2. /\ Len(acc.out) > 0 /\ acc.out[Len(acc.out)].uses = AnswerIDs(item) /\ acc.pending # <<>>
    BY <1>2, <2>1
  <2>3. item \in Items /\ item.answers = acc.pending /\ item.uses = <<>>
    BY <1>1 DEF Item, Items, Roles
  <2>4. Flush(acc) = [out |-> Append(acc.out, item), pending |-> <<>>]
    BY <2>2 DEF Flush
  <2> HIDE DEF item
  <2>5. /\ SoundSo(Append(acc.out, item)) /\ Len(Append(acc.out, item)) = Len(acc.out) + 1
        /\ Append(acc.out, item)[Len(acc.out) + 1] = item
    BY <1>1, <2>2, <2>3, SoundMore
  <2>6. QED
    BY <2>3, <2>4, <2>5 DEF NothingOpen
<1>5. QED
  BY <1>3, <1>4

(* One step of the loop keeps its invariant. *)
LEMMA LoopStep ==
    ASSUME NEW ms \in Seq(Message(Calls, Results)), WellAnswered(ms), NEW n \in 0 .. Len(ms) - 1,
           NEW acc \in Accs, LoopHolds(ms, acc, n)
    PROVE  LoopHolds(ms, AnthropicStep(acc, ms[n + 1]), n + 1)
<1> DEFINE m == ms[n + 1]
           after == AnthropicStep(acc, m)
<1>1. /\ n + 1 \in 1 .. Len(ms) /\ n \in 0 .. Len(ms) /\ Len(ms) \in Nat /\ n \in Nat
      /\ m \in Message(Calls, Results) /\ (m.calls = <<>> <=> Len(m.calls) = 0) /\ Len(m.calls) \in Nat
  BY DEF WellAnswered
<1>2. \A j \in 1 .. n + 1 : j = n + 1 \/ (j \in 1 .. n /\ j \in 1 .. Len(ms))
  BY <1>1
<1> HIDE DEF m, after
<1>3. CASE m.role = "tool"
  <2>1. PICK i \in 1 .. n : n + 1 - i \in 1 .. Len(ms[i].calls)
    <3>1. \E i \in 1 .. (n + 1) - 1 : (n + 1) - i \in 1 .. Len(ms[i].calls)
      BY <1>1, <1>3 DEF WellAnswered, m
    <3>2. QED
      BY <1>1, <3>1
  <2>2. ms[i + (n + 1 - i)].calls = <<>> /\ i + (n + 1 - i) = n + 1
    <3>1. i \in 1 .. Len(ms) /\ i + (n + 1 - i) = n + 1
      BY <1>1
    <3>2. QED
      BY <2>1, <3>1 DEF WellAnswered
  <2>3. m.calls = <<>>
    BY <2>2 DEF m
  <2>4. after = [acc EXCEPT !.pending = acc.pending \o SentResults(m)]
    BY <1>3 DEF AnthropicStep, after
  <2>5. after.out = acc.out /\ after.pending = acc.pending \o SentResults(m) /\ acc.pending \in Seq(Parts)
    BY <2>4 DEF Accs
  <2>6. ASSUME NEW j \in 1 .. n + 1, Awaits(ms, j, n + 1) PROVE OpenAt(ms, after, j, n + 1)
    <3>1. j # n + 1
      BY <2>3, <2>6 DEF Awaits, m
    <3>2. j \in 1 .. n /\ j \in 1 .. Len(ms) /\ Len(ms[j].calls) \in Nat
      BY <1>2, <3>1 DEF WellAnswered
    <3>3. Awaits(ms, j, n)
      BY <1>1, <2>6, <3>2 DEF Awaits
    <3>4. OpenAt(ms, acc, j, n)
      BY <3>2, <3>3 DEF LoopHolds
    <3>5. n + 1 - j \in 1 .. Len(ms[j].calls) /\ j + (n + 1 - j) = n + 1
      BY <1>1, <2>6, <3>2 DEF Awaits
    <3>6. PICK part \in Parts : part.id = ms[j].calls[n + 1 - j].id
                             /\ SentResults(ms[j + (n + 1 - j)]) = <<part>>
      BY <3>2, <3>5 DEF WellAnswered
    <3>7. after.pending = acc.pending \o <<part>>
      BY <2>5, <3>5, <3>6 DEF m
    <3>8. Len(acc.pending) = n - j /\ n - j \in Nat /\ \A k \in 1 .. n - j : acc.pending[k].id = ms[j].calls[k].id
      BY <1>1, <3>2, <3>4 DEF OpenAt
    <3>9. /\ Len(after.pending) = n + 1 - j /\ after.pending[n + 1 - j] = part
          /\ \A k \in 1 .. n - j : after.pending[k] = acc.pending[k]
      <4>1. \A q \in Seq(Parts), x \in Parts :
                /\ Len(q \o <<x>>) = Len(q) + 1 /\ (q \o <<x>>)[Len(q) + 1] = x
                /\ \A k \in 1 .. Len(q) : (q \o <<x>>)[k] = q[k]
        OBVIOUS
      <4>2. n - j + 1 = n + 1 - j
        BY <1>1, <3>2
      <4>3. QED
        <5> DEFINE q == acc.pending
        <5>1. q \in Seq(Parts) /\ Len(q) = n - j
          BY <2>5, <3>8
        <5> HIDE DEF q
        <5>2. /\ Len(q \o <<part>>) = n + 1 - j /\ (q \o <<part>>)[n + 1 - j] = part
              /\ \A k \in 1 .. n - j : (q \o <<part>>)[k] = q[k]
          BY <4>1, <4>2, <5>1
        <5>3. QED
          BY <3>7, <5>2 DEF q
    <3>10. \A k \in 1 .. n + 1 - j : k \in 1 .. n - j \/ k = n + 1 - j
      BY <1>1, <3>2
    <3>11. \A k \in 1 .. n + 1 - j : after.pending[k].id = ms[j].calls[k].id
      BY <3>6, <3>8, <3>9, <3>10
    <3>12. QED
      BY <2>5, <3>4, <3>9, <3>11 DEF OpenAt
  <2>7. Awaits(ms, i, n + 1) /\ i \in 1 .. n + 1
    <3>1. i \in 1 .. Len(ms) /\ Len(ms[i].calls) \in Nat
      BY <1>1, <2>1 DEF WellAnswered
    <3>2. ms[i].calls # <<>> /\ n + 1 - i <= Len(ms[i].calls)
      BY <1>1, <2>1, <3>1 DEF WellAnswered
    <3>3. QED
      BY <1>1, <3>2 DEF Awaits
  <2>8. QED
    BY <2>5, <2>6, <2>7 DEF LoopHolds, after, m
<1>4. CASE m.role # "tool"
  <2>1. SoundSo(Flush(acc).out) /\ NothingOpen(Flush(acc)) /\ Flush(acc) \in Accs
    BY <1>1, <1>4, FlushCloses, FlushTypes DEF m
  <2> DEFINE flushed == Flush(acc)
             item == Item(m.role, CallIDs(m), <<>>)
  <2>2. flushed.out \in Seq(Items) /\ flushed.pending = <<>>
    BY <2>1 DEF NothingOpen, Accs
  <2>3. item \in Items /\ item.answers = <<>> /\ item.uses = CallIDs(m)
    BY <1>1, SpeechSent DEF Item
  <2>4. /\ IsEmpty(m) => after = flushed
        /\ ~IsEmpty(m) => after = [flushed EXCEPT !.out = Append(flushed.out, item)]
    BY <1>4 DEF AnthropicStep, after
  <2> HIDE DEF flushed, item
  <2>5. flushed \in Accs /\ SoundSo(flushed.out) /\ NothingOpen(flushed)
    BY <2>1 DEF flushed
  <2>6. /\ SoundSo(Append(flushed.out, item)) /\ Append(flushed.out, item) \in Seq(Items)
        /\ Len(Append(flushed.out, item)) = Len(flushed.out) + 1 /\ Len(flushed.out) \in Nat
        /\ Append(flushed.out, item)[Len(flushed.out) + 1] = item
    BY <2>2, <2>3, <2>5, SoundMore DEF NothingOpen
  <2>7. ASSUME NEW j \in 1 .. n, Awaits(ms, j, n + 1) PROVE FALSE
    <3>1. j \in 1 .. Len(ms) /\ Len(ms[j].calls) \in Nat
      BY <1>1 DEF WellAnswered
    <3>2. n + 1 - j \in 1 .. Len(ms[j].calls) /\ j + (n + 1 - j) = n + 1
      BY <1>1, <2>7, <3>1 DEF Awaits
    <3>3. ms[j + (n + 1 - j)].role = "tool"
      BY <3>1, <3>2 DEF WellAnswered
    <3>4. QED
      BY <1>4, <3>2, <3>3 DEF m
  <2>8. CASE IsEmpty(m)
    <3>1. m.calls = <<>> /\ after = flushed
      BY <2>4, <2>8 DEF IsEmpty
    <3>2. \A j \in 1 .. n + 1 : ~Awaits(ms, j, n + 1)
      BY <1>2, <2>7, <3>1 DEF Awaits, m
    <3>3. QED
      BY <2>5, <3>1, <3>2 DEF LoopHolds, after, m
  <2>9. CASE ~IsEmpty(m)
    <3>1. after.out = Append(flushed.out, item) /\ after.pending = <<>>
      BY <2>2, <2>4, <2>5, <2>9 DEF Accs
    <3>2. Len(after.out) > 0 /\ after.out[Len(after.out)] = item /\ SoundSo(after.out)
      BY <2>6, <3>1
    <3>3. OpenAt(ms, after, n + 1, n + 1)
      <4>1. Len(after.pending) = (n + 1) - (n + 1) /\ 1 .. (n + 1) - (n + 1) = {}
        BY <1>1, <3>1
      <4>2. after.out[Len(after.out)].uses = CallIDs(ms[n + 1])
        BY <2>3, <3>2 DEF m
      <4>3. QED
        BY <3>2, <4>1, <4>2 DEF OpenAt
    <3>4. \A j \in 1 .. n + 1 : Awaits(ms, j, n + 1) => OpenAt(ms, after, j, n + 1)
      BY <1>2, <2>7, <3>3
    <3>5. ASSUME ~Awaits(ms, n + 1, n + 1) PROVE NothingOpen(after)
      <4>1. m.calls = <<>>
        BY <1>1, <3>5 DEF Awaits, m
      <4>2. CallIDs(m) = <<>>
        BY <4>1 DEF CallIDs
      <4>3. QED
        BY <2>3, <3>1, <3>2, <4>2 DEF NothingOpen
    <3>6. n + 1 \in 1 .. n + 1
      BY <1>1
    <3>7. QED
      BY <3>2, <3>4, <3>5, <3>6 DEF LoopHolds, after, m
  <2>10. QED
    BY <2>8, <2>9
<1>5. QED
  BY <1>3, <1>4

\* Anthropic accepts what becomes of a history in which every call is answered.
LEMMA AnthropicAccepted ==
    ASSUME NEW ms \in Seq(Message(Calls, Results)), Answered(ms)
    PROVE  AnthropicAccepts(ToAnthropic(ms))
<1>1. WellAnswered(ms) /\ Len(ms) \in Nat
  BY IsWellAnswered
<1>2. PICK h : Holds(ms, h)
  BY Held
<1> DEFINE G == {n \in 0 .. Len(ms) : LoopHolds(ms, h[n], n)}
<1>3. 0 \in G
  <2>1. h[0] = [out |-> <<>>, pending |-> <<>>]
    BY <1>2 DEF Holds
  <2>2. Len(<<>>) = 0 /\ 1 .. 0 = {}
    OBVIOUS
  <2>3. LoopHolds(ms, h[0], 0)
    BY <2>1, <2>2 DEF LoopHolds, SoundSo, NothingOpen
  <2>4. QED
    BY <1>1, <2>3
<1>4. ASSUME NEW n \in 1 .. Len(ms), n - 1 \in G PROVE n \in G
  <2>1. n - 1 \in 0 .. Len(ms) - 1 /\ h[n - 1] \in Accs /\ LoopHolds(ms, h[n - 1], n - 1)
    BY <1>1, <1>2, <1>4 DEF Holds
  <2>2. LoopHolds(ms, AnthropicStep(h[n - 1], ms[(n - 1) + 1]), (n - 1) + 1)
    BY <1>1, <2>1, LoopStep
  <2>3. (n - 1) + 1 = n /\ h[n] = AnthropicStep(h[n - 1], ms[n])
    BY <1>2 DEF Holds
  <2>4. QED
    BY <2>2, <2>3
<1> HIDE DEF G
<1>5. LoopHolds(ms, h[Len(ms)], Len(ms)) /\ h[Len(ms)] \in Accs
  <2>1. 0 .. Len(ms) \subseteq G
    BY <1>1, <1>3, <1>4, UpTo
  <2>2. Len(ms) \in 0 .. Len(ms)
    BY <1>1
  <2>3. QED
    BY <1>2, <2>1, <2>2 DEF G, Holds
<1> DEFINE out == ToAnthropic(ms)
<1>6. SoundSo(out) /\ out \in Seq(Items) /\ (Len(out) > 0 => out[Len(out)].uses = <<>>)
  <2>1. Len(ms) \in 0 .. Len(ms)
    BY <1>1
  <2>2. /\ SoundSo(Flush(h[Len(ms)]).out) /\ NothingOpen(Flush(h[Len(ms)]))
        /\ Flush(h[Len(ms)]) \in Accs
    BY <1>1, <1>5, <2>1, FlushCloses, FlushTypes
  <2>3. out = Flush(h[Len(ms)]).out
    BY <1>2 DEF Holds
  <2>4. QED
    BY <2>2, <2>3 DEF NothingOpen, Accs
<1> HIDE DEF out
<1>7. ASSUME NEW i \in 1 .. Len(out)
      PROVE  /\ out[i].uses # <<>> => i + 1 \in 1 .. Len(out) /\ AnswerIDs(out[i + 1]) = out[i].uses
             /\ out[i].answers # <<>> => i > 1 /\ out[i - 1].uses = AnswerIDs(out[i])
  <2>1. Len(out) \in Nat /\ (i = Len(out) \/ (i < Len(out) /\ i + 1 \in 1 .. Len(out)))
    BY <1>6
  <2>2. i = Len(out) => out[i].uses = <<>>
    BY <1>6, <2>1
  <2>3. QED
    BY <1>6, <2>1, <2>2 DEF SoundSo
<1>8. DOMAIN out = 1 .. Len(out)
  BY <1>6
<1>9. AnthropicAccepts(out)
  BY <1>7, <1>8 DEF AnthropicAccepts
<1>10. QED
  BY <1>9 DEF out

\* Every request of the turn keeps each result where its provider looks for it, whatever
\* the model has asked for and the tools have answered before.
THEOREM RequestsAlwaysAccepted == Spec => []RequestsAccepted
<1>1. TypeOK /\ CallsAnswered => RequestsAccepted
  <2> SUFFICES ASSUME TypeOK, CallsAnswered, pc = "streaming"
               PROVE  OpenAIAccepts(ToOpenAI(messages)) /\ AnthropicAccepts(ToAnthropic(messages))
    BY DEF RequestsAccepted
  <2>1. messages \in Seq(Message(Calls, Results)) /\ Answered(messages)
    BY DEF TypeOK, CallsAnswered
  <2>2. QED
    BY <2>1, OpenAIAccepted, AnthropicAccepted
<1>2. QED
  BY <1>1, TypeCorrect, CallsAlwaysAnswered, PTL
=============================================================================
