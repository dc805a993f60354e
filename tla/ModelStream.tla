---------------------------- MODULE ModelStream ----------------------------
(***************************************************************************)
(* A conversation as the providers see it: each turn resolves a credential *)
(* (chat/llm.go, providerkey and custommodel Resolve), loads the stored    *)
(* history (conversation/codec.go), sends it in the form of the chosen     *)
(* provider and folds the stream that comes back into a reply              *)
(* (ai_model/models/openai.go, anthropic.go, gemini.go); what the turn     *)
(* added is stored again.  The provider may change between turns.  Only    *)
(* Gemini's calls carry a thought signature, and only its requests return  *)
(* it; how the others group their items is in ProviderRequests.            *)
(***************************************************************************)
EXTENDS Naturals, SequencesExt

CONSTANTS
  Replies,        \* of a provider: the replies it may stream, sequences of parts
  MaxToolIterations,
  MaxTurns,       \* bound: the turns of the conversation
  MaxBlank,       \* bound: the chunks without content in a stream
  MaxMishaps      \* bound: failing statements, broken streams, edits of keys

Providers == DOMAIN Replies

\* What comes back from a provider: pieces of text and calls.
Parts ==
  [kind : {"text"}, text : STRING]
    \cup [kind : {"call"}, id : STRING, name : STRING,
           args : {"object", "blank", "null", "cut"}, signature : {"none", "bytes"}]

ASSUME ReplyAssumption == \A p \in Providers : Replies[p] \subseteq Seq(Parts)

Presets == {"mine", "global", "theirs", "gone"}   \* whose preset a conversation names

VARIABLES
  at,          \* where the turn is
  provider, turns, iteration,
  keys,        \* the keys stored for the provider: the caller's "own", the "global" one
  preset,      \* the preset of the turn, or "none"
  credential,  \* what this turn's client was built with
  held,        \* the caller had a key of their own ever since the turn began
  rows,        \* the stored messages
  messages,    \* the turn's messages
  start,       \* how many of them were stored before
  memory,      \* the messages in memory when they were last stored
  reply, got,  \* the reply under way, how many chunks of each part have come
  blanks,
  response, shown,  \* the reply as folded, and the pieces sent to the browser
  mishaps

where  == <<provider, turns>>
access == <<keys, preset, credential, held>>
talk   == <<rows, messages, start, memory>>
stream == <<reply, got, blanks, response, shown>>
vars   == <<at, iteration, where, access, talk, stream, mishaps>>

-----------------------------------------------------------------------------
(* Parts of a reply, calls and messages.  The arguments of a call on the   *)
(* wire are an object, nothing, the word null, or an object cut off.       *)

Parsed(wire) == CASE wire = "object" -> "object" [] wire = "null" -> "nil"
                  [] OTHER -> "empty"

(* Mutant of ToCall: arguments that do not parse are not marked. *)
ToCallUnmarked(part) ==
  [id |-> part.id, name |-> part.name, args |-> Parsed(part.args),
   parseError |-> FALSE, signature |-> part.signature]

(* Mutant of ToCall: the signature is not kept. *)
ToCallUnsigned(part) ==
  [id |-> part.id, name |-> part.name, args |-> Parsed(part.args),
   parseError |-> part.args = "cut", signature |-> "none"]

ToCall(part) ==
  [id |-> part.id, name |-> part.name, args |-> Parsed(part.args),
   parseError |-> part.args = "cut", signature |-> part.signature]

Nothing == [text |-> <<>>, calls |-> <<>>]

AddPart(folded, part) ==
  IF part.kind = "text" THEN [folded EXCEPT !.text = Append(@, part.text)]
                        ELSE [folded EXCEPT !.calls = Append(@, ToCall(part))]

(* The reply folded part by part: what there is behind the nth. *)
Folded(parts) ==
  LET folded[n \in 0 .. Len(parts)] ==
        IF n = 0 THEN Nothing ELSE AddPart(folded[n - 1], parts[n])
  IN  folded

(* The reply as Chat folds it, which is sent the whole of it at once. *)
ChatAnswer(parts) == Folded(parts)[Len(parts)]

Message(role, text, calls, results) ==
  [role |-> role, text |-> text, calls |-> calls, results |-> results]
UserMessage == Message("user", <<"prompt">>, <<>>, <<>>)
Note        == Message("assistant", <<"note">>, <<>>, <<>>)

Outcomes == {"data", "refused", "silent", "broke"}

(* executeTool: a failure that returned has data; a blank reason is a reason in memory. *)
Result(call, outcome) ==
  [id |-> call.id, name |-> call.name,
   data |-> IF call.parseError \/ outcome = "broke" THEN "nil" ELSE "data",
   error |-> IF call.parseError \/ outcome \in {"broke", "refused"} THEN "text"
             ELSE IF outcome = "silent" THEN "blank" ELSE "none"]

-----------------------------------------------------------------------------
(* codec.go: a signature is bytes, which JSON turns into text; the text of *)
(* an error is kept, and a blank one reads as none.                        *)

EncodeCall(call) == [call EXCEPT !.signature = IF @ = "none" THEN @ ELSE "text"]

(* Mutant of EncodeResult: a result with an error is stored without its data. *)
EncodeResultLossy(result) ==
  IF result.error = "none" THEN result ELSE [result EXCEPT !.data = "nil"]

EncodeResult(result) == [result EXCEPT !.error = IF @ = "blank" THEN "none" ELSE @]

Stored(m) == [m EXCEPT !.calls = [k \in DOMAIN @ |-> EncodeCall(@[k])],
                       !.results = [k \in DOMAIN @ |-> EncodeResult(@[k])]]

-----------------------------------------------------------------------------
(* The requests.  A signature that is not bytes is not sent. *)

SentCall(p, call) ==
  [id |-> call.id, name |-> call.name, args |-> call.args,
   signature |-> IF p = "gemini" /\ call.signature = "bytes" THEN "bytes" ELSE "none"]

SentResult(p, result) ==
  [id |-> result.id, name |-> IF p = "gemini" THEN result.name ELSE "none",
   data |-> result.data]

Content(role, parts) == IF parts = <<>> THEN <<>> ELSE <<[role |-> role, parts |-> parts]>>

Contents(p, m) ==
  Content(IF m.role = "assistant" THEN "model" ELSE "user", m.text)
  \o Content("model", [k \in DOMAIN m.calls |-> SentCall(p, m.calls[k])])
  \o Content("user", [k \in DOMAIN m.results |-> SentResult(p, m.results[k])])

Request(p, msgs) == FlattenSeq([i \in DOMAIN msgs |-> Contents(p, msgs[i])])

-----------------------------------------------------------------------------
Init ==
  /\ at = "idle" /\ turns = 0 /\ iteration = 0 /\ provider \in Providers
  /\ keys = {} /\ preset = "none" /\ credential = "none" /\ held = FALSE
  /\ rows = <<>> /\ messages = <<>> /\ memory = <<>> /\ start = 0
  /\ reply = <<>> /\ got = <<>> /\ blanks = 0 /\ response = Nothing /\ shown = <<>>
  /\ mishaps = 0

Mishap == mishaps < MaxMishaps /\ mishaps' = mishaps + 1

(* SendMessage on the provider the conversation has by now, with the keys of by now. *)
Begin(p, named) ==
  /\ at = "idle" /\ turns < MaxTurns /\ turns' = turns + 1 /\ provider' = p
  /\ p # "openai" => named = "none"
  /\ at' = IF named = "none" THEN "own" ELSE "preset"
  /\ keys' \in SUBSET {"own", "global"} /\ preset' = named /\ held' = ("own" \in keys')
  /\ credential' = "none"
  /\ UNCHANGED <<iteration, talk, stream, mishaps>>

(* Their owners set and delete keys at any time. *)
EditKeys ==
  /\ at \in {"own", "global"} /\ Mishap
  /\ \E k \in {"own", "global"} :
       keys' = IF k \in keys THEN keys \ {k} ELSE keys \cup {k}
  /\ held' = (held /\ "own" \in keys')
  /\ UNCHANGED <<at, iteration, where, preset, credential, talk, stream>>

Use(k) == credential' = k /\ at' = "load"
Refuse == at' = "idle" /\ UNCHANGED credential

(* custommodel Resolve: a preset of the caller, or everybody's. *)
ResolvePreset ==
  /\ at = "preset"
  /\ \/ preset \in {"mine", "global"} /\ Use("preset") /\ UNCHANGED mishaps
     \/ preset \in {"theirs", "gone"} /\ Refuse /\ UNCHANGED mishaps
     \/ Mishap /\ Refuse
  /\ UNCHANGED <<iteration, where, keys, preset, held, talk, stream>>

(* Mutant of FindForUser: a key that cannot be read is taken for none. *)
FindForUserLax ==
  /\ at = "own"
  /\ \/ "own" \in keys /\ Use("own") /\ UNCHANGED mishaps
     \/ "own" \notin keys /\ at' = "global" /\ UNCHANGED <<credential, mishaps>>
     \/ Mishap /\ at' = "global" /\ UNCHANGED credential
  /\ UNCHANGED <<iteration, where, keys, preset, held, talk, stream>>

(* providerkey Resolve: only a key that is not found lets the next one serve. *)
FindForUser ==
  /\ at = "own"
  /\ \/ "own" \in keys /\ Use("own") /\ UNCHANGED mishaps
     \/ "own" \notin keys /\ at' = "global" /\ UNCHANGED <<credential, mishaps>>
     \/ Mishap /\ Refuse
  /\ UNCHANGED <<iteration, where, keys, preset, held, talk, stream>>

FindGlobal ==
  /\ at = "global"
  /\ \/ "global" \in keys /\ Use("global") /\ UNCHANGED mishaps
     \/ "global" \notin keys /\ at' = "env" /\ UNCHANGED <<credential, mishaps>>
     \/ Mishap /\ Refuse
  /\ UNCHANGED <<iteration, where, keys, preset, held, talk, stream>>

(* resolveFromEnv: the server may have been started with a key. *)
FindInEnv ==
  /\ at = "env" /\ (Use("env") \/ Refuse)
  /\ UNCHANGED <<iteration, where, keys, preset, held, talk, stream, mishaps>>

(* The client is built by now: keys are read no more. *)
LoadHistory ==
  /\ at = "load" /\ at' = "request" /\ iteration' = 0
  /\ messages' = Append(rows, UserMessage) /\ start' = Len(rows)
  /\ keys' = {} /\ held' = FALSE /\ credential' = "none" /\ preset' = "none"
  /\ UNCHANGED <<where, rows, memory, stream, mishaps>>

(* StreamChat: the provider answers with some reply. *)
Send ==
  /\ at = "request" /\ at' = "stream"
  /\ reply' \in Replies[provider] /\ got' = [i \in DOMAIN reply' |-> 0]
  /\ blanks' = 0 /\ response' = Nothing /\ shown' = <<>>
  /\ UNCHANGED <<iteration, where, access, talk, mishaps>>

(* The chunks of a part: but for Gemini a call's arguments come after its name. *)
Chunks(part) ==
  IF part.kind = "call" /\ provider # "gemini" /\ part.args # "blank" THEN 2 ELSE 1

(* Parts begin in order; only OpenAI goes back to one when the next has begun. *)
MayCome(i) ==
  /\ got[i] < Chunks(reply[i])
  /\ i > 1 => IF provider = "openai" THEN got[i - 1] > 0
              ELSE got[i - 1] = Chunks(reply[i - 1])

(* One chunk: text is shown as it comes, and Gemini's parts are folded at once. *)
Receive(i) ==
  /\ at = "stream" /\ MayCome(i)
  /\ got' = [got EXCEPT ![i] = @ + 1]
  /\ shown' = IF reply[i].kind = "text" THEN Append(shown, reply[i].text) ELSE shown
  /\ response' = IF provider = "gemini" THEN AddPart(response, reply[i]) ELSE response
  /\ UNCHANGED <<at, iteration, where, access, talk, reply, blanks, mishaps>>

(* Mutant of ReceiveBlank: a chunk without content ends the stream. *)
ReceiveBlankLast ==
  /\ at = "stream" /\ blanks < MaxBlank /\ blanks' = blanks + 1
  /\ at' = "answered"
  /\ UNCHANGED <<iteration, where, access, talk, reply, got, response, shown, mishaps>>

(* A chunk without choices, candidates or text is passed over. *)
ReceiveBlank ==
  /\ at = "stream" /\ blanks < MaxBlank /\ blanks' = blanks + 1
  /\ UNCHANGED <<at, iteration, where, access, talk, reply, got, response, shown, mishaps>>

EndStream ==
  /\ at = "stream" /\ \A i \in DOMAIN reply : got[i] = Chunks(reply[i])
  /\ at' = "answered"
  /\ response' = IF provider = "gemini" THEN response ELSE ChatAnswer(reply)
  /\ UNCHANGED <<iteration, where, access, talk, reply, got, blanks, shown, mishaps>>

(* The request is refused or the stream breaks: the turn closes with a note. *)
ProviderError ==
  /\ at = "stream" /\ Mishap /\ at' = "save" /\ messages' = Append(messages, Note)
  /\ UNCHANGED <<iteration, where, access, rows, start, memory, stream>>

FinalAnswer ==
  /\ at = "answered" /\ response.calls = <<>> /\ at' = "save"
  /\ messages' = Append(messages, Message("assistant", response.text, <<>>, <<>>))
  /\ UNCHANGED <<iteration, where, access, rows, start, memory, stream, mishaps>>

(* The calls in order, each answered by a message of its own (see AgentRun). *)
RunTools ==
  /\ at = "answered" /\ response.calls # <<>>
  /\ iteration' = iteration + 1
  /\ \E outcome \in [DOMAIN response.calls -> Outcomes] :
       LET results == [k \in DOMAIN outcome |->
             Message("tool", <<>>, <<>>, <<Result(response.calls[k], outcome[k])>>)]
           more == messages \o <<Message("assistant", <<>>, response.calls, <<>>)>> \o results
       IN  messages' = IF iteration' = MaxToolIterations THEN Append(more, Note) ELSE more
  /\ at' = IF iteration' = MaxToolIterations THEN "save" ELSE "request"
  /\ UNCHANGED <<where, access, rows, start, memory, stream, mishaps>>

(* AppendHistory of what the turn added, all of it or nothing; the turn is over. *)
Save ==
  /\ at = "save" /\ at' = "idle"
  /\ \/ /\ rows' = rows \o [i \in 1 .. Len(messages) - start |-> Stored(messages[start + i])]
        /\ memory' = messages /\ UNCHANGED mishaps
     \/ Mishap /\ UNCHANGED <<rows, memory>>
  /\ messages' = <<>> /\ start' = 0 /\ iteration' = 0
  /\ reply' = <<>> /\ got' = <<>> /\ blanks' = 0 /\ response' = Nothing /\ shown' = <<>>
  /\ UNCHANGED <<where, access>>

Next ==
  \/ EditKeys \/ ResolvePreset \/ FindForUser \/ FindGlobal \/ FindInEnv
  \/ \E p \in Providers, named \in Presets \cup {"none"} : Begin(p, named)
  \/ LoadHistory \/ Send \/ ReceiveBlank \/ EndStream \/ ProviderError
  \/ \E i \in DOMAIN reply : Receive(i)
  \/ FinalAnswer \/ RunTools \/ Save

Spec == Init /\ [][Next]_vars

-----------------------------------------------------------------------------
(* StreamChat behaves like Chat (interface.go:8-12): a stream that ends    *)
(* without an error has shown all of the reply's text, in order and once,  *)
(* and returns what Chat returns for the same reply.                       *)
StreamIsChat ==
  at = "answered" => /\ response = ChatAnswer(reply)
                     /\ shown = response.text

(* The calls of the last reply, the message that repeats them, their answers. *)
CallParts(parts) ==
  LET found[n \in 0 .. Len(parts)] ==
        IF n = 0 THEN <<>>
        ELSE IF parts[n].kind = "call" THEN Append(found[n - 1], parts[n]) ELSE found[n - 1]
  IN  found
Called   == CallParts(reply)[Len(reply)]
Asked    == messages[Len(messages) - Len(Called)]
Given(k) == messages[Len(messages) - Len(Called) + k].results[1]
Answered == at = "request" /\ iteration > 0

(* Each call has its own answer behind it, and one whose arguments were    *)
(* cut off was not run with others: the answer has a reason and no data    *)
(* (openai.go:181-206, anthropic.go:194-213, agent.go:123).                *)
CutCallsNeverRun ==
  Answered => \A k \in DOMAIN Called :
    /\ Given(k).id = Called[k].id
    /\ Called[k].args = "cut" => Given(k).data = "nil" /\ Given(k).error = "text"

(* Within a turn each call goes back to Gemini with the signature it came  *)
(* with, which Gemini asks of the calls of the running turn                *)
(* (gemini.go:184, :272).                                                  *)
SignedWithinTurn ==
  (Answered /\ provider = "gemini") => \A k \in DOMAIN Called :
    SentCall("gemini", Asked.calls[k]).signature = Called[k].signature

Unsigned(m) == [m EXCEPT !.calls = [k \in DOMAIN @ |-> [@[k] EXCEPT !.signature = "none"]]]

(* What was stored reads back as what was said: whatever provider the next *)
(* turn chooses, its request repeats the finished turns exactly as their   *)
(* own requests did, but for the signatures (codec.go:20, :64).            *)
ReloadedIsSame ==
  at = "idle" => \A p \in Providers :
    Request(p, rows) = Request(p, [i \in DOMAIN memory |-> Unsigned(memory[i])])

(* A caller who has a key of their own pays with it: the global key and    *)
(* the server's serve only one who lacks a key, never one whose key could  *)
(* not be read (providerkey/service.go:93-108).                            *)
OwnKeyFirst ==
  (at = "load" /\ held /\ preset = "none") => credential = "own"
=============================================================================
