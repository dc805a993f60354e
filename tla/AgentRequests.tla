---------------------------- MODULE AgentRequests ----------------------------
(***************************************************************************)
(* AgentRun together with the provider requests its histories turn into:   *)
(* what StreamChat of models/openai.go and models/anthropic.go sends for   *)
(* the messages Run hands it.                                              *)
(***************************************************************************)
EXTENDS AgentRun, ProviderRequests

\* Whenever the model is called, both translations of the history keep each
\* tool result where its provider looks for it: a later request of the same
\* conversation is rejected otherwise (openai.go:210-291, anthropic.go:218-308).
RequestsAccepted ==
    pc = "streaming" => /\ OpenAIAccepts(ToOpenAI(messages))
                        /\ AnthropicAccepts(ToAnthropic(messages))

\* What system_prompt.go:20 tells the model: the result of a failed call is a
\* human-readable reason, never nothing.
FailureReasonReachesModel ==
    pc = "streaming" =>
        \A i \in DOMAIN ToOpenAI(messages) :
            LET item == ToOpenAI(messages)[i]
            IN  \A k \in DOMAIN item.answers : item.answers[k].content # "null"
=============================================================================
