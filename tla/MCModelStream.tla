--------------------------- MODULE MCModelStream ---------------------------
(* An instance of ModelStream for TLC: two turns on any two providers.     *)
EXTENDS ModelStream

T(text) == [kind |-> "text", text |-> text]
C(id, args) == [kind |-> "call", id |-> id, name |-> "ssh", args |-> args,
                signature |-> "none"]
Signed(args) == [C("", args) EXCEPT !.signature = "bytes"]

MCReplies ==
  [openai    |-> {<<T("a"), T("b")>>, <<C("x", "object"), C("y", "cut")>>,
                  <<C("x", "blank"), T("a")>>},
   anthropic |-> {<<T("a"), C("x", "cut"), T("b")>>, <<C("x", "null")>>},
   gemini    |-> {<<T("a"), T("b")>>, <<Signed("object"), T("a")>>}]
=============================================================================
