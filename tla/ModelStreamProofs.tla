------------------------- MODULE ModelStreamProofs -------------------------
(***************************************************************************)
(* ModelStream's safety for every provider, every set of replies, any      *)
(* number of turns, mishaps and edits of keys.  What a stream, a fold and  *)
(* a history hold is shown part by part, by way of the first part it would *)
(* fail at.                                                                *)
(***************************************************************************)
EXTENDS ModelStream, WellFoundedInduction, TLAPS

Calls == [id : STRING, name : STRING, args : {"object", "nil", "empty"},
          parseError : BOOLEAN, signature : {"none", "bytes", "text"}]

Results == [id : STRING, name : STRING, data : {"nil", "data"},
            error : {"text", "blank", "none"}]

(* Pieces of text: what a model may write, and what the turn writes itself. *)
Texts == STRING \cup {"prompt", "note"}

Messages == [role : {"user", "assistant", "tool"}, text : Seq(Texts), calls : Seq(Calls), results : Seq(Results)]

Responses == [text : Seq(Texts), calls : Seq(Calls)]

-----------------------------------------------------------------------------
(* A set of numbers has a least one. *)
LEMMA Least ==
    ASSUME NEW S, S \subseteq Nat, S # {}
    PROVE  \E n \in S : \A m \in S : n <= m
<1>1. \E n \in S : \A m \in S : <<m, n>> \notin OpToRel(<, Nat)
  BY NatLessThanWellFounded, WFMin
<1>2. PICK n \in S : \A m \in S : <<m, n>> \notin OpToRel(<, Nat)
  BY <1>1
<1>3. \A m \in S : ~(m < n)
  BY <1>2 DEF OpToRel
<1>4. QED
  BY <1>3
(* A fact that holds at 0, and of a number up to n when it holds of the one before, *)
(* holds of all of them. *)
LEMMA UpTo ==
    ASSUME NEW n \in Nat, NEW G, 0 \in G, \A i \in 1 .. n : i - 1 \in G => i \in G
    PROVE  0 .. n \subseteq G
<1> SUFFICES ASSUME NEW m \in 0 .. n, m \notin G PROVE FALSE
  OBVIOUS
<1> DEFINE bad == (0 .. n) \ G
<1>1. bad \subseteq Nat /\ bad # {}
  OBVIOUS
<1>2. PICK i \in bad : \A j \in bad : i <= j
  BY <1>1, Least
<1>3. i \in 1 .. n /\ i - 1 \in 0 .. n /\ i - 1 \notin bad
  BY <1>2
<1>4. QED
  BY <1>2, <1>3

(* A recursive function over 0 .. n exists. *)
Repeats(f, A, n, first, step) ==
    /\ f \in [0 .. n -> A] /\ f[0] = first
    /\ \A i \in 1 .. n : f[i] = step[<<f[i - 1], i>>]

(* What is defined at each number from the one before exists. *)
LEMMA Recursion ==
    ASSUME NEW A, NEW n \in Nat, NEW first \in A, NEW step \in [A \X (1 .. n) -> A]
    PROVE  \E f : Repeats(f, A, n, first, step)
<1> DEFINE Can(m) == \E f \in [0 .. m -> A] : f[0] = first /\ \A i \in 1 .. m : f[i] = step[<<f[i - 1], i>>]
           G == {m \in 0 .. n : Can(m)}
<1>1. 0 \in G
  <2>1. [i \in 0 .. 0 |-> first] \in [0 .. 0 -> A] /\ [i \in 0 .. 0 |-> first][0] = first
    OBVIOUS
  <2>2. Can(0)
    <3>1. 1 .. 0 = {}
      OBVIOUS
    <3>2. QED
      BY <2>1, <3>1
  <2>3. QED
    BY <2>2
<1>2. ASSUME NEW m \in 1 .. n, m - 1 \in G PROVE m \in G
  <2>1. PICK f \in [0 .. m - 1 -> A] : f[0] = first /\ \A i \in 1 .. m - 1 : f[i] = step[<<f[i - 1], i>>]
    BY <1>2
  <2> DEFINE g == [i \in 0 .. m |-> IF i < m THEN f[i] ELSE step[<<f[m - 1], m>>]]
  <2>2. m - 1 \in 0 .. m - 1 /\ step[<<f[m - 1], m>>] \in A
    BY <2>1
  <2>3. g \in [0 .. m -> A]
    BY <2>2
  <2>4. \A i \in 0 .. m - 1 : g[i] = f[i]
    <3>1. \A i \in 0 .. m - 1 : i \in 0 .. m /\ i < m
      OBVIOUS
    <3>2. QED
      BY <3>1
  <2>5. g[m] = step[<<f[m - 1], m>>]
    OBVIOUS
  <2> HIDE DEF g
  <2>6. g[0] = first
    BY <2>1, <2>2, <2>4
  <2>7. \A i \in 1 .. m : g[i] = step[<<g[i - 1], i>>]
    <3> SUFFICES ASSUME NEW i \in 1 .. m PROVE g[i] = step[<<g[i - 1], i>>]
      OBVIOUS
    <3>1. CASE i = m
      BY <2>2, <2>4, <2>5, <3>1
    <3>2. CASE i # m
      <4>1. i \in 1 .. m - 1 /\ i \in 0 .. m - 1 /\ i - 1 \in 0 .. m - 1
        BY <3>2
      <4>2. QED
        BY <2>1, <2>4, <4>1
    <3>3. QED
      BY <3>1, <3>2
  <2>8. QED
    BY <2>3, <2>6, <2>7
<1> HIDE DEF G
<1>3. n \in G
  BY <1>1, <1>2, UpTo
<1>4. QED
  BY <1>3 DEF G, Repeats

-----------------------------------------------------------------------------
(* What a part adds. *)
LEMMA PartAdds ==
    ASSUME NEW part \in Parts, NEW folded \in Responses
    PROVE  /\ AddPart(folded, part) \in Responses
           /\ part.kind = "text" =>
                  AddPart(folded, part) = [text |-> Append(folded.text, part.text), calls |-> folded.calls]
           /\ part.kind = "call" =>
                  /\ ToCall(part) \in Calls
                  /\ AddPart(folded, part) = [text |-> folded.text, calls |-> Append(folded.calls, ToCall(part))]
           /\ part.kind \in {"text", "call"}
<1>1. folded.text \in Seq(Texts) /\ folded.calls \in Seq(Calls)
      /\ folded = [text |-> folded.text, calls |-> folded.calls]
  BY DEF Responses
<1>2. CASE part \in [kind : {"text"}, text : STRING]
  <2>1. part.kind = "text" /\ part.text \in Texts
    BY <1>2 DEF Texts
  <2>2. Append(folded.text, part.text) \in Seq(Texts)
    BY <1>1, <2>1
  <2>3. AddPart(folded, part) = [text |-> Append(folded.text, part.text), calls |-> folded.calls]
    BY <1>1, <2>1 DEF AddPart
  <2>4. AddPart(folded, part) \in Responses
    BY <1>1, <2>2, <2>3 DEF Responses
  <2>5. QED
    BY <2>1, <2>3, <2>4
<1>3. CASE part \notin [kind : {"text"}, text : STRING]
  <2>1. /\ part.kind = "call" /\ part.id \in STRING /\ part.name \in STRING
        /\ part.args \in {"object", "blank", "null", "cut"} /\ part.signature \in {"none", "bytes"}
    BY <1>3 DEF Parts
  <2>2. ToCall(part) \in Calls
    BY <2>1 DEF ToCall, Parsed, Calls
  <2>3. Append(folded.calls, ToCall(part)) \in Seq(Calls)
    BY <1>1, <2>2
  <2>4. AddPart(folded, part) = [text |-> folded.text, calls |-> Append(folded.calls, ToCall(part))]
    BY <1>1, <2>1 DEF AddPart
  <2>5. AddPart(folded, part) \in Responses
    BY <1>1, <2>3, <2>4 DEF Responses
  <2>6. QED
    BY <2>1, <2>2, <2>4, <2>5
<1>4. QED
  BY <1>2, <1>3

(* The fold goes part by part. *)
LEMMA FoldGoesOn ==
    ASSUME NEW parts \in Seq(Parts)
    PROVE  /\ Folded(parts)[0] = Nothing
           /\ \A n \in 1 .. Len(parts) : Folded(parts)[n] = AddPart(Folded(parts)[n - 1], parts[n])
           /\ \A n \in 0 .. Len(parts) : Folded(parts)[n] \in Responses
<1> DEFINE N == Len(parts)
           step == [x \in Responses \X (1 .. N) |-> AddPart(x[1], parts[x[2]])]
           Is(h) == h = [n \in 0 .. N |-> IF n = 0 THEN Nothing ELSE AddPart(h[n - 1], parts[n])]
           folded == CHOOSE h : Is(h)
<1>1. N \in Nat /\ Nothing \in Responses /\ \A i \in 1 .. N : parts[i] \in Parts
  BY DEF Nothing, Responses
<1>2. step \in [Responses \X (1 .. N) -> Responses]
  BY <1>1, PartAdds
<1>3. \A r \in Responses, i \in 1 .. N : step[<<r, i>>] = AddPart(r, parts[i])
  OBVIOUS
<1> HIDE DEF step, N
<1>4. PICK f \in [0 .. N -> Responses] :
          f[0] = Nothing /\ \A i \in 1 .. N : f[i] = step[<<f[i - 1], i>>]
  <2>1. \E f : Repeats(f, Responses, N, Nothing, step)
    BY <1>1, <1>2, Recursion
  <2>2. QED
    BY <2>1 DEF Repeats
<1>5. Is(f)
  <2>1. \A i \in 1 .. N : i - 1 \in 0 .. N
    BY <1>1
  <2>2. \A i \in 1 .. N : f[i] = AddPart(f[i - 1], parts[i])
    BY <1>3, <1>4, <2>1
  <2>3. \A i \in 0 .. N : i = 0 \/ i \in 1 .. N
    BY <1>1
  <2>4. \A i \in 0 .. N : f[i] = IF i = 0 THEN Nothing ELSE AddPart(f[i - 1], parts[i])
    BY <1>4, <2>2, <2>3
  <2>5. QED
    BY <1>4, <2>4
<1>6. Is(folded)
  BY <1>5
<1>7. Folded(parts) = folded
  BY DEF Folded, N
<1> HIDE DEF folded
<1>8. folded[0] = Nothing /\ \A i \in 1 .. N : folded[i] = AddPart(folded[i - 1], parts[i])
  <2>1. 0 \in 0 .. N /\ \A i \in 1 .. N : i \in 0 .. N /\ i # 0
    BY <1>1
  <2>2. \A i \in 0 .. N : folded[i] = IF i = 0 THEN Nothing ELSE AddPart(folded[i - 1], parts[i])
    BY <1>6
  <2>3. QED
    BY <2>1, <2>2
<1> HIDE DEF Is
<1>9. \A i \in 0 .. N : folded[i] \in Responses
  <2> DEFINE G == {i \in 0 .. N : folded[i] \in Responses}
  <2>1. 0 \in G
    BY <1>1, <1>8
  <2>2. \A i \in 1 .. N : i - 1 \in G => i \in G
    BY <1>1, <1>8, PartAdds
  <2> HIDE DEF G
  <2>3. 0 .. N \subseteq G
    BY <1>1, <2>1, <2>2, UpTo
  <2>4. QED
    BY <2>3 DEF G
<1>10. QED
  BY <1>7, <1>8, <1>9 DEF N

(* One more part, as far as the calls among the parts go. *)
MoreCalls(found, part) == IF part.kind = "call" THEN Append(found, part) ELSE found

(* So do the calls among the parts. *)
LEMMA CallsGoOn ==
    ASSUME NEW parts \in Seq(Parts)
    PROVE  /\ CallParts(parts)[0] = <<>>
           /\ \A n \in 1 .. Len(parts) : CallParts(parts)[n] = MoreCalls(CallParts(parts)[n - 1], parts[n])
           /\ \A n \in 0 .. Len(parts) : CallParts(parts)[n] \in Seq(Parts)
<1> DEFINE N == Len(parts)
           step == [x \in Seq(Parts) \X (1 .. N) |-> MoreCalls(x[1], parts[x[2]])]
           Is(h) == h = [n \in 0 .. N |-> IF n = 0 THEN <<>> ELSE MoreCalls(h[n - 1], parts[n])]
           found == CHOOSE h : Is(h)
<1>1. N \in Nat /\ <<>> \in Seq(Parts) /\ \A i \in 1 .. N : parts[i] \in Parts
  OBVIOUS
<1> DEFINE none == <<>>
<1>0. none \in Seq(Parts) /\ \A s \in Seq(Parts), i \in 1 .. N : MoreCalls(s, parts[i]) \in Seq(Parts)
  BY <1>1 DEF MoreCalls
<1>2. step \in [Seq(Parts) \X (1 .. N) -> Seq(Parts)]
  BY <1>1 DEF MoreCalls
<1>3. \A s \in Seq(Parts), i \in 1 .. N : step[<<s, i>>] = MoreCalls(s, parts[i])
  OBVIOUS
<1> HIDE DEF step, N
<1>4. PICK f \in [0 .. N -> Seq(Parts)] :
          f[0] = <<>> /\ \A i \in 1 .. N : f[i] = step[<<f[i - 1], i>>]
  <2>1. \E f : Repeats(f, Seq(Parts), N, <<>>, step)
    BY <1>1, <1>2, Recursion
  <2>2. QED
    BY <2>1 DEF Repeats
<1>5. Is(f)
  <2>1. \A i \in 1 .. N : i - 1 \in 0 .. N
    BY <1>1
  <2>2. \A i \in 1 .. N : f[i] = MoreCalls(f[i - 1], parts[i])
    BY <1>3, <1>4, <2>1
  <2>3. \A i \in 0 .. N : i = 0 \/ i \in 1 .. N
    BY <1>1
  <2>4. \A i \in 0 .. N : f[i] = IF i = 0 THEN <<>> ELSE MoreCalls(f[i - 1], parts[i])
    BY <1>4, <2>2, <2>3
  <2>5. QED
    BY <1>4, <2>4
<1>6. Is(found)
  BY <1>5
<1>7. CallParts(parts) = found
  BY DEF CallParts, MoreCalls, N
<1> HIDE DEF found
<1>8. found[0] = <<>> /\ \A i \in 1 .. N : found[i] = MoreCalls(found[i - 1], parts[i])
  <2>1. 0 \in 0 .. N /\ \A i \in 1 .. N : i \in 0 .. N /\ i # 0
    BY <1>1
  <2>2. \A i \in 0 .. N : found[i] = IF i = 0 THEN <<>> ELSE MoreCalls(found[i - 1], parts[i])
    BY <1>6
  <2>3. QED
    BY <2>1, <2>2
<1> HIDE DEF Is
<1>9. \A i \in 0 .. N : found[i] \in Seq(Parts)
  <2> DEFINE A == Seq(Parts)
             G == {i \in 0 .. N : found[i] \in A}
  <2>0. /\ none \in A /\ \A s \in A, i \in 1 .. N : MoreCalls(s, parts[i]) \in A
        /\ found[0] = none
    BY <1>0, <1>8
  <2> HIDE DEF A, none
  <2>1. 0 \in G
    BY <1>1, <2>0
  <2>2. \A i \in 1 .. N : i - 1 \in G => i \in G
    BY <1>1, <1>8, <2>0
  <2> HIDE DEF G
  <2>3. 0 .. N \subseteq G
    BY <1>1, <2>1, <2>2, UpTo
  <2>4. QED
    BY <2>3 DEF A, G
<1>10. QED
  BY <1>7, <1>8, <1>9 DEF N

(* The calls of the fold are those that came, in their order. *)
LEMMA CallsAreFolded ==
    ASSUME NEW parts \in Seq(Parts), NEW n \in 0 .. Len(parts)
    PROVE  LET calls == Folded(parts)[n].calls
               found == CallParts(parts)[n]
           IN  /\ Len(calls) = Len(found) /\ found \in Seq(Parts)
               /\ \A k \in 1 .. Len(found) : found[k].kind = "call" /\ calls[k] = ToCall(found[k])
<1> DEFINE N == Len(parts)
           calls(m) == Folded(parts)[m].calls
           found(m) == CallParts(parts)[m]
           Alike(m) == /\ Len(calls(m)) = Len(found(m))
                       /\ \A k \in 1 .. Len(found(m)) :
                              found(m)[k].kind = "call" /\ calls(m)[k] = ToCall(found(m)[k])
           G == {m \in 0 .. N : Alike(m)}
<1>1. N \in Nat /\ \A i \in 1 .. N : parts[i] \in Parts /\ i - 1 \in 0 .. N /\ i \in 0 .. N
  OBVIOUS
<1>2. \A m \in 0 .. N : found(m) \in Seq(Parts) /\ Folded(parts)[m] \in Responses
                        /\ calls(m) \in Seq(Calls)
  BY FoldGoesOn, CallsGoOn DEF Responses
<1>3. 0 \in G
  <2>1. calls(0) = <<>> /\ found(0) = <<>>
    BY FoldGoesOn, CallsGoOn DEF Nothing
  <2>2. QED
    BY <1>1, <2>1
<1>4. ASSUME NEW m \in 1 .. N, Alike(m - 1) PROVE Alike(m)
  <2>1. /\ Folded(parts)[m] = AddPart(Folded(parts)[m - 1], parts[m])
        /\ found(m) = MoreCalls(found(m - 1), parts[m])
        /\ parts[m] \in Parts /\ Folded(parts)[m - 1] \in Responses
        /\ found(m - 1) \in Seq(Parts) /\ calls(m - 1) \in Seq(Calls)
    BY <1>1, <1>2, FoldGoesOn, CallsGoOn
  <2>2. CASE parts[m].kind = "text"
    <3>1. calls(m) = calls(m - 1) /\ found(m) = found(m - 1)
      BY <2>1, <2>2, PartAdds DEF MoreCalls
    <3>2. QED
      BY <1>4, <3>1
  <2>3. CASE parts[m].kind = "call"
    <3>0. /\ ToCall(parts[m]) \in Calls
          /\ AddPart(Folded(parts)[m - 1], parts[m])
                 = [text |-> Folded(parts)[m - 1].text,
                    calls |-> Append(calls(m - 1), ToCall(parts[m]))]
      BY <2>1, <2>3, PartAdds
    <3>1. /\ calls(m) = Append(calls(m - 1), ToCall(parts[m])) /\ ToCall(parts[m]) \in Calls
          /\ found(m) = Append(found(m - 1), parts[m])
      BY <2>1, <2>3, <3>0 DEF MoreCalls
    <3> HIDE DEF calls, found
    <3>2. Len(calls(m)) = Len(found(m))
      <4>1. Len(calls(m - 1)) = Len(found(m - 1))
        BY <1>4
      <4>2. QED
        BY <2>1, <3>1, <4>1
    <3>3. ASSUME NEW k \in 1 .. Len(found(m))
          PROVE  found(m)[k].kind = "call" /\ calls(m)[k] = ToCall(found(m)[k])
      <4>1. Len(found(m)) = Len(found(m - 1)) + 1 /\ Len(calls(m - 1)) = Len(found(m - 1))
        BY <1>4, <2>1, <3>1
      <4>2. CASE k = Len(found(m))
        <5>1. found(m)[k] = parts[m] /\ calls(m)[k] = ToCall(parts[m])
          BY <2>1, <3>1, <4>1, <4>2
        <5>2. QED
          BY <2>3, <5>1
      <4>3. CASE k # Len(found(m))
        <5>1. k \in 1 .. Len(found(m - 1))
          BY <2>1, <4>1, <4>3
        <5>2. found(m)[k] = found(m - 1)[k] /\ calls(m)[k] = calls(m - 1)[k]
          <6>1. \A i \in 1 .. Len(found(m - 1)) : Append(found(m - 1), parts[m])[i] = found(m - 1)[i]
            BY <2>1
          <6>2. \A i \in 1 .. Len(calls(m - 1)) :
                    Append(calls(m - 1), ToCall(parts[m]))[i] = calls(m - 1)[i]
            BY <2>1
          <6>3. QED
            BY <3>1, <4>1, <5>1, <6>1, <6>2
        <5>3. QED
          BY <1>4, <5>1, <5>2
      <4>4. QED
        BY <4>2, <4>3
    <3>4. QED
      BY <3>2, <3>3
  <2>4. QED
    BY <2>1, <2>2, <2>3, PartAdds
<1>5. n \in G
  <2>1. \A m \in 1 .. N : m - 1 \in G => m \in G
    <3> HIDE DEF Alike
    <3>1. QED
      BY <1>1, <1>4
  <2> HIDE DEF G
  <2>2. 0 .. N \subseteq G
    BY <1>1, <1>3, <2>1, UpTo
  <2>3. QED
    BY <2>2
<1>6. Alike(n) /\ found(n) \in Seq(Parts)
  BY <1>2, <1>5
<1>7. QED
  BY <1>6

-----------------------------------------------------------------------------
(* Whose key pays. *)

Places == {"idle", "preset", "own", "global", "env", "load",
           "request", "stream", "answered", "save"}

(* Whoever has come past their own key has none; whoever has kept it uses it. *)
KeyInv ==
    /\ at \in Places
    /\ held => "own" \in keys
    /\ at = "preset" => preset # "none"
    /\ at \in {"global", "env"} => ~held
    /\ at = "load" => preset # "none" \/ credential = "own" \/ ~held

LEMMA KeyInit == Init => KeyInv
  BY DEF Init, KeyInv, Places

LEMMA KeyStep == KeyInv /\ [Next]_vars => KeyInv'
<1> SUFFICES ASSUME KeyInv, [Next]_vars PROVE KeyInv'
  OBVIOUS
<1> USE DEF KeyInv, Places
<1>1. CASE EditKeys
  BY <1>1 DEF EditKeys
<1>2. CASE ResolvePreset
  BY <1>2 DEF ResolvePreset, Use, Refuse
<1>3. CASE FindForUser
  BY <1>3 DEF FindForUser, Use, Refuse
<1>4. CASE FindGlobal
  BY <1>4 DEF FindGlobal, Use, Refuse
<1>5. CASE FindInEnv
  BY <1>5 DEF FindInEnv, Use, Refuse
<1>6. ASSUME NEW p \in Providers, NEW named \in Presets \cup {"none"}, Begin(p, named)
      PROVE  KeyInv'
  BY <1>6 DEF Begin
<1>7. CASE LoadHistory
  BY <1>7 DEF LoadHistory
<1>8. CASE Send
  BY <1>8 DEF Send, access
<1>9. CASE ReceiveBlank
  BY <1>9 DEF ReceiveBlank, access
<1>10. CASE EndStream
  BY <1>10 DEF EndStream, access
<1>11. CASE ProviderError
  BY <1>11 DEF ProviderError, access
<1>12. ASSUME NEW i \in DOMAIN reply, Receive(i) PROVE KeyInv'
  BY <1>12 DEF Receive, access
<1>13. CASE FinalAnswer
  BY <1>13 DEF FinalAnswer, access
<1>14. CASE RunTools
  BY <1>14 DEF RunTools, access
<1>15. CASE Save
  BY <1>15 DEF Save, access
<1>16. CASE UNCHANGED vars
  BY <1>16 DEF vars, access
<1>17. QED
  BY <1>1, <1>2, <1>3, <1>4, <1>5, <1>6, <1>7, <1>8, <1>9, <1>10, <1>11, <1>12, <1>13, <1>14,
     <1>15, <1>16 DEF Next

(* The key of the caller comes first, whatever keys are set and deleted    *)
(* while it is looked for and whichever of them cannot be read.            *)
THEOREM OwnKeyAlwaysFirst == Spec => []OwnKeyFirst
<1>1. KeyInv => OwnKeyFirst
  BY DEF KeyInv, OwnKeyFirst
<1>2. QED
  BY <1>1, KeyInit, KeyStep, PTL DEF Spec

-----------------------------------------------------------------------------
(* The types. *)

TypeInv ==
    /\ at \in Places /\ provider \in Providers /\ iteration \in Nat /\ start \in Nat
    /\ rows \in Seq(Messages) /\ messages \in Seq(Messages) /\ memory \in Seq(Messages)
    /\ reply \in Seq(Parts) /\ got \in [DOMAIN reply -> Nat]
    /\ response \in Responses /\ shown \in Seq(Texts)

(* The messages a turn adds are messages, and what is stored of one is one. *)
LEMMA MessageShapes ==
    /\ UserMessage \in Messages /\ Note \in Messages
    /\ \A r \in Responses :
           /\ Message("assistant", r.text, <<>>, <<>>) \in Messages
           /\ Message("assistant", <<>>, r.calls, <<>>) \in Messages
    /\ \A c \in Calls, o \in Outcomes : Result(c, o) \in Results
    /\ \A x \in Results : Message("tool", <<>>, <<>>, <<x>>) \in Messages
<1> DEFINE none == <<>>
<1>1. none \in Seq(Calls) /\ none \in Seq(Results) /\ none \in Seq(Texts)
  OBVIOUS
<1>2. \A x \in Texts : <<x>> \in Seq(Texts)
  OBVIOUS
<1>3. \A role \in {"user", "assistant", "tool"}, text \in Seq(Texts), calls \in Seq(Calls), results \in Seq(Results) :
          Message(role, text, calls, results) \in Messages
  BY DEF Message, Messages
<1>4. /\ UserMessage = Message("user", <<"prompt">>, none, none)
      /\ Note = Message("assistant", <<"note">>, none, none)
  BY DEF UserMessage, Note
<1>9. "prompt" \in Texts /\ "note" \in Texts
  BY DEF Texts
<1>5. \A c \in Calls, o \in Outcomes : Result(c, o) \in Results
  BY DEF Calls, Outcomes, Result, Results
<1>6. \A x \in Results : <<x>> \in Seq(Results)
  OBVIOUS
<1> HIDE DEF none
<1>7. \A x \in Results : Message("tool", none, none, <<x>>) \in Messages
  BY <1>1, <1>3, <1>6, <1>9
<1>8. \A r \in Responses : /\ Message("assistant", r.text, none, none) \in Messages
                           /\ Message("assistant", none, r.calls, none) \in Messages
  BY <1>1, <1>3, <1>9 DEF Responses
<1>10. UserMessage \in Messages /\ Note \in Messages
  <2>1. <<"prompt">> \in Seq(Texts) /\ <<"note">> \in Seq(Texts)
    BY <1>2, <1>9
  <2>2. QED
    BY <1>1, <1>3, <1>4, <1>9, <2>1
<1>11. QED
  BY <1>5, <1>7, <1>8, <1>10 DEF none

LEMMA StoredShape ==
    ASSUME NEW m \in Messages
    PROVE  /\ Stored(m) \in Messages
           /\ Stored(m).role = m.role /\ Stored(m).text = m.text
           /\ Stored(m).calls = [k \in DOMAIN m.calls |-> EncodeCall(m.calls[k])]
           /\ Stored(m).results = [k \in DOMAIN m.results |-> EncodeResult(m.results[k])]
           /\ DOMAIN m.calls = 1 .. Len(m.calls) /\ DOMAIN m.results = 1 .. Len(m.results)
           /\ Len(m.calls) \in Nat /\ Len(m.results) \in Nat
           /\ \A k \in DOMAIN m.calls : m.calls[k] \in Calls
           /\ \A k \in DOMAIN m.results : m.results[k] \in Results
<1>1. m.role \in {"user", "assistant", "tool"} /\ m.text \in Seq(Texts) /\ m.calls \in Seq(Calls) /\ m.results \in Seq(Results)
      /\ m = [role |-> m.role, text |-> m.text, calls |-> m.calls, results |-> m.results]
  BY DEF Messages
<1> DEFINE calls == [k \in DOMAIN m.calls |-> EncodeCall(m.calls[k])]
           results == [k \in DOMAIN m.results |-> EncodeResult(m.results[k])]
<1>2. Stored(m) = [role |-> m.role, text |-> m.text, calls |-> calls, results |-> results]
  <2>1. Stored(m) = [m EXCEPT !.calls = calls, !.results = results]
    BY DEF Stored
  <2> HIDE DEF calls, results
  <2>2. QED
    BY <1>1, <2>1
<1>3. \A c \in Calls : EncodeCall(c) \in Calls
  BY DEF EncodeCall, Calls
<1>4. \A r \in Results : EncodeResult(r) \in Results
  BY DEF EncodeResult, Results
<1>5. /\ DOMAIN m.calls = 1 .. Len(m.calls) /\ DOMAIN m.results = 1 .. Len(m.results)
      /\ Len(m.calls) \in Nat /\ Len(m.results) \in Nat
      /\ \A k \in DOMAIN m.calls : m.calls[k] \in Calls
      /\ \A k \in DOMAIN m.results : m.results[k] \in Results
  BY <1>1
<1>6. calls \in Seq(Calls)
  BY <1>3, <1>5
<1>7. results \in Seq(Results)
  BY <1>4, <1>5
<1> HIDE DEF calls, results
<1>8. Stored(m) \in Messages
  BY <1>1, <1>2, <1>6, <1>7 DEF Messages
<1>9. QED
  BY <1>2, <1>5, <1>8 DEF calls, results

LEMMA TypeInit == Init => TypeInv
<1> SUFFICES ASSUME Init PROVE TypeInv
  OBVIOUS
<1>1. rows = <<>> /\ messages = <<>> /\ memory = <<>> /\ reply = <<>> /\ shown = <<>> /\ got = <<>>
  BY DEF Init
<1>2. rows \in Seq(Messages) /\ messages \in Seq(Messages) /\ memory \in Seq(Messages)
      /\ reply \in Seq(Parts) /\ shown \in Seq(Texts)
  BY <1>1
<1>3. got \in [DOMAIN reply -> Nat]
  BY <1>1
<1>4. response \in Responses
  BY DEF Init, Nothing, Responses
<1>5. QED
  BY <1>2, <1>3, <1>4 DEF Init, TypeInv, Places

(* A function on the numbers from 1 to n is a sequence, also when n is below 0. *)
LEMMA IsSequence ==
    ASSUME NEW S, NEW n \in Int, NEW f \in [1 .. n -> S]
    PROVE  f \in Seq(S)
<1>1. CASE n \in Nat
  BY <1>1
<1>2. CASE n \notin Nat
  <2>1. 1 .. n = 1 .. 0
    BY <1>2
  <2>2. QED
    BY <2>1
<1>3. QED
  BY <1>1, <1>2

(* What the calls of a reply leave behind in the history. *)
LEMMA ToolsAnswer ==
    ASSUME TypeInv, RunTools
    PROVE  LET n == Len(response.calls)
               L == Len(messages)
           IN  /\ n \in Nat /\ L \in Nat /\ messages' \in Seq(Messages)
               /\ \A i \in 1 .. L : messages'[i] = messages[i]
               /\ Len(messages') >= L
               /\ at' = "request" =>
                      /\ Len(messages') = L + 1 + n
                      /\ messages'[L + 1].calls = response.calls
                      /\ \A k \in 1 .. n : \E o \in Outcomes :
                             messages'[L + 1 + k].results[1] = Result(response.calls[k], o)
<1> DEFINE n == Len(response.calls)
           L == Len(messages)
           asked == Message("assistant", <<>>, response.calls, <<>>)
<1>1. /\ response.calls \in Seq(Calls) /\ n \in Nat /\ L \in Nat /\ messages \in Seq(Messages)
      /\ DOMAIN response.calls = 1 .. n /\ \A k \in 1 .. n : response.calls[k] \in Calls
  BY DEF TypeInv, Responses
<1>2. PICK outcome \in [DOMAIN response.calls -> Outcomes] :
          messages' = LET results == [k \in DOMAIN outcome |->
                            Message("tool", <<>>, <<>>, <<Result(response.calls[k], outcome[k])>>)]
                          more == messages \o <<asked>> \o results
                      IN  IF iteration' = MaxToolIterations THEN Append(more, Note) ELSE more
  BY DEF RunTools
<1> DEFINE answer(k) == Message("tool", <<>>, <<>>, <<Result(response.calls[k], outcome[k])>>)
           results == [k \in 1 .. n |-> answer(k)]
           spoken == messages \o <<asked>>
           more == spoken \o results
<1>3. messages' = IF iteration' = MaxToolIterations THEN Append(more, Note) ELSE more
  BY <1>1, <1>2
<1>4. asked \in Messages /\ asked.calls = response.calls
  BY MessageShapes DEF TypeInv, Message
<1>5. \A k \in 1 .. n : /\ answer(k) \in Messages
                        /\ answer(k).results[1] = Result(response.calls[k], outcome[k])
                        /\ outcome[k] \in Outcomes
  BY <1>1, MessageShapes DEF Message
<1>6. results \in Seq(Messages) /\ Len(results) = n /\ \A k \in 1 .. n : results[k] = answer(k)
  BY <1>1, <1>5
<1> HIDE DEF answer, results, asked, n, L
<1>7. /\ spoken \in Seq(Messages) /\ Len(spoken) = L + 1 /\ spoken[L + 1] = asked
      /\ \A i \in 1 .. L : spoken[i] = messages[i]
  BY <1>1, <1>4 DEF L
<1> HIDE DEF spoken
<1>8. /\ more \in Seq(Messages) /\ Len(more) = L + 1 + n
      /\ \A i \in 1 .. L + 1 : more[i] = spoken[i]
      /\ \A k \in 1 .. n : more[L + 1 + k] = results[k]
  <2>1. \A a, b \in Seq(Messages) :
            /\ a \o b \in Seq(Messages) /\ Len(a \o b) = Len(a) + Len(b)
            /\ \A i \in 1 .. Len(a) : (a \o b)[i] = a[i]
            /\ \A i \in 1 .. Len(b) : (a \o b)[Len(a) + i] = b[i]
    OBVIOUS
  <2>2. /\ spoken \o results \in Seq(Messages)
        /\ Len(spoken \o results) = Len(spoken) + Len(results)
        /\ \A i \in 1 .. Len(spoken) : (spoken \o results)[i] = spoken[i]
        /\ \A i \in 1 .. Len(results) : (spoken \o results)[Len(spoken) + i] = results[i]
    BY <1>6, <1>7, <2>1
  <2>3. Len(spoken) = L + 1 /\ Len(results) = n
    BY <1>6, <1>7
  <2>4. /\ \A i \in 1 .. L + 1 : (spoken \o results)[i] = spoken[i]
        /\ \A i \in 1 .. n : (spoken \o results)[L + 1 + i] = results[i]
        /\ Len(spoken \o results) = L + 1 + n
    BY <2>2, <2>3
  <2>5. QED
    BY <2>2, <2>4
<1> HIDE DEF more
<1>9. \A i \in 1 .. L : i \in 1 .. L + 1
  BY <1>1
<1>10. messages' \in Seq(Messages) /\ Len(messages') >= L
       /\ \A i \in 1 .. L : messages'[i] = messages[i]
  <2>1. CASE messages' = more
    BY <1>1, <1>7, <1>8, <1>9, <2>1
  <2>2. CASE messages' = Append(more, Note)
    <3>1. \A i \in 1 .. L : i \in 1 .. Len(more)
      BY <1>1, <1>8
    <3>2. \A i \in 1 .. Len(more) : messages'[i] = more[i]
      BY <1>8, <2>2, MessageShapes
    <3>3. messages' \in Seq(Messages) /\ Len(messages') = L + 1 + n + 1
      BY <1>8, <2>2, MessageShapes
    <3>4. QED
      BY <1>1, <1>7, <1>8, <1>9, <3>1, <3>2, <3>3
  <2>3. QED
    BY <1>3, <2>1, <2>2
<1>11. ASSUME at' = "request"
       PROVE  /\ Len(messages') = L + 1 + n
              /\ messages'[L + 1].calls = response.calls
              /\ \A k \in 1 .. n : \E o \in Outcomes :
                     messages'[L + 1 + k].results[1] = Result(response.calls[k], o)
  <2>1. messages' = more
    BY <1>3, <1>11 DEF RunTools
  <2>2. messages'[L + 1] = asked
    BY <1>1, <1>7, <1>8, <2>1
  <2>3. QED
    BY <1>4, <1>5, <1>6, <1>8, <2>1, <2>2
<1>12. QED
  BY <1>1, <1>10, <1>11 DEF n, L

LEMMA TypeStep == KeyInv /\ TypeInv /\ [Next]_vars => TypeInv'
<1> SUFFICES ASSUME KeyInv, TypeInv, [Next]_vars PROVE TypeInv'
  OBVIOUS
<1>0. at' \in Places
  BY KeyStep DEF KeyInv
<1>1. ASSUME UNCHANGED <<where, talk, stream, iteration>> PROVE TypeInv'
  BY <1>0, <1>1 DEF TypeInv, where, talk, stream
<1>2. CASE EditKeys \/ ResolvePreset \/ FindForUser \/ FindGlobal \/ FindInEnv
  BY <1>1, <1>2 DEF EditKeys, ResolvePreset, FindForUser, FindGlobal, FindInEnv
<1>3. ASSUME NEW p \in Providers, NEW named \in Presets \cup {"none"}, Begin(p, named)
      PROVE  TypeInv'
  BY <1>0, <1>3 DEF Begin, TypeInv, talk, stream
<1>4. CASE LoadHistory
  <2>1. messages' \in Seq(Messages) /\ start' \in Nat
    BY <1>4, MessageShapes DEF LoadHistory, TypeInv
  <2>2. QED
    BY <1>0, <1>4, <2>1 DEF LoadHistory, TypeInv, where, stream
<1>5. CASE Send
  <2>1. reply' \in Seq(Parts)
    BY <1>5, ReplyAssumption DEF Send, TypeInv
  <2>2. got' \in [DOMAIN reply' -> Nat]
    BY <1>5 DEF Send
  <2>3. response' \in Responses /\ shown' \in Seq(Texts)
    BY <1>5 DEF Send, Nothing, Responses
  <2>4. QED
    BY <1>0, <1>5, <2>1, <2>2, <2>3 DEF Send, TypeInv, where, talk
<1>6. CASE ReceiveBlank
  BY <1>0, <1>6 DEF ReceiveBlank, TypeInv, where, talk
<1>7. CASE EndStream
  <2>1. ChatAnswer(reply) \in Responses
    BY FoldGoesOn DEF TypeInv, ChatAnswer
  <2>2. QED
    BY <1>0, <1>7, <2>1 DEF EndStream, TypeInv, where, talk
<1>8. CASE ProviderError
  BY <1>0, <1>8, MessageShapes DEF ProviderError, TypeInv, where, stream
<1>9. ASSUME NEW i \in DOMAIN reply, Receive(i) PROVE TypeInv'
  <2>1. reply[i] \in Parts
    BY DEF TypeInv
  <2>2. got' \in [DOMAIN reply -> Nat]
    BY <1>9 DEF Receive, TypeInv
  <2>3. AddPart(response, reply[i]) \in Responses
    BY <2>1, PartAdds DEF TypeInv
  <2>4. reply[i].kind = "text" => reply[i].text \in Texts
    BY <2>1 DEF Parts, Texts
  <2>5. shown' \in Seq(Texts)
    BY <1>9, <2>4 DEF Receive, TypeInv
  <2>6. QED
    BY <1>0, <1>9, <2>2, <2>3, <2>5 DEF Receive, TypeInv, where, talk
<1>10. CASE FinalAnswer
  BY <1>0, <1>10, MessageShapes DEF FinalAnswer, TypeInv, where, stream
<1>11. CASE RunTools
  <2>1. messages' \in Seq(Messages)
    BY <1>11, ToolsAnswer
  <2>2. QED
    BY <1>0, <1>11, <2>1 DEF RunTools, TypeInv, where, stream
<1>12. CASE Save
  <2>1. rows' \in Seq(Messages) /\ memory' \in Seq(Messages)
    <3>1. CASE UNCHANGED <<rows, memory>>
      BY <3>1 DEF TypeInv
    <3>2. CASE /\ rows' = rows \o [i \in 1 .. Len(messages) - start |-> Stored(messages[start + i])]
               /\ memory' = messages
      <4> DEFINE more == [i \in 1 .. Len(messages) - start |-> Stored(messages[start + i])]
      <4>1. /\ messages \in Seq(Messages) /\ rows \in Seq(Messages) /\ start \in Nat
            /\ Len(messages) \in Nat
        BY DEF TypeInv
      <4>2. \A i \in 1 .. Len(messages) - start : Stored(messages[start + i]) \in Messages
        <5>1. \A i \in 1 .. Len(messages) - start : messages[start + i] \in Messages
          BY <4>1
        <5>2. QED
          BY <5>1, StoredShape
      <4>3. more \in Seq(Messages)
        <5> DEFINE d == Len(messages) - start
        <5>1. d \in Int
          BY <4>1
        <5>2. more \in [1 .. d -> Messages]
          BY <4>2
        <5> HIDE DEF more, d
        <5>3. QED
          BY <5>1, <5>2, IsSequence
      <4>4. rows' = rows \o more /\ memory' = messages
        BY <3>2
      <4> HIDE DEF more
      <4>5. QED
        BY <4>1, <4>3, <4>4
    <3>3. QED
      BY <1>12, <3>1, <3>2 DEF Save
  <2>2. /\ messages' \in Seq(Messages) /\ reply' \in Seq(Parts) /\ shown' \in Seq(Texts)
        /\ reply' = <<>> /\ got' = <<>>
    BY <1>12 DEF Save
  <2>3. got' \in [DOMAIN reply' -> Nat]
    BY <2>2
  <2>4. response' \in Responses /\ start' \in Nat /\ iteration' \in Nat
    BY <1>12 DEF Save, Nothing, Responses
  <2>5. QED
    BY <1>0, <1>12, <2>1, <2>2, <2>3, <2>4 DEF Save, TypeInv, where
<1>13. CASE UNCHANGED vars
  BY <1>1, <1>13 DEF vars
<1>14. QED
  BY <1>2, <1>3, <1>4, <1>5, <1>6, <1>7, <1>8, <1>9, <1>10, <1>11, <1>12, <1>13 DEF Next

-----------------------------------------------------------------------------
(* What is stored reads as what was said. *)

(* No signature that Gemini would be sent. *)
Faded(m) == \A k \in DOMAIN m.calls : m.calls[k].signature # "bytes"

(* To every provider the stored message says what the message in memory said. *)
SaysSame(row, m) ==
    Faded(row) /\ \A p \in Providers : Contents(p, row) = Contents(p, Unsigned(m))

SameInv ==
    /\ Len(rows) = Len(memory)
    /\ \A i \in 1 .. Len(rows) : SaysSame(rows[i], memory[i])
    /\ at \in {"request", "stream", "answered", "save"} =>
           /\ start = Len(rows) /\ start <= Len(messages)
           /\ \A i \in 1 .. start : messages[i] = rows[i]

(* A message without bytes reads the same when its signatures are left out. *)
LEMMA FadedReads ==
    ASSUME NEW m \in Messages, Faded(m), NEW p
    PROVE  Contents(p, m) = Contents(p, Unsigned(m))
<1> DEFINE bare == [k \in DOMAIN m.calls |-> [m.calls[k] EXCEPT !.signature = "none"]]
<1>1. m = [role |-> m.role, text |-> m.text, calls |-> m.calls, results |-> m.results]
      /\ DOMAIN m.calls = 1 .. Len(m.calls) /\ \A k \in DOMAIN m.calls : m.calls[k] \in Calls
  BY DEF Messages
<1>2. Unsigned(m) = [role |-> m.role, text |-> m.text, calls |-> bare, results |-> m.results]
  <2>1. Unsigned(m) = [m EXCEPT !.calls = bare]
    BY DEF Unsigned
  <2> HIDE DEF bare
  <2>2. QED
    BY <1>1, <2>1
<1>3. DOMAIN bare = DOMAIN m.calls
      /\ \A k \in DOMAIN m.calls : SentCall(p, m.calls[k]) = SentCall(p, bare[k])
  BY <1>1 DEF SentCall, Faded, Calls
<1> HIDE DEF bare
<1>4. [k \in DOMAIN m.calls |-> SentCall(p, m.calls[k])] = [k \in DOMAIN bare |-> SentCall(p, bare[k])]
  BY <1>3
<1>5. QED
  BY <1>2, <1>4 DEF Contents

(* A message that is stored loses what no request sends again. *)
LEMMA StoredReads ==
    ASSUME NEW m \in Messages
    PROVE  SaysSame(Stored(m), m)
<1> DEFINE bare == [k \in DOMAIN m.calls |-> [m.calls[k] EXCEPT !.signature = "none"]]
<1>1. /\ Stored(m).role = m.role /\ Stored(m).text = m.text
      /\ Stored(m).calls = [k \in DOMAIN m.calls |-> EncodeCall(m.calls[k])]
      /\ Stored(m).results = [k \in DOMAIN m.results |-> EncodeResult(m.results[k])]
      /\ \A k \in DOMAIN m.calls : m.calls[k] \in Calls
      /\ \A k \in DOMAIN m.results : m.results[k] \in Results
  BY StoredShape
<1>2. /\ Unsigned(m).role = m.role /\ Unsigned(m).text = m.text
      /\ Unsigned(m).calls = bare /\ Unsigned(m).results = m.results
  <2>1. Unsigned(m) = [m EXCEPT !.calls = bare]
    BY DEF Unsigned
  <2>2. m = [role |-> m.role, text |-> m.text, calls |-> m.calls, results |-> m.results]
    BY DEF Messages
  <2> HIDE DEF bare
  <2>3. QED
    BY <2>1, <2>2
<1>3. Faded(Stored(m))
  BY <1>1 DEF Faded, EncodeCall, Calls
<1>4. ASSUME NEW p \in Providers PROVE Contents(p, Stored(m)) = Contents(p, Unsigned(m))
  <2>1. [k \in DOMAIN Stored(m).calls |-> SentCall(p, Stored(m).calls[k])]
            = [k \in DOMAIN bare |-> SentCall(p, bare[k])]
    <3>1. \A c \in Calls : SentCall(p, EncodeCall(c)) = SentCall(p, [c EXCEPT !.signature = "none"])
      BY DEF SentCall, EncodeCall, Calls
    <3>2. \A k \in DOMAIN m.calls : SentCall(p, EncodeCall(m.calls[k])) = SentCall(p, bare[k])
      BY <1>1, <3>1
    <3>3. QED
      BY <1>1, <3>2
  <2>2. [k \in DOMAIN Stored(m).results |-> SentResult(p, Stored(m).results[k])]
            = [k \in DOMAIN m.results |-> SentResult(p, m.results[k])]
    <3>1. \A r \in Results : SentResult(p, EncodeResult(r)) = SentResult(p, r)
      BY DEF SentResult, EncodeResult, Results
    <3>2. QED
      BY <1>1, <3>1
  <2> HIDE DEF bare
  <2>3. QED
    BY <1>1, <1>2, <2>1, <2>2 DEF Contents
<1>5. QED
  BY <1>3, <1>4 DEF SaysSame

LEMMA SameInit == Init => SameInv
<1> SUFFICES ASSUME Init PROVE SameInv
  OBVIOUS
<1>1. rows = <<>> /\ memory = <<>> /\ at = "idle"
  BY DEF Init
<1>2. QED
  BY <1>1 DEF SameInv

(* A step that leaves the rows alone and only adds to the messages. *)
LEMMA SameGoesOn ==
    ASSUME TypeInv, SameInv, UNCHANGED <<rows, memory, start>>,
           at \in {"request", "stream", "answered"}, Len(messages') \in Nat,
           Len(messages') >= Len(messages),
           \A i \in 1 .. Len(messages) : messages'[i] = messages[i]
    PROVE  SameInv'
<1>1. start = Len(rows) /\ start <= Len(messages) /\ \A i \in 1 .. start : messages[i] = rows[i]
  BY DEF SameInv
<1>2. start \in Nat /\ Len(messages) \in Nat
  BY DEF TypeInv
<1>3. \A i \in 1 .. start : i \in 1 .. Len(messages)
  BY <1>1, <1>2
<1>4. QED
  BY <1>1, <1>2, <1>3 DEF SameInv

LEMMA SameStep == TypeInv /\ SameInv /\ [Next]_vars => SameInv'
<1> SUFFICES ASSUME TypeInv, SameInv, [Next]_vars PROVE SameInv'
  OBVIOUS
<1>0. /\ rows \in Seq(Messages) /\ messages \in Seq(Messages) /\ start \in Nat
      /\ Len(rows) \in Nat /\ Len(messages) \in Nat
  BY DEF TypeInv
<1>1. ASSUME UNCHANGED talk,
             at' \in {"idle", "preset", "own", "global", "env", "load"} \/
                 (at' \in {"stream", "answered"} /\ at \in {"request", "stream"}) \/ at' = at
      PROVE  SameInv'
  BY <1>1 DEF SameInv, talk
<1>2. CASE EditKeys
  BY <1>1, <1>2 DEF EditKeys
<1>3. CASE ResolvePreset \/ FindForUser \/ FindGlobal \/ FindInEnv
  <2>1. UNCHANGED talk /\ at' \in {"load", "idle", "global", "env"}
    BY <1>3 DEF ResolvePreset, FindForUser, FindGlobal, FindInEnv, Use, Refuse
  <2>2. QED
    BY <1>1, <2>1
<1>4. ASSUME NEW p \in Providers, NEW named \in Presets \cup {"none"}, Begin(p, named)
      PROVE  SameInv'
  BY <1>1, <1>4 DEF Begin
<1>5. CASE LoadHistory
  <2>1. /\ messages' = Append(rows, UserMessage) /\ start' = Len(rows)
        /\ rows' = rows /\ memory' = memory
    BY <1>5 DEF LoadHistory
  <2>2. Len(messages') = Len(rows) + 1 /\ \A i \in 1 .. Len(rows) : messages'[i] = rows[i]
    BY <1>0, <2>1
  <2>3. QED
    BY <1>0, <2>1, <2>2 DEF SameInv
<1>6. CASE Send
  BY <1>1, <1>6 DEF Send
<1>7. CASE ReceiveBlank
  BY <1>1, <1>7 DEF ReceiveBlank
<1>8. CASE EndStream
  BY <1>1, <1>8 DEF EndStream
<1>9. ASSUME NEW i \in DOMAIN reply, Receive(i) PROVE SameInv'
  BY <1>1, <1>9 DEF Receive
<1>10. ASSUME NEW m \in Messages, messages' = Append(messages, m), UNCHANGED <<rows, memory, start>>,
              at \in {"stream", "answered"}
       PROVE  SameInv'
  <2>1. /\ Len(messages') = Len(messages) + 1
        /\ \A i \in 1 .. Len(messages) : messages'[i] = messages[i]
    BY <1>0, <1>10
  <2>2. QED
    BY <1>0, <1>10, <2>1, SameGoesOn
<1>11. CASE ProviderError
  <2>1. Note \in Messages
    BY MessageShapes
  <2>2. at = "stream" /\ messages' = Append(messages, Note) /\ UNCHANGED <<rows, memory, start>>
    <3>1. memory' = memory
      BY <1>11 DEF ProviderError
    <3>2. QED
      BY <1>11, <3>1 DEF ProviderError
  <2>3. QED
    BY <1>10, <2>1, <2>2
<1>12. CASE FinalAnswer
  <2>1. Message("assistant", response.text, <<>>, <<>>) \in Messages
    BY MessageShapes DEF TypeInv
  <2>2. /\ at = "answered" /\ UNCHANGED <<rows, memory, start>>
        /\ messages' = Append(messages, Message("assistant", response.text, <<>>, <<>>))
    BY <1>12 DEF FinalAnswer
  <2>3. QED
    BY <1>10, <2>1, <2>2
<1>13. CASE RunTools
  <2>1. /\ messages' \in Seq(Messages) /\ Len(messages') >= Len(messages)
        /\ \A i \in 1 .. Len(messages) : messages'[i] = messages[i]
    BY <1>13, ToolsAnswer
  <2>2. at = "answered" /\ UNCHANGED <<rows, memory, start>> /\ Len(messages') \in Nat
    BY <1>13, <2>1 DEF RunTools
  <2>3. QED
    BY <2>1, <2>2, SameGoesOn
<1>14. CASE Save
  <2>1. at' = "idle" /\ at = "save"
    BY <1>14 DEF Save
  <2>2. CASE UNCHANGED <<rows, memory>>
    BY <2>1, <2>2 DEF SameInv
  <2>3. CASE /\ rows' = rows \o [i \in 1 .. Len(messages) - start |-> Stored(messages[start + i])]
             /\ memory' = messages
    <3> DEFINE d == Len(messages) - start
               more == [i \in 1 .. d |-> Stored(messages[start + i])]
    <3>1. /\ start = Len(rows) /\ start <= Len(messages)
          /\ \A i \in 1 .. start : messages[i] = rows[i]
      BY <2>1 DEF SameInv
    <3>2. d \in Nat /\ Len(messages) = start + d
      BY <1>0, <3>1
    <3>3. rows' = rows \o more /\ memory' = messages
      BY <2>3
    <3> HIDE DEF d
    <3>4. \A i \in 1 .. d : messages[start + i] \in Messages
      BY <1>0, <3>2
    <3>5. /\ more \in Seq(Messages) /\ Len(more) = d
          /\ \A i \in 1 .. d : more[i] = Stored(messages[start + i])
      <4>1. \A i \in 1 .. d : Stored(messages[start + i]) \in Messages
        BY <3>4, StoredShape
      <4>2. QED
        BY <3>2, <4>1
    <3> HIDE DEF more
    <3>6. /\ Len(rows') = start + d
          /\ \A i \in 1 .. start : rows'[i] = rows[i]
          /\ \A i \in 1 .. d : rows'[start + i] = Stored(messages[start + i])
      <4>1. /\ rows \o more \in Seq(Messages)
            /\ Len(rows \o more) = Len(rows) + Len(more)
            /\ \A i \in 1 .. Len(rows) : (rows \o more)[i] = rows[i]
            /\ \A i \in 1 .. Len(more) : (rows \o more)[Len(rows) + i] = more[i]
        <5>1. \A a, b \in Seq(Messages) :
                  /\ a \o b \in Seq(Messages) /\ Len(a \o b) = Len(a) + Len(b)
                  /\ \A i \in 1 .. Len(a) : (a \o b)[i] = a[i]
                  /\ \A i \in 1 .. Len(b) : (a \o b)[Len(a) + i] = b[i]
          OBVIOUS
        <5>2. QED
          BY <1>0, <3>5, <5>1
      <4>2. QED
        BY <3>1, <3>3, <3>5, <4>1
    <3>7. ASSUME NEW i \in 1 .. start + d PROVE SaysSame(rows'[i], memory'[i])
      <4>1. CASE i \in 1 .. start
        <5>1. rows'[i] = messages[i] /\ rows[i] = messages[i] /\ rows[i] \in Messages
          BY <1>0, <3>1, <3>6, <4>1
        <5>2. Faded(rows[i])
          BY <3>1, <4>1 DEF SameInv, SaysSame
        <5>3. QED
          BY <3>3, <5>1, <5>2, FadedReads DEF SaysSame
      <4>2. CASE i \notin 1 .. start
        <5>1. i - start \in 1 .. d /\ start + (i - start) = i
          BY <1>0, <3>2, <4>2
        <5>2. rows'[i] = Stored(messages[i]) /\ messages[i] \in Messages
          BY <3>4, <3>6, <5>1
        <5>3. QED
          BY <3>3, <5>2, StoredReads
      <4>3. QED
        BY <4>1, <4>2
    <3>8. Len(rows') = Len(memory')
      BY <3>2, <3>3, <3>6
    <3>9. QED
      BY <2>1, <3>6, <3>7, <3>8 DEF SameInv
  <2>4. QED
    BY <1>14, <2>2, <2>3 DEF Save
<1>15. CASE UNCHANGED vars
  BY <1>1, <1>15 DEF vars
<1>16. QED
  BY <1>2, <1>3, <1>4, <1>5, <1>6, <1>7, <1>8, <1>9, <1>11, <1>12, <1>13, <1>14, <1>15 DEF Next

(* What was stored reads back as what was said, to whichever provider the  *)
(* next turn is for: for every history, every reply and every failed save. *)
THEOREM ReloadedStaysSame == Spec => []ReloadedIsSame
<1>1. TypeInv /\ SameInv => ReloadedIsSame
  <2> SUFFICES ASSUME TypeInv, SameInv, NEW p \in Providers
               PROVE  Request(p, rows) = Request(p, [i \in DOMAIN memory |-> Unsigned(memory[i])])
    BY DEF ReloadedIsSame
  <2> DEFINE said == [i \in DOMAIN memory |-> Unsigned(memory[i])]
  <2>1. DOMAIN rows = 1 .. Len(rows) /\ DOMAIN memory = 1 .. Len(rows)
    BY DEF TypeInv, SameInv
  <2>2. \A i \in 1 .. Len(rows) : Contents(p, rows[i]) = Contents(p, said[i])
    BY <2>1 DEF SameInv, SaysSame
  <2>3. DOMAIN said = 1 .. Len(rows)
    BY <2>1
  <2> HIDE DEF said
  <2>4. [i \in DOMAIN rows |-> Contents(p, rows[i])] = [i \in DOMAIN said |-> Contents(p, said[i])]
    BY <2>1, <2>2, <2>3
  <2>5. Request(p, rows) = Request(p, said)
    BY <2>4 DEF Request
  <2>6. QED
    BY <2>5 DEF said
<1>2. QED
  BY <1>1, KeyInit, KeyStep, TypeInit, TypeStep, SameInit, SameStep, PTL DEF Spec

-----------------------------------------------------------------------------
(* What a stream has brought so far. *)

(* The parts up to the kth have begun, and what they say has been shown. *)
Begun(k) ==
    /\ \A i \in 1 .. Len(reply) : got[i] > 0 <=> i <= k
    /\ shown = Folded(reply)[k].text
    /\ provider = "gemini" => response = Folded(reply)[k]

Whole == response = ChatAnswer(reply) /\ shown = response.text

(* Behind the calls of the reply stand their answers, at the end of the messages. *)
AnswersStand ==
    LET n == Len(response.calls)
        L == Len(messages)
    IN  /\ response = ChatAnswer(reply) /\ n < L
        /\ messages[L - n].calls = response.calls
        /\ \A k \in 1 .. n : \E o \in Outcomes :
               messages[L - n + k].results[1] = Result(response.calls[k], o)

StreamInv ==
    /\ at = "stream" => \E k \in 0 .. Len(reply) : Begun(k)
    /\ at = "answered" => Whole
    /\ Answered => AnswersStand

(* A part comes in one chunk, or a call in two. *)
LEMMA ChunkCounts == \A part : Chunks(part) \in {1, 2} /\ (part.kind = "text" => Chunks(part) = 1)
                               /\ (provider = "gemini" => Chunks(part) = 1)
  BY DEF Chunks

(* One chunk: the next part begins, or a call that has begun goes on. *)
LEMMA ChunkComes ==
    ASSUME TypeInv, NEW k \in 0 .. Len(reply), Begun(k), NEW i \in DOMAIN reply, Receive(i)
    PROVE  \E j \in 0 .. Len(reply) : Begun(j)'
<1>1. /\ reply \in Seq(Parts) /\ Len(reply) \in Nat /\ DOMAIN reply = 1 .. Len(reply)
      /\ i \in 1 .. Len(reply) /\ reply[i] \in Parts
      /\ got \in [1 .. Len(reply) -> Nat]
  BY DEF TypeInv
<1>2. /\ reply' = reply /\ provider' = provider /\ got' = [got EXCEPT ![i] = got[i] + 1]
      /\ shown' = IF reply[i].kind = "text" THEN Append(shown, reply[i].text) ELSE shown
      /\ response' = IF provider = "gemini" THEN AddPart(response, reply[i]) ELSE response
      /\ MayCome(i)
  BY DEF Receive, where
<1>3. /\ \A j \in 1 .. Len(reply) : got[j] > 0 <=> j <= k
      /\ shown = Folded(reply)[k].text
      /\ provider = "gemini" => response = Folded(reply)[k]
  BY DEF Begun
<1>4. got'[i] > 0 /\ \A j \in 1 .. Len(reply) : j # i => got'[j] = got[j]
  BY <1>1, <1>2
<1>5. CASE got[i] = 0
  <2>1. i = k + 1
    <3>1. i > k
      BY <1>1, <1>3, <1>5
    <3>2. i > 1 => i - 1 \in 1 .. Len(reply) /\ got[i - 1] > 0
      BY <1>1, <1>2, ChunkCounts DEF MayCome
    <3>3. i > 1 => i - 1 <= k
      BY <1>3, <3>2
    <3>4. QED
      BY <1>1, <3>1, <3>3
  <2>2. Folded(reply)[i] = AddPart(Folded(reply)[k], reply[i]) /\ Folded(reply)[k] \in Responses
    BY <1>1, <2>1, FoldGoesOn
  <2>3. shown' = Folded(reply)[i].text
    <3>1. CASE reply[i].kind = "text"
      <4>1. AddPart(Folded(reply)[k], reply[i]) =
              [text |-> Append(Folded(reply)[k].text, reply[i].text), calls |-> Folded(reply)[k].calls]
        BY <1>1, <2>2, <3>1, PartAdds
      <4>2. Folded(reply)[i].text = Append(Folded(reply)[k].text, reply[i].text)
        BY <2>2, <4>1
      <4>3. QED
        BY <1>2, <1>3, <3>1, <4>2
    <3>2. CASE reply[i].kind = "call"
      BY <1>1, <1>2, <1>3, <2>2, <3>2, PartAdds
    <3>3. QED
      BY <1>1, <2>2, <3>1, <3>2, PartAdds
  <2>4. \A j \in 1 .. Len(reply) : got'[j] > 0 <=> j <= i
    BY <1>1, <1>3, <1>4, <2>1
  <2>5. provider = "gemini" => response' = Folded(reply)[i]
    BY <1>2, <1>3, <2>2
  <2>6. Begun(i)'
    BY <1>2, <2>3, <2>4, <2>5 DEF Begun
  <2>7. i \in 0 .. Len(reply)
    BY <1>1
  <2>8. QED
    BY <2>6, <2>7
<1>6. CASE got[i] # 0
  <2>1. got[i] \in Nat /\ got[i] > 0 /\ got[i] < Chunks(reply[i])
    BY <1>1, <1>2, <1>6 DEF MayCome
  <2>2. reply[i].kind # "text" /\ provider # "gemini"
    BY <2>1, ChunkCounts
  <2>3. shown' = shown /\ response' = response
    BY <1>2, <2>2
  <2>4. \A j \in 1 .. Len(reply) : got'[j] > 0 <=> j <= k
    BY <1>1, <1>3, <1>4, <2>1
  <2>5. Begun(k)'
    BY <1>2, <1>3, <2>2, <2>3, <2>4 DEF Begun
  <2>6. QED
    BY <2>5
<1>7. QED
  BY <1>5, <1>6

LEMMA StreamInit == Init => StreamInv
  BY DEF Init, StreamInv, Answered

LEMMA StreamStep == TypeInv /\ StreamInv /\ [Next]_vars => StreamInv'
<1> SUFFICES ASSUME TypeInv, StreamInv, [Next]_vars PROVE StreamInv'
  OBVIOUS
<1>0. reply \in Seq(Parts) /\ Len(reply) \in Nat /\ got \in [1 .. Len(reply) -> Nat]
  BY DEF TypeInv
<1>1. ASSUME at' \notin {"request", "stream", "answered"} PROVE StreamInv'
  BY <1>1 DEF StreamInv, Answered
<1>2. CASE EditKeys \/ ResolvePreset \/ FindForUser \/ FindGlobal \/ FindInEnv
  BY <1>1, <1>2 DEF EditKeys, ResolvePreset, FindForUser, FindGlobal, FindInEnv, Use, Refuse
<1>3. ASSUME NEW p \in Providers, NEW named \in Presets \cup {"none"}, Begin(p, named)
      PROVE  StreamInv'
  BY <1>1, <1>3 DEF Begin
<1>4. CASE LoadHistory
  BY <1>4 DEF LoadHistory, StreamInv, Answered
<1>5. CASE Send
  <2>1. /\ reply' \in Replies[provider] /\ got' = [i \in DOMAIN reply' |-> 0]
        /\ response' = Nothing /\ shown' = <<>> /\ at' = "stream" /\ provider' = provider
    BY <1>5 DEF Send, where
  <2>2. reply' \in Seq(Parts)
    BY <2>1, ReplyAssumption DEF TypeInv
  <2>3. Folded(reply')[0] = Nothing
    BY <2>2, FoldGoesOn
  <2>4. \A i \in 1 .. Len(reply') : got'[i] = 0
    BY <2>1, <2>2
  <2>5. /\ \A i \in 1 .. Len(reply') : got'[i] > 0 <=> i <= 0
        /\ shown' = Folded(reply')[0].text /\ response' = Folded(reply')[0]
        /\ 0 \in 0 .. Len(reply')
    BY <2>1, <2>2, <2>3, <2>4 DEF Nothing
  <2>6. Begun(0)'
    BY <2>5 DEF Begun
  <2>7. QED
    BY <2>1, <2>5, <2>6 DEF StreamInv, Answered
<1>6. CASE ReceiveBlank
  <2>1. /\ UNCHANGED <<at, provider, reply, got, response, shown>> /\ at = "stream"
    BY <1>6 DEF ReceiveBlank, where
  <2>2. PICK k \in 0 .. Len(reply) : Begun(k)
    BY <2>1 DEF StreamInv
  <2>3. Begun(k)' /\ k \in 0 .. Len(reply')
    BY <2>1, <2>2 DEF Begun
  <2>4. QED
    BY <2>1, <2>3 DEF StreamInv, Answered
<1>7. CASE EndStream
  <2>1. /\ at = "stream" /\ at' = "answered" /\ reply' = reply /\ shown' = shown
        /\ response' = IF provider = "gemini" THEN response ELSE ChatAnswer(reply)
        /\ \A i \in DOMAIN reply : got[i] = Chunks(reply[i])
    BY <1>7 DEF EndStream
  <2>2. PICK k \in 0 .. Len(reply) : Begun(k)
    BY <2>1 DEF StreamInv
  <2>3. k = Len(reply)
    <3>1. \A i \in 1 .. Len(reply) : got[i] > 0
      BY <1>0, <2>1, ChunkCounts
    <3>2. \A i \in 1 .. Len(reply) : i <= k
      BY <2>2, <3>1 DEF Begun
    <3>3. QED
      BY <1>0, <3>2
  <2>4. shown = ChatAnswer(reply).text /\ (provider = "gemini" => response = ChatAnswer(reply))
    BY <2>2, <2>3 DEF Begun, ChatAnswer
  <2>5. Whole'
    BY <2>1, <2>4 DEF Whole
  <2>6. QED
    BY <2>1, <2>5 DEF StreamInv, Answered
<1>8. CASE ProviderError \/ FinalAnswer \/ Save
  BY <1>1, <1>8 DEF ProviderError, FinalAnswer, Save
<1>9. ASSUME NEW i \in DOMAIN reply, Receive(i) PROVE StreamInv'
  <2>1. at = "stream" /\ at' = "stream" /\ reply' = reply
    BY <1>9 DEF Receive
  <2>2. PICK k \in 0 .. Len(reply) : Begun(k)
    BY <2>1 DEF StreamInv
  <2>3. \E j \in 0 .. Len(reply) : Begun(j)'
    BY <1>9, <2>2, ChunkComes
  <2>4. QED
    BY <2>1, <2>3 DEF StreamInv, Answered
<1>10. CASE RunTools
  <2>1. /\ at = "answered" /\ at' \in {"save", "request"} /\ response' = response /\ reply' = reply
    BY <1>10 DEF RunTools, stream
  <2>2. CASE at' = "request"
    <3> DEFINE n == Len(response.calls)
               L == Len(messages)
    <3>1. /\ n \in Nat /\ L \in Nat /\ Len(messages') = L + 1 + n
          /\ messages'[L + 1].calls = response.calls
          /\ \A k \in 1 .. n : \E o \in Outcomes :
                 messages'[L + 1 + k].results[1] = Result(response.calls[k], o)
      BY <1>10, <2>2, ToolsAnswer
    <3>2. response = ChatAnswer(reply)
      BY <2>1 DEF StreamInv, Whole
    <3> HIDE DEF n, L
    <3>6. n \in Nat /\ L \in Nat /\ Len(messages') = L + 1 + n
      BY <3>1
    <3>3. n < Len(messages') /\ Len(messages') - n = L + 1
      BY <3>6
    <3> USE DEF n, L
    <3>4. AnswersStand'
      BY <2>1, <3>1, <3>2, <3>3 DEF AnswersStand
    <3>5. QED
      BY <2>2, <3>4 DEF StreamInv
  <2>3. QED
    BY <1>1, <2>1, <2>2
<1>11. CASE UNCHANGED vars
  <2>1. UNCHANGED <<at, iteration, provider, reply, got, response, shown, messages>>
    BY <1>11 DEF vars, where, stream, talk
  <2>2. \A k : Begun(k)' <=> Begun(k)
    BY <2>1 DEF Begun
  <2>3. QED
    BY <2>1, <2>2 DEF StreamInv, Answered, AnswersStand, Whole
<1>12. QED
  BY <1>2, <1>3, <1>4, <1>5, <1>6, <1>7, <1>8, <1>9, <1>10, <1>11 DEF Next

LEMMA StreamsSafe == Spec => [](TypeInv /\ StreamInv)
  BY KeyInit, KeyStep, TypeInit, TypeStep, StreamInit, StreamStep, PTL DEF Spec

(* A stream that ends without an error has shown all of the reply and      *)
(* folds into what Chat returns for it: for every reply, every order of    *)
(* its chunks the provider keeps to and any number of empty ones.          *)
THEOREM StreamsLikeChat == Spec => []StreamIsChat
<1>1. StreamInv => StreamIsChat
  BY DEF StreamInv, Whole, StreamIsChat
<1>2. QED
  BY <1>1, StreamsSafe, PTL

(* The calls that came, the calls that went back and their answers. *)
LEMMA CallsStand ==
    ASSUME TypeInv, StreamInv, Answered, NEW k \in DOMAIN Called
    PROVE  /\ Called[k] \in Parts /\ Called[k].kind = "call"
           /\ Asked.calls[k] = ToCall(Called[k])
           /\ \E o \in Outcomes : Given(k) = Result(ToCall(Called[k]), o)
<1> DEFINE n == Len(response.calls)
           L == Len(messages)
<1>1. reply \in Seq(Parts) /\ Len(reply) \in 0 .. Len(reply)
  BY DEF TypeInv
<1>2. /\ Len(response.calls) = Len(Called) /\ Called \in Seq(Parts)
      /\ \A i \in 1 .. Len(Called) : Called[i].kind = "call" /\ response.calls[i] = ToCall(Called[i])
  BY <1>1, CallsAreFolded DEF StreamInv, AnswersStand, ChatAnswer, Called
<1>3. k \in 1 .. n /\ n = Len(Called)
  BY <1>2
<1>4. /\ messages[L - n].calls = response.calls
      /\ \E o \in Outcomes : messages[L - n + k].results[1] = Result(response.calls[k], o)
  BY <1>3 DEF StreamInv, AnswersStand
<1>5. Asked.calls = response.calls /\ Given(k) = messages[L - n + k].results[1]
  BY <1>3, <1>4 DEF Asked, Given
<1>6. QED
  BY <1>2, <1>3, <1>4, <1>5

(* A call whose arguments were cut off is never run with others, and every *)
(* call has its own answer behind it.                                      *)
THEOREM CutCallsStayUnrun == Spec => []CutCallsNeverRun
<1>1. TypeInv /\ StreamInv => CutCallsNeverRun
  <2> SUFFICES ASSUME TypeInv, StreamInv, Answered, NEW k \in DOMAIN Called
               PROVE  /\ Given(k).id = Called[k].id
                      /\ Called[k].args = "cut" => Given(k).data = "nil" /\ Given(k).error = "text"
    BY DEF CutCallsNeverRun
  <2>1. PICK o \in Outcomes : Given(k) = Result(ToCall(Called[k]), o)
    BY CallsStand
  <2>2. ToCall(Called[k]).id = Called[k].id /\ ToCall(Called[k]).parseError = (Called[k].args = "cut")
    BY DEF ToCall
  <2>3. /\ Given(k).id = ToCall(Called[k]).id
        /\ ToCall(Called[k]).parseError => Given(k).data = "nil" /\ Given(k).error = "text"
    BY <2>1 DEF Result
  <2>4. QED
    BY <2>2, <2>3
<1>2. QED
  BY <1>1, StreamsSafe, PTL

(* Within a turn every call goes back to Gemini with its signature. *)
THEOREM SignedAlways == Spec => []SignedWithinTurn
<1>1. TypeInv /\ StreamInv => SignedWithinTurn
  <2> SUFFICES ASSUME TypeInv, StreamInv, Answered, NEW k \in DOMAIN Called
               PROVE  SentCall("gemini", Asked.calls[k]).signature = Called[k].signature
    BY DEF SignedWithinTurn
  <2>1. /\ Called[k] \in Parts /\ Called[k].kind = "call" /\ Asked.calls[k] = ToCall(Called[k])
    BY CallsStand
  <2>2. Called[k].signature \in {"none", "bytes"}
    BY <2>1 DEF Parts
  <2>3. QED
    BY <2>1, <2>2 DEF SentCall, ToCall
<1>2. QED
  BY <1>1, StreamsSafe, PTL

=============================================================================
