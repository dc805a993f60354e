--------------------------- MODULE ChatTurnProofs ---------------------------
(***************************************************************************)
(* For any number of turns, edits, deletions and failing statements: what  *)
(* "done" tells the browser is in the record, a deletion leaves no message *)
(* of a turn that was over, and what is deleted stays so unless it was     *)
(* being saved.                                                            *)
(***************************************************************************)
EXTENDS ChatTurn, FiniteSetTheorems, SequenceTheorems, TLAPS

LEMMA FaultsBounded == TypeOK /\ (Fault \/ NoFault) => faults' \in 0 .. MaxFaults
  BY FaultAssumption DEF TypeOK, Fault, NoFault

\* However a statement of a turn goes, the count of faults stays in its bound.
LEMMA StatementFaults ==
    ASSUME TypeOK, NEW t \in Turns, Works(t) \/ Fails(t)
    PROVE  faults' \in 0 .. MaxFaults
  BY FaultsBounded DEF Works, Fails

LEMMA GoesType ==
    ASSUME TypeOK, NEW t \in Turns, NEW place \in Places, Goes(t, place)
    PROVE  at' \in [Turns -> Places]
  BY DEF TypeOK, Goes

LEMMA EndsType ==
    ASSUME TypeOK, NEW t \in Turns, NEW outcome \in {"stored", "aborted"},
           Ends(t, outcome)
    PROVE  saved' \in [Turns -> {"no", "stored", "deleted", "aborted"}]
  BY DEF TypeOK, Ends

LEMMA SaveType ==
    ASSUME NEW values \in Conversation, Save(values)
    PROVE  conv' \in Conversation /\ conv'.live
  BY DEF Conversation, Save

LEMMA CreatedType == Created \in Conversation
  BY DEF Created, Conversation, Authors

LEMMA TypeInit == Init => TypeOK
<1> SUFFICES ASSUME Init PROVE TypeOK
  OBVIOUS
<1>1. at \in [Turns -> Places] /\ batch \in [Turns -> Batches \cup {<<>>}]
  BY DEF Init, Places
<1>2. /\ next \in [Turns -> Nat \ {0}]
      /\ saved \in [Turns -> {"no", "stored", "deleted", "aborted"}]
  BY DEF Init
<1>3. log \in Seq([turn: Turns, row: Nat \ {0}])
  BY DEF Init
<1>4. conv \in Conversation /\ copy \in [Writers -> Conversation]
  BY CreatedType DEF Init
<1>5. edit \in [Edits -> [at: {"new", "found", "done"}, fields: Requests \cup {{}}]]
  BY DEF Init
<1>6. /\ deletion \in [Deletes -> {"new", "messages", "row", "done"}]
      /\ before \in [Turns \cup Deletes -> SUBSET Turns]
  BY DEF Init
<1>7. faults \in 0 .. MaxFaults /\ left \subseteq Turns /\ crowded \in BOOLEAN
  <2>1. faults \in 0 .. MaxFaults
    BY FaultAssumption DEF Init
  <2>2. left \subseteq Turns
    BY DEF Init
  <2>3. crowded \in BOOLEAN
    BY DEF Init
  <2>4. QED
    BY <2>1, <2>2, <2>3
<1>8. QED
  BY <1>1, <1>2, <1>3, <1>4, <1>5, <1>6, <1>7 DEF TypeOK

LEMMA TypeStep == TypeOK /\ [Next]_vars => TypeOK'
<1> SUFFICES ASSUME TypeOK, [Next]_vars PROVE TypeOK'
  OBVIOUS
<1>1. ASSUME NEW t \in Turns, Get(t) PROVE TypeOK'
  <2>1. at' \in [Turns -> Places]
    BY <1>1, GoesType DEF Get, Places, Final
  <2>2. faults' \in 0 .. MaxFaults
    BY <1>1, StatementFaults DEF Get
  <2>3. before' \in [Turns \cup Deletes -> SUBSET Turns]
    BY <1>1 DEF Get, TypeOK, Over
  <2>4. QED
    BY <1>1, <2>1, <2>2, <2>3 DEF Get, TypeOK, messages, row
<1>2. ASSUME NEW t \in Turns, ListMessages(t) PROVE TypeOK'
  <2>1. at' \in [Turns -> Places]
    BY <1>2, GoesType DEF ListMessages, Places, Final
  <2>2. faults' \in 0 .. MaxFaults
    BY <1>2, StatementFaults DEF ListMessages
  <2>3. QED
    BY <1>2, <2>1, <2>2 DEF ListMessages, TypeOK, messages, row
<1>3. ASSUME NEW t \in Turns, RunReturns(t) PROVE TypeOK'
  <2>1. at' \in [Turns -> Places]
    BY <1>3, GoesType DEF RunReturns, Places
  <2>2. batch' \in [Turns -> Batches \cup {<<>>}]
    BY <1>3 DEF RunReturns, TypeOK
  <2>3. QED
    BY <1>3, <2>1, <2>2 DEF RunReturns, TypeOK, row
<1>4. ASSUME NEW t \in Turns, DrawId(t) PROVE TypeOK'
  <2>1. next[t] \in Nat \ {0}
    BY DEF TypeOK
  <2>2. [turn |-> t, row |-> next[t]] \in [turn: Turns, row: Nat \ {0}]
    BY <2>1
  <2>3. log' \in Seq([turn: Turns, row: Nat \ {0}])
    BY <1>4, <2>2 DEF DrawId, TypeOK
  <2>4. next' \in [Turns -> Nat \ {0}]
    BY <1>4, <2>1 DEF DrawId, TypeOK
  <2>5. crowded' \in BOOLEAN
    BY <1>4 DEF DrawId, TypeOK
  <2>6. QED
    BY <1>4, <2>3, <2>4, <2>5 DEF DrawId, TypeOK, row
<1>5. ASSUME NEW t \in Turns, AppendMessages(t) PROVE TypeOK'
  <2>1. at' \in [Turns -> Places]
    BY <1>5, GoesType DEF AppendMessages, AfterSaving, Places, Final
  <2>2. faults' \in 0 .. MaxFaults
    BY <1>5, StatementFaults DEF AppendMessages
  <2>3. saved' \in [Turns -> {"no", "stored", "deleted", "aborted"}]
    BY <1>5, EndsType DEF AppendMessages
  <2>4. QED
    BY <1>5, <2>1, <2>2, <2>3 DEF AppendMessages, TypeOK, row
<1>6. ASSUME NEW t \in Turns, TitleFind(t) PROVE TypeOK'
  <2>1. at' \in [Turns -> Places]
    BY <1>6, GoesType DEF TitleFind, Places, Final
  <2>2. faults' \in 0 .. MaxFaults
    BY <1>6, StatementFaults DEF TitleFind
  <2>3. copy' \in [Writers -> Conversation]
    BY <1>6 DEF TitleFind, FindConversation, TypeOK
  <2>4. QED
    BY <1>6, <2>1, <2>2, <2>3 DEF TitleFind, TypeOK, messages
<1>7. ASSUME NEW t \in Turns, TitleSave(t) PROVE TypeOK'
  <2>1. at' \in [Turns -> Places]
    BY <1>7, GoesType DEF TitleSave, Places, Final
  <2>2. faults' \in 0 .. MaxFaults
    BY <1>7, StatementFaults DEF TitleSave
  <2>3. conv' \in Conversation
    <3>1. [copy[t] EXCEPT !.title = t] \in Conversation
      BY DEF TypeOK, Writers, Conversation, Authors
    <3>2. QED
      BY <1>7, <3>1, SaveType DEF TitleSave, TypeOK
  <2>4. QED
    BY <1>7, <2>1, <2>2, <2>3 DEF TitleSave, TypeOK, messages
<1>8. ASSUME NEW t \in Turns, Leave(t) PROVE TypeOK'
  BY <1>8 DEF Leave, TypeOK, messages, row
<1>9. ASSUME NEW t \in Turns, Die(t) PROVE TypeOK'
  <2>1. at' \in [Turns -> Places]
    BY <1>9, GoesType DEF Die, Places, Final
  <2>2. faults' \in 0 .. MaxFaults
    BY <1>9, FaultsBounded DEF Die
  <2>3. saved' \in [Turns -> {"no", "stored", "deleted", "aborted"}]
    BY <1>9, EndsType DEF Die, TypeOK
  <2>4. QED
    BY <1>9, <2>1, <2>2, <2>3 DEF Die, TypeOK, row
<1>10. ASSUME NEW e \in Edits, EditFind(e) PROVE TypeOK'
  <2>1. faults' \in 0 .. MaxFaults
    BY <1>10, FaultsBounded DEF EditFind
  <2>2. copy' \in [Writers -> Conversation]
    BY <1>10 DEF EditFind, FindConversation, TypeOK
  <2>3. edit' \in [Edits -> [at: {"new", "found", "done"}, fields: Requests \cup {{}}]]
    <3>1. edit \in [Edits -> [at: {"new", "found", "done"}, fields: Requests \cup {{}}]]
      BY DEF TypeOK
    <3>2. CASE \E fields \in Requests :
                   edit' = [edit EXCEPT ![e] = [at |-> "found", fields |-> fields]]
      BY <3>1, <3>2
    <3>3. CASE edit' = [edit EXCEPT ![e].at = "done"]
      BY <3>1, <3>3
    <3>4. QED
      BY <1>10, <3>2, <3>3 DEF EditFind
  <2>4. QED
    BY <1>10, <2>1, <2>2, <2>3 DEF EditFind, TypeOK, messages
<1>11. ASSUME NEW e \in Edits, EditSave(e) PROVE TypeOK'
  <2> DEFINE Set(field) == IF field \in edit[e].fields THEN e ELSE copy[e][field]
  <2> DEFINE values == [live |-> TRUE, title |-> Set("title"), archived |-> Set("archived")]
  <2>1. faults' \in 0 .. MaxFaults
    BY <1>11, FaultsBounded DEF EditSave
  <2>2. conv' \in Conversation
    <3>1. copy[e] \in Conversation /\ e \in Authors
      BY DEF TypeOK, Writers, Authors
    <3>2. values \in Conversation
      BY <3>1 DEF Conversation
    <3>3. Save(values) \/ UNCHANGED conv
      BY <1>11 DEF EditSave
    <3>4. QED
      BY <3>2, <3>3, SaveType DEF TypeOK
  <2>3. edit' \in [Edits -> [at: {"new", "found", "done"}, fields: Requests \cup {{}}]]
    BY <1>11 DEF EditSave, TypeOK
  <2>4. QED
    BY <1>11, <2>1, <2>2, <2>3 DEF EditSave, TypeOK, messages
<1>12. ASSUME NEW d \in Deletes, DeleteFind(d) PROVE TypeOK'
  <2>1. faults' \in 0 .. MaxFaults
    BY <1>12, FaultsBounded DEF DeleteFind
  <2>2. deletion' \in [Deletes -> {"new", "messages", "row", "done"}]
    BY <1>12 DEF DeleteFind, TypeOK
  <2>3. before' \in [Turns \cup Deletes -> SUBSET Turns]
    BY <1>12 DEF DeleteFind, TypeOK, Over
  <2>4. QED
    BY <1>12, <2>1, <2>2, <2>3 DEF DeleteFind, TypeOK, messages, row
<1>13. ASSUME NEW d \in Deletes, DeleteMessages(d) PROVE TypeOK'
  <2>1. faults' \in 0 .. MaxFaults
    BY <1>13, FaultsBounded DEF DeleteMessages
  <2>2. deletion' \in [Deletes -> {"new", "messages", "row", "done"}]
    BY <1>13 DEF DeleteMessages, TypeOK
  <2>3. saved' \in [Turns -> {"no", "stored", "deleted", "aborted"}]
    BY <1>13 DEF DeleteMessages, Wipe, TypeOK
  <2>4. QED
    BY <1>13, <2>1, <2>2, <2>3 DEF DeleteMessages, TypeOK, row
<1>14. ASSUME NEW d \in Deletes, DeleteRow(d) PROVE TypeOK'
  <2>1. faults' \in 0 .. MaxFaults
    BY <1>14, FaultsBounded DEF DeleteRow
  <2>2. deletion' \in [Deletes -> {"new", "messages", "row", "done"}]
    BY <1>14 DEF DeleteRow, TypeOK
  <2>3. conv' \in Conversation
    BY <1>14 DEF DeleteRow, TypeOK, Conversation
  <2>4. QED
    BY <1>14, <2>1, <2>2, <2>3 DEF DeleteRow, TypeOK, messages
<1>15. CASE UNCHANGED vars
  BY <1>15 DEF vars, messages, row, TypeOK
<1>16. QED
  BY <1>1, <1>2, <1>3, <1>4, <1>5, <1>6, <1>7, <1>8, <1>9, <1>10, <1>11, <1>12,
     <1>13, <1>14, <1>15 DEF Next

\* Every reachable state has its type, for any set of requests (chat/handler.go,
\* conversation/service.go).
THEOREM TypeCorrect == Spec => []TypeOK
<1>1. Init => TypeOK
  BY TypeInit
<1>2. TypeOK /\ [Next]_vars => TypeOK'
  BY TypeStep
<1>3. QED
  BY <1>1, <1>2, PTL DEF Spec

-----------------------------------------------------------------------------
\* What the INSERT of a turn has put into the log so far: rows 1 to next - 1, each
\* in its place.
RowsInOrder ==
    \A t \in Turns :
        /\ \A i \in RowsOf(t) : log[i].row < next[t]
        /\ \A k \in 1 .. next[t] - 1 : \E i \in RowsOf(t) : log[i].row = k
        /\ \A i, j \in RowsOf(t) : i < j => log[i].row < log[j].row

\* It begins empty, what is stored has all of its rows, and nothing goes on to the
\* title or to "done" without it.
OutcomeFits ==
    \A t \in Turns :
        /\ at[t] \in {"new", "load", "list", "run", "insert"} => saved[t] = "no"
        /\ saved[t] \in {"stored", "deleted"} => next[t] > Len(batch[t])
        /\ at[t] \in {"title", "save", "done"} => saved[t] \in {"stored", "deleted"}

LEMMA RowsKept == RowsInOrder /\ UNCHANGED <<next, log>> => RowsInOrder'
  BY DEF RowsInOrder, RowsOf

\* The next id goes to the row after the last, so the order is kept.
LEMMA RowsGrow ==
    ASSUME TypeOK, RowsInOrder, NEW u \in Turns, DrawId(u)
    PROVE  RowsInOrder'
<1> DEFINE new == [turn |-> u, row |-> next[u]]
<1>1. log' = Append(log, new) /\ next' = [next EXCEPT ![u] = @ + 1]
  BY DEF DrawId
<1>2. log \in Seq([turn: Turns, row: Nat \ {0}]) /\ next \in [Turns -> Nat \ {0}]
  BY DEF TypeOK
<1>3. Len(log) \in Nat /\ DOMAIN log = 1 .. Len(log)
  BY <1>2
<1>4. /\ DOMAIN log' = DOMAIN log \cup {Len(log) + 1}
      /\ log'[Len(log) + 1] = new
      /\ \A i \in DOMAIN log : log'[i] = log[i]
      /\ \A i \in DOMAIN log : i < Len(log) + 1
  <2>1. new \in [turn: Turns, row: Nat \ {0}]
    BY <1>2
  <2>2. QED
    BY <1>1, <1>2, <1>3, <2>1
<1>5. RowsOf(u)' = RowsOf(u) \cup {Len(log) + 1}
  BY <1>3, <1>4 DEF RowsOf
<1>6. next'[u] = next[u] + 1 /\ next[u] \in Nat \ {0}
  BY <1>1, <1>2
<1>7. ASSUME NEW t \in Turns, t # u PROVE RowsOf(t)' = RowsOf(t) /\ next'[t] = next[t]
  BY <1>1, <1>2, <1>3, <1>4, <1>7 DEF RowsOf
<1>8. ASSUME NEW t \in Turns, NEW i \in RowsOf(t)
      PROVE  log'[i] = log[i] /\ log[i].row \in Nat /\ i < Len(log) + 1 /\ i \in Nat
  <2>1. i \in DOMAIN log
    BY <1>8 DEF RowsOf
  <2>2. log[i] \in [turn: Turns, row: Nat \ {0}]
    <3>1. \A S : log \in Seq(S) => \A k \in 1 .. Len(log) : log[k] \in S
      OBVIOUS
    <3>2. QED
      BY <1>2, <1>3, <2>1, <3>1
  <2>3. QED
    BY <1>3, <1>4, <2>1, <2>2
<1>9. ASSUME NEW t \in Turns PROVE \A i \in RowsOf(t)' : log'[i].row < next'[t]
  <2>1. CASE t = u
    BY <1>4, <1>5, <1>6, <1>8, <2>1 DEF RowsInOrder
  <2>2. CASE t # u
    BY <1>7, <1>8, <2>2 DEF RowsInOrder
  <2>3. QED
    BY <2>1, <2>2
<1>10. ASSUME NEW t \in Turns
       PROVE  \A k \in 1 .. next'[t] - 1 : \E i \in RowsOf(t)' : log'[i].row = k
  <2>1. CASE t = u
    <3>1. SUFFICES ASSUME NEW k \in 1 .. next[u] PROVE \E i \in RowsOf(u)' : log'[i].row = k
      BY <1>6, <2>1
    <3>2. CASE k = next[u]
      BY <1>4, <1>5, <3>2
    <3>3. CASE k # next[u]
      <4>1. k \in 1 .. next[u] - 1
        BY <1>6, <3>3
      <4>2. PICK i \in RowsOf(u) : log[i].row = k
        BY <4>1 DEF RowsInOrder
      <4>3. QED
        BY <1>5, <1>8, <4>2
    <3>4. QED
      BY <3>2, <3>3
  <2>2. CASE t # u
    BY <1>7, <1>8, <2>2 DEF RowsInOrder
  <2>3. QED
    BY <2>1, <2>2
<1>11. ASSUME NEW t \in Turns
       PROVE  \A i, j \in RowsOf(t)' : i < j => log'[i].row < log'[j].row
  <2>1. CASE t = u
    <3>1. SUFFICES ASSUME NEW i \in RowsOf(u)', NEW j \in RowsOf(u)', i < j
                   PROVE  log'[i].row < log'[j].row
      BY <2>1
    <3>2. i \in RowsOf(u)
      BY <1>3, <1>5, <1>8, <3>1
    <3>3. CASE j \in RowsOf(u)
      BY <1>8, <3>1, <3>2, <3>3 DEF RowsInOrder
    <3>4. CASE j = Len(log) + 1
      BY <1>4, <1>8, <3>2, <3>4 DEF RowsInOrder
    <3>5. QED
      BY <1>5, <3>3, <3>4
  <2>2. CASE t # u
    BY <1>7, <1>8, <2>2 DEF RowsInOrder
  <2>3. QED
    BY <2>1, <2>2
<1>12. QED
  BY <1>9, <1>10, <1>11 DEF RowsInOrder

\* Only DrawId touches the log, so the rows stay in order over every step.
LEMMA RowsStep == TypeOK /\ RowsInOrder /\ [Next]_vars => RowsInOrder'
<1> SUFFICES ASSUME TypeOK, RowsInOrder, [Next]_vars PROVE RowsInOrder'
  OBVIOUS
<1>1. ASSUME NEW t \in Turns, DrawId(t) PROVE RowsInOrder'
  BY <1>1, RowsGrow
<1>2. ASSUME NEW t \in Turns,
             \/ Get(t) \/ ListMessages(t) \/ RunReturns(t) \/ AppendMessages(t)
             \/ TitleFind(t) \/ TitleSave(t) \/ Leave(t) \/ Die(t)
      PROVE  RowsInOrder'
  BY <1>2, RowsKept
  DEF Get, ListMessages, RunReturns, AppendMessages, TitleFind, TitleSave, Leave, Die,
      messages
<1>3. ASSUME NEW e \in Edits, EditFind(e) \/ EditSave(e) PROVE RowsInOrder'
  BY <1>3, RowsKept DEF EditFind, EditSave, messages
<1>4. ASSUME NEW d \in Deletes, DeleteFind(d) \/ DeleteMessages(d) \/ DeleteRow(d)
      PROVE  RowsInOrder'
  BY <1>4, RowsKept DEF DeleteFind, DeleteMessages, DeleteRow, messages
<1>5. CASE UNCHANGED vars
  BY <1>5, RowsKept DEF vars, messages
<1>6. QED
  BY <1>1, <1>2, <1>3, <1>4, <1>5 DEF Next

LEMMA BatchLength == TypeOK => \A t \in Turns : Len(batch[t]) \in Nat
<1> SUFFICES ASSUME TypeOK, NEW t \in Turns PROVE Len(batch[t]) \in Nat
  OBVIOUS
<1>1. CASE batch[t] \in Batches
  BY <1>1, BatchAssumption
<1>2. CASE batch[t] = <<>>
  BY <1>2
<1>3. QED
  BY <1>1, <1>2 DEF TypeOK

LEMMA OutcomeStep == TypeOK /\ OutcomeFits /\ [Next]_vars => OutcomeFits'
<1> SUFFICES ASSUME TypeOK, OutcomeFits, [Next]_vars PROVE OutcomeFits'
  OBVIOUS
<1>0. /\ at \in [Turns -> Places]
      /\ next \in [Turns -> Nat \ {0}]
      /\ saved \in [Turns -> {"no", "stored", "deleted", "aborted"}]
      /\ batch \in [Turns -> Batches \cup {<<>>}]
      /\ \A t \in Turns : Len(batch[t]) \in Nat
  BY BatchLength DEF TypeOK
<1>1. ASSUME NEW t \in Turns, Get(t) \/ ListMessages(t) \/ TitleFind(t) \/ TitleSave(t)
      PROVE  OutcomeFits'
  <2>1. UNCHANGED <<batch, next, saved>>
    BY <1>1 DEF Get, ListMessages, TitleFind, TitleSave, messages
  <2>2. \/ /\ at[t] \in {"new", "load", "list"}
           /\ \E place \in {"load", "list", "run", "refused"} : Goes(t, place)
        \/ /\ at[t] \in {"title", "save"}
           /\ \E place \in {"save", "done"} : Goes(t, place)
    BY <1>1 DEF Get, ListMessages, TitleFind, TitleSave
  <2>3. QED
    BY <1>0, <2>1, <2>2 DEF OutcomeFits, Goes
<1>2. ASSUME NEW t \in Turns, RunReturns(t) PROVE OutcomeFits'
  <2>1. PICK b \in Batches : batch' = [batch EXCEPT ![t] = b]
    BY <1>2 DEF RunReturns
  <2>2. at[t] = "run" /\ at' = [at EXCEPT ![t] = "insert"] /\ UNCHANGED <<next, saved>>
    BY <1>2 DEF RunReturns, Goes
  <2>3. QED
    BY <1>0, <2>1, <2>2 DEF OutcomeFits
<1>3. ASSUME NEW t \in Turns, DrawId(t) PROVE OutcomeFits'
  <2>1. next' = [next EXCEPT ![t] = @ + 1] /\ UNCHANGED <<at, saved, batch>>
    BY <1>3 DEF DrawId
  <2>2. QED
    BY <1>0, <2>1 DEF OutcomeFits
<1>4. ASSUME NEW t \in Turns, AppendMessages(t) PROVE OutcomeFits'
  <2>1. UNCHANGED <<batch, next>> /\ at[t] = "insert"
    BY <1>4 DEF AppendMessages, Ends
  <2>2. \/ /\ Ends(t, "stored")
           /\ \E place \in {"title", "done", "error"} : Goes(t, place)
        \/ Ends(t, "aborted") /\ Goes(t, "error")
    BY <1>4 DEF AppendMessages, AfterSaving
  <2>3. QED
    BY <1>0, <2>1, <2>2 DEF OutcomeFits, Ends, Goes
<1>5. ASSUME NEW t \in Turns, Die(t) PROVE OutcomeFits'
  <2>1. UNCHANGED <<batch, next>> /\ Goes(t, "gone")
    BY <1>5 DEF Die
  <2>2. UNCHANGED saved \/ Ends(t, "aborted") \/ Ends(t, "stored")
    BY <1>5 DEF Die
  <2>3. QED
    BY <1>0, <2>1, <2>2 DEF OutcomeFits, Ends, Goes
<1>6. ASSUME NEW d \in Deletes, DeleteMessages(d) PROVE OutcomeFits'
  <2>1. UNCHANGED <<at, batch, next>> /\ (Wipe \/ UNCHANGED saved)
    BY <1>6 DEF DeleteMessages
  <2>2. QED
    BY <1>0, <2>1 DEF OutcomeFits, Wipe
<1>7. ASSUME UNCHANGED <<at, batch, next, saved>> PROVE OutcomeFits'
  BY <1>7 DEF OutcomeFits
<1>8. ASSUME NEW t \in Turns, Leave(t) PROVE OutcomeFits'
  BY <1>7, <1>8 DEF Leave, messages
<1>9. ASSUME NEW e \in Edits, EditFind(e) \/ EditSave(e) PROVE OutcomeFits'
  BY <1>7, <1>9 DEF EditFind, EditSave, messages
<1>10. ASSUME NEW d \in Deletes, DeleteFind(d) \/ DeleteRow(d) PROVE OutcomeFits'
  BY <1>7, <1>10 DEF DeleteFind, DeleteRow, messages
<1>11. CASE UNCHANGED vars
  BY <1>7, <1>11 DEF vars, messages
<1>12. QED
  BY <1>1, <1>2, <1>3, <1>4, <1>5, <1>6, <1>8, <1>9, <1>10, <1>11 DEF Next

\* "done" is told only of a turn whose whole batch was stored, in its order
\* (chat/handler.go:393-409), whatever fails and whoever else is at work.
THEOREM DoneAlwaysStored == Spec => []DoneMeansStored
<1>1. Init => RowsInOrder /\ OutcomeFits
  BY DEF Init, RowsInOrder, OutcomeFits, RowsOf
<1>2. TypeOK /\ RowsInOrder /\ OutcomeFits /\ [Next]_vars => (RowsInOrder /\ OutcomeFits)'
  BY RowsStep, OutcomeStep
<1>3. TypeOK /\ RowsInOrder /\ OutcomeFits => DoneMeansStored
  <2> SUFFICES ASSUME TypeOK, RowsInOrder, OutcomeFits,
                      NEW t \in Turns, at[t] = "done"
               PROVE  /\ saved[t] \in {"stored", "deleted"}
                      /\ \A k \in 1 .. Len(batch[t]) : \E i \in RowsOf(t) : log[i].row = k
                      /\ \A i, j \in RowsOf(t) : i < j => log[i].row < log[j].row
    BY DEF DoneMeansStored
  <2>1. saved[t] \in {"stored", "deleted"} /\ next[t] > Len(batch[t])
    BY DEF OutcomeFits
  <2>2. Len(batch[t]) \in Nat /\ next[t] \in Nat
    BY BatchLength DEF TypeOK
  <2>3. \A k \in 1 .. Len(batch[t]) : k \in 1 .. next[t] - 1
    BY <2>1, <2>2
  <2>4. QED
    BY <2>1, <2>3 DEF RowsInOrder
<1>4. QED
  BY <1>1, <1>2, <1>3, TypeCorrect, PTL DEF Spec

-----------------------------------------------------------------------------
\* What a deletion has wiped stays wiped: the turns it found over store nothing.
DeletionInv ==
    /\ \A d \in Deletes : before[d] \subseteq Over
    /\ \A d \in Deletes : deletion[d] = "row" => \A t \in before[d] : saved[t] # "stored"
    /\ ~conv.live => \E d \in Deletes : /\ deletion[d] = "done"
                                       /\ \A t \in before[d] : saved[t] # "stored"

\* A turn that is over stays over, and its INSERT has had its end.
LEMMA OverStays ==
    ASSUME TypeOK, [Next]_vars, NEW t \in Over
    PROVE  t \in Over' /\ (saved'[t] = "stored" => saved[t] = "stored")
<1>0. /\ at \in [Turns -> Places] /\ t \in Turns /\ at[t] \in Final
      /\ saved \in [Turns -> {"no", "stored", "deleted", "aborted"}]
  BY DEF TypeOK, Over
<1>1. ASSUME UNCHANGED <<at, saved>> PROVE t \in Over' /\ saved'[t] = saved[t]
  BY <1>1 DEF Over
<1>2. ASSUME NEW u \in Turns, at[u] \notin Final,
             \E place \in Places : Goes(u, place),
             UNCHANGED saved \/ Ends(u, "stored") \/ Ends(u, "aborted")
      PROVE  t \in Over' /\ saved'[t] = saved[t]
  BY <1>0, <1>2 DEF Over, Goes, Ends
<1>3. ASSUME NEW u \in Turns, Get(u) \/ ListMessages(u) \/ RunReturns(u)
                              \/ TitleFind(u) \/ TitleSave(u)
      PROVE  t \in Over' /\ saved'[t] = saved[t]
  <2>1. at[u] \notin Final /\ UNCHANGED saved
    BY <1>3 DEF Get, ListMessages, RunReturns, TitleFind, TitleSave, messages, Final
  <2>2. \E place \in Places : Goes(u, place)
    BY <1>3 DEF Get, ListMessages, RunReturns, TitleFind, TitleSave, Places, Final
  <2>3. QED
    BY <1>2, <2>1, <2>2
<1>4. ASSUME NEW u \in Turns, AppendMessages(u) PROVE t \in Over' /\ saved'[t] = saved[t]
  <2>1. at[u] \notin Final /\ (Ends(u, "stored") \/ Ends(u, "aborted"))
    BY <1>4 DEF AppendMessages, Ends, Final
  <2>2. \E place \in Places : Goes(u, place)
    BY <1>4 DEF AppendMessages, AfterSaving, Places, Final
  <2>3. QED
    BY <1>2, <2>1, <2>2
<1>5. ASSUME NEW u \in Turns, Die(u) PROVE t \in Over' /\ saved'[t] = saved[t]
  <2>1. at[u] \notin Final /\ Goes(u, "gone") /\ "gone" \in Places
    BY <1>5 DEF Die, Places, Final
  <2>2. UNCHANGED saved \/ Ends(u, "stored") \/ Ends(u, "aborted")
    BY <1>5 DEF Die
  <2>3. QED
    BY <1>2, <2>1, <2>2
<1>6. ASSUME NEW d \in Deletes, DeleteMessages(d)
      PROVE  t \in Over' /\ (saved'[t] = "stored" => saved[t] = "stored")
  BY <1>0, <1>6 DEF DeleteMessages, Wipe, Over
<1>7. ASSUME NEW u \in Turns, DrawId(u) \/ Leave(u) PROVE t \in Over' /\ saved'[t] = saved[t]
  BY <1>1, <1>7 DEF DrawId, Leave, messages
<1>8. ASSUME NEW e \in Edits, EditFind(e) \/ EditSave(e)
      PROVE  t \in Over' /\ saved'[t] = saved[t]
  BY <1>1, <1>8 DEF EditFind, EditSave, messages
<1>9. ASSUME NEW d \in Deletes, DeleteFind(d) \/ DeleteRow(d)
      PROVE  t \in Over' /\ saved'[t] = saved[t]
  BY <1>1, <1>9 DEF DeleteFind, DeleteRow, messages
<1>10. CASE UNCHANGED vars
  BY <1>1, <1>10 DEF vars, messages
<1>11. QED
  BY <1>3, <1>4, <1>5, <1>6, <1>7, <1>8, <1>9, <1>10 DEF Next

LEMMA DeletionStep == TypeOK /\ DeletionInv /\ [Next]_vars => DeletionInv'
<1> SUFFICES ASSUME TypeOK, DeletionInv, [Next]_vars PROVE DeletionInv'
  OBVIOUS
<1>0. /\ deletion \in [Deletes -> {"new", "messages", "row", "done"}]
      /\ before \in [Turns \cup Deletes -> SUBSET Turns]
      /\ conv \in Conversation
      /\ saved \in [Turns -> {"no", "stored", "deleted", "aborted"}]
  BY DEF TypeOK
\* A step that leaves the deletions alone and deletes no row keeps all of it.
<1>1. ASSUME UNCHANGED deletion, \A d \in Deletes : before'[d] = before[d],
             conv'.live \/ UNCHANGED conv
      PROVE  DeletionInv'
  BY <1>1, OverStays DEF DeletionInv
<1>2. ASSUME NEW t \in Turns, Get(t) PROVE DeletionInv'
  <2>1. \A d \in Deletes : before'[d] = before[d]
    BY <1>0, <1>2, KindAssumption DEF Get
  <2>2. UNCHANGED <<deletion, conv>>
    BY <1>2 DEF Get, row
  <2>3. QED
    BY <1>1, <2>1, <2>2
<1>3. ASSUME NEW t \in Turns,
             \/ ListMessages(t) \/ RunReturns(t) \/ DrawId(t) \/ AppendMessages(t)
             \/ TitleFind(t) \/ Leave(t) \/ Die(t)
      PROVE  DeletionInv'
  <2>1. UNCHANGED <<deletion, before, conv>>
    BY <1>3 DEF ListMessages, RunReturns, DrawId, AppendMessages, TitleFind, Leave, Die, row
  <2>2. QED
    BY <1>1, <2>1
<1>4. ASSUME NEW t \in Turns, TitleSave(t) PROVE DeletionInv'
  <2>1. UNCHANGED <<deletion, before>>
    BY <1>4 DEF TitleSave
  <2>2. copy[t] \in Conversation
    BY DEF TypeOK, Writers
  <2>3. conv'.live \/ UNCHANGED conv
    BY <1>4, <2>2 DEF TitleSave, Save, Conversation
  <2>4. QED
    BY <1>1, <2>1, <2>3
<1>5. ASSUME NEW e \in Edits, EditFind(e) PROVE DeletionInv'
  <2>1. UNCHANGED <<deletion, before, conv>>
    BY <1>5 DEF EditFind
  <2>2. QED
    BY <1>1, <2>1
<1>6. ASSUME NEW e \in Edits, EditSave(e) PROVE DeletionInv'
  <2>1. UNCHANGED <<deletion, before>>
    BY <1>6 DEF EditSave
  <2>2. conv'.live \/ UNCHANGED conv
    BY <1>6 DEF EditSave, Save
  <2>3. QED
    BY <1>1, <2>1, <2>2
<1>7. ASSUME NEW d \in Deletes, DeleteFind(d) PROVE DeletionInv'
  <2>1. /\ deletion[d] = "new"
        /\ \E place \in {"messages", "done"} : deletion' = [deletion EXCEPT ![d] = place]
        /\ before' = [before EXCEPT ![d] = Over]
        /\ UNCHANGED <<at, saved, conv>>
    BY <1>7 DEF DeleteFind, messages, row
  <2>2. /\ \A c \in Deletes \ {d} : deletion'[c] = deletion[c] /\ before'[c] = before[c]
        /\ deletion'[d] # "row" /\ before'[d] = Over
    BY <1>0, <2>1
  <2>3. Over' = Over
    BY <2>1 DEF Over
  <2>4. QED
    BY <2>1, <2>2, <2>3 DEF DeletionInv
<1>8. ASSUME NEW d \in Deletes, DeleteMessages(d) PROVE DeletionInv'
  <2>1. /\ deletion[d] = "messages"
        /\ \/ Wipe /\ deletion' = [deletion EXCEPT ![d] = "row"]
           \/ deletion' = [deletion EXCEPT ![d] = "done"]
        /\ UNCHANGED <<at, before, conv>>
    BY <1>8 DEF DeleteMessages, row
  <2>2. /\ \A c \in Deletes \ {d} : deletion'[c] = deletion[c]
        /\ deletion'[d] = "row" => Wipe
    BY <1>0, <2>1
  <2>3. \A c \in Deletes : \A t \in before[c] : saved'[t] = "stored" => saved[t] = "stored"
    BY OverStays DEF DeletionInv
  <2>4. Wipe => \A t \in before[d] : saved'[t] # "stored"
    BY <1>0 DEF Wipe, DeletionInv, Over
  <2>5. Over' = Over
    BY <2>1 DEF Over
  <2>6. QED
    BY <2>1, <2>2, <2>3, <2>4, <2>5 DEF DeletionInv
<1>9. ASSUME NEW d \in Deletes, DeleteRow(d) PROVE DeletionInv'
  <2>1. /\ deletion[d] = "row"
        /\ deletion' = [deletion EXCEPT ![d] = "done"]
        /\ UNCHANGED <<at, before, saved>>
    BY <1>9 DEF DeleteRow, messages
  <2>2. /\ \A c \in Deletes \ {d} : deletion'[c] = deletion[c]
        /\ deletion'[d] = "done"
    BY <1>0, <2>1
  <2>3. \A t \in before[d] : saved[t] # "stored"
    BY <2>1 DEF DeletionInv
  <2>4. Over' = Over
    BY <2>1 DEF Over
  <2>5. QED
    BY <2>1, <2>2, <2>3, <2>4 DEF DeletionInv
<1>10. CASE UNCHANGED vars
  BY <1>1, <1>10 DEF vars, row
<1>11. QED
  BY <1>2, <1>3, <1>4, <1>5, <1>6, <1>7, <1>8, <1>9, <1>10 DEF Next

\* While the row is gone (conversation/repository.go:86-91), the only messages that
\* are not are of turns that were under way when its deletion began.
THEOREM OrphansAlwaysLate == Spec => []OrphansAreLate
<1>1. Init => DeletionInv
  BY DEF Init, DeletionInv, Created
<1>2. TypeOK /\ DeletionInv /\ [Next]_vars => DeletionInv'
  BY DeletionStep
<1>3. DeletionInv => OrphansAreLate
  BY DEF DeletionInv, OrphansAreLate
<1>4. QED
  BY <1>1, <1>2, <1>3, TypeCorrect, PTL DEF Spec

\* A deleted conversation nobody is about to save cannot come back, whatever
\* requests still come (conversation/service.go:130-166).
THEOREM DeletedStaysGone == Spec => StaysGone
<1> DEFINE Kept == ~conv.live /\ Pending = {} => ~conv'.live /\ Pending' = {}
<1>1. TypeOK /\ [Next]_vars => Kept
  <2> SUFFICES ASSUME TypeOK, [Next]_vars, ~conv.live, Pending = {}
               PROVE  ~conv'.live /\ Pending' = {}
    OBVIOUS
  <2>0. /\ at \in [Turns -> Places]
        /\ edit \in [Edits -> [at: {"new", "found", "done"}, fields: Requests \cup {{}}]]
        /\ conv \in Conversation
        /\ \A t \in Turns : at[t] # "save"
        /\ \A e \in Edits : edit[e].at # "found"
    BY DEF TypeOK, Pending
  <2>1. ASSUME UNCHANGED <<conv, edit>>,
               \/ UNCHANGED at
               \/ \E t \in Turns, place \in Places \ {"save"} : Goes(t, place)
        PROVE  ~conv'.live /\ Pending' = {}
    BY <2>0, <2>1 DEF Goes, Pending
  <2>2. ASSUME NEW t \in Turns,
               \/ Get(t) \/ ListMessages(t) \/ RunReturns(t) \/ AppendMessages(t)
               \/ TitleFind(t) \/ Die(t)
        PROVE  ~conv'.live /\ Pending' = {}
    <3>1. UNCHANGED <<conv, edit>>
      BY <2>2 DEF Get, ListMessages, RunReturns, AppendMessages, TitleFind, Die, row
    <3>2. \E place \in Places \ {"save"} : Goes(t, place)
      BY <2>2 DEF Get, ListMessages, RunReturns, AppendMessages, AfterSaving, TitleFind,
                  FindConversation, Die, Places, Final
    <3>3. QED
      BY <2>1, <3>1, <3>2
  <2>3. ASSUME NEW t \in Turns, DrawId(t) \/ Leave(t) PROVE ~conv'.live /\ Pending' = {}
    BY <2>1, <2>3 DEF DrawId, Leave, row
  <2>4. ASSUME NEW t \in Turns, TitleSave(t) PROVE FALSE
    BY <2>0, <2>4 DEF TitleSave
  <2>5. ASSUME NEW e \in Edits, EditFind(e) PROVE ~conv'.live /\ Pending' = {}
    <3>1. edit' = [edit EXCEPT ![e].at = "done"] /\ UNCHANGED <<conv, at>>
      BY <2>5 DEF EditFind, FindConversation
    <3>2. \A c \in Edits : edit'[c].at # "found"
      BY <2>0, <3>1
    <3>3. QED
      BY <2>0, <3>1, <3>2 DEF Pending
  <2>6. ASSUME NEW e \in Edits, EditSave(e) PROVE FALSE
    BY <2>0, <2>6 DEF EditSave
  <2>7. ASSUME NEW d \in Deletes, DeleteFind(d) \/ DeleteMessages(d)
        PROVE  ~conv'.live /\ Pending' = {}
    BY <2>1, <2>7 DEF DeleteFind, DeleteMessages, row
  <2>8. ASSUME NEW d \in Deletes, DeleteRow(d) PROVE ~conv'.live /\ Pending' = {}
    <3>1. conv' = [conv EXCEPT !.live = FALSE] \/ UNCHANGED conv
      BY <2>8 DEF DeleteRow
    <3>2. ~conv'.live
      BY <2>0, <3>1 DEF Conversation
    <3>3. UNCHANGED <<at, edit>>
      BY <2>8 DEF DeleteRow
    <3>4. QED
      BY <2>0, <3>2, <3>3 DEF Pending
  <2>9. CASE UNCHANGED vars
    BY <2>1, <2>9 DEF vars, row
  <2>10. QED
    BY <2>2, <2>3, <2>4, <2>5, <2>6, <2>7, <2>8, <2>9 DEF Next
<1>2. QED
  BY <1>1, TypeCorrect, PTL DEF Spec, StaysGone

-----------------------------------------------------------------------------
\* The numbers of the positions in S go up by one from 1.
LEMMA RankGoesUp ==
    ASSUME NEW S, IsFiniteSet(S), S \subseteq Nat
    PROVE  /\ Cardinality(S) \in Nat
           /\ \A i \in S : RankIn(S, i) \in 1 .. Cardinality(S)
           /\ \A i, j \in S : i < j => RankIn(S, i) < RankIn(S, j)
<1> DEFINE UpTo(i) == {j \in S : j <= i}
<1>1. \A i \in S : /\ IsFiniteSet(UpTo(i)) /\ Cardinality(UpTo(i)) \in Nat
                   /\ Cardinality(UpTo(i)) <= Cardinality(S)
  <2> SUFFICES ASSUME NEW i \in S
               PROVE  /\ IsFiniteSet(UpTo(i)) /\ Cardinality(UpTo(i)) \in Nat
                      /\ Cardinality(UpTo(i)) <= Cardinality(S)
    OBVIOUS
  <2>1. UpTo(i) \in SUBSET S
    OBVIOUS
  <2>2. QED
    BY <2>1, FS_Subset, FS_CardinalityType
<1>2. Cardinality(S) \in Nat
  BY FS_CardinalityType
<1>3. ASSUME NEW i \in S PROVE Cardinality(UpTo(i)) # 0
  <2>1. i \in UpTo(i)
    OBVIOUS
  <2>2. QED
    BY <1>1, <2>1, FS_EmptySet
<1>4. ASSUME NEW i \in S, NEW j \in S, i < j
      PROVE  Cardinality(UpTo(i)) < Cardinality(UpTo(j))
  <2>1. UpTo(i) \in SUBSET UpTo(j) /\ j \in UpTo(j) /\ j \notin UpTo(i)
    <3>1. i \in Nat /\ j \in Nat /\ \A k \in S : k \in Nat
      OBVIOUS
    <3>2. ~(j <= i) /\ j <= j
      BY <1>4, <3>1
    <3>3. ASSUME NEW k \in S, k <= i PROVE k <= j
      BY <1>4, <3>1, <3>3
    <3>4. QED
      BY <3>2, <3>3
  <2>2. UpTo(i) # UpTo(j)
    BY <2>1
  <2> HIDE DEF UpTo
  <2>3. Cardinality(UpTo(i)) <= Cardinality(UpTo(j)) /\ Cardinality(UpTo(i)) # Cardinality(UpTo(j))
    BY <1>1, <2>1, <2>2, FS_Subset
  <2>4. QED
    BY <1>1, <2>3
<1>5. \A i \in S : RankIn(S, i) = Cardinality(UpTo(i))
  BY DEF RankIn
<1> HIDE DEF UpTo
<1>6. \A i \in S : RankIn(S, i) \in 1 .. Cardinality(S)
  BY <1>1, <1>2, <1>3, <1>5
<1>7. QED
  BY <1>2, <1>4, <1>5, <1>6

LEMMA RankIsOwn ==
    ASSUME NEW S, IsFiniteSet(S), S \subseteq Nat, NEW i \in S, NEW j \in S,
           RankIn(S, i) = RankIn(S, j)
    PROVE  i = j
<1>0. /\ Cardinality(S) \in Nat
      /\ RankIn(S, i) \in 1 .. Cardinality(S) /\ RankIn(S, j) \in 1 .. Cardinality(S)
      /\ i < j => RankIn(S, i) < RankIn(S, j)
      /\ j < i => RankIn(S, j) < RankIn(S, i)
  BY RankGoesUp, Zenon
<1>1. ~(i < j) /\ ~(j < i)
  BY <1>0
<1>2. QED
  BY <1>1

LEMMA RankIsOnto ==
    ASSUME NEW S, IsFiniteSet(S), S \subseteq Nat, NEW k \in 1 .. Cardinality(S)
    PROVE  \E i \in S : RankIn(S, i) = k
<1> DEFINE n == Cardinality(S)
           rank == [i \in S |-> RankIn(S, i)]
<1>0. n \in Nat /\ \A i \in S : RankIn(S, i) \in 1 .. n
  BY RankGoesUp, Zenon
<1>1. n \in Nat /\ IsFiniteSet(1 .. n) /\ Cardinality(1 .. n) = n
  <2>1. 1 \in Int /\ n \in Int
    BY <1>0
  <2>2. IsFiniteSet(1 .. n) /\ Cardinality(1 .. n) = IF 1 > n THEN 0 ELSE n - 1 + 1
    BY <2>1, FS_Interval
  <2>3. QED
    BY <1>0, <2>2
<1>2. rank \in [S -> 1 .. n]
  BY <1>0
<1>3. rank \in Injection(S, 1 .. n)
  <2>1. \A i, j \in S : rank[i] = rank[j] => i = j
    BY RankIsOwn
  <2>2. QED
    BY <1>2, <2>1 DEF Injection, IsInjective
<1> HIDE DEF rank
<1>4. rank \in Surjection(S, 1 .. n)
  BY <1>1, <1>3, FS_Injection
<1>5. PICK i \in S : rank[i] = k
  BY <1>4 DEF Surjection
<1>6. QED
  BY <1>5 DEF rank

\* Where no position between two is missing, the numbers count them.
LEMMA RankOfRun ==
    ASSUME NEW S, IsFiniteSet(S), S \subseteq Nat, NEW i \in S, NEW j \in S, i <= j,
           i + 1 .. j \subseteq S
    PROVE  RankIn(S, j) = RankIn(S, i) + (j - i)
<1> DEFINE low == {k \in S : k <= i}
           run == i + 1 .. j
<1>1. i \in Nat /\ j \in Nat /\ \A k \in S : k \in Nat
  OBVIOUS
<1>2. {k \in S : k <= j} = low \cup run
  <2>1. \A k \in S : k <= j <=> k <= i \/ k \in run
    BY <1>1
  <2>2. run \subseteq S
    OBVIOUS
  <2> HIDE DEF run
  <2>3. \A k : k \in {l \in S : l <= j} <=> k \in low \cup run
    BY <2>1, <2>2
  <2>4. QED
    BY <2>3
<1>3. low \cap run = {}
  BY <1>1
<1>4. IsFiniteSet(low) /\ Cardinality(low) \in Nat
  <2>1. low \in SUBSET S
    OBVIOUS
  <2>2. QED
    BY <2>1, FS_Subset, FS_CardinalityType
<1>5. IsFiniteSet(run) /\ Cardinality(run) = j - i
  <2>1. i + 1 \in Int /\ j \in Int
    BY <1>1
  <2>2. IsFiniteSet(run) /\ Cardinality(run) = IF i + 1 > j THEN 0 ELSE j - (i + 1) + 1
    BY <2>1, FS_Interval
  <2>3. QED
    BY <1>1, <2>2
<1>6. RankIn(S, i) = Cardinality(low) /\ RankIn(S, j) = Cardinality(low \cup run)
  BY <1>2 DEF RankIn
<1> HIDE DEF low, run
<1>7. Cardinality(low \cup run) = Cardinality(low) + Cardinality(run) - 0
  BY <1>3, <1>4, <1>5, FS_Union, FS_EmptySet
<1>8. QED
  BY <1>1, <1>4, <1>5, <1>6, <1>7

-----------------------------------------------------------------------------
\* The rows of an INSERT come from one turn's batch, which it has until its end.
BatchInHand ==
    \A t \in Turns :
        /\ at[t] \in {"new", "load", "list", "run"} => next[t] = 1
        /\ at[t] = "insert" \/ saved[t] = "stored" => batch[t] \in Batches
        /\ next[t] <= Len(batch[t]) + 1

\* Where no two INSERTs met, the rows of one lie behind one another, as far apart
\* as in the batch; the last of an INSERT under way is the last of all.
InRuns ==
    ~crowded =>
        /\ \A t \in Turns : Inserting(t) =>
               /\ Len(log) >= 1
               /\ log[Len(log)] = [turn |-> t, row |-> next[t] - 1]
        /\ \A i, j \in DOMAIN log :
               log[i].turn = log[j].turn => j - i = log[j].row - log[i].row

LEMMA BatchStep == TypeOK /\ OutcomeFits /\ BatchInHand /\ [Next]_vars => BatchInHand'
<1> SUFFICES ASSUME TypeOK, OutcomeFits, BatchInHand, [Next]_vars PROVE BatchInHand'
  OBVIOUS
<1>0. /\ at \in [Turns -> Places]
      /\ next \in [Turns -> Nat \ {0}]
      /\ saved \in [Turns -> {"no", "stored", "deleted", "aborted"}]
      /\ batch \in [Turns -> Batches \cup {<<>>}]
      /\ \A t \in Turns : Len(batch[t]) \in Nat
  BY BatchLength DEF TypeOK
<1>1. ASSUME NEW t \in Turns, Get(t) \/ ListMessages(t) \/ TitleFind(t) \/ TitleSave(t)
      PROVE  BatchInHand'
  <2>1. UNCHANGED <<batch, next, saved>>
    BY <1>1 DEF Get, ListMessages, TitleFind, TitleSave, messages
  <2>2. \/ /\ at[t] \in {"new", "load", "list"}
           /\ \E place \in {"load", "list", "run", "refused"} : Goes(t, place)
        \/ /\ at[t] \in {"title", "save"}
           /\ \E place \in {"save", "done"} : Goes(t, place)
    BY <1>1 DEF Get, ListMessages, TitleFind, TitleSave
  <2>3. QED
    BY <1>0, <2>1, <2>2 DEF BatchInHand, Goes
<1>2. ASSUME NEW t \in Turns, RunReturns(t) PROVE BatchInHand'
  <2>1. PICK b \in Batches : batch' = [batch EXCEPT ![t] = b]
    BY <1>2 DEF RunReturns
  <2>2. at[t] = "run" /\ at' = [at EXCEPT ![t] = "insert"] /\ UNCHANGED <<next, saved>>
    BY <1>2 DEF RunReturns, Goes
  <2>3. next[t] = 1 /\ Len(b) \in Nat
    BY <2>2, BatchAssumption DEF BatchInHand
  <2>4. QED
    BY <1>0, <2>1, <2>2, <2>3 DEF BatchInHand
<1>3. ASSUME NEW t \in Turns, DrawId(t) PROVE BatchInHand'
  <2>1. /\ next' = [next EXCEPT ![t] = @ + 1] /\ UNCHANGED <<at, saved, batch>>
        /\ next[t] <= Len(batch[t]) /\ at[t] = "insert"
    BY <1>3 DEF DrawId
  <2>2. QED
    BY <1>0, <2>1 DEF BatchInHand
<1>4. ASSUME NEW t \in Turns, UNCHANGED <<batch, next>>,
             UNCHANGED saved \/ Ends(t, "stored") \/ Ends(t, "aborted"),
             \E place \in Final \cup {"title"} : Goes(t, place)
      PROVE  BatchInHand'
  BY <1>0, <1>4 DEF BatchInHand, Ends, Goes, Final
<1>5. ASSUME NEW t \in Turns, AppendMessages(t) PROVE BatchInHand'
  <2>1. UNCHANGED <<batch, next>> /\ (Ends(t, "stored") \/ Ends(t, "aborted"))
    BY <1>5 DEF AppendMessages
  <2>2. \E place \in Final \cup {"title"} : Goes(t, place)
    BY <1>5 DEF AppendMessages, AfterSaving, Final
  <2>3. QED
    BY <1>4, <2>1, <2>2
<1>6. ASSUME NEW t \in Turns, Die(t) PROVE BatchInHand'
  <2>1. /\ UNCHANGED <<batch, next>> /\ Goes(t, "gone") /\ "gone" \in Final
        /\ UNCHANGED saved \/ Ends(t, "stored") \/ Ends(t, "aborted")
    BY <1>6 DEF Die, Final
  <2>2. QED
    BY <1>4, <2>1
<1>7. ASSUME NEW d \in Deletes, DeleteMessages(d) PROVE BatchInHand'
  <2>1. UNCHANGED <<at, batch, next>> /\ (Wipe \/ UNCHANGED saved)
    BY <1>7 DEF DeleteMessages
  <2>2. QED
    BY <1>0, <2>1 DEF BatchInHand, Wipe
<1>8. ASSUME UNCHANGED <<at, batch, next, saved>> PROVE BatchInHand'
  BY <1>8 DEF BatchInHand
<1>9. ASSUME NEW t \in Turns, Leave(t) PROVE BatchInHand'
  BY <1>8, <1>9 DEF Leave, messages
<1>10. ASSUME NEW e \in Edits, EditFind(e) \/ EditSave(e) PROVE BatchInHand'
  BY <1>8, <1>10 DEF EditFind, EditSave, messages
<1>11. ASSUME NEW d \in Deletes, DeleteFind(d) \/ DeleteRow(d) PROVE BatchInHand'
  BY <1>8, <1>11 DEF DeleteFind, DeleteRow, messages
<1>12. CASE UNCHANGED vars
  BY <1>8, <1>12 DEF vars, messages
<1>13. QED
  BY <1>1, <1>2, <1>3, <1>5, <1>6, <1>7, <1>9, <1>10, <1>11, <1>12 DEF Next

LEMMA LogIs ==
    ASSUME TypeOK
    PROVE  /\ Len(log) \in Nat /\ DOMAIN log = 1 .. Len(log)
           /\ \A i \in DOMAIN log : log[i].turn \in Turns /\ log[i].row \in Nat \ {0}
<1>1. log \in Seq([turn: Turns, row: Nat \ {0}])
  BY DEF TypeOK
<1>2. Len(log) \in Nat /\ DOMAIN log = 1 .. Len(log)
  BY <1>1
<1>3. \A i \in DOMAIN log : log[i] \in [turn: Turns, row: Nat \ {0}]
  BY <1>1, <1>2, ElementOfSeq
<1>4. QED
  BY <1>2, <1>3

\* A row that draws its id while no other INSERT is under way comes right behind
\* the row before it.
LEMMA RunGrows ==
    ASSUME TypeOK, RowsInOrder, InRuns, NEW u \in Turns, DrawId(u)
    PROVE  InRuns'
<1> SUFFICES ASSUME ~crowded'
             PROVE  /\ \A t \in Turns : Inserting(t)' =>
                           /\ Len(log') >= 1
                           /\ log'[Len(log')] = [turn |-> t, row |-> next'[t] - 1]
                    /\ \A i, j \in DOMAIN log' :
                           log'[i].turn = log'[j].turn => j - i = log'[j].row - log'[i].row
  BY DEF InRuns
<1> DEFINE n == Len(log) + 1
           new == [turn |-> u, row |-> next[u]]
<1>1. /\ ~crowded /\ \A t \in Turns \ {u} : ~Inserting(t)
      /\ log' = Append(log, new) /\ next' = [next EXCEPT ![u] = @ + 1] /\ UNCHANGED at
      /\ at[u] = "insert"
  BY DEF DrawId
<1>2. next \in [Turns -> Nat \ {0}] /\ new \in [turn: Turns, row: Nat \ {0}]
      /\ log \in Seq([turn: Turns, row: Nat \ {0}])
  BY DEF TypeOK
<1>3. /\ Len(log) \in Nat /\ DOMAIN log = 1 .. Len(log)
      /\ \A i \in DOMAIN log : log[i].turn \in Turns /\ log[i].row \in Nat \ {0}
  BY LogIs
<1>4. /\ Len(log') = n /\ DOMAIN log' = DOMAIN log \cup {n} /\ log'[n] = new
      /\ \A i \in DOMAIN log : log'[i] = log[i]
  BY <1>1, <1>2, <1>3
<1>5. ASSUME NEW t \in Turns, Inserting(t)'
      PROVE  Len(log') >= 1 /\ log'[Len(log')] = [turn |-> t, row |-> next'[t] - 1]
  <2>1. t = u
    BY <1>1, <1>2, <1>5 DEF Inserting
  <2>2. next'[u] = next[u] + 1 /\ next[u] \in Nat
    BY <1>1, <1>2
  <2>3. next'[u] - 1 = next[u]
    BY <2>2
  <2>4. QED
    BY <1>3, <1>4, <2>1, <2>3
<1>6. ASSUME NEW i \in DOMAIN log, log[i].turn = u PROVE n - i = next[u] - log[i].row
  <2>1. log[i].row < next[u] /\ log[i].row \in Nat \ {0} /\ next[u] \in Nat
    BY <1>2, <1>3, <1>6 DEF RowsInOrder, RowsOf
  <2>2. Inserting(u)
    BY <1>1, <2>1 DEF Inserting
  <2>3. Len(log) \in DOMAIN log /\ log[Len(log)] = [turn |-> u, row |-> next[u] - 1]
    BY <1>1, <1>3, <2>2 DEF InRuns
  <2>4. Len(log) - i = (next[u] - 1) - log[i].row
    BY <1>1, <1>6, <2>3 DEF InRuns
  <2>5. i \in Nat
    BY <1>3
  <2>6. QED
    BY <1>3, <2>1, <2>4, <2>5
<1>7. ASSUME NEW i \in DOMAIN log', NEW j \in DOMAIN log', log'[i].turn = log'[j].turn
      PROVE  j - i = log'[j].row - log'[i].row
  <2>1. CASE i \in DOMAIN log /\ j \in DOMAIN log
    BY <1>1, <1>4, <1>7, <2>1 DEF InRuns
  <2>2. CASE i \in DOMAIN log /\ j = n
    BY <1>4, <1>6, <1>7, <2>2
  <2>3. CASE i = n /\ j \in DOMAIN log
    <3>1. log[j].turn = u /\ log'[j].row = log[j].row /\ log'[i].row = next[u]
      BY <1>4, <1>7, <2>3
    <3>2. n - j = next[u] - log[j].row
      BY <1>6, <2>3, <3>1
    <3>3. j \in Nat /\ log[j].row \in Nat /\ next[u] \in Nat /\ n \in Nat
      BY <1>2, <1>3, <2>3
    <3>4. QED
      BY <2>3, <3>1, <3>2, <3>3
  <2>4. CASE i = n /\ j = n
    BY <1>2, <1>3, <1>4, <2>4
  <2>5. QED
    BY <1>4, <2>1, <2>2, <2>3, <2>4
<1>8. QED
  BY <1>5, <1>7

LEMMA RunsStep ==
    TypeOK /\ RowsInOrder /\ BatchInHand /\ InRuns /\ [Next]_vars => InRuns'
<1> SUFFICES ASSUME TypeOK, RowsInOrder, BatchInHand, InRuns, [Next]_vars PROVE InRuns'
  OBVIOUS
<1>0. at \in [Turns -> Places]
  BY DEF TypeOK
<1>1. ASSUME UNCHANGED <<next, log, crowded>>,
             \A t \in Turns : at'[t] = "insert" => at[t] = "insert" \/ next[t] = 1
      PROVE  InRuns'
  BY <1>1 DEF InRuns, Inserting
<1>2. ASSUME NEW t \in Turns, UNCHANGED <<next, log, crowded>>,
             \E place \in Places : Goes(t, place) /\ (place = "insert" => next[t] = 1)
      PROVE  InRuns'
  BY <1>0, <1>1, <1>2 DEF Goes
<1>3. ASSUME NEW t \in Turns,
             Get(t) \/ ListMessages(t) \/ TitleFind(t) \/ TitleSave(t) \/ AppendMessages(t) \/ Die(t)
      PROVE  InRuns'
  <2>1. UNCHANGED <<next, log, crowded>>
    BY <1>3 DEF Get, ListMessages, TitleFind, TitleSave, AppendMessages, Die, messages
  <2>2. \E place \in Places \ {"insert"} : Goes(t, place)
    BY <1>3 DEF Get, ListMessages, TitleFind, TitleSave, AppendMessages, AfterSaving, Die,
                Places, Final
  <2>3. QED
    BY <1>2, <2>1, <2>2
<1>4. ASSUME NEW t \in Turns, RunReturns(t) PROVE InRuns'
  <2>1. UNCHANGED <<next, log, crowded>> /\ Goes(t, "insert") /\ at[t] = "run"
    BY <1>4 DEF RunReturns
  <2>2. next[t] = 1 /\ "insert" \in Places
    BY <2>1 DEF BatchInHand, Places
  <2>3. QED
    BY <1>2, <2>1, <2>2
<1>5. ASSUME NEW t \in Turns, DrawId(t) PROVE InRuns'
  BY <1>5, RunGrows
<1>6. ASSUME UNCHANGED <<at, next, log, crowded>> PROVE InRuns'
  BY <1>1, <1>6
<1>7. ASSUME NEW t \in Turns, Leave(t) PROVE InRuns'
  BY <1>6, <1>7 DEF Leave, messages
<1>8. ASSUME NEW e \in Edits, EditFind(e) \/ EditSave(e) PROVE InRuns'
  BY <1>6, <1>8 DEF EditFind, EditSave, messages
<1>9. ASSUME NEW d \in Deletes, DeleteFind(d) \/ DeleteMessages(d) \/ DeleteRow(d)
      PROVE  InRuns'
  BY <1>6, <1>9 DEF DeleteFind, DeleteMessages, DeleteRow, messages
<1>10. CASE UNCHANGED vars
  BY <1>6, <1>10 DEF vars, messages
<1>11. QED
  BY <1>3, <1>4, <1>5, <1>7, <1>8, <1>9, <1>10 DEF Next

-----------------------------------------------------------------------------
LogInv == TypeOK /\ RowsInOrder /\ OutcomeFits /\ BatchInHand /\ InRuns

LEMMA VisibleIs ==
    ASSUME TypeOK
    PROVE  IsFiniteSet(Visible) /\ Visible \subseteq Nat /\ Cardinality(Visible) \in Nat
<1>1. Len(log) \in Nat /\ Visible \subseteq 1 .. Len(log)
  BY LogIs DEF Visible
<1>2. IsFiniteSet(1 .. Len(log)) /\ Visible \in SUBSET (1 .. Len(log))
  BY <1>1, FS_Interval
<1>3. IsFiniteSet(Visible) /\ Cardinality(Visible) \in Nat
  BY <1>2, FS_Subset, FS_CardinalityType
<1>4. QED
  BY <1>1, <1>3

\* A visible row is a row of a whole batch.
LEMMA VisibleRow ==
    ASSUME LogInv, NEW i \in Visible
    PROVE  /\ i \in DOMAIN log /\ i \in Nat /\ log[i].turn \in Turns
           /\ saved[log[i].turn] = "stored"
           /\ batch[log[i].turn] \in Batches
           /\ next[log[i].turn] = Len(batch[log[i].turn]) + 1
           /\ log[i].row \in 1 .. Len(batch[log[i].turn])
<1> DEFINE t == log[i].turn
<1>1. /\ i \in DOMAIN log /\ i \in Nat /\ t \in Turns /\ saved[t] = "stored"
      /\ log[i].row \in Nat \ {0}
  BY LogIs DEF LogInv, Visible, IsVisible
<1>2. log[i].row < next[t]
  BY <1>1 DEF LogInv, RowsInOrder, RowsOf
<1>3. batch[t] \in Batches /\ next[t] <= Len(batch[t]) + 1
  BY <1>1 DEF LogInv, BatchInHand
<1>4. next[t] > Len(batch[t])
  BY <1>1 DEF LogInv, OutcomeFits
<1>5. Len(batch[t]) \in Nat /\ next[t] \in Nat
  BY <1>1, <1>3, BatchAssumption DEF LogInv, TypeOK
<1>6. QED
  BY <1>1, <1>2, <1>3, <1>4, <1>5

\* With it every other row of the batch is visible, as far from it in the history
\* as in the batch.
LEMMA VisibleRun ==
    ASSUME LogInv, ~crowded, NEW i \in Visible,
           NEW k \in 1 .. Len(batch[log[i].turn])
    PROVE  \E j \in Visible :
               /\ log[j].turn = log[i].turn /\ log[j].row = k
               /\ RankIn(Visible, j) = RankIn(Visible, i) + (k - log[i].row)
<1> DEFINE t == log[i].turn
           n == Len(batch[t])
<1>1. /\ i \in DOMAIN log /\ i \in Nat /\ t \in Turns /\ saved[t] = "stored"
      /\ log[i].row \in 1 .. n /\ next[t] = n + 1 /\ n \in Nat
  <2>1. batch[t] \in Batches
    BY VisibleRow
  <2>2. QED
    BY <2>1, VisibleRow, BatchAssumption
<1>2. ASSUME NEW m \in 1 .. n
      PROVE  \E j \in Visible : log[j].turn = t /\ log[j].row = m /\ j = i + (m - log[i].row)
  <2>1. m \in 1 .. next[t] - 1
    BY <1>1
  <2>2. PICK j \in RowsOf(t) : log[j].row = m
    BY <1>1, <2>1 DEF LogInv, RowsInOrder
  <2>3. j \in DOMAIN log /\ log[j].turn = t
    BY DEF RowsOf
  <2>4. j \in Visible /\ j \in Nat
    BY <1>1, <2>3, LogIs DEF Visible, IsVisible, LogInv
  <2>5. j - i = log[j].row - log[i].row
    BY <1>1, <2>3 DEF LogInv, InRuns
  <2>6. j = i + (m - log[i].row)
    BY <1>1, <2>2, <2>4, <2>5
  <2>7. QED
    BY <2>2, <2>3, <2>4, <2>6
<1>3. PICK j \in Visible : log[j].turn = t /\ log[j].row = k /\ j = i + (k - log[i].row)
  BY <1>2
<1>4. IsFiniteSet(Visible) /\ Visible \subseteq Nat /\ j \in Nat
  BY VisibleIs DEF LogInv
<1>5. ASSUME NEW z \in Nat, (i <= z /\ z <= j) \/ (j <= z /\ z <= i)
      PROVE  z \in Visible
  <2>1. log[i].row + (z - i) \in 1 .. n
    <3>1. /\ log[i].row \in Nat /\ 1 <= log[i].row /\ log[i].row <= n
          /\ k \in Nat /\ 1 <= k /\ k <= n /\ j = i + (k - log[i].row)
      BY <1>1, <1>3
    <3> HIDE DEF n
    <3>2. CASE i <= z /\ z <= j
      BY <1>1, <1>4, <3>1, <3>2
    <3>3. CASE j <= z /\ z <= i
      BY <1>1, <1>4, <3>1, <3>3
    <3>4. QED
      BY <1>5, <3>2, <3>3
  <2>2. z = i + ((log[i].row + (z - i)) - log[i].row)
    BY <1>1
  <2>3. QED
    BY <1>2, <2>1, <2>2
<1>6. CASE i <= j
  <2>1. i + 1 .. j \subseteq Visible
    <3> SUFFICES ASSUME NEW z \in i + 1 .. j PROVE z \in Visible
      OBVIOUS
    <3>1. z \in Nat /\ i <= z /\ z <= j
      BY <1>1, <1>4
    <3>2. QED
      BY <1>5, <3>1
  <2>2. RankIn(Visible, j) = RankIn(Visible, i) + (j - i)
    BY <1>4, <1>6, <2>1, RankOfRun
  <2>3. j - i = k - log[i].row
    BY <1>1, <1>3
  <2>4. QED
    BY <1>3, <2>2, <2>3
<1>7. CASE j <= i
  <2>1. j + 1 .. i \subseteq Visible
    <3> SUFFICES ASSUME NEW z \in j + 1 .. i PROVE z \in Visible
      OBVIOUS
    <3>1. z \in Nat /\ j <= z /\ z <= i
      BY <1>1, <1>4
    <3>2. QED
      BY <1>5, <3>1
  <2>2. RankIn(Visible, i) = RankIn(Visible, j) + (i - j)
    BY <1>4, <1>7, <2>1, RankOfRun
  <2>3. i - j = log[i].row - k
    BY <1>1, <1>3
  <2>4. RankIn(Visible, i) \in Int /\ RankIn(Visible, j) \in Int
    <3>1. /\ Cardinality(Visible) \in Nat
          /\ RankIn(Visible, i) \in 1 .. Cardinality(Visible)
          /\ RankIn(Visible, j) \in 1 .. Cardinality(Visible)
      BY <1>4, RankGoesUp
    <3>2. QED
      BY <3>1
  <2>5. RankIn(Visible, j) = RankIn(Visible, i) + (k - log[i].row)
    BY <1>1, <2>2, <2>3, <2>4
  <2>6. QED
    BY <1>3, <2>5
<1>8. QED
  BY <1>1, <1>4, <1>6, <1>7

\* Each message of the history is the visible row of its number.
LEMMA HistoryIs ==
    ASSUME TypeOK
    PROVE  /\ DOMAIN History = 1 .. Cardinality(Visible)
           /\ Len(History) = Cardinality(Visible)
           /\ \A i \in Visible : /\ RankIn(Visible, i) \in DOMAIN History
                                 /\ History[RankIn(Visible, i)] = batch[log[i].turn][log[i].row]
           /\ \A k \in DOMAIN History : \E i \in Visible : RankIn(Visible, i) = k
<1> DEFINE n == Cardinality(Visible)
<1>1. IsFiniteSet(Visible) /\ Visible \subseteq Nat /\ n \in Nat
  BY VisibleIs
<1>2. DOMAIN History = 1 .. n
  BY DEF History
<1>3. Len(History) = n
  <2> DEFINE S == {History[k] : k \in 1 .. n}
  <2>1. History = [k \in 1 .. n |-> History[k]]
    BY DEF History
  <2>2. History \in [1 .. n -> S]
    BY <2>1
  <2> HIDE DEF S
  <2>3. History \in Seq(S)
    BY <1>1, <2>2, SeqDef
  <2>4. QED
    BY <1>1, <1>2, <2>3, LenProperties
<1>4. ASSUME NEW i \in Visible
      PROVE  /\ RankIn(Visible, i) \in DOMAIN History
             /\ History[RankIn(Visible, i)] = batch[log[i].turn][log[i].row]
  <2> DEFINE k == RankIn(Visible, i)
             x == CHOOSE j \in Visible : RankIn(Visible, j) = k
  <2>1. k \in 1 .. n
    BY <1>1, RankGoesUp
  <2>2. x \in Visible /\ RankIn(Visible, x) = k
    OBVIOUS
  <2> HIDE DEF x
  <2>3. x = i
    BY <1>1, <2>2, RankIsOwn
  <2>4. History[k] = batch[log[x].turn][log[x].row]
    BY <2>1 DEF History, x
  <2>5. QED
    BY <1>2, <2>1, <2>3, <2>4
<1>5. ASSUME NEW k \in DOMAIN History PROVE \E i \in Visible : RankIn(Visible, i) = k
  BY <1>1, <1>2, RankIsOnto
<1>6. QED
  BY <1>2, <1>3, <1>4, <1>5

\* Message h of the history is message m of b, and the rest of b is around it.
StandsIn(h, b, m) ==
    /\ m \in DOMAIN b /\ History[h] = b[m]
    /\ \A k \in DOMAIN b : /\ h + (k - m) \in DOMAIN History
                           /\ History[h + (k - m)] = b[k]

\* A history of whole batches is as well formed as they are.
LEMMA WholeHistory == LogInv => HistoryIsWhole
<1> SUFFICES ASSUME LogInv, ~crowded
             PROVE  /\ Answered(History)
                    /\ History # <<>> => Closes(History[Len(History)])
  BY DEF HistoryIsWhole
<1>1. /\ DOMAIN History = 1 .. Cardinality(Visible) /\ Len(History) = Cardinality(Visible)
      /\ \A i \in Visible : /\ RankIn(Visible, i) \in DOMAIN History
                            /\ History[RankIn(Visible, i)] = batch[log[i].turn][log[i].row]
      /\ \A k \in DOMAIN History : \E i \in Visible : RankIn(Visible, i) = k
      /\ Cardinality(Visible) \in Nat
  BY HistoryIs, VisibleIs DEF LogInv
<1>2. ASSUME NEW h \in DOMAIN History
      PROVE  \E b \in Batches, m \in Nat : StandsIn(h, b, m)
  <2>1. PICK i \in Visible : RankIn(Visible, i) = h
    BY <1>1
  <2> DEFINE b == batch[log[i].turn]
             m == log[i].row
  <2>2. /\ b \in Batches /\ m \in 1 .. Len(b) /\ DOMAIN b = 1 .. Len(b)
        /\ Len(b) \in Nat \ {0}
    BY VisibleRow, BatchAssumption
  <2>3. History[h] = b[m]
    BY <1>1, <2>1
  <2>4. ASSUME NEW k \in 1 .. Len(b)
        PROVE  h + (k - m) \in DOMAIN History /\ History[h + (k - m)] = b[k]
    <3>1. PICK j \in Visible :
              /\ log[j].turn = log[i].turn /\ log[j].row = k
              /\ RankIn(Visible, j) = RankIn(Visible, i) + (k - m)
      BY VisibleRun
    <3>2. QED
      BY <1>1, <2>1, <3>1
  <2> HIDE DEF b, m
  <2>5. m \in Nat /\ StandsIn(h, b, m)
    BY <2>2, <2>3, <2>4 DEF StandsIn
  <2>6. QED
    BY <2>2, <2>5
<1>3. ASSUME NEW h \in DOMAIN History, NEW b \in Batches, NEW m \in Nat, StandsIn(h, b, m)
      PROVE  /\ h \in Nat /\ h <= Len(History) /\ Len(History) \in Nat
             /\ Len(b) \in Nat /\ DOMAIN b = 1 .. Len(b) /\ m \in 1 .. Len(b)
             /\ History[h] = b[m]
             /\ \A k \in DOMAIN b : /\ h + (k - m) \in DOMAIN History
                                    /\ History[h + (k - m)] = b[k]
  BY <1>1, <1>3, BatchAssumption DEF StandsIn
<1>4. ASSUME NEW h \in DOMAIN History PROVE AnsweredTo(History, h, Len(History[h].calls))
  <2>1. PICK b \in Batches, m \in Nat : StandsIn(h, b, m)
    BY <1>2
  <2>2. m \in DOMAIN b /\ History[h] = b[m]
    BY <2>1 DEF StandsIn
  <2>3. AnsweredTo(b, m, Len(b[m].calls))
    BY <2>2, WholeAssumption DEF Answered
  <2>4. ASSUME NEW k \in 1 .. Len(b[m].calls)
        PROVE  h + k \in DOMAIN History /\ Answers(History[h + k], History[h].calls[k])
    <3>1. m + k \in DOMAIN b /\ Answers(b[m + k], b[m].calls[k])
      BY <2>3 DEF AnsweredTo
    <3>2. h + ((m + k) - m) \in DOMAIN History /\ History[h + ((m + k) - m)] = b[m + k]
      BY <1>3, <2>1, <3>1
    <3>3. h + ((m + k) - m) = h + k
      BY <1>1
    <3>4. QED
      BY <2>2, <3>1, <3>2, <3>3
  <2>5. QED
    BY <2>2, <2>4 DEF AnsweredTo
<1>5. NoStrayResult(History)
  <2> SUFFICES ASSUME NEW h \in DOMAIN History, History[h].role = "tool"
               PROVE  \E g \in 1 .. h - 1 : h - g \in DOMAIN History[g].calls
    BY DEF NoStrayResult
  <2>1. PICK b \in Batches, m \in Nat : StandsIn(h, b, m)
    BY <1>2
  <2>2. m \in DOMAIN b /\ b[m].role = "tool"
    BY <2>1 DEF StandsIn
  <2>3. NoStrayResult(b)
    BY WholeAssumption DEF Answered
  <2>4. PICK k \in 1 .. m - 1 : m - k \in DOMAIN b[k].calls
    BY <2>2, <2>3 DEF NoStrayResult
  <2>5. k \in DOMAIN b
    <3>1. DOMAIN b = 1 .. Len(b) /\ m \in 1 .. Len(b) /\ Len(b) \in Nat
      BY <1>3, <2>1
    <3>2. QED
      BY <3>1
  <2>6. h + (k - m) \in DOMAIN History /\ History[h + (k - m)] = b[k]
    BY <1>3, <2>1, <2>5
  <2>7. h + (k - m) \in 1 .. h - 1 /\ h - (h + (k - m)) = m - k
    <3>1. h + (k - m) \in 1 .. Len(History) /\ h \in Nat /\ Len(History) \in Nat
      BY <1>1, <2>6
    <3>2. QED
      BY <3>1
  <2>8. QED
    BY <2>4, <2>6, <2>7
<1>6. ASSUME History # <<>> PROVE Closes(History[Len(History)])
  <2> DEFINE h == Len(History)
  <2>1. h \in DOMAIN History
    <3>1. Cardinality(Visible) # 0
      <4>1. SUFFICES ASSUME Cardinality(Visible) = 0 PROVE FALSE
        OBVIOUS
      <4>2. History = [k \in {} |-> History[k]]
        BY <4>1 DEF History
      <4>3. QED
        BY <1>6, <4>2
    <3>2. QED
      BY <1>1, <3>1
  <2>2. PICK b \in Batches, m \in Nat : StandsIn(h, b, m)
    BY <1>2, <2>1
  <2>3. /\ h \in Nat /\ Len(b) \in Nat /\ DOMAIN b = 1 .. Len(b) /\ m \in 1 .. Len(b)
        /\ History[h] = b[m]
        /\ \A k \in DOMAIN b : h + (k - m) \in DOMAIN History
    BY <1>3, <2>1, <2>2
  <2>4. m = Len(b)
    <3>1. Len(b) \in DOMAIN b
      BY <2>3
    <3>2. h + (Len(b) - m) \in 1 .. h
      BY <1>1, <2>3, <3>1
    <3>3. h \in Nat /\ Len(b) \in Nat /\ m \in Nat /\ m <= Len(b)
      BY <2>3
    <3> HIDE DEF h
    <3>4. QED
      BY <3>2, <3>3
  <2>5. Closes(b[Len(b)])
    BY WholeAssumption
  <2>6. QED
    BY <2>3, <2>4, <2>5
<1>7. QED
  BY <1>4, <1>5, <1>6 DEF Answered

LEMMA AlwaysLogged == Spec => []LogInv
<1>1. Init => RowsInOrder /\ OutcomeFits /\ BatchInHand /\ InRuns
  <2> SUFFICES ASSUME Init PROVE RowsInOrder /\ OutcomeFits /\ BatchInHand /\ InRuns
    OBVIOUS
  <2>1. RowsInOrder /\ OutcomeFits
    BY DEF Init, RowsInOrder, OutcomeFits, RowsOf
  <2>2. Len(<<>>) = 0 /\ DOMAIN <<>> = {}
    OBVIOUS
  <2>3. BatchInHand
    BY <2>2 DEF Init, BatchInHand
  <2>4. InRuns
    BY <2>2 DEF Init, InRuns, Inserting
  <2>5. QED
    BY <2>1, <2>3, <2>4
<1>2. TypeOK /\ RowsInOrder /\ OutcomeFits /\ BatchInHand /\ InRuns /\ [Next]_vars =>
          (RowsInOrder /\ OutcomeFits /\ BatchInHand /\ InRuns)'
  BY RowsStep, OutcomeStep, BatchStep, RunsStep
<1>3. QED
  BY <1>1, <1>2, TypeCorrect, PTL DEF Spec, LogInv

\* Whoever loads the history while others store, delete, fail and leave gets whole
\* turns, closed and with every call answered, unless two INSERTs were under way at
\* once (conversation/service.go:185-205).
THEOREM HistoryStaysWhole == Spec => []HistoryIsWhole
  BY AlwaysLogged, WholeHistory, PTL

-----------------------------------------------------------------------------
\* None of the turns that were over when turn t began is in the record.
IsFirst(t) == \A u \in before[t] : saved[u] # "stored"

NamesFirst(r) == r.title \in Turns => at[r.title] # "new" /\ IsFirst(r.title)

\* A turn that is going to name the conversation, or already does.
GoesToName(t) ==
    \/ at[t] \in {"run", "insert"} /\ seen[t] = <<>>
    \/ at[t] \in {"title", "save"}

\* A turn that found no history, and every copy of the row, names only such turns.
NamedInv ==
    /\ seen = [t \in Turns |-> seen[t]]
    /\ \A t \in Turns : before[t] \subseteq Over /\ (GoesToName(t) => IsFirst(t))
    /\ NamesFirst(conv)
    /\ \A w \in Writers : NamesFirst(copy[w])

\* A turn that is stored has rows to see: who sees none is the first.
LEMMA NoHistory ==
    ASSUME LogInv, History = <<>>
    PROVE  \A t \in Turns : saved[t] # "stored"
<1> SUFFICES ASSUME NEW t \in Turns, saved[t] = "stored" PROVE FALSE
  OBVIOUS
<1>1. batch[t] \in Batches /\ next[t] > Len(batch[t])
  BY DEF LogInv, BatchInHand, OutcomeFits
<1>2. Len(batch[t]) \in Nat \ {0} /\ next[t] \in Nat
  BY <1>1, BatchAssumption DEF LogInv, TypeOK
<1>3. 1 \in 1 .. next[t] - 1
  BY <1>1, <1>2
<1>4. PICK i \in RowsOf(t) : log[i].row = 1
  BY <1>3 DEF LogInv, RowsInOrder
<1>5. i \in Visible
  BY <1>4 DEF RowsOf, Visible, IsVisible
<1>6. Cardinality(Visible) # 0
  BY <1>5, VisibleIs, FS_EmptySet DEF LogInv
<1>7. Len(History) # 0
  BY <1>6, HistoryIs DEF LogInv
<1>8. QED
  BY <1>7

\* A turn that is first stays so once it has begun: those before it are over.
LEMMA FirstStays ==
    ASSUME TypeOK, NamedInv, [Next]_vars, NEW t \in Turns, before'[t] = before[t], IsFirst(t)
    PROVE  IsFirst(t)'
<1>1. \A u \in before[t] : saved'[u] = "stored" => saved[u] = "stored"
  BY OverStays DEF NamedInv
<1>2. QED
  BY <1>1 DEF IsFirst

LEMMA NamedInit == Init => NamedInv
<1> SUFFICES ASSUME Init PROVE NamedInv
  OBVIOUS
<1>1. \A t \in Turns : before[t] = {}
  BY DEF Init
<1>2. NamesFirst(Created)
  BY KindAssumption DEF Created, NamesFirst
<1>3. conv = Created /\ \A w \in Writers : copy[w] = Created
  BY DEF Init
<1>4. seen = [t \in Turns |-> seen[t]] /\ \A t \in Turns : at[t] = "new"
  BY DEF Init
<1>5. QED
  BY <1>1, <1>2, <1>3, <1>4 DEF NamedInv, GoesToName

LEMMA NamedStep == LogInv /\ NamedInv /\ [Next]_vars => NamedInv'
<1> SUFFICES ASSUME LogInv, TypeOK, NamedInv, [Next]_vars PROVE NamedInv'
  BY DEF LogInv
<1>0. /\ at \in [Turns -> Places]
      /\ before \in [Turns \cup Deletes -> SUBSET Turns]
      /\ copy \in [Writers -> Conversation]
      /\ conv \in Conversation
      /\ seen = [t \in Turns |-> seen[t]]
  BY DEF TypeOK, NamedInv
\* What was over before a turn that is not new stays as it is; so it is enough to
\* look at the turns that come to name the conversation, and at the titles.
<1>1. ASSUME seen' = [t \in Turns |-> seen'[t]],
             \A t \in Turns :
                 /\ before'[t] = before[t] \/ (at[t] = "new" /\ before'[t] = Over)
                 /\ at[t] # "new" => at'[t] # "new"
                 /\ GoesToName(t)' => at[t] # "new" /\ IsFirst(t),
             NamesFirst([title |-> conv'.title]),
             \A w \in Writers : NamesFirst([title |-> copy'[w].title])
      PROVE  NamedInv'
  <2>1. ASSUME NEW t \in Turns PROVE before'[t] \subseteq Over'
    <3>1. before'[t] \subseteq Over
      BY <1>1 DEF NamedInv
    <3>2. QED
      BY <3>1, OverStays
  <2>2. ASSUME NEW t \in Turns, at[t] # "new", IsFirst(t)
        PROVE  at'[t] # "new" /\ \A u \in before'[t] : saved'[u] # "stored"
    BY <1>1, <2>2, FirstStays DEF IsFirst
  <2>3. \A t \in Turns : GoesToName(t)' => \A u \in before'[t] : saved'[u] # "stored"
    BY <1>1, <2>2
  <2>4. /\ conv'.title \in Turns => at[conv'.title] # "new" /\ IsFirst(conv'.title)
        /\ \A w \in Writers : copy'[w].title \in Turns =>
               at[copy'[w].title] # "new" /\ IsFirst(copy'[w].title)
    BY <1>1 DEF NamesFirst
  <2>5. /\ conv'.title \in Turns => /\ at'[conv'.title] # "new"
                                    /\ \A u \in before'[conv'.title] : saved'[u] # "stored"
        /\ \A w \in Writers : copy'[w].title \in Turns =>
               /\ at'[copy'[w].title] # "new"
               /\ \A u \in before'[copy'[w].title] : saved'[u] # "stored"
    BY <2>2, <2>4
  <2>6. QED
    BY <1>1, <2>1, <2>3, <2>5 DEF NamedInv, NamesFirst, IsFirst
<1>2. /\ NamesFirst([title |-> conv.title])
      /\ \A w \in Writers : NamesFirst([title |-> copy[w].title])
      /\ \A t \in Turns : at[t] \in {"title", "save"} => at[t] # "new" /\ IsFirst(t)
      /\ \A t \in Turns : at[t] \in {"run", "insert"} /\ seen[t] = <<>> =>
             at[t] # "new" /\ IsFirst(t)
  BY DEF NamedInv, NamesFirst, GoesToName
<1>3. ASSUME UNCHANGED <<seen, before>>,
             \A t \in Turns : \/ at'[t] = at[t]
                              \/ at'[t] \in Final
                              \/ at[t] = "run" /\ at'[t] = "insert"
                              \/ at[t] = "insert" /\ seen[t] = <<>> /\ at'[t] = "title"
                              \/ at[t] = "title" /\ at'[t] = "save",
             NamesFirst([title |-> conv'.title]),
             \A w \in Writers : NamesFirst([title |-> copy'[w].title])
      PROVE  NamedInv'
  <2>1. \A t \in Turns : /\ at[t] # "new" => at'[t] # "new"
                         /\ GoesToName(t)' => at[t] # "new" /\ IsFirst(t)
    BY <1>2, <1>3 DEF GoesToName, Final
  <2>2. QED
    BY <1>0, <1>1, <1>3, <2>1
<1>4. ASSUME NEW t \in Turns, Get(t) PROVE NamedInv'
  <2>1. /\ UNCHANGED <<seen, saved, row>>
        /\ at[t] \in {"new", "load"}
        /\ \E place \in {"load", "list", "refused"} : Goes(t, place)
        /\ before' = IF at[t] = "new" THEN [before EXCEPT ![t] = Over] ELSE before
    BY <1>4 DEF Get, messages
  <2>2. /\ at'[t] \in {"load", "list", "refused"}
        /\ \A u \in Turns \ {t} : at'[u] = at[u] /\ before'[u] = before[u]
        /\ before'[t] = before[t] \/ (at[t] = "new" /\ before'[t] = Over)
    BY <1>0, <2>1 DEF Goes
  <2>3. \A u \in Turns : /\ at[u] # "new" => at'[u] # "new"
                         /\ GoesToName(u)' => at[u] # "new" /\ IsFirst(u)
    BY <1>2, <2>1, <2>2 DEF GoesToName
  <2>4. QED
    BY <1>0, <1>1, <1>2, <2>1, <2>2, <2>3 DEF row
<1>5. ASSUME NEW t \in Turns, ListMessages(t) PROVE NamedInv'
  <2>1. /\ UNCHANGED <<before, row>> /\ at[t] = "list"
        /\ \/ Goes(t, "run") /\ seen' = [seen EXCEPT ![t] = History]
           \/ Goes(t, "refused") /\ UNCHANGED seen
    BY <1>5 DEF ListMessages
  <2>2. /\ \A u \in Turns \ {t} : at'[u] = at[u] /\ seen'[u] = seen[u]
        /\ (at'[t] = "run" /\ seen'[t] = History) \/ at'[t] = "refused"
        /\ seen' = [u \in Turns |-> seen'[u]]
    BY <1>0, <2>1 DEF Goes
  <2>3. History = <<>> => IsFirst(t)
    <3>1. before[t] \subseteq Turns
      BY <1>0
    <3>2. QED
      BY <3>1, NoHistory DEF IsFirst
  <2>4. \A u \in Turns : /\ at[u] # "new" => at'[u] # "new"
                         /\ GoesToName(u)' => at[u] # "new" /\ IsFirst(u)
    BY <1>2, <2>1, <2>2, <2>3 DEF GoesToName
  <2>5. QED
    BY <1>1, <1>2, <2>1, <2>2, <2>4 DEF row
<1>6. ASSUME NEW t \in Turns, RunReturns(t) PROVE NamedInv'
  <2>1. UNCHANGED <<seen, before, row>> /\ at[t] = "run" /\ Goes(t, "insert")
    BY <1>6 DEF RunReturns
  <2>2. QED
    BY <1>0, <1>2, <1>3, <2>1 DEF Goes, row
<1>7. ASSUME NEW t \in Turns, AppendMessages(t) PROVE NamedInv'
  <2>1. /\ UNCHANGED <<seen, before, row>> /\ at[t] = "insert"
        /\ \/ Goes(t, "title") /\ seen[t] = <<>>
           \/ Goes(t, "done")
           \/ Goes(t, "error")
    BY <1>7 DEF AppendMessages, AfterSaving, Ends
  <2>2. \A u \in Turns : \/ at'[u] = at[u]
                         \/ at'[u] \in Final
                         \/ at[u] = "insert" /\ seen[u] = <<>> /\ at'[u] = "title"
    BY <1>0, <2>1 DEF Goes, Final
  <2>3. QED
    BY <1>2, <1>3, <2>1, <2>2 DEF row
<1>8. ASSUME NEW t \in Turns, TitleFind(t) PROVE NamedInv'
  <2>1. /\ UNCHANGED <<seen, before, conv>> /\ at[t] = "title"
        /\ Goes(t, "save") \/ Goes(t, "done")
        /\ UNCHANGED copy \/ copy' = [copy EXCEPT ![t] = conv]
    BY <1>8 DEF TitleFind, FindConversation
  <2>2. \A w \in Writers : copy'[w] = copy[w] \/ copy'[w] = conv
    BY <1>0, <2>1
  <2>3. \A u \in Turns : \/ at'[u] = at[u]
                         \/ at'[u] \in Final
                         \/ at[u] = "title" /\ at'[u] = "save"
    BY <1>0, <2>1 DEF Goes, Final
  <2>4. QED
    BY <1>2, <1>3, <2>1, <2>2, <2>3
<1>9. ASSUME NEW t \in Turns, TitleSave(t) PROVE NamedInv'
  <2>1. /\ UNCHANGED <<seen, before, copy>> /\ at[t] = "save" /\ Goes(t, "done")
        /\ Save([copy[t] EXCEPT !.title = t]) \/ UNCHANGED conv
    BY <1>9 DEF TitleSave
  <2>2. conv'.title = t \/ conv'.title = conv.title
    <3>1. copy[t] \in Conversation
      BY <1>0 DEF Writers
    <3>2. QED
      BY <2>1, <3>1 DEF Save, Conversation
  <2>3. NamesFirst([title |-> conv'.title])
    BY <1>2, <2>1, <2>2 DEF NamesFirst
  <2>4. \A u \in Turns : at'[u] = at[u] \/ at'[u] \in Final
    BY <1>0, <2>1 DEF Goes, Final
  <2>5. QED
    BY <1>2, <1>3, <2>1, <2>3, <2>4
<1>10. ASSUME NEW t \in Turns, Die(t) PROVE NamedInv'
  <2>1. UNCHANGED <<seen, before, row>> /\ Goes(t, "gone")
    BY <1>10 DEF Die
  <2>2. \A u \in Turns : at'[u] = at[u] \/ at'[u] \in Final
    BY <1>0, <2>1 DEF Goes, Final
  <2>3. QED
    BY <1>2, <1>3, <2>1, <2>2 DEF row
<1>11. ASSUME NEW e \in Edits, EditFind(e) PROVE NamedInv'
  <2>1. /\ UNCHANGED <<at, seen, before, conv>>
        /\ UNCHANGED copy \/ copy' = [copy EXCEPT ![e] = conv]
    BY <1>11 DEF EditFind, FindConversation
  <2>2. \A w \in Writers : copy'[w] = copy[w] \/ copy'[w] = conv
    BY <1>0, <2>1
  <2>3. QED
    BY <1>2, <1>3, <2>1, <2>2
<1>12. ASSUME NEW e \in Edits, EditSave(e) PROVE NamedInv'
  <2>1. /\ UNCHANGED <<at, seen, before, copy>>
        /\ \/ \E title \in {e, copy[e].title} : \E archived :
                  Save([live |-> TRUE, title |-> title, archived |-> archived])
           \/ UNCHANGED conv
    BY <1>12 DEF EditSave
  <2>2. conv'.title = e \/ conv'.title = copy[e].title \/ conv'.title = conv.title
    BY <2>1 DEF Save
  <2>3. e \notin Turns /\ e \in Writers
    BY KindAssumption DEF Writers
  <2>4. NamesFirst([title |-> conv'.title])
    BY <1>2, <2>2, <2>3 DEF NamesFirst
  <2>5. QED
    BY <1>2, <1>3, <2>1, <2>4
<1>13. ASSUME NEW d \in Deletes, DeleteFind(d) PROVE NamedInv'
  <2>1. UNCHANGED <<at, seen, row>> /\ before' = [before EXCEPT ![d] = Over]
    BY <1>13 DEF DeleteFind, messages
  <2>2. \A t \in Turns : before'[t] = before[t]
    BY <1>0, <2>1, KindAssumption
  <2>3. \A t \in Turns : GoesToName(t)' => at[t] # "new" /\ IsFirst(t)
    BY <1>2, <2>1 DEF GoesToName
  <2>4. QED
    BY <1>0, <1>1, <1>2, <2>1, <2>2, <2>3 DEF row
<1>14. ASSUME NEW d \in Deletes, DeleteRow(d) PROVE NamedInv'
  <2>1. /\ UNCHANGED <<at, seen, before, copy>>
        /\ conv' = [conv EXCEPT !.live = FALSE] \/ UNCHANGED conv
    BY <1>14 DEF DeleteRow
  <2>2. conv'.title = conv.title
    BY <1>0, <2>1 DEF Conversation
  <2>3. QED
    BY <1>2, <1>3, <2>1, <2>2
<1>15. ASSUME UNCHANGED <<at, seen, before, row>> PROVE NamedInv'
  BY <1>2, <1>3, <1>15 DEF row
<1>16. ASSUME NEW t \in Turns, DrawId(t) \/ Leave(t) PROVE NamedInv'
  BY <1>15, <1>16 DEF DrawId, Leave
<1>17. ASSUME NEW d \in Deletes, DeleteMessages(d) PROVE NamedInv'
  BY <1>15, <1>17 DEF DeleteMessages
<1>18. CASE UNCHANGED vars
  BY <1>15, <1>18 DEF vars
<1>19. QED
  BY <1>4, <1>5, <1>6, <1>7, <1>8, <1>9, <1>10, <1>11, <1>12, <1>13, <1>14, <1>16,
     <1>17, <1>18 DEF Next

\* A title a turn has given is that of a turn that was first: no turn that was over
\* before it began is in the record, whoever else has named, saved or deleted the
\* conversation since (chat/handler.go:398-409).
THEOREM NamedByTheFirst == Spec => []NamedByFirst
<1>1. NamedInv => NamedByFirst
  BY DEF NamedInv, NamesFirst, IsFirst, NamedByFirst
<1>2. QED
  BY <1>1, NamedInit, NamedStep, AlwaysLogged, PTL DEF Spec
=============================================================================
