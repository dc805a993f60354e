------------------------------ MODULE ChatTurn ------------------------------
(***************************************************************************)
(* One conversation and the requests that work on it at once: SendMessage  *)
(* of internal/platform/chat/handler.go from its first read to its last    *)
(* event, renames and archivings, deletions.  What Run does in between is  *)
(* AgentRun; here it yields one whole turn.  Each statement to Postgres is *)
(* a step of its own, may fail, and may take effect with its reply lost;   *)
(* every statement of a request whose browser has left fails.              *)
(*                                                                         *)
(* The rows of one INSERT become visible together, but each draws its id   *)
(* by itself: two INSERTs at the same moment may alternate.                *)
(***************************************************************************)
EXTENDS ChatMessages

CONSTANTS Turns,      \* SendMessage requests
          Edits,      \* UpdateConversation requests
          Requests,   \* the fields an UpdateConversation request may have
          Deletes,    \* DeleteConversation requests
          Batches,    \* what a turn may add to the history
          MaxFaults   \* bound: statements that fail

ASSUME BatchAssumption ==
    \A b \in Batches : /\ Len(b) \in Nat \ {0}
                       /\ DOMAIN b = 1 .. Len(b)
\* What AgentRun promises of the messages one turn adds.
ASSUME WholeAssumption ==
    \A b \in Batches : IsTurnFrom(b, 0) /\ Answered(b) /\ Closes(b[Len(b)])
ASSUME KindAssumption ==
    /\ Turns \cap Deletes = {} /\ (Turns \cup Deletes) \cap Edits = {}
    /\ "created" \notin Turns \cup Edits
ASSUME RequestAssumption == Requests \subseteq SUBSET {"title", "archived"}
ASSUME FaultAssumption == MaxFaults \in Nat

VARIABLES at,        \* where each SendMessage stands
          seen,      \* the history it loaded
          batch,     \* what Run returned, from originalLen on
          next,      \* the row of it the INSERT is at
          saved,     \* what has become of that INSERT
          log,       \* the ids of conversation_messages in order: whose row each is
          conv,      \* the conversation's row
          copy,      \* the copy of it each Update has read and will save
          edit,      \* where each UpdateConversation stands, and the fields it sets
          deletion,  \* where each DeleteConversation stands
          left,      \* the turns whose browser has left
          faults,
          crowded,   \* history: two INSERTs were under way at once
          before     \* history: the turns that were over when a request began

messages == <<batch, next, saved, log, crowded>>
row == <<conv, copy>>
vars == <<at, seen, messages, row, edit, deletion, left, faults, before>>

\* A turn is over once it has had its last event, or its server is gone.
Final == {"done", "error", "refused", "gone"}
Places == {"new", "load", "list", "run", "insert", "title", "save"} \cup Final
Over == {t \in Turns : at[t] \in Final}

Authors == {"created"} \cup Turns \cup Edits

\* The row keeps who set each field; a row with deleted_at set is not live.
Conversation == [live: BOOLEAN, title: Authors, archived: Authors]
Writers == Turns \cup Edits

TypeOK ==
    /\ at \in [Turns -> Places]
    /\ batch \in [Turns -> Batches \cup {<<>>}]
    /\ next \in [Turns -> Nat \ {0}]
    /\ saved \in [Turns -> {"no", "stored", "deleted", "aborted"}]
    /\ log \in Seq([turn: Turns, row: Nat \ {0}])
    /\ conv \in Conversation
    /\ copy \in [Writers -> Conversation]
    /\ edit \in [Edits -> [at: {"new", "found", "done"}, fields: Requests \cup {{}}]]
    /\ deletion \in [Deletes -> {"new", "messages", "row", "done"}]
    /\ left \subseteq Turns
    /\ faults \in 0 .. MaxFaults
    /\ crowded \in BOOLEAN
    /\ before \in [Turns \cup Deletes -> SUBSET Turns]

-----------------------------------------------------------------------------
\* The row Create has just made; it starts without messages.
Created == [live |-> TRUE, title |-> "created", archived |-> "created"]

Init ==
    /\ at = [t \in Turns |-> "new"]
    /\ seen = [t \in Turns |-> <<>>]
    /\ batch = [t \in Turns |-> <<>>]
    /\ next = [t \in Turns |-> 1]
    /\ saved = [t \in Turns |-> "no"]
    /\ log = <<>>
    /\ conv = Created
    /\ copy = [w \in Writers |-> Created]
    /\ edit = [e \in Edits |-> [at |-> "new", fields |-> {}]]
    /\ deletion = [d \in Deletes |-> "new"]
    /\ left = {}
    /\ faults = 0
    /\ crowded = FALSE
    /\ before = [r \in Turns \cup Deletes |-> {}]

Fault == faults < MaxFaults /\ faults' = faults + 1
NoFault == UNCHANGED faults

Goes(t, place) == at' = [at EXCEPT ![t] = place]

\* A statement of turn t works, or fails.
Works(t) == t \notin left /\ NoFault
Fails(t) == (t \in left /\ NoFault) \/ Fault

-----------------------------------------------------------------------------
\* Service.Get, first of SendMessage and then of LoadHistory. An error of either
\* is answered before the stream begins; so is one of what is built beside them.
Get(t) ==
    /\ at[t] \in {"new", "load"}
    /\ \/ Works(t) /\ conv.live /\ Goes(t, IF at[t] = "new" THEN "load" ELSE "list")
       \/ Works(t) /\ ~conv.live /\ Goes(t, "refused")
       \/ Fails(t) /\ Goes(t, "refused")
    /\ before' = IF at[t] = "new" THEN [before EXCEPT ![t] = Over] ELSE before
    /\ UNCHANGED <<seen, messages, row, edit, deletion, left>>

\* Mutant of IsVisible: the rows of an INSERT are there before it has ended.
IsVisibleEarly(r) == saved[r.turn] \in {"no", "stored"}

\* A query sees the rows of the INSERTs that have ended.
IsVisible(r) == saved[r.turn] = "stored"

Visible == {i \in DOMAIN log : IsVisible(log[i])}

\* The history: the visible rows in the order of their ids.
History ==
    [k \in 1 .. Cardinality(Visible) |->
        LET i == CHOOSE i \in Visible : RankIn(Visible, i) = k
        IN  batch[log[i].turn][log[i].row]]

ListMessages(t) ==
    /\ at[t] = "list"
    /\ \/ Works(t) /\ Goes(t, "run") /\ seen' = [seen EXCEPT ![t] = History]
       \/ Fails(t) /\ Goes(t, "refused") /\ UNCHANGED seen
    /\ UNCHANGED <<messages, row, edit, deletion, left, before>>

\* The agent has run, also if it was cut short: then the turn ends with a note.
RunReturns(t) ==
    /\ at[t] = "run"
    /\ \E b \in Batches : batch' = [batch EXCEPT ![t] = b]
    /\ Goes(t, "insert")
    /\ UNCHANGED <<seen, next, saved, log, crowded, row, edit, deletion, left, faults, before>>

Inserting(t) == at[t] = "insert" /\ next[t] > 1

\* Within the INSERT the next row draws its id.
DrawId(t) ==
    /\ at[t] = "insert"
    /\ next[t] <= Len(batch[t])
    /\ t \notin left
    /\ log' = Append(log, [turn |-> t, row |-> next[t]])
    /\ next' = [next EXCEPT ![t] = @ + 1]
    /\ crowded' = (crowded \/ \E u \in Turns \ {t} : Inserting(u))
    /\ UNCHANGED <<at, seen, batch, saved, row, edit, deletion, left, faults, before>>

\* Mutant of AfterSaving: every turn names the conversation.
AlwaysTitle(t) == "title"

\* len(history) == 0: a turn that found no messages names the conversation.
AfterSaving(t) == IF seen[t] = <<>> THEN "title" ELSE "done"

\* What the INSERT ends with: all its rows are there, or none.
Ends(t, outcome) ==
    /\ at[t] = "insert"
    /\ outcome = "stored" => next[t] > Len(batch[t])
    /\ saved' = [saved EXCEPT ![t] = outcome]

\* Mutant of AppendMessages: an error of the INSERT is not returned.
AppendIgnoringErrors(t) ==
    /\ \/ Works(t) /\ Ends(t, "stored")
       \/ Fails(t) /\ Ends(t, "aborted")
    /\ Goes(t, AfterSaving(t))
    /\ UNCHANGED <<seen, batch, next, log, crowded, row, edit, deletion, left, before>>

\* The conversation may be gone by then; nobody looks. The INSERT may also be
\* told as failed when it was not.
AppendMessages(t) ==
    /\ \/ Works(t) /\ Ends(t, "stored") /\ Goes(t, AfterSaving(t))
       \/ Fails(t) /\ (Ends(t, "aborted") \/ Ends(t, "stored")) /\ Goes(t, "error")
    /\ UNCHANGED <<seen, batch, next, log, crowded, row, edit, deletion, left, before>>

\* Mutant of FindConversation: the query includes deleted rows.
FindAnyConversation(w) == copy' = [copy EXCEPT ![w] = conv]

\* The read of Service.Update.
FindConversation(w) == conv.live /\ copy' = [copy EXCEPT ![w] = conv]

\* Save writes every column, and inserts the row anew if it is gone.
Save(values) == conv' = [values EXCEPT !.live = TRUE]

\* The first turn names the conversation: Update finds the row ...
TitleFind(t) ==
    /\ at[t] = "title"
    /\ \/ Works(t) /\ FindConversation(t) /\ Goes(t, "save")
       \/ Works(t) /\ ~conv.live /\ Goes(t, "done") /\ UNCHANGED copy
       \/ Fails(t) /\ Goes(t, "done") /\ UNCHANGED copy
    /\ UNCHANGED <<seen, messages, conv, edit, deletion, left, before>>

\* ... and saves it. Only the title event depends on that, "done" does not.
TitleSave(t) ==
    /\ at[t] = "save"
    /\ \/ (Works(t) \/ Fails(t)) /\ Save([copy[t] EXCEPT !.title = t])
       \/ Fails(t) /\ UNCHANGED conv
    /\ Goes(t, "done")
    /\ UNCHANGED <<seen, messages, copy, edit, deletion, left, before>>

\* The browser leaves: the context of the request is cancelled.
Leave(t) ==
    /\ at[t] \notin Final \cup {"new"}
    /\ t \notin left
    /\ left' = left \cup {t}
    /\ UNCHANGED <<at, seen, messages, row, edit, deletion, faults, before>>

\* The server dies, between two statements or during the INSERT.
Die(t) ==
    /\ at[t] \notin Final \cup {"new"}
    /\ Fault
    /\ Goes(t, "gone")
    /\ \/ at[t] # "insert" /\ UNCHANGED saved
       \/ Ends(t, "aborted") \/ Ends(t, "stored")
    /\ UNCHANGED <<seen, batch, next, log, crowded, row, edit, deletion, left, before>>

-----------------------------------------------------------------------------
\* UpdateConversation: find the row ...
EditFind(e) ==
    /\ edit[e].at = "new"
    /\ \/ /\ NoFault /\ FindConversation(e)
          /\ \E fields \in Requests :
                 edit' = [edit EXCEPT ![e] = [at |-> "found", fields |-> fields]]
       \/ /\ (~conv.live /\ NoFault) \/ Fault
          /\ edit' = [edit EXCEPT ![e].at = "done"]
          /\ UNCHANGED copy
    /\ UNCHANGED <<at, seen, messages, conv, deletion, left, before>>

\* ... set the fields the request has, and save all of it.
EditSave(e) ==
    LET Set(field) == IF field \in edit[e].fields THEN e ELSE copy[e][field]
    IN  /\ edit[e].at = "found"
        /\ edit' = [edit EXCEPT ![e].at = "done"]
        /\ \/ (NoFault \/ Fault) /\ Save([live |-> TRUE, title |-> Set("title"),
                                          archived |-> Set("archived")])
           \/ Fault /\ UNCHANGED conv
        /\ UNCHANGED <<at, seen, messages, copy, deletion, left, before>>

\* DeleteConversation: find it, soft-delete what messages there are, then the row.
DeleteFind(d) ==
    /\ deletion[d] = "new"
    /\ \/ NoFault /\ deletion' = [deletion EXCEPT ![d] = IF conv.live THEN "messages" ELSE "done"]
       \/ Fault /\ deletion' = [deletion EXCEPT ![d] = "done"]
    /\ before' = [before EXCEPT ![d] = Over]
    /\ UNCHANGED <<at, seen, messages, row, edit, left>>

Wipe == saved' = [t \in Turns |-> IF saved[t] = "stored" THEN "deleted" ELSE saved[t]]

\* Mutant of DeleteMessages: the row goes and its messages stay.
DeleteRowOnly(d) ==
    /\ deletion[d] = "messages"
    /\ deletion' = [deletion EXCEPT ![d] = "row"]
    /\ UNCHANGED <<at, seen, messages, row, edit, left, faults, before>>

DeleteMessages(d) ==
    /\ deletion[d] = "messages"
    /\ \/ NoFault /\ Wipe /\ deletion' = [deletion EXCEPT ![d] = "row"]
       \/ Fault /\ (Wipe \/ UNCHANGED saved) /\ deletion' = [deletion EXCEPT ![d] = "done"]
    /\ UNCHANGED <<at, seen, batch, next, log, crowded, row, edit, left, before>>

DeleteRow(d) ==
    /\ deletion[d] = "row"
    /\ deletion' = [deletion EXCEPT ![d] = "done"]
    /\ \/ (NoFault \/ Fault) /\ conv' = [conv EXCEPT !.live = FALSE]
       \/ Fault /\ UNCHANGED conv
    /\ UNCHANGED <<at, seen, messages, copy, edit, left, before>>

Next ==
    \/ \E t \in Turns : \/ Get(t) \/ ListMessages(t) \/ RunReturns(t) \/ DrawId(t)
                        \/ AppendMessages(t) \/ TitleFind(t) \/ TitleSave(t)
                        \/ Leave(t) \/ Die(t)
    \/ \E e \in Edits : EditFind(e) \/ EditSave(e)
    \/ \E d \in Deletes : DeleteFind(d) \/ DeleteMessages(d) \/ DeleteRow(d)

Spec == Init /\ [][Next]_vars

-----------------------------------------------------------------------------
\* Whoever loads the history (service.go:185-205) gets whole turns, whatever others
\* are storing or deleting at that moment: every call in it is answered, and it
\* ends with an answer or is empty. Only INSERTs at the same moment, which alternate
\* their ids, may spoil that.
HistoryIsWhole ==
    ~crowded => /\ Answered(History)
                /\ History # <<>> => Closes(History[Len(History)])

\* The rows of turn t among the ids drawn so far.
RowsOf(t) == {i \in DOMAIN log : log[i].turn = t}

\* "done" is the browser's proof that the reply is kept (handler.go:393-409): the
\* turn's whole batch was stored, each row once and in its order, and whatever is
\* missing of it now went with a deletion.
DoneMeansStored ==
    \A t \in Turns : at[t] = "done" =>
        /\ saved[t] \in {"stored", "deleted"}
        /\ \A k \in 1 .. Len(batch[t]) : \E i \in RowsOf(t) : log[i].row = k
        /\ \A i, j \in RowsOf(t) : i < j => log[i].row < log[j].row

\* Once the row is gone (repository.go:86-91), so are the messages of every turn
\* that was over when its deletion began. A turn still under way then may store
\* what nobody can read any more.
OrphansAreLate ==
    ~conv.live => \E d \in Deletes : \A t \in before[d] : saved[t] # "stored"

\* Requests that have read the row and not saved it yet.
Pending == {t \in Turns : at[t] = "save"} \cup {e \in Edits : edit[e].at = "found"}

\* A deleted conversation that nobody is about to save stays deleted: no request
\* that comes later brings it back (service.go:130-166), though Save would.
StaysGone == [][~conv.live /\ Pending = {} => ~conv'.live /\ Pending' = {}]_vars

\* A conversation is named by a first turn (handler.go:398): when its title is a
\* turn's, no turn that was over before that one began is in the record.
NamedByFirst ==
    conv.title \in Turns => \A t \in before[conv.title] : saved[t] # "stored"

=============================================================================
