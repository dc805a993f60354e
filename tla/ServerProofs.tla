---------------------------- MODULE ServerProofs ----------------------------
(***************************************************************************)
(* What a server process does, for any number of servers.  It starts: for  *)
(* any seeds, first databases, kills and edits, one that listens finds     *)
(* everything seeded, and only deleted rows stop a start nothing disturbs. *)
(* It works off the job queue: for any number of jobs, retries, faults and *)
(* crashes the queue keeps what JobPromise promises the caller of a custom *)
(* tool, a job that was sent once is in one place, and its runs are        *)
(* bounded.                                                                *)
(***************************************************************************)
EXTENDS JobQueue, Startup, FiniteSetTheorems, WellFoundedInduction, TLAPS

-----------------------------------------------------------------------------
(* The job queue. *)

LEMMA SomeEntry == AnyEntry \in Entry
  BY JobAssumption DEF AnyEntry, Entry

\* Whatever becomes of an RPUSH, the list stays a list of jobs and gains
\* nothing but the entry pushed.
LEMMA PushGains ==
    ASSUME TypeOK, NEW e \in Entry, NEW reported \in BOOLEAN, Push(e, reported)
    PROVE  /\ queue' \in Seq(Entry)
           /\ doubled' \in [Jobs -> Nat]
           /\ faults' \in Nat
           /\ \A i \in DOMAIN queue' :
                  queue'[i] = e \/ \E k \in DOMAIN queue : queue'[i] = queue[k]
<1>1. CASE queue' = Append(queue, e) /\ UNCHANGED doubled /\ (Fault \/ NoFault)
  BY <1>1 DEF TypeOK, Fault, NoFault
<1>2. CASE queue' = queue /\ UNCHANGED doubled /\ Fault
  BY <1>2 DEF TypeOK, Fault
<1>3. CASE /\ queue' = queue \o <<e, e>>
           /\ doubled' = [doubled EXCEPT ![e.job] = @ + 1]
           /\ Fault
  <2>1. queue' \in Seq(Entry) /\ faults' \in Nat
    BY <1>3 DEF TypeOK, Fault
  <2>2. doubled' \in [Jobs -> Nat]
    BY <1>3 DEF TypeOK, Entry
  <2>3. \A i \in DOMAIN queue' :
            queue'[i] = e \/ \E k \in DOMAIN queue : queue'[i] = queue[k]
    <3>1. <<e, e>> \in Seq(Entry) /\ Len(<<e, e>>) = 2
          /\ <<e, e>>[1] = e /\ <<e, e>>[2] = e
      OBVIOUS
    <3>2. Len(queue') = Len(queue) + 2
      BY <1>3, <3>1 DEF TypeOK
    <3>3. \A i \in 1 .. Len(queue) + 2 :
              queue'[i] = IF i <= Len(queue) THEN queue[i] ELSE e
      BY <1>3, <3>1 DEF TypeOK
    <3>4. DOMAIN queue' = 1 .. Len(queue) + 2 /\ DOMAIN queue = 1 .. Len(queue)
          /\ Len(queue) \in Nat
      BY <2>1, <3>2 DEF TypeOK
    <3>5. QED
      BY <3>3, <3>4
  <2>4. QED
    BY <2>1, <2>2, <2>3
<1>4. QED
  BY <1>1, <1>2, <1>3 DEF Push

\* Popping the list leaves its other entries.
LEMMA PopLeaves ==
    ASSUME TypeOK, queue # <<>>, queue' = Tail(queue)
    PROVE  /\ queue' \in Seq(Entry)
           /\ Head(queue) \in Entry
           /\ Head(queue) = queue[1] /\ 1 \in DOMAIN queue
           /\ \A i \in DOMAIN queue' : \E k \in DOMAIN queue : queue'[i] = queue[k]
<1>1. queue' \in Seq(Entry) /\ Head(queue) \in Entry
  BY DEF TypeOK
<1>2. Head(queue) = queue[1] /\ 1 \in DOMAIN queue
  BY DEF TypeOK
<1>3. \A i \in DOMAIN queue' : i + 1 \in DOMAIN queue /\ queue'[i] = queue[i + 1]
  BY DEF TypeOK
<1>4. QED
  BY <1>1, <1>2, <1>3

-----------------------------------------------------------------------------
LEMMA FaultsCounted == TypeOK /\ (Fault \/ NoFault) => faults' \in Nat
  BY DEF TypeOK, Fault, NoFault

LEMMA TypeInit == Init => TypeOK
  BY SomeEntry, JobAssumption
  DEF Init, TypeOK, WorkerPlaces, CallerPlaces, StoredResults

\* Output that cannot be encoded never gets as far as the channel.
PublishInv == \A s \in Servers : wpc[s] = "publish" => outcome[s] # "garbage"

LEMMA TypeStep == TypeOK /\ PublishInv /\ [Next]_vars => TypeOK'
<1> SUFFICES ASSUME TypeOK, PublishInv, [Next]_vars PROVE TypeOK'
  OBVIOUS
<1> USE DEF WorkerPlaces, CallerPlaces, StoredResults
<1> USE SomeEntry
<1>1. ASSUME NEW s \in Servers, Dequeue(s) PROVE TypeOK'
  <2>1. queue' \in Seq(Entry) /\ Head(queue) \in Entry
    BY <1>1, PopLeaves DEF Dequeue
  <2>2. Counted(Head(queue)) \in Entry
    BY <2>1 DEF Entry, Counted
  <2>3. held' \in [Servers -> Entry]
    BY <1>1, <2>2 DEF Dequeue, TypeOK
  <2>4. runs' \in [Jobs -> Nat]
    <3>1. Head(queue).job \in Jobs
      BY <2>1 DEF Entry
    <3>2. runs' = runs \/ runs' = [runs EXCEPT ![Head(queue).job] = @ + 1]
      BY <1>1 DEF Dequeue
    <3>3. QED
      BY <3>1, <3>2 DEF TypeOK
  <2>5. /\ wpc' \in [Servers -> WorkerPlaces]
        /\ outcome' \in [Servers -> {"ok", "failed", "garbage"}]
    <3>1. \/ wpc' = [wpc EXCEPT ![s] = "save"]
          \/ wpc' = [wpc EXCEPT ![s] = "running"]
      BY <1>1 DEF Dequeue
    <3>2. outcome' = outcome \/ outcome' = [outcome EXCEPT ![s] = "failed"]
      BY <1>1 DEF Dequeue
    <3>3. wpc' \in [Servers -> WorkerPlaces]
      <4>1. wpc \in [Servers -> WorkerPlaces]
        BY DEF TypeOK
      <4>2. QED
        BY <3>1, <4>1 DEF WorkerPlaces
    <3>4. outcome' \in [Servers -> {"ok", "failed", "garbage"}]
      BY <3>2 DEF TypeOK
    <3>5. QED
      BY <3>3, <3>4
  <2>6. UNCHANGED <<stored, waiter, wins, doubled, faults, crashes>>
    BY <1>1 DEF Dequeue
  <2>7. QED
    BY <2>1, <2>3, <2>4, <2>5, <2>6 DEF TypeOK, waiter
<1>2. ASSUME NEW s \in Servers, DequeueFails(s) PROVE TypeOK'
  <2>1. queue' \in Seq(Entry)
    BY <1>2, PopLeaves DEF DequeueFails, TypeOK
  <2>2. wpc' \in [Servers -> WorkerPlaces]
    <3>1. \E place \in {"idle", "stopped"} : wpc' = [wpc EXCEPT ![s] = place]
      BY <1>2 DEF DequeueFails
    <3>2. QED
      BY <3>1 DEF TypeOK
  <2>3. QED
    BY <1>2, <2>1, <2>2, FaultsCounted DEF DequeueFails, TypeOK, waiter, history
<1>3. ASSUME NEW s \in Servers, Handle(s) PROVE TypeOK'
  <2>1. held[s].job \in Jobs
    BY DEF TypeOK, Entry
  <2>2. /\ wpc' \in [Servers -> WorkerPlaces]
        /\ outcome' \in [Servers -> {"ok", "failed", "garbage"}]
    <3>1. \/ wpc' = [wpc EXCEPT ![s] = "save"]
          \/ wpc' = [wpc EXCEPT ![s] = "requeue"]
      BY <1>3 DEF Handle
    <3>2. \/ outcome' = outcome
          \/ outcome' = [outcome EXCEPT ![s] = "ok"]
          \/ outcome' = [outcome EXCEPT ![s] = "garbage"]
          \/ outcome' = [outcome EXCEPT ![s] = "failed"]
      BY <1>3 DEF Handle
    <3>3. wpc' \in [Servers -> WorkerPlaces]
      BY <3>1 DEF TypeOK
    <3>4. outcome' \in [Servers -> {"ok", "failed", "garbage"}]
      <4>1. outcome \in [Servers -> {"ok", "failed", "garbage"}]
        BY DEF TypeOK
      <4>2. QED
        BY <3>2, <4>1
    <3>5. QED
      BY <3>3, <3>4
  <2>4. wins' \in [Jobs -> BOOLEAN]
    <3>1. wins' = wins \/ wins' = [wins EXCEPT ![held[s].job] = TRUE]
      BY <1>3 DEF Handle
    <3>2. QED
      BY <2>1, <3>1 DEF TypeOK
  <2>3. QED
    BY <1>3, <2>2, <2>4 DEF Handle, TypeOK, waiter
<1>4. ASSUME NEW s \in Servers, NEW place \in WorkerPlaces, LetGo(s, place)
      PROVE  /\ wpc' \in [Servers -> WorkerPlaces]
             /\ held' \in [Servers -> Entry]
             /\ outcome' \in [Servers -> {"ok", "failed", "garbage"}]
  BY <1>4 DEF LetGo, TypeOK
<1>5. ASSUME NEW s \in Servers, Requeue(s) PROVE TypeOK'
  <2>1. held[s] \in Entry
    BY DEF TypeOK
  <2>2. PICK reported \in BOOLEAN : Push(held[s], reported)
    BY <1>5 DEF Requeue
  <2>3. queue' \in Seq(Entry) /\ doubled' \in [Jobs -> Nat] /\ faults' \in Nat
    BY <2>1, <2>2, PushGains
  <2>4. QED
    BY <1>4, <1>5, <2>3 DEF Requeue, TypeOK, waiter
<1>6. ASSUME NEW s \in Servers, SaveResult(s) PROVE TypeOK'
  <2>1. held[s].job \in Jobs /\ outcome[s] \in {"ok", "failed", "garbage"}
    BY DEF TypeOK, Entry
  <2>2. stored' \in [Jobs -> StoredResults]
    <3>1. \/ stored' = stored
          \/ /\ outcome[s] # "garbage"
             /\ stored' = [stored EXCEPT ![held[s].job] = outcome[s]]
      BY <1>6 DEF SaveResult
    <3>2. QED
      BY <2>1, <3>1 DEF TypeOK
  <2>3. /\ wpc' \in [Servers -> WorkerPlaces]
        /\ held' \in [Servers -> Entry]
        /\ outcome' \in [Servers -> {"ok", "failed", "garbage"}]
    <3>1. \/ LetGo(s, "idle")
          \/ wpc' = [wpc EXCEPT ![s] = "publish"] /\ UNCHANGED <<held, outcome>>
      BY <1>6 DEF SaveResult
    <3>2. CASE LetGo(s, "idle")
      BY <1>4, <3>2 DEF WorkerPlaces
    <3>3. CASE wpc' = [wpc EXCEPT ![s] = "publish"] /\ UNCHANGED <<held, outcome>>
      BY <3>3 DEF TypeOK, WorkerPlaces
    <3>4. QED
      BY <3>1, <3>2, <3>3
  <2>4. QED
    BY <1>6, <2>2, <2>3, FaultsCounted DEF SaveResult, TypeOK, waiter, history
<1>7. ASSUME NEW s \in Servers, PublishResult(s) PROVE TypeOK'
  <2>1. held[s].job \in Jobs /\ outcome[s] \in {"ok", "failed"}
    BY <1>7 DEF TypeOK, Entry, PublishResult, PublishInv
  <2>2. heard' = heard \/ heard' = [heard EXCEPT ![held[s].job] = outcome[s]]
    BY <1>7 DEF PublishResult
  <2>3. heard' \in [Jobs -> StoredResults]
    BY <2>1, <2>2 DEF TypeOK
  <2>4. /\ wpc' \in [Servers -> WorkerPlaces]
        /\ held' \in [Servers -> Entry]
        /\ outcome' \in [Servers -> {"ok", "failed", "garbage"}]
    BY <1>4, <1>7 DEF PublishResult
  <2>5. QED
    BY <1>7, <2>3, <2>4, FaultsCounted DEF PublishResult, TypeOK, history
<1>8. ASSUME NEW j \in Jobs, NEW a \in {"ok", "failed", "gaveup"}, Tell(j, a)
      PROVE  /\ caller' \in [Jobs -> CallerPlaces]
             /\ subscribed' \in [Jobs -> {"no", "sent", "active"}]
             /\ heard' \in [Jobs -> StoredResults]
             /\ cancelled' \in [Jobs -> BOOLEAN]
             /\ told' \in [Jobs -> {"nothing", "ok", "failed", "gaveup"}]
  BY <1>8 DEF Tell, TypeOK
<1>9. ASSUME NEW j \in Jobs, Refuse(j) PROVE TypeOK'
  BY <1>8, <1>9 DEF Refuse, TypeOK, worker, history
<1>10. ASSUME NEW j \in Jobs, Enqueue(j) PROVE TypeOK'
  <2>1. [job |-> j, attempts |-> 0] \in Entry
    BY DEF Entry
  <2>2. PICK reported \in BOOLEAN : Push([job |-> j, attempts |-> 0], reported)
    BY <1>10 DEF Enqueue
  <2>3. queue' \in Seq(Entry) /\ doubled' \in [Jobs -> Nat] /\ faults' \in Nat
    BY <2>1, <2>2, PushGains
  <2>4. \/ /\ caller' = [caller EXCEPT ![j] = "subscribe"]
           /\ UNCHANGED <<subscribed, heard, cancelled, told>>
        \/ Tell(j, "gaveup")
    BY <1>10 DEF Enqueue
  <2>5. /\ caller' \in [Jobs -> CallerPlaces]
        /\ subscribed' \in [Jobs -> {"no", "sent", "active"}]
        /\ heard' \in [Jobs -> StoredResults]
        /\ cancelled' \in [Jobs -> BOOLEAN]
        /\ told' \in [Jobs -> {"nothing", "ok", "failed", "gaveup"}]
    <3>1. CASE Tell(j, "gaveup")
      BY <1>8, <3>1
    <3>2. CASE /\ caller' = [caller EXCEPT ![j] = "subscribe"]
               /\ UNCHANGED <<subscribed, heard, cancelled, told>>
      BY <3>2 DEF TypeOK
    <3>3. QED
      BY <2>4, <3>1, <3>2
  <2>6. QED
    BY <1>10, <2>3, <2>5 DEF Enqueue, TypeOK, worker
<1>11. ASSUME NEW j \in Jobs, Subscribe(j) PROVE TypeOK'
  BY <1>11 DEF Subscribe, TypeOK, worker, history
<1>12. ASSUME NEW j \in Jobs, SubscribeTakesEffect(j) PROVE TypeOK'
  BY <1>12 DEF SubscribeTakesEffect, TypeOK, worker, history
<1>13. ASSUME NEW j \in Jobs, SubscriptionBreaks(j) PROVE TypeOK'
  <2>1. heard' = heard \/ heard' = [heard EXCEPT ![j] = "none"]
    BY <1>13 DEF SubscriptionBreaks
  <2>2. heard' \in [Jobs -> StoredResults]
    BY <2>1 DEF TypeOK
  <2>3. subscribed' \in [Jobs -> {"no", "sent", "active"}]
    BY <1>13 DEF SubscriptionBreaks, TypeOK
  <2>4. QED
    BY <1>13, <2>2, <2>3, FaultsCounted DEF SubscriptionBreaks, TypeOK, worker, history
<1>14. ASSUME NEW j \in Jobs, GetResult(j) PROVE TypeOK'
  <2>1. \/ Tell(j, "gaveup")
        \/ stored[j] # "none" /\ Tell(j, stored[j])
        \/ /\ caller' = [caller EXCEPT ![j] = "select"]
           /\ UNCHANGED <<subscribed, heard, cancelled, told>>
    BY <1>14 DEF GetResult
  <2>2. stored[j] # "none" => stored[j] \in {"ok", "failed"}
    BY DEF TypeOK
  <2>3. /\ caller' \in [Jobs -> CallerPlaces]
        /\ subscribed' \in [Jobs -> {"no", "sent", "active"}]
        /\ heard' \in [Jobs -> StoredResults]
        /\ cancelled' \in [Jobs -> BOOLEAN]
        /\ told' \in [Jobs -> {"nothing", "ok", "failed", "gaveup"}]
    <3>1. CASE Tell(j, "gaveup")
      BY <1>8, <3>1
    <3>2. CASE stored[j] # "none" /\ Tell(j, stored[j])
      BY <1>8, <2>2, <3>2
    <3>3. CASE /\ caller' = [caller EXCEPT ![j] = "select"]
               /\ UNCHANGED <<subscribed, heard, cancelled, told>>
      BY <3>3 DEF TypeOK
    <3>4. QED
      BY <2>1, <3>1, <3>2, <3>3
  <2>4. QED
    BY <1>14, <2>3, FaultsCounted DEF GetResult, TypeOK, worker, history
<1>15. ASSUME NEW j \in Jobs, Receive(j) PROVE TypeOK'
  <2>1. heard[j] \in {"ok", "failed"}
    BY <1>15 DEF Receive, TypeOK
  <2>2. QED
    BY <1>8, <1>15, <2>1 DEF Receive, TypeOK, worker, history
<1>16. ASSUME NEW j \in Jobs, GiveUp(j) PROVE TypeOK'
  BY <1>8, <1>16 DEF GiveUp, TypeOK, worker, history
<1>17. ASSUME NEW j \in Jobs, Cancel(j) PROVE TypeOK'
  BY <1>17 DEF Cancel, TypeOK, worker, history
<1>18. ASSUME NEW j \in Jobs, ResultExpires(j) PROVE TypeOK'
  BY <1>18 DEF ResultExpires, TypeOK, worker, waiter, history
<1>19. ASSUME NEW s \in Servers, Crash(s) PROVE TypeOK'
  <2>1. /\ wpc' \in [Servers -> WorkerPlaces]
        /\ held' \in [Servers -> Entry]
        /\ outcome' \in [Servers -> {"ok", "failed", "garbage"}]
    BY <1>4, <1>19 DEF Crash
  <2>2. /\ caller' \in [Jobs -> CallerPlaces]
        /\ subscribed' \in [Jobs -> {"no", "sent", "active"}]
        /\ heard' \in [Jobs -> StoredResults]
        /\ cancelled' \in [Jobs -> BOOLEAN]
    BY <1>19 DEF Crash, TypeOK
  <2>3. crashes' \in Nat
    BY <1>19 DEF Crash, TypeOK
  <2>4. QED
    BY <1>19, <2>1, <2>2, <2>3 DEF Crash, TypeOK, history
<1>20. ASSUME NEW s \in Servers, Restart(s) PROVE TypeOK'
  BY <1>20 DEF Restart, TypeOK, waiter, history
<1>21. CASE UNCHANGED vars
  BY <1>21 DEF vars, TypeOK, worker, waiter, history
<1>22. QED
  BY <1>1, <1>2, <1>3, <1>5, <1>6, <1>7, <1>9, <1>10, <1>11, <1>12, <1>13, <1>14,
     <1>15, <1>16, <1>17, <1>18, <1>19, <1>20, <1>21
  DEF Next, WorkerStep, CallerStep

LEMMA PublishStep == TypeOK /\ PublishInv /\ [Next]_vars => PublishInv'
<1> SUFFICES ASSUME TypeOK, PublishInv, [Next]_vars PROVE PublishInv'
  OBVIOUS
<1> USE DEF PublishInv, LetGo
<1>1. ASSUME NEW s \in Servers, Dequeue(s) PROVE PublishInv'
  BY <1>1 DEF Dequeue, TypeOK
<1>2. ASSUME NEW s \in Servers, DequeueFails(s) PROVE PublishInv'
  BY <1>2 DEF DequeueFails, TypeOK
<1>3. ASSUME NEW s \in Servers, Handle(s) PROVE PublishInv'
  BY <1>3 DEF Handle, TypeOK
<1>4. ASSUME NEW s \in Servers, Requeue(s) PROVE PublishInv'
  BY <1>4 DEF Requeue, TypeOK
<1>5. ASSUME NEW s \in Servers, SaveResult(s) PROVE PublishInv'
  BY <1>5 DEF SaveResult, TypeOK
<1>6. ASSUME NEW s \in Servers, PublishResult(s) PROVE PublishInv'
  BY <1>6 DEF PublishResult, TypeOK
<1>7. ASSUME NEW s \in Servers, Crash(s) \/ Restart(s) PROVE PublishInv'
  BY <1>7 DEF Crash, Restart, TypeOK
<1>8. ASSUME NEW j \in Jobs,
             \/ Refuse(j) \/ Enqueue(j) \/ CallerStep(j) \/ SubscribeTakesEffect(j)
             \/ SubscriptionBreaks(j) \/ Cancel(j) \/ ResultExpires(j)
      PROVE  PublishInv'
  <2>1. UNCHANGED worker
    BY <1>8 DEF Refuse, Enqueue, CallerStep, Subscribe, GetResult, Receive, GiveUp,
                SubscribeTakesEffect, SubscriptionBreaks, Cancel, ResultExpires
  <2>2. QED
    BY <2>1 DEF worker
<1>9. CASE UNCHANGED vars
  BY <1>9 DEF vars, worker
<1>10. QED
  BY <1>1, <1>2, <1>3, <1>4, <1>5, <1>6, <1>7, <1>8, <1>9 DEF Next, WorkerStep

\* The queue's variables keep their types, whatever fails or crashes; output that
\* cannot be encoded is never published.
THEOREM TypeCorrect == Spec => [](TypeOK /\ PublishInv)
<1>1. Init => TypeOK /\ PublishInv
  BY TypeInit DEF Init, PublishInv
<1>2. TypeOK /\ PublishInv /\ [Next]_vars => TypeOK' /\ PublishInv'
  BY TypeStep, PublishStep
<1>3. QED
  BY <1>1, <1>2, PTL DEF Spec

-----------------------------------------------------------------------------
\* What is under way in the queue rests on what has happened to the job: the
\* attempts it counts were made, and every answer on its way is justified.
QueueGrounded ==
    \A i \in DOMAIN queue :
        queue[i].job \in Handled => queue[i].attempts <= runs[queue[i].job]

GroundedWorker(s) ==
    /\ wpc[s] \in {"running", "requeue"} =>
           0 < held[s].attempts /\ held[s].attempts <= runs[held[s].job]
    /\ wpc[s] \in {"save", "publish"} /\ outcome[s] # "garbage" =>
           Promise!Justified(held[s].job, outcome[s])

WorkerGrounded == \A s \in Servers : GroundedWorker(s)

AnswerGrounded ==
    \A j \in Jobs :
        /\ stored[j] # "none" => Promise!Justified(j, stored[j])
        /\ heard[j] # "none" => Promise!Justified(j, heard[j])

CallerGrounded == \A j \in Jobs : caller[j] # "told" => told[j] = "nothing"

Grounded == QueueGrounded /\ WorkerGrounded /\ AnswerGrounded /\ CallerGrounded

\* Runs are only added, and a success is not taken back ...
Grew ==
    \A j \in Jobs : /\ runs[j] \in Nat /\ runs'[j] \in Nat
                    /\ runs[j] <= runs'[j]
                    /\ wins[j] => wins'[j]

LEMMA HistoryGrows == TypeOK /\ [Next]_vars => Grew
<1> SUFFICES ASSUME TypeOK, [Next]_vars PROVE Grew
  OBVIOUS
<1> USE DEF Grew
<1> USE DEF history
<1>0. \A j \in Jobs : runs[j] \in Nat
  BY DEF TypeOK
<1>1. ASSUME NEW s \in Servers, Dequeue(s)
      PROVE  /\ UNCHANGED wins
             /\ \A j \in Jobs : runs'[j] \in Nat /\ runs[j] <= runs'[j]
  <2>1. runs' = runs \/ runs' = [runs EXCEPT ![Head(queue).job] = @ + 1]
    BY <1>1 DEF Dequeue
  <2>2. runs \in [Jobs -> Nat]
    BY DEF TypeOK
  <2>3. \A j \in Jobs : runs'[j] \in Nat /\ runs[j] <= runs'[j]
    BY <2>1, <2>2
  <2>4. QED
    BY <1>1, <2>3 DEF Dequeue
<1>2. ASSUME NEW s \in Servers, Handle(s)
      PROVE  UNCHANGED runs /\ \A j \in Jobs : wins[j] => wins'[j]
  <2>1. wins' = wins \/ wins' = [wins EXCEPT ![held[s].job] = TRUE]
    BY <1>2 DEF Handle
  <2>2. wins \in [Jobs -> BOOLEAN]
    BY DEF TypeOK
  <2>3. QED
    BY <1>2, <2>1, <2>2 DEF Handle
<1>3. ASSUME NEW s \in Servers,
             \/ DequeueFails(s) \/ Requeue(s) \/ SaveResult(s) \/ PublishResult(s)
             \/ Crash(s) \/ Restart(s)
      PROVE  UNCHANGED <<runs, wins>>
  BY <1>3 DEF DequeueFails, Requeue, SaveResult, PublishResult, Crash, Restart
<1>4. ASSUME NEW j \in Jobs,
             \/ Refuse(j) \/ Enqueue(j) \/ CallerStep(j) \/ SubscribeTakesEffect(j)
             \/ SubscriptionBreaks(j) \/ Cancel(j) \/ ResultExpires(j)
      PROVE  UNCHANGED <<runs, wins>>
  BY <1>4 DEF Refuse, Enqueue, CallerStep, Subscribe, GetResult, Receive, GiveUp,
              SubscribeTakesEffect, SubscriptionBreaks, Cancel, ResultExpires
<1>5. CASE UNCHANGED vars
  BY <1>0, <1>5 DEF vars
<1>6. CASE \E s \in Servers : WorkerStep(s) \/ DequeueFails(s) \/ Crash(s) \/ Restart(s)
  <2>1. PICK s \in Servers : WorkerStep(s) \/ DequeueFails(s) \/ Crash(s) \/ Restart(s)
    BY <1>6
  <2>2. CASE Dequeue(s)
    BY <1>0, <1>1, <2>2
  <2>3. CASE Handle(s)
    BY <1>0, <1>2, <2>3
  <2>4. CASE ~Dequeue(s) /\ ~Handle(s)
    BY <1>0, <1>3, <2>1, <2>4 DEF WorkerStep
  <2>5. QED
    BY <2>2, <2>3, <2>4
<1>7. CASE \E j \in Jobs : \/ Refuse(j) \/ Enqueue(j) \/ CallerStep(j)
                           \/ SubscribeTakesEffect(j) \/ SubscriptionBreaks(j)
                           \/ Cancel(j) \/ ResultExpires(j)
  <2>1. UNCHANGED <<runs, wins>>
    BY <1>4, <1>7
  <2>2. QED
    BY <1>0, <2>1
<1>8. QED
  BY <1>5, <1>6, <1>7 DEF Next

\* ... so an answer that was justified stays so.
LEMMA JustifiedStays ==
    ASSUME Grew, NEW j \in Jobs, NEW a, Promise!Justified(j, a)
    PROVE  Promise!Justified(j, a)'
<1>1. DefaultRetries \in Nat
  BY JobAssumption
<1>2. /\ runs[j] \in Nat /\ runs'[j] \in Nat
      /\ runs[j] <= runs'[j]
      /\ wins[j] => wins'[j]
  BY DEF Grew
<1>3. QED
  BY <1>1, <1>2 DEF Promise!Justified

LEMMA GroundedInit == Init => Grounded
<1> SUFFICES ASSUME Init PROVE Grounded
  OBVIOUS
<1>1. QueueGrounded
  BY DEF Init, QueueGrounded
<1>2. WorkerGrounded
  BY DEF Init, WorkerGrounded, GroundedWorker
<1>3. AnswerGrounded /\ CallerGrounded
  BY DEF Init, AnswerGrounded, CallerGrounded
<1>4. QED
  BY <1>1, <1>2, <1>3 DEF Grounded

\* A list that gained at most an entry grounded in its job stays grounded.
LEMMA QueueStaysGrounded ==
    ASSUME Grew, QueueGrounded, queue' \in Seq(Entry), NEW e \in Entry,
           e.job \in Handled => e.attempts <= runs[e.job],
           \A i \in DOMAIN queue' :
               queue'[i] = e \/ \E k \in DOMAIN queue : queue'[i] = queue[k]
    PROVE  QueueGrounded'
<1>1. SUFFICES ASSUME NEW i \in DOMAIN queue', queue'[i].job \in Handled
               PROVE  queue'[i].attempts <= runs'[queue'[i].job]
  BY DEF QueueGrounded
<1>2. queue'[i] \in Entry
  BY <1>1
<1>3. queue'[i].attempts <= runs[queue'[i].job]
  BY <1>1 DEF QueueGrounded
<1>4. queue'[i].job \in Jobs /\ queue'[i].attempts \in Nat
  BY <1>2 DEF Entry
<1>5. \A j \in Jobs : runs[j] \in Nat /\ runs'[j] \in Nat /\ runs[j] <= runs'[j]
  BY DEF Grew
<1>6. QED
  BY <1>3, <1>4, <1>5

\* A server that took no step keeps its worker grounded.
LEMMA OtherWorkersGrounded ==
    ASSUME TypeOK, Grew, WorkerGrounded, NEW s \in Servers,
           wpc'[s] = wpc[s], held'[s] = held[s], outcome'[s] = outcome[s]
    PROVE  GroundedWorker(s)'
<1>1. held[s].job \in Jobs /\ held[s].attempts \in Nat
  BY DEF TypeOK, Entry
<1>2. \A j \in Jobs : runs[j] \in Nat /\ runs'[j] \in Nat /\ runs[j] <= runs'[j]
  BY DEF Grew
<1>3. held[s].attempts <= runs[held[s].job] => held[s].attempts <= runs'[held[s].job]
  BY <1>1, <1>2
<1>4. ASSUME Promise!Justified(held[s].job, outcome[s])
      PROVE  Promise!Justified(held[s].job, outcome[s])'
  <2> DEFINE j == held[s].job
             a == outcome[s]
  <2>1. j \in Jobs /\ j' = j /\ a' = a
    BY <1>1
  <2>2. /\ runs[j] \in Nat /\ runs'[j] \in Nat /\ runs[j] <= runs'[j]
        /\ wins[j] => wins'[j]
    BY <2>1 DEF Grew
  <2>3. DefaultRetries \in Nat
    BY JobAssumption
  <2>4. QED
    BY <1>4, <2>1, <2>2, <2>3 DEF Promise!Justified
<1>5. QED
  BY <1>3, <1>4 DEF WorkerGrounded, GroundedWorker

LEMMA AnswersStayGrounded ==
    ASSUME Grew, AnswerGrounded,
           \A j \in Jobs : stored'[j] \in {stored[j], "none"} /\ heard'[j] \in {heard[j], "none"}
    PROVE  AnswerGrounded'
<1>1. SUFFICES ASSUME NEW j \in Jobs
               PROVE  /\ stored'[j] # "none" => Promise!Justified(j, stored[j])'
                      /\ heard'[j] # "none" => Promise!Justified(j, heard[j])'
  BY DEF AnswerGrounded
<1>2. ASSUME stored'[j] # "none" PROVE Promise!Justified(j, stored[j])'
  <2>1. stored'[j] = stored[j] /\ Promise!Justified(j, stored[j])
    BY <1>2 DEF AnswerGrounded
  <2>2. DefaultRetries \in Nat
    BY JobAssumption
  <2>3. QED
    BY <2>1, <2>2 DEF Promise!Justified, Grew
<1>3. ASSUME heard'[j] # "none" PROVE Promise!Justified(j, heard[j])'
  <2>1. heard'[j] = heard[j] /\ Promise!Justified(j, heard[j])
    BY <1>3 DEF AnswerGrounded
  <2>2. DefaultRetries \in Nat
    BY JobAssumption
  <2>3. QED
    BY <2>1, <2>2 DEF Promise!Justified, Grew
<1>4. QED
  BY <1>2, <1>3

-----------------------------------------------------------------------------
LEMMA QueueStep ==
    TypeOK /\ PublishInv /\ Grounded /\ [Next]_vars => QueueGrounded'
<1> SUFFICES ASSUME TypeOK, PublishInv, Grounded, [Next]_vars PROVE QueueGrounded'
  OBVIOUS
<1>1. Grew /\ QueueGrounded /\ WorkerGrounded
  BY HistoryGrows DEF Grounded
<1>2. queue' \in Seq(Entry)
  BY TypeStep DEF TypeOK
<1>3. AnyEntry \in Entry /\ (AnyEntry.job \in Handled => AnyEntry.attempts <= runs[AnyEntry.job])
  <2>1. AnyEntry.job \in Jobs /\ AnyEntry.attempts = 0
    BY SomeEntry DEF AnyEntry, Entry
  <2>2. QED
    BY <2>1, SomeEntry DEF TypeOK
<1>4. CASE \A i \in DOMAIN queue' : \E k \in DOMAIN queue : queue'[i] = queue[k]
  BY <1>1, <1>2, <1>3, <1>4, QueueStaysGrounded
<1>5. ASSUME NEW s \in Servers, Requeue(s) PROVE QueueGrounded'
  <2>1. PICK reported \in BOOLEAN : Push(held[s], reported)
    BY <1>5 DEF Requeue
  <2>2. held[s] \in Entry /\ held[s].attempts <= runs[held[s].job]
    BY <1>1, <1>5 DEF TypeOK, Requeue, WorkerGrounded, GroundedWorker
  <2>3. \A i \in DOMAIN queue' :
            queue'[i] = held[s] \/ \E k \in DOMAIN queue : queue'[i] = queue[k]
    BY <2>1, <2>2, PushGains
  <2>4. QED
    BY <1>1, <1>2, <2>2, <2>3, QueueStaysGrounded
<1>6. ASSUME NEW j \in Jobs, Enqueue(j) PROVE QueueGrounded'
  <2> DEFINE e == [job |-> j, attempts |-> 0]
  <2>1. PICK reported \in BOOLEAN : Push(e, reported)
    BY <1>6 DEF Enqueue
  <2>2. e \in Entry /\ e.attempts <= runs[e.job]
    BY DEF TypeOK, Entry
  <2> HIDE DEF e
  <2>3. \A i \in DOMAIN queue' :
            queue'[i] = e \/ \E k \in DOMAIN queue : queue'[i] = queue[k]
    BY <2>1, <2>2, PushGains
  <2>4. QED
    BY <1>1, <1>2, <2>2, <2>3, QueueStaysGrounded
<1>7. CASE queue # <<>> /\ queue' = Tail(queue)
  BY <1>4, <1>7, PopLeaves
<1>8. CASE UNCHANGED queue
  BY <1>4, <1>8
<1>9. ASSUME NEW s \in Servers,
             \/ Dequeue(s) \/ DequeueFails(s) \/ Handle(s) \/ SaveResult(s)
             \/ PublishResult(s) \/ Crash(s) \/ Restart(s)
      PROVE  UNCHANGED queue \/ (queue # <<>> /\ queue' = Tail(queue))
  BY <1>9 DEF Dequeue, DequeueFails, Handle, SaveResult, PublishResult, Crash, Restart
<1>10. ASSUME NEW j \in Jobs,
              \/ Refuse(j) \/ CallerStep(j) \/ SubscribeTakesEffect(j)
              \/ SubscriptionBreaks(j) \/ Cancel(j) \/ ResultExpires(j)
       PROVE  UNCHANGED queue
  BY <1>10 DEF Refuse, CallerStep, Subscribe, GetResult, Receive, GiveUp,
               SubscribeTakesEffect, SubscriptionBreaks, Cancel, ResultExpires
<1>11. CASE UNCHANGED vars
  BY <1>8, <1>11 DEF vars
<1>12. QED
  BY <1>5, <1>6, <1>7, <1>8, <1>9, <1>10, <1>11 DEF Next, WorkerStep

LEMMA WorkerStepGrounded ==
    TypeOK /\ PublishInv /\ Grounded /\ [Next]_vars => WorkerGrounded'
<1> SUFFICES ASSUME TypeOK, PublishInv, Grounded, [Next]_vars PROVE WorkerGrounded'
  OBVIOUS
<1>1. Grew /\ QueueGrounded /\ WorkerGrounded
  BY HistoryGrows DEF Grounded
\* It is enough to look at the server that moved.
<1>2. ASSUME NEW s \in Servers, GroundedWorker(s)',
             \A r \in Servers \ {s} : /\ wpc'[r] = wpc[r] /\ held'[r] = held[r]
                                      /\ outcome'[r] = outcome[r]
      PROVE  WorkerGrounded'
  BY <1>1, <1>2, OtherWorkersGrounded DEF WorkerGrounded
<1>3. ASSUME NEW s \in Servers, NEW place \in {"idle", "stopped", "down"}, LetGo(s, place)
      PROVE  WorkerGrounded'
  <2>1. wpc'[s] = place
    BY <1>3 DEF LetGo, TypeOK
  <2>2. GroundedWorker(s)'
    BY <2>1 DEF GroundedWorker
  <2>3. QED
    BY <1>2, <1>3, <2>2 DEF LetGo, TypeOK
<1>4. ASSUME NEW s \in Servers, Dequeue(s) PROVE WorkerGrounded'
  <2> DEFINE e == Head(queue)
  <2>1. e \in Entry /\ e = queue[1] /\ 1 \in DOMAIN queue
    BY <1>4, PopLeaves DEF Dequeue
  <2>2. e.job \in Jobs /\ e.attempts \in Nat
    BY <2>1 DEF Entry
  <2>3. held'[s].job = e.job /\ held'[s].attempts = e.attempts + 1
    BY <1>4 DEF Dequeue, Counted, TypeOK
  <2>4. CASE e.job \in Handled
    <3>1. wpc'[s] = "running" /\ runs'[e.job] = runs[e.job] + 1
      BY <1>4, <2>2, <2>4 DEF Dequeue, TypeOK
    <3>2. e.attempts <= runs[e.job]
      BY <1>1, <2>1, <2>4 DEF QueueGrounded
    <3>3. runs[e.job] \in Nat
      BY <2>2 DEF TypeOK
    <3>4. GroundedWorker(s)'
      BY <2>2, <2>3, <3>1, <3>2, <3>3 DEF GroundedWorker
    <3>5. QED
      BY <1>2, <1>4, <2>4, <3>4 DEF Dequeue, TypeOK
  <2>5. CASE e.job \notin Handled
    <3>1. wpc'[s] = "save" /\ outcome'[s] = "failed"
      BY <1>4, <2>5 DEF Dequeue, TypeOK
    <3>2. GroundedWorker(s)'
      BY <2>3, <2>5, <3>1 DEF GroundedWorker, Promise!Justified
    <3>3. QED
      BY <1>2, <1>4, <2>5, <3>2 DEF Dequeue, TypeOK
  <2>6. QED
    BY <2>4, <2>5
<1>5. ASSUME NEW s \in Servers, Handle(s) PROVE WorkerGrounded'
  <2> DEFINE j == held[s].job
  <2>1. /\ j \in Jobs /\ held'[s] = held[s] /\ runs' = runs
        /\ 0 < held[s].attempts /\ held[s].attempts <= runs[j]
        /\ held[s].attempts \in Nat /\ runs[j] \in Nat
    BY <1>1, <1>5 DEF Handle, TypeOK, Entry, WorkerGrounded, GroundedWorker
  <2>2. \/ wpc'[s] = "save" /\ outcome'[s] = "ok" /\ wins'[j]
        \/ wpc'[s] = "save" /\ outcome'[s] = "garbage"
        \/ wpc'[s] = "requeue"
        \/ /\ wpc'[s] = "save" /\ outcome'[s] = "failed"
           /\ held[s].attempts > DefaultRetries
    BY <1>5, <2>1 DEF Handle, TypeOK
  <2>3. DefaultRetries \in Nat
    BY JobAssumption
  <2>4. GroundedWorker(s)'
    BY <2>1, <2>2, <2>3 DEF GroundedWorker, Promise!Justified
  <2>5. QED
    BY <1>2, <1>5, <2>4 DEF Handle, TypeOK
<1>6. ASSUME NEW s \in Servers, SaveResult(s) PROVE WorkerGrounded'
  <2>1. CASE LetGo(s, "idle")
    BY <1>3, <2>1
  <2>2. CASE /\ wpc[s] = "save" /\ outcome[s] # "garbage"
             /\ wpc' = [wpc EXCEPT ![s] = "publish"] /\ UNCHANGED <<held, outcome>>
    <3>1. UNCHANGED <<runs, wins>>
      BY <1>6 DEF SaveResult, history
    <3>2. GroundedWorker(s)'
      BY <1>1, <2>2, <3>1 DEF TypeOK, WorkerGrounded, GroundedWorker, Promise!Justified
    <3>3. QED
      BY <1>2, <2>2, <3>2 DEF TypeOK
  <2>3. QED
    BY <1>6, <2>1, <2>2 DEF SaveResult
<1>7. ASSUME NEW s \in Servers, Requeue(s) \/ PublishResult(s) \/ Crash(s) PROVE WorkerGrounded'
  <2>1. LetGo(s, "idle") \/ LetGo(s, "down")
    BY <1>7 DEF Requeue, PublishResult, Crash
  <2>2. QED
    BY <1>3, <2>1
<1>8. ASSUME NEW s \in Servers, DequeueFails(s) \/ Restart(s) PROVE WorkerGrounded'
  <2>1. \E place \in {"idle", "stopped"} : wpc' = [wpc EXCEPT ![s] = place]
    BY <1>8 DEF DequeueFails, Restart
  <2>2. UNCHANGED <<held, outcome>>
    BY <1>8 DEF DequeueFails, Restart
  <2>3. GroundedWorker(s)'
    BY <2>1 DEF TypeOK, GroundedWorker
  <2>4. QED
    BY <1>2, <2>1, <2>2, <2>3 DEF TypeOK
<1>9. CASE UNCHANGED worker
  BY <1>1, <1>9, OtherWorkersGrounded DEF worker, WorkerGrounded
<1>10. ASSUME NEW j \in Jobs,
             \/ Refuse(j) \/ Enqueue(j) \/ CallerStep(j) \/ SubscribeTakesEffect(j)
             \/ SubscriptionBreaks(j) \/ Cancel(j) \/ ResultExpires(j)
      PROVE  UNCHANGED worker
  BY <1>10 DEF Refuse, Enqueue, CallerStep, Subscribe, GetResult, Receive, GiveUp,
               SubscribeTakesEffect, SubscriptionBreaks, Cancel, ResultExpires
<1>11. CASE UNCHANGED vars
  BY <1>9, <1>11 DEF vars
<1>12. QED
  BY <1>4, <1>5, <1>6, <1>7, <1>8, <1>9, <1>10, <1>11 DEF Next, WorkerStep

LEMMA AnswerStep ==
    TypeOK /\ PublishInv /\ Grounded /\ [Next]_vars => AnswerGrounded'
<1> SUFFICES ASSUME TypeOK, PublishInv, Grounded, [Next]_vars PROVE AnswerGrounded'
  OBVIOUS
<1>1. Grew /\ WorkerGrounded /\ AnswerGrounded
  BY HistoryGrows DEF Grounded
<1>2. CASE \A j \in Jobs : /\ stored'[j] \in {stored[j], "none"}
                           /\ heard'[j] \in {heard[j], "none"}
  BY <1>1, <1>2, AnswersStayGrounded
<1>3. ASSUME NEW s \in Servers, SaveResult(s) \/ PublishResult(s) PROVE AnswerGrounded'
  <2> DEFINE j == held[s].job
             o == outcome[s]
  <2>1. j \in Jobs /\ UNCHANGED <<runs, wins>>
    BY <1>3 DEF TypeOK, Entry, SaveResult, PublishResult, history
  <2>2. \/ UNCHANGED <<stored, heard>>
        \/ /\ stored' = [stored EXCEPT ![j] = o]
           /\ UNCHANGED heard /\ wpc[s] = "save" /\ o # "garbage"
        \/ /\ heard' = [heard EXCEPT ![j] = o]
           /\ UNCHANGED stored /\ wpc[s] = "publish"
    BY <1>3 DEF SaveResult, PublishResult, waiter
  <2>3. wpc[s] \in {"save", "publish"} /\ o # "garbage" => Promise!Justified(j, o)
    BY <1>1 DEF WorkerGrounded, GroundedWorker
  <2>4. wpc[s] = "publish" => o # "garbage"
    BY DEF PublishInv
  <2> HIDE DEF j, o
  <2>5. CASE /\ stored' = [stored EXCEPT ![j] = o] /\ UNCHANGED heard
             /\ Promise!Justified(j, o)
    BY <1>1, <2>1, <2>5 DEF AnswerGrounded, TypeOK, Promise!Justified
  <2>6. CASE /\ heard' = [heard EXCEPT ![j] = o] /\ UNCHANGED stored
             /\ Promise!Justified(j, o)
    BY <1>1, <2>1, <2>6 DEF AnswerGrounded, TypeOK, Promise!Justified
  <2>7. CASE UNCHANGED <<stored, heard>>
    BY <1>2, <2>7
  <2>8. QED
    BY <2>2, <2>3, <2>4, <2>5, <2>6, <2>7
<1>4. ASSUME NEW s \in Servers,
             \/ Dequeue(s) \/ DequeueFails(s) \/ Handle(s) \/ Requeue(s) \/ Restart(s)
      PROVE  UNCHANGED <<stored, heard>>
  BY <1>4 DEF Dequeue, DequeueFails, Handle, Requeue, Restart, waiter
<1>5. ASSUME NEW s \in Servers, Crash(s) PROVE AnswerGrounded'
  <2>1. UNCHANGED stored
    BY <1>5 DEF Crash
  <2>2. \A j \in Jobs : heard'[j] \in {heard[j], "none"}
    BY <1>5 DEF Crash
  <2>3. QED
    BY <1>2, <2>1, <2>2
<1>6. ASSUME NEW j \in Jobs,
             \/ Refuse(j) \/ Enqueue(j) \/ CallerStep(j) \/ SubscribeTakesEffect(j)
             \/ SubscriptionBreaks(j) \/ Cancel(j)
      PROVE  UNCHANGED stored /\ (UNCHANGED heard \/ heard' = [heard EXCEPT ![j] = "none"])
  BY <1>6 DEF Refuse, Enqueue, CallerStep, Subscribe, GetResult, Receive, GiveUp,
              SubscribeTakesEffect, SubscriptionBreaks, Cancel, Tell
<1>7. ASSUME NEW j \in Jobs, UNCHANGED stored,
             UNCHANGED heard \/ heard' = [heard EXCEPT ![j] = "none"]
      PROVE  AnswerGrounded'
  BY <1>2, <1>7 DEF TypeOK
<1>8. ASSUME NEW j \in Jobs, ResultExpires(j) PROVE AnswerGrounded'
  BY <1>2, <1>8 DEF ResultExpires, waiter, TypeOK
<1>9. CASE UNCHANGED <<stored, heard>>
  BY <1>2, <1>9
<1>10. CASE UNCHANGED vars
  BY <1>9, <1>10 DEF vars, waiter
<1>11. QED
  BY <1>3, <1>4, <1>5, <1>6, <1>7, <1>8, <1>9, <1>10 DEF Next, WorkerStep

LEMMA CallerStepGrounded ==
    TypeOK /\ Grounded /\ [Next]_vars => CallerGrounded'
<1> SUFFICES ASSUME TypeOK, CallerGrounded, [Next]_vars PROVE CallerGrounded'
  BY DEF Grounded
<1> USE DEF CallerGrounded
<1>1. ASSUME NEW s \in Servers, WorkerStep(s) \/ DequeueFails(s) \/ Restart(s)
      PROVE  UNCHANGED <<caller, told>>
  BY <1>1 DEF WorkerStep, Dequeue, Handle, Requeue, SaveResult, PublishResult,
              DequeueFails, Restart, waiter
<1>2. ASSUME NEW s \in Servers, Crash(s) PROVE CallerGrounded'
  BY <1>2 DEF Crash, TypeOK
<1>3. ASSUME NEW j \in Jobs, NEW a, Tell(j, a) PROVE CallerGrounded'
  BY <1>3 DEF Tell, TypeOK
<1>4. ASSUME NEW j \in Jobs,
             \/ Refuse(j) \/ Enqueue(j) \/ CallerStep(j) \/ SubscribeTakesEffect(j)
             \/ SubscriptionBreaks(j) \/ Cancel(j) \/ ResultExpires(j)
      PROVE  \/ \E a : Tell(j, a)
             \/ /\ UNCHANGED told
                /\ \/ UNCHANGED caller
                   \/ caller[j] # "told" /\ \E p \in {"subscribe", "get", "select"} :
                          caller' = [caller EXCEPT ![j] = p]
  BY <1>4 DEF Refuse, Enqueue, CallerStep, Subscribe, GetResult, Receive, GiveUp,
              SubscribeTakesEffect, SubscriptionBreaks, Cancel, ResultExpires, waiter
<1>5. ASSUME NEW j \in Jobs, UNCHANGED told, caller[j] # "told",
             \E p \in {"subscribe", "get", "select"} : caller' = [caller EXCEPT ![j] = p]
      PROVE  CallerGrounded'
  BY <1>5 DEF TypeOK
<1>6. CASE UNCHANGED <<caller, told>>
  BY <1>6
<1>7. CASE UNCHANGED vars
  BY <1>6, <1>7 DEF vars, waiter
<1>8. QED
  BY <1>1, <1>2, <1>3, <1>4, <1>5, <1>6, <1>7 DEF Next

-----------------------------------------------------------------------------
\* Every step of the queue is a step of the promise, or changes nothing in it.
LEMMA StepKeepsPromise ==
    TypeOK /\ PublishInv /\ Grounded /\ [Next]_vars => [Promise!Next]_(Promise!vars)
<1> SUFFICES ASSUME TypeOK, PublishInv, Grounded, [Next]_vars
             PROVE  [Promise!Next]_(Promise!vars)
  OBVIOUS
<1>1. WorkerGrounded /\ AnswerGrounded /\ CallerGrounded
  BY DEF Grounded
<1>2. CASE UNCHANGED <<runs, wins, told>>
  BY <1>2 DEF Promise!vars
<1>3. ASSUME NEW s \in Servers, Dequeue(s) PROVE [Promise!Next]_(Promise!vars)
  <2> DEFINE j == Head(queue).job
  <2>1. j \in Jobs
    BY <1>3, PopLeaves DEF Dequeue, Entry
  <2>2. UNCHANGED <<wins, told>>
    BY <1>3 DEF Dequeue, waiter
  <2>3. CASE j \in Handled
    <3>1. runs' = [runs EXCEPT ![j] = @ + 1]
      BY <1>3, <2>3 DEF Dequeue
    <3>2. Promise!Attempt(j)
      BY <2>2, <2>3, <3>1 DEF Promise!Attempt
    <3>3. QED
      BY <2>1, <3>2 DEF Promise!Next
  <2>4. CASE j \notin Handled
    BY <1>2, <1>3, <2>2, <2>4 DEF Dequeue
  <2>5. QED
    BY <2>3, <2>4
<1>4. ASSUME NEW s \in Servers, Handle(s) PROVE [Promise!Next]_(Promise!vars)
  <2> DEFINE j == held[s].job
  <2>1. /\ j \in Jobs /\ UNCHANGED <<runs, told>>
        /\ wins' = wins \/ wins' = [wins EXCEPT ![j] = TRUE]
    BY <1>4 DEF Handle, TypeOK, Entry, waiter
  <2>2. runs[j] > 0
    <3>1. 0 < held[s].attempts /\ held[s].attempts <= runs[j]
      BY <1>1, <1>4 DEF Handle, WorkerGrounded, GroundedWorker
    <3>2. held[s].attempts \in Nat /\ runs[j] \in Nat
      BY <2>1 DEF TypeOK, Entry
    <3>3. QED
      BY <3>1, <3>2
  <2>3. CASE wins' = [wins EXCEPT ![j] = TRUE]
    <3>1. Promise!Succeed(j)
      BY <2>1, <2>2, <2>3 DEF Promise!Succeed
    <3>2. QED
      BY <2>1, <3>1 DEF Promise!Next
  <2>4. QED
    BY <1>2, <2>1, <2>3
<1>5. ASSUME NEW s \in Servers,
             \/ DequeueFails(s) \/ Requeue(s) \/ SaveResult(s) \/ PublishResult(s)
             \/ Crash(s) \/ Restart(s)
      PROVE  UNCHANGED <<runs, wins, told>>
  BY <1>5 DEF DequeueFails, Requeue, SaveResult, PublishResult, Crash, Restart,
              waiter, history
\* An answer is told to a caller that had none.
<1>6. ASSUME NEW j \in Jobs, NEW a \in {"ok", "failed", "gaveup"}, Tell(j, a),
             Promise!Justified(j, a), caller[j] # "told", UNCHANGED <<runs, wins>>
      PROVE  [Promise!Next]_(Promise!vars)
  <2>1. told[j] = "nothing" /\ told' = [told EXCEPT ![j] = a]
    BY <1>1, <1>6 DEF CallerGrounded, Tell
  <2>2. Promise!Answer(j)
    BY <1>6, <2>1 DEF Promise!Answer
  <2>3. QED
    BY <2>2 DEF Promise!Next
<1>7. \A j \in Jobs : Promise!Justified(j, "gaveup")
  BY DEF Promise!Justified
<1>8. ASSUME NEW j \in Jobs, Refuse(j) \/ Enqueue(j) \/ GiveUp(j)
      PROVE  [Promise!Next]_(Promise!vars)
  <2>1. UNCHANGED <<runs, wins>>
    BY <1>8 DEF Refuse, Enqueue, GiveUp, history
  <2>2. Tell(j, "gaveup") \/ UNCHANGED told
    BY <1>8 DEF Refuse, Enqueue, GiveUp
  <2>3. caller[j] # "told"
    BY <1>8 DEF Refuse, Enqueue, GiveUp
  <2>4. QED
    BY <1>2, <1>6, <1>7, <2>1, <2>2, <2>3
<1>9. ASSUME NEW j \in Jobs, GetResult(j) PROVE [Promise!Next]_(Promise!vars)
  <2>1. UNCHANGED <<runs, wins>> /\ caller[j] # "told"
    BY <1>9 DEF GetResult, history
  <2>2. \/ Tell(j, "gaveup")
        \/ stored[j] # "none" /\ Tell(j, stored[j])
        \/ UNCHANGED told
    BY <1>9 DEF GetResult
  <2>3. stored[j] # "none" =>
            stored[j] \in {"ok", "failed"} /\ Promise!Justified(j, stored[j])
    BY <1>1 DEF TypeOK, StoredResults, AnswerGrounded
  <2>4. QED
    BY <1>2, <1>6, <1>7, <2>1, <2>2, <2>3
<1>10. ASSUME NEW j \in Jobs, Receive(j) PROVE [Promise!Next]_(Promise!vars)
  <2>1. UNCHANGED <<runs, wins>> /\ caller[j] # "told" /\ Tell(j, heard[j])
    BY <1>10 DEF Receive, history
  <2>2. heard[j] \in {"ok", "failed"} /\ Promise!Justified(j, heard[j])
    BY <1>1, <1>10 DEF Receive, TypeOK, StoredResults, AnswerGrounded
  <2>3. QED
    BY <1>6, <2>1, <2>2
<1>11. ASSUME NEW j \in Jobs,
              \/ Subscribe(j) \/ SubscribeTakesEffect(j) \/ SubscriptionBreaks(j)
              \/ Cancel(j) \/ ResultExpires(j)
       PROVE  UNCHANGED <<runs, wins, told>>
  BY <1>11 DEF Subscribe, SubscribeTakesEffect, SubscriptionBreaks, Cancel,
               ResultExpires, waiter, history
<1>12. CASE UNCHANGED vars
  BY <1>2, <1>12 DEF vars, waiter, history
<1>13. QED
  BY <1>2, <1>3, <1>4, <1>5, <1>8, <1>9, <1>10, <1>11, <1>12
  DEF Next, WorkerStep, CallerStep

\* A custom tool's caller is answered at most once, with a success only after a
\* run succeeded and with a failure only after the first run and every retry
\* failed (or nothing handles the job): whatever Redis loses or doubles, and
\* whichever servers crash.
THEOREM PromiseAlwaysKept == Spec => PromiseKept
<1>1. Init => TypeOK /\ PublishInv /\ Grounded /\ Promise!Init
  BY TypeInit, GroundedInit DEF Init, PublishInv, Promise!Init
<1>2. TypeOK /\ PublishInv /\ Grounded /\ [Next]_vars => (TypeOK /\ PublishInv /\ Grounded)'
  BY TypeStep, PublishStep, QueueStep, WorkerStepGrounded, AnswerStep, CallerStepGrounded
  DEF Grounded
<1>3. QED
  BY <1>1, <1>2, StepKeepsPromise, PTL DEF Spec, PromiseKept, Promise!Spec

-----------------------------------------------------------------------------
\* Where the copies of a job are: the entries of the list, and the workers that
\* hold one.  An answer is what the caller may be, or was, told.
Holds(s, j) == s \in Busy /\ held[s].job = j
Answered(j) == \/ stored[j] # "none" \/ heard[j] # "none"
               \/ told[j] \in {"ok", "failed"}

\* Most steps add nothing to what there is of a job: no copy, no answer.
QueueGainsNone(j) ==
    \E d \in {0, 1} : \A i \in DOMAIN queue' :
        queue'[i].job = j => i + d \in DOMAIN queue /\ queue'[i] = queue[i + d]

HolderStays(s, j) ==
    Holds(s, j)' => /\ Holds(s, j) /\ held'[s] = held[s]
                    /\ wpc[s] = "publish" => wpc'[s] = "publish"
                    /\ wpc'[s] = "requeue" =>
                           wpc[s] = "requeue" \/ held[s].attempts <= DefaultRetries

NothingGained(j) ==
    /\ QueueGainsNone(j)
    /\ \A s \in Servers : HolderStays(s, j)
    /\ Answered(j)' => Answered(j)
    /\ caller'[j] = "new" => caller[j] = "new"
    /\ UNCHANGED <<runs[j], doubled[j]>>

\* The others work on the job: they take its entry, or put it back, or answer.
WorksOn(s, j) ==
    \/ Dequeue(s) /\ Head(queue).job = j
    \/ held[s].job = j /\ (Requeue(s) \/ SaveResult(s) \/ PublishResult(s))

LEMMA SameQueue ==
    ASSUME TypeOK, NEW j, UNCHANGED queue PROVE QueueGainsNone(j)
<1>1. \A i \in DOMAIN queue : i + 0 = i
  BY DEF TypeOK
<1>2. QED
  BY <1>1 DEF QueueGainsNone

LEMMA PoppedQueue ==
    ASSUME TypeOK, NEW j, queue # <<>>, queue' = Tail(queue) PROVE QueueGainsNone(j)
<1>1. \A i \in DOMAIN queue' : i + 1 \in DOMAIN queue /\ queue'[i] = queue[i + 1]
  BY DEF TypeOK
<1>2. QED
  BY <1>1 DEF QueueGainsNone

LEMMA PushedQueue ==
    ASSUME TypeOK, NEW j \in Jobs, NEW e \in Entry, NEW reported \in BOOLEAN, Push(e, reported),
           e.job # j
    PROVE  QueueGainsNone(j) /\ UNCHANGED doubled[j]
<1>1. UNCHANGED doubled[j]
  BY DEF Push, TypeOK, Entry
<1>2. \A i \in DOMAIN queue' : queue'[i] = e \/ (i + 0 \in DOMAIN queue /\ queue'[i] = queue[i + 0])
  <2>1. CASE queue' = queue
    BY <2>1 DEF TypeOK
  <2>2. CASE queue' = Append(queue, e)
    BY <2>2 DEF TypeOK
  <2>3. CASE queue' = queue \o <<e, e>>
    <3>1. <<e, e>> \in Seq(Entry) /\ Len(<<e, e>>) = 2
          /\ <<e, e>>[1] = e /\ <<e, e>>[2] = e
      OBVIOUS
    <3>2. QED
      BY <2>3, <3>1 DEF TypeOK
  <2>4. QED
    BY <2>1, <2>2, <2>3 DEF Push
<1>3. QED
  BY <1>1, <1>2 DEF QueueGainsNone

LEMMA WorkersGainNone ==
    ASSUME NEW j, UNCHANGED worker PROVE \A s \in Servers : HolderStays(s, j)
  BY DEF HolderStays, Holds, Busy, worker

LEMMA LetGoGainsNone ==
    ASSUME TypeOK, NEW j, NEW s \in Servers, NEW place \in {"idle", "stopped", "down"},
           LetGo(s, place)
    PROVE  \A t \in Servers : HolderStays(t, j)
  BY DEF HolderStays, Holds, Busy, LetGo, TypeOK

LEMMA TellGainsNone ==
    ASSUME TypeOK, NEW j \in Jobs, NEW k \in Jobs, NEW a, Tell(k, a), UNCHANGED stored,
           a \in {"ok", "failed"} => Answered(k)
    PROVE  /\ Answered(j)' => Answered(j)
           /\ caller'[j] = "new" => caller[j] = "new"
  BY DEF Tell, TypeOK, Answered

LEMMA WorkerSteps ==
    ASSUME TypeOK, NEW j \in Jobs, NEW s \in Servers, ~WorksOn(s, j),
           WorkerStep(s) \/ DequeueFails(s) \/ Crash(s) \/ Restart(s)
    PROVE  NothingGained(j)
<1>1. CASE Dequeue(s)
  <2>1. Head(queue) \in Entry /\ Head(queue).job # j
    BY <1>1, PopLeaves DEF WorksOn, Dequeue
  <2>2. QueueGainsNone(j)
    BY <1>1, PoppedQueue DEF Dequeue
  <2>3. held' = [held EXCEPT ![s] = Counted(Head(queue))]
        /\ \E p \in {"running", "save"} : wpc' = [wpc EXCEPT ![s] = p]
    BY <1>1 DEF Dequeue
  <2>4. ASSUME NEW t \in Servers PROVE HolderStays(t, j)
    BY <2>1, <2>3 DEF HolderStays, Holds, Busy, Counted, TypeOK
  <2>5. runs' = runs \/ runs' = [runs EXCEPT ![Head(queue).job] = @ + 1]
    BY <1>1 DEF Dequeue
  <2>6. runs'[j] = runs[j]
    BY <2>1, <2>5 DEF TypeOK
  <2>7. QED
    BY <1>1, <2>2, <2>4, <2>6 DEF NothingGained, Dequeue, waiter, Answered
<1>2. CASE Handle(s)
  <2>1. QueueGainsNone(j)
    BY <1>2, SameQueue DEF Handle
  <2>2. ASSUME NEW t \in Servers PROVE HolderStays(t, j)
    BY <1>2 DEF Handle, HolderStays, Holds, Busy, TypeOK
  <2>3. QED
    BY <1>2, <2>1, <2>2 DEF NothingGained, Handle, waiter, Answered
<1>3. CASE Requeue(s)
  <2>1. held[s] \in Entry /\ held[s].job # j
    BY <1>3 DEF WorksOn, TypeOK
  <2>2. QueueGainsNone(j) /\ UNCHANGED doubled[j]
    BY <1>3, <2>1, PushedQueue DEF Requeue
  <2>3. QED
    BY <1>3, <2>2, LetGoGainsNone DEF NothingGained, Requeue, waiter, Answered
<1>4. CASE SaveResult(s)
  <2>1. held[s].job # j
    BY <1>4 DEF WorksOn
  <2>2. QueueGainsNone(j)
    BY <1>4, SameQueue DEF SaveResult
  <2>3. \A t \in Servers : HolderStays(t, j)
    <3>1. CASE LetGo(s, "idle")
      BY <3>1, LetGoGainsNone
    <3>2. CASE wpc' = [wpc EXCEPT ![s] = "publish"] /\ UNCHANGED <<held, outcome>>
      BY <2>1, <3>2 DEF HolderStays, Holds, Busy, TypeOK
    <3>3. QED
      BY <1>4, <3>1, <3>2 DEF SaveResult
  <2>4. stored'[j] = stored[j]
    BY <1>4, <2>1 DEF SaveResult, TypeOK
  <2>5. QED
    BY <1>4, <2>2, <2>3, <2>4 DEF NothingGained, SaveResult, waiter, history, Answered
<1>5. CASE PublishResult(s)
  <2>1. held[s].job # j
    BY <1>5 DEF WorksOn
  <2>2. QueueGainsNone(j)
    BY <1>5, SameQueue DEF PublishResult
  <2>3. heard'[j] = heard[j]
    BY <1>5, <2>1 DEF PublishResult, TypeOK
  <2>4. QED
    BY <1>5, <2>2, <2>3, LetGoGainsNone DEF NothingGained, PublishResult, history, Answered
<1>6. CASE DequeueFails(s)
  <2>1. QueueGainsNone(j)
    BY <1>6, SameQueue, PoppedQueue DEF DequeueFails
  <2>2. \E p \in {"idle", "stopped"} : wpc' = [wpc EXCEPT ![s] = p]
    BY <1>6 DEF DequeueFails
  <2>3. ASSUME NEW t \in Servers PROVE HolderStays(t, j)
    BY <1>6, <2>2 DEF DequeueFails, HolderStays, Holds, Busy, TypeOK
  <2>4. QED
    BY <1>6, <2>1, <2>3 DEF NothingGained, DequeueFails, waiter, history, Answered
<1>7. CASE Crash(s)
  <2>1. QueueGainsNone(j)
    BY <1>7, SameQueue DEF Crash
  <2>2. \A t \in Servers : HolderStays(t, j)
    BY <1>7, LetGoGainsNone DEF Crash
  <2>3. /\ caller'[j] = "new" => caller[j] = "new"
        /\ heard'[j] \in {heard[j], "none"}
    BY <1>7 DEF Crash
  <2>4. QED
    BY <1>7, <2>1, <2>2, <2>3 DEF NothingGained, Crash, history, Answered
<1>8. CASE Restart(s)
  <2>1. QueueGainsNone(j)
    BY <1>8, SameQueue DEF Restart
  <2>2. ASSUME NEW t \in Servers PROVE HolderStays(t, j)
    BY <1>8 DEF Restart, HolderStays, Holds, Busy, TypeOK
  <2>3. QED
    BY <1>8, <2>1, <2>2 DEF NothingGained, Restart, waiter, history, Answered
<1>9. QED
  BY <1>1, <1>2, <1>3, <1>4, <1>5, <1>6, <1>7, <1>8 DEF WorkerStep

LEMMA CallerSteps ==
    ASSUME TypeOK, NEW j \in Jobs, NEW k \in Jobs, ~(k = j /\ Enqueue(j)),
           \/ Refuse(k) \/ Enqueue(k) \/ CallerStep(k) \/ SubscribeTakesEffect(k)
           \/ SubscriptionBreaks(k) \/ Cancel(k) \/ ResultExpires(k)
    PROVE  NothingGained(j)
<1>1. CASE Enqueue(k)
  <2> DEFINE e == [job |-> k, attempts |-> 0]
  <2>1. e \in Entry /\ e.job # j /\ k # j
    BY <1>1 DEF Entry
  <2>2. \E reported \in BOOLEAN : Push(e, reported)
    BY <1>1 DEF Enqueue
  <2>3. QueueGainsNone(j) /\ UNCHANGED doubled[j]
    <3> HIDE DEF e
    <3>1. QED
      BY <2>1, <2>2, PushedQueue
  <2>4. /\ Answered(j)' => Answered(j)
        /\ caller'[j] = "new" => caller[j] = "new"
    BY <1>1, <2>1 DEF Enqueue, Tell, Answered, TypeOK
  <2>5. QED
    BY <1>1, <2>3, <2>4, WorkersGainNone DEF NothingGained, Enqueue
<1>2. CASE ~Enqueue(k)
  <2>1. UNCHANGED <<queue, worker, runs, doubled>>
    BY <1>2 DEF Refuse, CallerStep, Subscribe, GetResult, Receive, GiveUp,
                SubscribeTakesEffect, SubscriptionBreaks, Cancel, ResultExpires, history
  <2>2. QueueGainsNone(j) /\ \A s \in Servers : HolderStays(s, j)
    BY <2>1, SameQueue, WorkersGainNone
  <2>3. CASE Refuse(k) \/ GetResult(k) \/ Receive(k) \/ GiveUp(k)
    <3>1. UNCHANGED stored
      BY <2>3 DEF Refuse, GetResult, Receive, GiveUp
    <3>2. \/ \E a : Tell(k, a) /\ (a \in {"ok", "failed"} => Answered(k))
          \/ /\ caller[k] = "get" /\ caller' = [caller EXCEPT ![k] = "select"]
             /\ UNCHANGED <<heard, told>>
      BY <2>3 DEF Refuse, GetResult, Receive, GiveUp, Answered
    <3>3. /\ Answered(j)' => Answered(j)
          /\ caller'[j] = "new" => caller[j] = "new"
      <4>1. CASE \E a : Tell(k, a) /\ (a \in {"ok", "failed"} => Answered(k))
        BY <3>1, <4>1, TellGainsNone
      <4>2. CASE /\ caller[k] = "get" /\ caller' = [caller EXCEPT ![k] = "select"]
                 /\ UNCHANGED <<heard, told>>
        BY <3>1, <4>2 DEF Answered, TypeOK
      <4>3. QED
        BY <3>2, <4>1, <4>2
    <3>4. QED
      BY <2>1, <2>2, <3>3 DEF NothingGained
  <2>4. CASE Subscribe(k) \/ SubscribeTakesEffect(k) \/ Cancel(k)
    <3>1. /\ UNCHANGED <<stored, heard, told>>
          /\ \/ UNCHANGED caller
             \/ caller' = [caller EXCEPT ![k] = "get"]
      BY <2>4 DEF Subscribe, SubscribeTakesEffect, Cancel
    <3>2. QED
      BY <2>1, <2>2, <3>1 DEF NothingGained, Answered, TypeOK
  <2>5. CASE SubscriptionBreaks(k) \/ ResultExpires(k)
    <3>1. /\ UNCHANGED <<caller, told>>
          /\ heard'[j] \in {heard[j], "none"} /\ stored'[j] \in {stored[j], "none"}
      BY <2>5 DEF SubscriptionBreaks, ResultExpires, waiter, TypeOK
    <3>2. QED
      BY <2>1, <2>2, <3>1 DEF NothingGained, Answered
  <2>6. QED
    BY <1>2, <2>3, <2>4, <2>5 DEF CallerStep
<1>3. QED
  BY <1>1, <1>2

\* Every step adds nothing to what there is of a job, or works on it.
LEMMA StepsOnJob ==
    ASSUME TypeOK, [Next]_vars, NEW j \in Jobs
    PROVE  NothingGained(j) \/ (\E s \in Servers : WorksOn(s, j)) \/ Enqueue(j)
<1>1. CASE \E s \in Servers : WorkerStep(s) \/ DequeueFails(s) \/ Crash(s) \/ Restart(s)
  BY <1>1, WorkerSteps
<1>2. CASE \E k \in Jobs : \/ Refuse(k) \/ Enqueue(k) \/ CallerStep(k)
                           \/ SubscribeTakesEffect(k) \/ SubscriptionBreaks(k)
                           \/ Cancel(k) \/ ResultExpires(k)
  BY <1>2, CallerSteps
<1>3. CASE UNCHANGED vars
  BY <1>3, SameQueue, WorkersGainNone
  DEF NothingGained, vars, waiter, history, Answered
<1>4. QED
  BY <1>1, <1>2, <1>3 DEF Next

-----------------------------------------------------------------------------
\* Unless Redis was sent it twice a job is in one place, and in none that could
\* start it again once there is an answer.
Alone(j) ==
    doubled[j] = 0 =>
        /\ \A i, k \in DOMAIN queue : queue[i].job = j /\ queue[k].job = j => i = k
        /\ \A s, t \in Servers : Holds(s, j) /\ Holds(t, j) => s = t
        /\ Queued(j) => \A s \in Servers : ~Holds(s, j)
        /\ Answered(j) =>
               ~Queued(j) /\ \A s \in Servers : Holds(s, j) => wpc[s] = "publish"

\* Until it is sent there is nothing of a job.
Untouched(j) ==
    caller[j] = "new" =>
        /\ ~Queued(j) /\ ~Answered(j) /\ \A s \in Servers : ~Holds(s, j)
        /\ runs[j] = 0 /\ doubled[j] = 0

AllAlone == \A j \in Jobs : Untouched(j) /\ Alone(j)

LEMMA QueuedBefore ==
    ASSUME NEW j, QueueGainsNone(j), Queued(j)' PROVE Queued(j)
  BY DEF QueueGainsNone, Queued

\* Sent once, an entry is in the list once.
LEMMA PushedOnce ==
    ASSUME TypeOK, NEW e \in Entry, NEW reported \in BOOLEAN, Push(e, reported),
           doubled'[e.job] = 0
    PROVE  doubled[e.job] = 0 /\ queue' \in {queue, Append(queue, e)}
<1>1. e.job \in Jobs /\ doubled[e.job] \in Nat
  BY DEF Entry, TypeOK
<1>2. CASE doubled' = [doubled EXCEPT ![e.job] = @ + 1]
  BY <1>1, <1>2 DEF TypeOK
<1>3. QED
  BY <1>2 DEF Push

LEMMA OnlyThePushed ==
    ASSUME TypeOK, NEW e \in Entry, queue' \in {queue, Append(queue, e)}, ~Queued(e.job)
    PROVE  \A i \in DOMAIN queue' : queue'[i].job = e.job => i = Len(queue) + 1
<1>1. CASE queue' = queue
  BY <1>1 DEF Queued
<1>2. CASE queue' = Append(queue, e)
  <2>1. \A i \in DOMAIN queue' :
            i = Len(queue) + 1 \/ (i \in DOMAIN queue /\ queue'[i] = queue[i])
    BY <1>2 DEF TypeOK
  <2>2. QED
    BY <2>1 DEF Queued
<1>3. QED
  BY <1>1, <1>2

LEMMA WorksOnHolder ==
    ASSUME TypeOK, NEW j \in Jobs, NEW s \in Servers, WorksOn(s, j)
    PROVE  /\ ~Dequeue(s) => Holds(s, j)
           /\ Dequeue(s) => Queued(j)
           /\ UNCHANGED caller
<1>1. CASE Dequeue(s)
  BY <1>1, PopLeaves DEF WorksOn, Dequeue, Queued, waiter, Requeue, SaveResult, PublishResult
<1>2. CASE ~Dequeue(s)
  BY <1>2 DEF WorksOn, Requeue, SaveResult, PublishResult, Holds, Busy, waiter
<1>3. QED
  BY <1>1, <1>2

LEMMA UntouchedStep ==
    ASSUME TypeOK, [Next]_vars, NEW j \in Jobs, Untouched(j) PROVE Untouched(j)'
<1>1. CASE NothingGained(j)
  BY <1>1, QueuedBefore DEF NothingGained, HolderStays, Untouched
<1>2. CASE \E s \in Servers : WorksOn(s, j)
  BY <1>2, WorksOnHolder DEF Untouched
<1>3. CASE Enqueue(j)
  BY <1>3 DEF Enqueue, Tell, Untouched, TypeOK
<1>4. QED
  BY <1>1, <1>2, <1>3, StepsOnJob

LEMMA AloneStep ==
    ASSUME TypeOK, TypeOK', [Next]_vars, NEW j \in Jobs, Untouched(j), Alone(j)
    PROVE  Alone(j)'
<1> SUFFICES ASSUME doubled'[j] = 0 PROVE Alone(j)'
  BY DEF Alone
<1>1. CASE NothingGained(j)
  <2>1. doubled[j] = 0
    BY <1>1 DEF NothingGained
  <2>2. \A i, k \in DOMAIN queue' : queue'[i].job = j /\ queue'[k].job = j => i = k
    <3>1. PICK d \in {0, 1} : \A i \in DOMAIN queue' :
              queue'[i].job = j => i + d \in DOMAIN queue /\ queue'[i] = queue[i + d]
      BY <1>1 DEF NothingGained, QueueGainsNone
    <3>2. queue' \in Seq(Entry)
      BY DEF TypeOK
    <3>3. \A i \in DOMAIN queue' : i \in Nat
      BY <3>2 DEF TypeOK
    <3>4. QED
      BY <2>1, <3>1, <3>3 DEF Alone
  <2>3. QED
    BY <1>1, <2>1, <2>2, QueuedBefore DEF NothingGained, HolderStays, Alone
<1>2. ASSUME NEW s \in Servers, WorksOn(s, j), Dequeue(s) PROVE Alone(j)'
  <2>1. /\ queue # <<>> /\ queue' = Tail(queue) /\ Head(queue) = queue[1]
        /\ 1 \in DOMAIN queue /\ Queued(j) /\ UNCHANGED doubled
    BY <1>2, PopLeaves, WorksOnHolder DEF Dequeue
  <2>2. Head(queue).job = j
    BY <1>2 DEF WorksOn, Dequeue, Requeue, SaveResult, PublishResult
  <2>3. ~Queued(j)'
    <3>1. \A i \in DOMAIN queue' :
              i + 1 \in DOMAIN queue /\ queue'[i] = queue[i + 1] /\ i + 1 # 1
      BY <2>1 DEF TypeOK
    <3>2. QED
      BY <2>1, <2>2, <3>1 DEF Queued, Alone
  <2>4. \A t \in Servers : Holds(t, j)' => t = s
    BY <1>2, <2>1 DEF Dequeue, Holds, Busy, Alone, TypeOK
  <2>5. ~Answered(j)'
    BY <1>2, <2>1 DEF Dequeue, Answered, waiter, Alone
  <2>6. QED
    BY <2>3, <2>4, <2>5 DEF Alone, Queued
<1>3. ASSUME NEW s \in Servers, WorksOn(s, j), Requeue(s) PROVE Alone(j)'
  <2>1. held[s] \in Entry /\ held[s].job = j /\ wpc[s] = "requeue" /\ Holds(s, j)
    BY <1>3, WorksOnHolder DEF WorksOn, Requeue, Dequeue, SaveResult, PublishResult, TypeOK
  <2>2. doubled[j] = 0 /\ queue' \in {queue, Append(queue, held[s])}
    BY <1>3, <2>1, PushedOnce DEF Requeue
  <2>3. ~Queued(j) /\ ~Answered(j) /\ \A t \in Servers : Holds(t, j) => t = s
    BY <2>1, <2>2 DEF Alone
  <2>4. \A t \in Servers : ~Holds(t, j)'
    BY <1>3, <2>3 DEF Requeue, LetGo, Holds, Busy, TypeOK
  <2>5. ~Answered(j)'
    BY <1>3, <2>3 DEF Requeue, waiter, Answered
  <2>6. \A i, k \in DOMAIN queue' : queue'[i].job = j /\ queue'[k].job = j => i = k
    BY <2>1, <2>2, <2>3, OnlyThePushed
  <2>7. QED
    BY <2>4, <2>5, <2>6 DEF Alone
<1>4. ASSUME NEW s \in Servers, WorksOn(s, j), SaveResult(s) \/ PublishResult(s)
      PROVE  Alone(j)'
  <2>1. Holds(s, j) /\ UNCHANGED <<queue, doubled>>
    BY <1>4, WorksOnHolder DEF SaveResult, PublishResult, Dequeue, history
  <2>2. ~Queued(j) /\ \A t \in Servers : Holds(t, j) => t = s
    BY <2>1 DEF Alone
  <2>3. \A t \in Servers : Holds(t, j)' => t = s /\ wpc'[t] = "publish"
    <3>1. \/ LetGo(s, "idle")
          \/ wpc' = [wpc EXCEPT ![s] = "publish"] /\ UNCHANGED held
      BY <1>4 DEF SaveResult, PublishResult
    <3>2. CASE LetGo(s, "idle")
      BY <2>2, <3>2 DEF LetGo, Holds, Busy, TypeOK
    <3>3. CASE wpc' = [wpc EXCEPT ![s] = "publish"] /\ UNCHANGED held
      BY <2>2, <3>3 DEF Holds, Busy, TypeOK
    <3>4. QED
      BY <3>1, <3>2, <3>3
  <2>4. QED
    BY <2>1, <2>2, <2>3 DEF Alone, Queued
<1>5. CASE Enqueue(j)
  <2> DEFINE e == [job |-> j, attempts |-> 0]
  <2>1. e \in Entry /\ e.job = j /\ \E reported \in BOOLEAN : Push(e, reported)
    BY <1>5 DEF Enqueue, Entry
  <2>2. /\ ~Queued(j) /\ ~Answered(j) /\ \A t \in Servers : ~Holds(t, j)
    BY <1>5 DEF Enqueue, Untouched
  <2>3. ~Answered(j)' /\ \A t \in Servers : ~Holds(t, j)'
    <3>1. ~Answered(j)'
      <4>1. UNCHANGED stored /\ stored[j] = "none" /\ heard[j] = "none"
        BY <1>5, <2>2 DEF Enqueue, Answered
      <4>2. UNCHANGED <<heard, told>> \/ Tell(j, "gaveup")
        BY <1>5 DEF Enqueue
      <4>3. heard'[j] = "none" /\ told'[j] \in {told[j], "gaveup"}
        BY <4>1, <4>2 DEF Tell, TypeOK
      <4>4. QED
        BY <2>2, <4>1, <4>3 DEF Answered
    <3>2. UNCHANGED worker
      BY <1>5 DEF Enqueue
    <3>3. QED
      BY <2>2, <3>1, <3>2 DEF Holds, Busy, worker
  <2> HIDE DEF e
  <2>4. queue' \in {queue, Append(queue, e)}
    BY <2>1, PushedOnce
  <2>5. \A i, k \in DOMAIN queue' : queue'[i].job = j /\ queue'[k].job = j => i = k
    BY <2>1, <2>2, <2>4, OnlyThePushed
  <2>6. QED
    BY <2>3, <2>5 DEF Alone
<1>6. QED
  BY <1>1, <1>2, <1>3, <1>4, <1>5, StepsOnJob DEF WorksOn

LEMMA AlwaysAlone == Spec => [](TypeOK /\ PublishInv /\ AllAlone)
<1>1. Init => TypeOK /\ PublishInv /\ AllAlone
  BY TypeInit DEF Init, PublishInv, AllAlone, Untouched, Alone, Queued, Answered, Holds, Busy
<1>2. TypeOK /\ PublishInv /\ AllAlone /\ [Next]_vars => (TypeOK /\ PublishInv /\ AllAlone)'
  BY TypeStep, PublishStep, UntouchedStep, AloneStep DEF AllAlone
<1>3. QED
  BY <1>1, <1>2, PTL DEF Spec

-----------------------------------------------------------------------------
(***************************************************************************)
(* The runs of a job are counted in lanes, one for each time Redis was     *)
(* sent it: every copy has a lane of its own, and has used the places of   *)
(* that lane up to its attempts.  A lane has one place for the first run   *)
(* and one for every retry.                                                *)
(***************************************************************************)
Lane(j) == 0 .. doubled[j]
Places == 1 .. DefaultRetries + 1

\* What a copy in lane l with a attempts behind it may have used.
UpTo(used, l, a) == \A n \in Places : <<l, n>> \in used => n <= a

LanesAre(j, q, w, used) ==
    /\ q \in [Nat -> Lane(j)]
    /\ w \in [Servers -> Lane(j)]
    /\ used \in SUBSET (Lane(j) \X Places)
    /\ IsFiniteSet(used) /\ Cardinality(used) = runs[j]
    /\ \A i, k \in DOMAIN queue :
           queue[i].job = j /\ queue[k].job = j /\ q[i] = q[k] => i = k
    /\ \A s, t \in Servers : Holds(s, j) /\ Holds(t, j) /\ w[s] = w[t] => s = t
    /\ \A s \in Servers, i \in DOMAIN queue :
           Holds(s, j) /\ queue[i].job = j => q[i] # w[s]
    /\ \A i \in DOMAIN queue : queue[i].job = j =>
           queue[i].attempts <= DefaultRetries /\ UpTo(used, q[i], queue[i].attempts)
    /\ \A s \in Servers : Holds(s, j) =>
           /\ held[s].attempts <= DefaultRetries + 1
           /\ wpc[s] = "requeue" => held[s].attempts <= DefaultRetries
           /\ UpTo(used, w[s], held[s].attempts)

InLanes(j) == \E q, w, used : LanesAre(j, q, w, used)

\* The lanes after a step, put together.
LEMMA LanesTogether ==
    ASSUME NEW j, NEW q, NEW w, NEW used,
           q \in [Nat -> Lane(j)'], w \in [Servers -> Lane(j)'],
           used \in SUBSET (Lane(j)' \X Places),
           IsFiniteSet(used) /\ Cardinality(used) = runs'[j],
           \A i, k \in DOMAIN queue' :
               queue'[i].job = j /\ queue'[k].job = j /\ q[i] = q[k] => i = k,
           \A s, t \in Servers : Holds(s, j)' /\ Holds(t, j)' /\ w[s] = w[t] => s = t,
           \A s \in Servers, i \in DOMAIN queue' :
               Holds(s, j)' /\ queue'[i].job = j => q[i] # w[s],
           \A i \in DOMAIN queue' : queue'[i].job = j =>
               queue'[i].attempts <= DefaultRetries /\ UpTo(used, q[i], queue'[i].attempts),
           \A s \in Servers : Holds(s, j)' =>
               /\ held'[s].attempts <= DefaultRetries + 1
               /\ wpc'[s] = "requeue" => held'[s].attempts <= DefaultRetries
               /\ UpTo(used, w[s], held'[s].attempts)
    PROVE  InLanes(j)'
<1>1. LanesAre(j, q, w, used)'
  BY DEF LanesAre, UpTo, Places
<1>2. QED
  BY <1>1 DEF InLanes

\* Copies that only move up the list, stay with their worker or get lost keep
\* their lanes.
CopiesStay(j) ==
    /\ QueueGainsNone(j)
    /\ \A s \in Servers : HolderStays(s, j)
    /\ UNCHANGED <<runs[j], doubled[j]>>

LEMMA StayInLanes ==
    ASSUME TypeOK, TypeOK', NEW j \in Jobs, InLanes(j), CopiesStay(j)
    PROVE  InLanes(j)'
<1>1. PICK q, w, used : LanesAre(j, q, w, used)
  BY DEF InLanes
<1>2. PICK d \in {0, 1} : \A i \in DOMAIN queue' :
          queue'[i].job = j => i + d \in DOMAIN queue /\ queue'[i] = queue[i + d]
  BY DEF CopiesStay, QueueGainsNone
<1> DEFINE r == [i \in Nat |-> q[i + d]]
<1>3. \A i \in DOMAIN queue' : i \in Nat /\ r[i] = q[i + d]
  <2>1. \A i \in DOMAIN queue' : i \in Nat
    BY DEF TypeOK
  <2>2. QED
    BY <2>1
<1>4. InLanes(j)'
  <2>1. Lane(j)' = Lane(j) /\ runs'[j] = runs[j]
    BY DEF CopiesStay, Lane
  <2>2. r \in [Nat -> Lane(j)]
    <3>1. q \in [Nat -> Lane(j)]
      BY <1>1 DEF LanesAre
    <3>2. \A i \in Nat : i + d \in Nat
      BY <1>2
    <3>3. QED
      BY <3>1, <3>2
  <2>3. \A i, k \in DOMAIN queue' :
            queue'[i].job = j /\ queue'[k].job = j /\ r[i] = r[k] => i = k
    <3>1. \A i, k \in Nat : i + d = k + d => i = k
      OBVIOUS
    <3>2. ASSUME NEW i \in DOMAIN queue', NEW k \in DOMAIN queue',
                 queue'[i].job = j, queue'[k].job = j, r[i] = r[k]
          PROVE  i = k
      <4>1. /\ i + d \in DOMAIN queue /\ queue[i + d].job = j
            /\ k + d \in DOMAIN queue /\ queue[k + d].job = j
            /\ q[i + d] = q[k + d] /\ i \in Nat /\ k \in Nat
        BY <1>2, <1>3, <3>2
      <4>2. i + d = k + d
        BY <1>1, <4>1 DEF LanesAre
      <4>3. QED
        BY <3>1, <4>1, <4>2
    <3>3. QED
      BY <3>2
  <2>4. \A s \in Servers : Holds(s, j)' => Holds(s, j) /\ held'[s] = held[s]
    BY DEF CopiesStay, HolderStays
  <2>5. \A s, t \in Servers : Holds(s, j)' /\ Holds(t, j)' /\ w[s] = w[t] => s = t
    BY <1>1, <2>4 DEF LanesAre
  <2>6. \A s \in Servers, i \in DOMAIN queue' :
            Holds(s, j)' /\ queue'[i].job = j => r[i] # w[s]
    BY <1>1, <1>2, <1>3, <2>4 DEF LanesAre
  <2>7. \A i \in DOMAIN queue' : queue'[i].job = j =>
            queue'[i].attempts <= DefaultRetries /\ UpTo(used, r[i], queue'[i].attempts)
    BY <1>1, <1>2, <1>3 DEF LanesAre
  <2>8. \A s \in Servers : Holds(s, j)' =>
            /\ held'[s].attempts <= DefaultRetries + 1
            /\ wpc'[s] = "requeue" => held'[s].attempts <= DefaultRetries
            /\ UpTo(used, w[s], held'[s].attempts)
    BY <1>1 DEF LanesAre, CopiesStay, HolderStays
  <2>9. /\ w \in [Servers -> Lane(j)] /\ used \in SUBSET (Lane(j) \X Places)
        /\ IsFiniteSet(used) /\ Cardinality(used) = runs[j]
    BY <1>1 DEF LanesAre
  <2> HIDE DEF r
  <2>10. QED
    BY <2>1, <2>2, <2>3, <2>5, <2>6, <2>7, <2>8, <2>9, LanesTogether
<1>5. QED
  BY <1>4

\* A copy that goes to the list takes its lane along; if Redis is sent it twice
\* the second one gets a new lane, of which nothing is used yet.
LEMMA PushInLanes ==
    ASSUME TypeOK, TypeOK', NEW j \in Jobs,
           NEW q, NEW w, NEW used, LanesAre(j, q, w, used),
           NEW e \in Entry, NEW reported \in BOOLEAN, Push(e, reported), e.job = j,
           NEW l \in Lane(j),
           e.attempts <= DefaultRetries, UpTo(used, l, e.attempts),
           \A i \in DOMAIN queue : queue[i].job = j => q[i] # l,
           \A s \in Servers : HolderStays(s, j) /\ (Holds(s, j)' => w[s] # l),
           UNCHANGED runs[j]
    PROVE  InLanes(j)'
<1> DEFINE n == Len(queue)
           new == doubled[j] + 1
           r == [i \in Nat |-> IF i = n + 1 THEN l ELSE IF i = n + 2 THEN new ELSE q[i]]
<1>1. n \in Nat /\ doubled[j] \in Nat /\ DefaultRetries \in Nat
      /\ DOMAIN queue = 1 .. n
  BY JobAssumption DEF TypeOK
<1>0. new \notin Lane(j)
  BY <1>1 DEF Lane
<1>2. q \in [Nat -> Lane(j)] /\ \A i \in Nat : q[i] # new
  BY <1>0 DEF LanesAre
<1>3. w \in [Servers -> Lane(j)] /\ (\A s \in Servers : w[s] # new) /\ l # new
  BY <1>0 DEF LanesAre
<1>4. /\ \A i \in DOMAIN queue : r[i] = q[i] /\ i # n + 1 /\ i # n + 2
      /\ r[n + 1] = l /\ r[n + 2] = new /\ n + 1 # n + 2
  BY <1>1
<1>5. UpTo(used, new, e.attempts)
  <2>1. used \in SUBSET (Lane(j) \X Places)
    BY DEF LanesAre
  <2>2. QED
    BY <1>0, <2>1 DEF UpTo
\* What the list may have become, and the lanes it then has.
<1>6. /\ doubled'[j] \in {doubled[j], new}
      /\ \A i \in DOMAIN queue' :
             \/ i \in DOMAIN queue /\ queue'[i] = queue[i]
             \/ i = n + 1 /\ queue'[i] = e
             \/ i = n + 2 /\ queue'[i] = e /\ doubled'[j] = new
  <2>1. CASE queue' = queue /\ UNCHANGED doubled
    BY <2>1
  <2>2. CASE queue' = Append(queue, e) /\ UNCHANGED doubled
    BY <2>2 DEF TypeOK
  <2>3. CASE queue' = queue \o <<e, e>> /\ doubled' = [doubled EXCEPT ![e.job] = @ + 1]
    <3>1. <<e, e>> \in Seq(Entry) /\ Len(<<e, e>>) = 2
          /\ <<e, e>>[1] = e /\ <<e, e>>[2] = e
      OBVIOUS
    <3>2. doubled'[j] = new
      BY <2>3 DEF TypeOK
    <3>3. Len(queue') = n + 2
      BY <2>3, <3>1 DEF TypeOK
    <3>4. \A i \in 1 .. n + 2 : queue'[i] = IF i <= n THEN queue[i] ELSE e
      BY <2>3, <3>1 DEF TypeOK
    <3>5. DOMAIN queue' = 1 .. n + 2
      BY <3>3 DEF TypeOK
    <3>6. QED
      BY <1>1, <3>2, <3>4, <3>5
  <2>4. QED
    BY <2>1, <2>2, <2>3 DEF Push
<1>7. Lane(j) \subseteq Lane(j)' /\ (doubled'[j] = new => new \in Lane(j)')
  BY <1>1, <1>6 DEF Lane
<1> DEFINE p == [i \in Nat |-> IF i \in DOMAIN queue' THEN r[i] ELSE l]
<1>8. \A i \in DOMAIN queue' : p[i] = r[i]
  BY DEF TypeOK
<1>9. p \in [Nat -> Lane(j)']
  <2>1. \A i \in DOMAIN queue' : r[i] \in Lane(j)'
    BY <1>1, <1>2, <1>4, <1>6, <1>7
  <2>2. QED
    BY <1>7, <2>1
<1>10. ASSUME NEW i \in DOMAIN queue', queue'[i].job = j
       PROVE  \/ i \in DOMAIN queue /\ queue[i].job = j /\ p[i] = q[i]
              \/ i = n + 1 /\ p[i] = l
              \/ i = n + 2 /\ p[i] = new
  BY <1>4, <1>6, <1>8, <1>10
<1> HIDE DEF r, p, n, new
<1>11. \A i, k \in DOMAIN queue' :
           queue'[i].job = j /\ queue'[k].job = j /\ p[i] = p[k] => i = k
  <2>1. \A i \in DOMAIN queue : q[i] # new
    BY <1>1, <1>2
  <2>2. QED
    BY <1>3, <1>10, <2>1 DEF LanesAre
<1>12. \A s \in Servers : Holds(s, j)' => Holds(s, j) /\ held'[s] = held[s] /\ w[s] # l
  BY DEF HolderStays
<1>13. \A s, t \in Servers : Holds(s, j)' /\ Holds(t, j)' /\ w[s] = w[t] => s = t
  BY <1>12 DEF LanesAre
<1>14. \A s \in Servers, i \in DOMAIN queue' :
           Holds(s, j)' /\ queue'[i].job = j => p[i] # w[s]
  BY <1>3, <1>10, <1>12 DEF LanesAre
<1>15. \A i \in DOMAIN queue' : queue'[i].job = j =>
           queue'[i].attempts <= DefaultRetries /\ UpTo(used, p[i], queue'[i].attempts)
  BY <1>4, <1>5, <1>6, <1>8 DEF LanesAre
<1>16. \A s \in Servers : Holds(s, j)' =>
           /\ held'[s].attempts <= DefaultRetries + 1
           /\ wpc'[s] = "requeue" => held'[s].attempts <= DefaultRetries
           /\ UpTo(used, w[s], held'[s].attempts)
  BY DEF LanesAre, HolderStays
<1>17. w \in [Servers -> Lane(j)'] /\ used \in SUBSET (Lane(j)' \X Places)
  BY <1>3, <1>7 DEF LanesAre
<1>18. IsFiniteSet(used) /\ Cardinality(used) = runs'[j]
  BY DEF LanesAre
<1>19. QED
  BY <1>9, <1>11, <1>13, <1>14, <1>15, <1>16, <1>17, <1>18, LanesTogether

\* A copy that is taken from the list keeps its lane, and uses the next place of
\* it when a run starts.
LEMMA TakeInLanes ==
    ASSUME TypeOK, TypeOK', NEW j \in Jobs, InLanes(j),
           NEW s \in Servers, Dequeue(s), Head(queue).job = j
    PROVE  InLanes(j)'
<1>1. PICK q, w, used : LanesAre(j, q, w, used)
  BY DEF InLanes
<1> DEFINE e == queue[1]
           l == q[1]
           a == e.attempts + 1
           r == [i \in Nat |-> q[i + 1]]
           v == [w EXCEPT ![s] = l]
<1>2. /\ e \in Entry /\ e = Head(queue) /\ 1 \in DOMAIN queue /\ e.job = j
      /\ e.attempts \in Nat /\ DefaultRetries \in Nat /\ l \in Lane(j)
  BY <1>1, PopLeaves, JobAssumption DEF Dequeue, Entry, LanesAre
<1>3. \A i \in DOMAIN queue' :
          /\ i \in Nat /\ i + 1 \in DOMAIN queue /\ queue'[i] = queue[i + 1]
          /\ i + 1 # 1 /\ i + 1 \in Nat
  BY DEF Dequeue, TypeOK
<1>4. Lane(j)' = Lane(j)
  BY DEF Dequeue, Lane
<1>5. a \in Places /\ e.attempts <= DefaultRetries /\ UpTo(used, l, e.attempts)
  BY <1>1, <1>2 DEF LanesAre, Places
<1>6. <<l, a>> \notin used
  BY <1>2, <1>5 DEF UpTo
<1>7. held'[s].attempts = a /\ held'[s].job = j /\ wpc'[s] # "requeue"
  BY <1>2 DEF Dequeue, Counted, TypeOK
<1>8. \A t \in Servers \ {s} : held'[t] = held[t] /\ wpc'[t] = wpc[t]
  BY DEF Dequeue, TypeOK
<1>9. PICK use \in SUBSET (Lane(j) \X Places) :
          /\ use \in {used, used \cup {<<l, a>>}}
          /\ IsFiniteSet(use) /\ Cardinality(use) = runs'[j]
  <2>1. used \in SUBSET (Lane(j) \X Places) /\ IsFiniteSet(used)
        /\ Cardinality(used) = runs[j]
    BY <1>1 DEF LanesAre
  <2>2. used \cup {<<l, a>>} \in SUBSET (Lane(j) \X Places)
    BY <1>2, <1>5, <2>1
  <2>3. IsFiniteSet(used \cup {<<l, a>>})
        /\ Cardinality(used \cup {<<l, a>>}) = Cardinality(used) + 1
    BY <1>6, <2>1, FS_AddElement
  <2>4. runs'[j] \in {runs[j], runs[j] + 1}
    BY <1>2 DEF Dequeue, TypeOK
  <2>5. QED
    BY <2>1, <2>2, <2>3, <2>4
<1>10. /\ \A m : m # l => (\A b : UpTo(used, m, b) => UpTo(use, m, b))
       /\ UpTo(use, l, a)
  BY <1>2, <1>5, <1>9 DEF UpTo, Places
<1>11. \A i \in DOMAIN queue' :
           r[i] = q[i + 1] /\ (queue'[i].job = j => r[i] # l)
  BY <1>1, <1>2, <1>3 DEF LanesAre
<1>12. \A t \in Servers : t # s /\ Holds(t, j)' => Holds(t, j) /\ v[t] = w[t] /\ w[t] # l
  BY <1>1, <1>2, <1>8 DEF LanesAre, Holds, Busy
<1>13. v[s] = l /\ v \in [Servers -> Lane(j)]
  BY <1>1, <1>2 DEF LanesAre
<1>14. r \in [Nat -> Lane(j)]
  BY <1>1 DEF LanesAre
<1> HIDE DEF r, v, a, l, e
<1>15. \A i, k \in DOMAIN queue' :
           queue'[i].job = j /\ queue'[k].job = j /\ r[i] = r[k] => i = k
  BY <1>1, <1>3, <1>11 DEF LanesAre
<1>16. \A t, u \in Servers : Holds(t, j)' /\ Holds(u, j)' /\ v[t] = v[u] => t = u
  BY <1>1, <1>12, <1>13 DEF LanesAre
<1>17. \A t \in Servers, i \in DOMAIN queue' :
           Holds(t, j)' /\ queue'[i].job = j => r[i] # v[t]
  BY <1>1, <1>3, <1>11, <1>12, <1>13 DEF LanesAre
<1>18. \A i \in DOMAIN queue' : queue'[i].job = j =>
           queue'[i].attempts <= DefaultRetries /\ UpTo(use, r[i], queue'[i].attempts)
  BY <1>1, <1>3, <1>10, <1>11 DEF LanesAre
<1>19. \A t \in Servers : Holds(t, j)' =>
           /\ held'[t].attempts <= DefaultRetries + 1
           /\ wpc'[t] = "requeue" => held'[t].attempts <= DefaultRetries
           /\ UpTo(use, v[t], held'[t].attempts)
  <2>1. a <= DefaultRetries + 1
    BY <1>2, <1>5 DEF Places
  <2>2. ASSUME NEW t \in Servers, t # s, Holds(t, j)'
        PROVE  /\ held'[t].attempts <= DefaultRetries + 1
               /\ wpc'[t] = "requeue" => held'[t].attempts <= DefaultRetries
               /\ UpTo(use, v[t], held'[t].attempts)
    BY <1>1, <1>8, <1>10, <1>12, <2>2 DEF LanesAre
  <2>3. QED
    BY <1>7, <1>10, <1>13, <2>1, <2>2
<1>20. QED
  BY <1>4, <1>9, <1>13, <1>14, <1>15, <1>16, <1>17, <1>18, <1>19, LanesTogether

AllInLanes == \A j \in Jobs : InLanes(j)

LEMMA LanesStep ==
    ASSUME TypeOK, TypeOK', [Next]_vars, NEW j \in Jobs, Untouched(j), InLanes(j)
    PROVE  InLanes(j)'
<1>1. CASE NothingGained(j)
  BY <1>1, StayInLanes DEF NothingGained, CopiesStay
<1>2. ASSUME NEW s \in Servers, Dequeue(s), WorksOn(s, j) PROVE InLanes(j)'
  <2>1. Head(queue).job = j
    BY <1>2 DEF WorksOn, Dequeue, Requeue, SaveResult, PublishResult
  <2>2. QED
    BY <1>2, <2>1, TakeInLanes
<1>3. ASSUME NEW s \in Servers, WorksOn(s, j), Requeue(s) PROVE InLanes(j)'
  <2>1. held[s] \in Entry /\ held[s].job = j /\ wpc[s] = "requeue" /\ Holds(s, j)
    BY <1>3, WorksOnHolder DEF WorksOn, Requeue, Dequeue, SaveResult, PublishResult, TypeOK
  <2>2. PICK reported \in BOOLEAN : Push(held[s], reported)
    BY <1>3 DEF Requeue
  <2>3. PICK q, w, used : LanesAre(j, q, w, used)
    BY DEF InLanes
  <2>4. w[s] \in Lane(j)
    BY <2>3 DEF LanesAre
  <2>5. /\ held[s].attempts <= DefaultRetries /\ UpTo(used, w[s], held[s].attempts)
        /\ \A i \in DOMAIN queue : queue[i].job = j => q[i] # w[s]
    BY <2>1, <2>3 DEF LanesAre
  <2>6. \A t \in Servers : HolderStays(t, j)
    BY <1>3, LetGoGainsNone DEF Requeue
  <2>7. ~Holds(s, j)'
    BY <1>3 DEF Requeue, LetGo, Holds, Busy, TypeOK
  <2>8. \A t \in Servers : Holds(t, j)' => w[t] # w[s]
    BY <2>1, <2>3, <2>6, <2>7 DEF LanesAre, HolderStays
  <2>9. UNCHANGED runs[j]
    BY <1>3 DEF Requeue
  <2>10. QED
    BY <2>1, <2>2, <2>3, <2>4, <2>5, <2>6, <2>8, <2>9, PushInLanes
<1>4. ASSUME NEW s \in Servers, WorksOn(s, j), SaveResult(s) \/ PublishResult(s)
      PROVE  InLanes(j)'
  <2>1. QueueGainsNone(j)
    BY <1>4, SameQueue DEF SaveResult, PublishResult
  <2>2. \/ LetGo(s, "idle")
        \/ wpc' = [wpc EXCEPT ![s] = "publish"] /\ wpc[s] = "save" /\ UNCHANGED held
    BY <1>4 DEF SaveResult, PublishResult
  <2>3. \A t \in Servers : HolderStays(t, j)
    <3>1. CASE LetGo(s, "idle")
      BY <3>1, LetGoGainsNone
    <3>2. CASE wpc' = [wpc EXCEPT ![s] = "publish"] /\ wpc[s] = "save" /\ UNCHANGED held
      BY <3>2 DEF HolderStays, Holds, Busy, TypeOK
    <3>3. QED
      BY <2>2, <3>1, <3>2
  <2>4. UNCHANGED <<runs[j], doubled[j]>>
    BY <1>4 DEF SaveResult, PublishResult, history
  <2>5. QED
    BY <2>1, <2>3, <2>4, StayInLanes DEF CopiesStay
<1>5. CASE Enqueue(j)
  <2> DEFINE e == [job |-> j, attempts |-> 0]
  <2>1. PICK reported \in BOOLEAN : Push(e, reported)
    BY <1>5 DEF Enqueue
  <2>2. e \in Entry /\ e.job = j /\ e.attempts = 0
    BY DEF Entry
  <2>3. PICK q, w, used : LanesAre(j, q, w, used)
    BY DEF InLanes
  <2>4. /\ ~Queued(j) /\ (\A t \in Servers : ~Holds(t, j))
        /\ runs[j] = 0 /\ doubled[j] = 0
    BY <1>5 DEF Enqueue, Untouched
  <2>5. used = {}
    BY <2>3, <2>4, FS_EmptySet DEF LanesAre
  <2>6. UNCHANGED worker /\ UNCHANGED runs[j]
    BY <1>5 DEF Enqueue
  <2>7. \A t \in Servers : HolderStays(t, j) /\ ~Holds(t, j)'
    BY <2>4, <2>6, WorkersGainNone DEF HolderStays
  <2>8. 0 \in Lane(j) /\ 0 <= DefaultRetries /\ UpTo(used, 0, 0)
    BY <2>4, <2>5, JobAssumption DEF Lane, UpTo
  <2>9. \A i \in DOMAIN queue : queue[i].job # j
    BY <2>4 DEF Queued
  <2> HIDE DEF e
  <2>10. QED
    BY <2>1, <2>2, <2>3, <2>6, <2>7, <2>8, <2>9, PushInLanes
<1>6. QED
  BY <1>1, <1>2, <1>3, <1>4, <1>5, StepsOnJob DEF WorksOn

LEMMA LanesInit == Init => AllInLanes
<1> SUFFICES ASSUME Init, NEW j \in Jobs PROVE InLanes(j)
  BY DEF AllInLanes
<1> DEFINE q == [i \in Nat |-> 0]
           w == [s \in Servers |-> 0]
<1>1. doubled[j] = 0 /\ runs[j] = 0 /\ DOMAIN queue = {}
      /\ \A s \in Servers : ~Holds(s, j)
  BY DEF Init, Holds, Busy
<1>2. q \in [Nat -> Lane(j)] /\ w \in [Servers -> Lane(j)]
  BY <1>1 DEF Lane
<1>3. {} \in SUBSET (Lane(j) \X Places) /\ IsFiniteSet({}) /\ Cardinality({}) = runs[j]
  BY <1>1, FS_EmptySet
<1> HIDE DEF q, w
<1>4. LanesAre(j, q, w, {})
  BY <1>1, <1>2, <1>3 DEF LanesAre
<1>5. QED
  BY <1>4 DEF InLanes

\* There are as many places as the bound says.
LEMMA LanesBound ==
    ASSUME TypeOK, NEW j \in Jobs, InLanes(j)
    PROVE  runs[j] <= (doubled[j] + 1) * (DefaultRetries + 1)
<1>1. PICK used : /\ used \in SUBSET (Lane(j) \X Places)
                  /\ Cardinality(used) = runs[j]
  BY DEF InLanes, LanesAre
<1>2. doubled[j] \in Nat /\ DefaultRetries \in Nat
  BY JobAssumption DEF TypeOK
<1>3. IsFiniteSet(Lane(j)) /\ Cardinality(Lane(j)) = doubled[j] + 1
  BY <1>2, FS_Interval DEF Lane
<1>4. IsFiniteSet(Places) /\ Cardinality(Places) = DefaultRetries + 1
  BY <1>2, FS_Interval DEF Places
<1>5. /\ IsFiniteSet(Lane(j) \X Places)
      /\ Cardinality(Lane(j) \X Places) = (doubled[j] + 1) * (DefaultRetries + 1)
  BY <1>3, <1>4, FS_Product
<1>6. Cardinality(used) <= Cardinality(Lane(j) \X Places)
  BY <1>1, <1>5, FS_Subset
<1>7. QED
  BY <1>1, <1>5, <1>6

\* As many different lanes as there are members, if they share none.
LEMMA LanesTaken ==
    ASSUME NEW S, NEW T, IsFiniteSet(T), NEW f, \A x \in S : f[x] \in T,
           \A x, y \in S : f[x] = f[y] => x = y
    PROVE  IsFiniteSet(S) /\ Cardinality(S) = Cardinality({f[x] : x \in S})
<1> DEFINE taken == {f[x] : x \in S}
           g == [x \in S |-> f[x]]
<1>1. IsFiniteSet(taken)
  BY FS_Subset
<1>2. g \in [S -> taken] /\ \A x, y \in S : g[x] = g[y] => x = y
  OBVIOUS
<1>3. \A l \in taken : \E x \in S : g[x] = l
  OBVIOUS
<1> HIDE DEF g, taken
<1>4. g \in Injection(S, taken) /\ g \in Surjection(S, taken)
  BY <1>2, <1>3 DEF Injection, IsInjective, Surjection
<1>5. QED
  BY <1>1, <1>4, FS_Injection DEF taken

LEMMA CopiesBound ==
    ASSUME TypeOK, NEW j \in Jobs, InLanes(j)
    PROVE  Copies(j) <= doubled[j] + 1
<1> DEFINE listed == {i \in DOMAIN queue : queue[i].job = j}
           holding == {s \in Busy : held[s].job = j}
<1>1. PICK q, w, used : LanesAre(j, q, w, used)
  BY DEF InLanes
<1>2. IsFiniteSet(Lane(j)) /\ Cardinality(Lane(j)) = doubled[j] + 1
  <2>1. doubled[j] \in Nat
    BY DEF TypeOK
  <2>2. QED
    BY <2>1, FS_Interval DEF Lane
<1> DEFINE ofList == {q[i] : i \in listed}
           ofHands == {w[s] : s \in holding}
<1>3. listed \subseteq DOMAIN queue /\ \A i \in listed : queue[i].job = j /\ i \in Nat
  BY DEF TypeOK
<1>4. \A s \in holding : s \in Servers /\ Holds(s, j)
  BY DEF Busy, Holds
<1> HIDE DEF listed, holding
<1>5. Cardinality(listed) = Cardinality(ofList) /\ ofList \subseteq Lane(j)
  <2>1. (\A i \in listed : q[i] \in Lane(j)) /\ \A i, k \in listed : q[i] = q[k] => i = k
    BY <1>1, <1>3 DEF LanesAre
  <2>2. QED
    BY <1>2, <2>1, LanesTaken
<1>6. Cardinality(holding) = Cardinality(ofHands) /\ ofHands \subseteq Lane(j)
  <2>1. (\A s \in holding : w[s] \in Lane(j)) /\ \A s, t \in holding : w[s] = w[t] => s = t
    BY <1>1, <1>4 DEF LanesAre
  <2>2. QED
    BY <1>2, <2>1, LanesTaken
<1>7. ofList \cap ofHands = {}
  BY <1>1, <1>3, <1>4 DEF LanesAre
<1> HIDE DEF ofList, ofHands
<1>8. /\ IsFiniteSet(ofList) /\ IsFiniteSet(ofHands)
      /\ Cardinality(ofList) \in Nat /\ Cardinality(ofHands) \in Nat
  BY <1>2, <1>5, <1>6, FS_Subset, FS_CardinalityType
<1>9. Cardinality(ofList \cup ofHands) = Cardinality(ofList) + Cardinality(ofHands)
  <2>1. Cardinality(ofList \cap ofHands) = 0
    BY <1>7, FS_EmptySet
  <2>2. Cardinality(ofList \cup ofHands)
            = Cardinality(ofList) + Cardinality(ofHands) - Cardinality(ofList \cap ofHands)
    BY <1>8, FS_Union
  <2>3. QED
    BY <1>8, <2>1, <2>2
<1>10. Cardinality(ofList \cup ofHands) <= Cardinality(Lane(j))
  BY <1>2, <1>5, <1>6, FS_Subset
<1>11. Copies(j) = Cardinality(listed) + Cardinality(holding)
  BY DEF Copies, listed, holding
<1>12. QED
  BY <1>2, <1>5, <1>6, <1>9, <1>10, <1>11

LEMMA AlwaysInLanes == Spec => [](TypeOK /\ PublishInv /\ AllAlone /\ AllInLanes)
<1>1. Init => AllInLanes
  BY LanesInit
<1>2. /\ TypeOK /\ PublishInv /\ AllAlone /\ AllInLanes
      /\ (TypeOK /\ PublishInv /\ AllAlone)' /\ [Next]_vars
      => AllInLanes'
  BY LanesStep DEF AllInLanes, AllAlone
<1>3. QED
  BY <1>1, <1>2, AlwaysAlone, PTL DEF Spec

\* Through every retry, lost reply and crash a job has no more copies than Redis was
\* sent; and once the caller of a job sent once has an answer no run of the tool is
\* to come.
THEOREM OneCopyAlways == Spec => []OneCopy
<1>1. TypeOK /\ PublishInv /\ AllAlone /\ AllInLanes => OneCopy
  <2> SUFFICES ASSUME TypeOK, PublishInv, AllAlone, AllInLanes, NEW j \in Jobs
               PROVE  /\ Copies(j) <= doubled[j] + 1
                      /\ doubled[j] = 0 /\ told[j] \in {"ok", "failed"} =>
                             /\ ~Queued(j)
                             /\ \A s \in Busy : held[s].job = j => wpc[s] = "publish"
    BY DEF OneCopy
  <2>1. Copies(j) <= doubled[j] + 1
    BY CopiesBound DEF AllInLanes
  <2>2. ASSUME doubled[j] = 0, told[j] \in {"ok", "failed"}
        PROVE  ~Queued(j) /\ \A s \in Busy : held[s].job = j => wpc[s] = "publish"
    BY <2>2 DEF AllAlone, Alone, Answered, Holds, Busy
  <2>3. QED
    BY <2>1, <2>2
<1>2. QED
  BY <1>1, AlwaysInLanes, PTL

\* However often it is retried, lost or sent twice, a tool is started at most once
\* more than there are retries, for each time Redis was sent its job.
THEOREM RunsAlwaysBounded == Spec => []RunsBounded
<1>1. TypeOK /\ AllInLanes => RunsBounded
  BY LanesBound DEF AllInLanes, RunsBounded
<1>2. QED
  BY <1>1, AlwaysInLanes, PTL

-----------------------------------------------------------------------------
(* The program of a start.  A block of it begins with a look, a want, a    *)
(* need or an exec, and creates only what it has looked for in vain.       *)

Items == {Row(name) : name \in Rows} \cup {Member} \cup {Grant(t) : t \in ToSet(Types)}
         \cup {VersionOf(f, v) : f \in ToSet(FileTools), v \in {"1.0.0", "1.0.1"}}

Steps == {Look(item, n) : item \in Items, n \in {1, 2}} \cup {Create(item) : item \in Items}
         \cup {Want(Row(f), 2) : f \in ToSet(FileTools)} \cup {Need(Row(name)) : name \in Rows}
         \cup {Exec(gap) : gap \in Backfills}

LooksFor(S, p, before) ==
    LET item == S[p].of
    IN  /\ p + S[p].skip <= Len(S) /\ S[p + 1] = Create(item)
        /\ \/ S[p].skip = 1
           \/ S[p].skip = 2 /\ \E f \in ToSet(FileTools) :
                  item = Row(f) /\ S[p + 2] = Create(VersionOf(f, "1.0.0"))
        /\ item[1] = "version" => p > 1 /\ S[p - 1] = Want(Row(item[2]), 2) /\ item[3] = "1.0.1"
        /\ item[1] \in {"member", "grant"} => Need(Row(AdminRole)) \in before

Creates(S, p) ==
    /\ p > 1
    /\ \/ S[p - 1].do = "look" /\ S[p - 1].of = S[p].of
       \/ \E f \in ToSet(FileTools) :
              /\ S[p] = Create(VersionOf(f, "1.0.0")) /\ S[p - 1] = Create(Row(f))
              /\ p > 2 /\ S[p - 2] = Look(Row(f), 2)

Wants(S, p, before) ==
    /\ p + 2 <= Len(S)
    /\ \E f \in ToSet(FileTools) :
           /\ S[p] = Want(Row(f), 2) /\ Create(Row(f)) \in before
           /\ S[p + 1] = Look(VersionOf(f, "1.0.1"), 1) /\ S[p + 2] = Create(VersionOf(f, "1.0.1"))

(* The pth step of S is where it may be, behind the steps of before. *)
Fits(S, p, before) ==
    /\ S[p].do = "look"   => LooksFor(S, p, before)
    /\ S[p].do = "create" => Creates(S, p)
    /\ S[p].do = "want"   => Wants(S, p, before)
    /\ S[p].do = "need"   => Create(S[p].of) \in before

Earlier(S, p) == {S[q] : q \in 1 .. p - 1}

Sound(S, before) ==
    S \in Seq(Steps) /\ \A p \in 1 .. Len(S) : Fits(S, p, before \cup Earlier(S, p))

(* What a start has seen to when it is through. *)
Everything == {Create(Row(name)) : name \in Rows} \cup {Create(Member)}
              \cup {Create(Grant(t)) : t \in ToSet(Types)}
              \cup {Create(VersionOf(f, "1.0.1")) : f \in ToSet(FileTools)}
              \cup {Exec(gap) : gap \in Backfills}

Orders == {tools \in Seq(ToSet(FileTools)) : ToSet(tools) = ToSet(FileTools)}

(* What is looked for is of one kind. *)
LEMMA ItemKinds ==
    /\ \A name : Row(name)[1] = "row" /\ Row(name)[2] = name
    /\ Member[1] = "member"
    /\ \A t : Grant(t)[1] = "grant" /\ Grant(t)[2] = t
    /\ \A f, v : VersionOf(f, v)[1] = "version" /\ VersionOf(f, v)[2] = f /\ VersionOf(f, v)[3] = v
  BY DEF Row, Member, Grant, VersionOf

(* What a step does, and what it is about. *)
LEMMA StepKinds ==
    /\ \A item, n : Look(item, n).do = "look" /\ Look(item, n).of = item /\ Look(item, n).skip = n
    /\ \A item, n : Want(item, n).do = "want" /\ Want(item, n).of = item /\ Want(item, n).skip = n
    /\ \A item : Need(item).do = "need" /\ Need(item).of = item
    /\ \A item : Create(item).do = "create" /\ Create(item).of = item
    /\ \A gap : Exec(gap).do = "exec" /\ Exec(gap).of[1] = gap
  BY DEF Look, Want, Need, Create, Exec

(* Two creates that are the same create the same. *)
LEMMA CreateSame == \A a, b : Create(a) = Create(b) => a = b
<1> SUFFICES ASSUME NEW a, NEW b, Create(a) = Create(b) PROVE a = b
  OBVIOUS
<1>1. Create(a).of = a /\ Create(b).of = b
  BY StepKinds
<1>2. QED
  BY <1>1

(* Every step is of one kind, and a step of a kind is as its operator makes it. *)
LEMMA StepForms ==
    ASSUME NEW step \in Steps
    PROVE  /\ step.do \in {"look", "create", "want", "need", "exec"}
           /\ step.do = "look" => step.of \in Items /\ step = Look(step.of, step.skip) /\ step.skip \in {1, 2}
           /\ step.do = "create" => step.of \in Items /\ step = Create(step.of)
           /\ step.do = "want" => \E f \in ToSet(FileTools) : step = Want(Row(f), 2)
           /\ step.do = "need" => \E name \in Rows : step = Need(Row(name))
           /\ step.do = "exec" => \E gap \in Backfills : step = Exec(gap)
<1>1. CASE \E item \in Items, n \in {1, 2} : step = Look(item, n)
  BY <1>1, StepKinds
<1>2. CASE \E item \in Items : step = Create(item)
  BY <1>2, StepKinds
<1>3. CASE \E f \in ToSet(FileTools) : step = Want(Row(f), 2)
  BY <1>3, StepKinds
<1>4. CASE \E name \in Rows : step = Need(Row(name))
  BY <1>4, StepKinds
<1>5. CASE \E gap \in Backfills : step = Exec(gap)
  BY <1>5, StepKinds
<1>6. QED
  BY <1>1, <1>2, <1>3, <1>4, <1>5 DEF Steps

(* A step that fits keeps to its place in a longer program. *)
LEMMA FitsElsewhere ==
    ASSUME NEW S \in Seq(Steps), NEW U \in Seq(Steps), NEW k \in Nat, Len(S) + k <= Len(U),
           \A i \in 1 .. Len(S) : U[k + i] = S[i],
           NEW p \in 1 .. Len(S), NEW before, NEW after, before \subseteq after, Fits(S, p, before)
    PROVE  Fits(U, k + p, after)
<1>0. PICK N : N = Len(S)
  OBVIOUS
<1>1. N \in Nat /\ Len(U) \in Nat /\ k \in Nat /\ N + k <= Len(U) /\ p \in 1 .. N
      /\ \A i \in 1 .. N : U[k + i] = S[i]
  BY <1>0
<1>2. U[k + p] = S[p]
  BY <1>1
<1>3. ASSUME NEW j \in 1 .. 2, p + j <= N PROVE U[(k + p) + j] = S[p + j] /\ (k + p) + j <= Len(U)
  <2>1. p + j \in 1 .. N /\ (k + p) + j = k + (p + j)
    BY <1>1, <1>3
  <2>2. QED
    BY <1>1, <2>1
<1>4. ASSUME NEW j \in 1 .. 2, p - j >= 1 PROVE U[(k + p) - j] = S[p - j] /\ (k + p) - j >= 1
  <2>1. p - j \in 1 .. N /\ (k + p) - j = k + (p - j)
    BY <1>1, <1>4
  <2>2. QED
    BY <1>1, <2>1
<1>5. ASSUME S[p].do = "look" PROVE LooksFor(U, k + p, after)
  <2>1. LooksFor(S, p, before)
    BY <1>5 DEF Fits
  <2>2. S[p].skip \in {1, 2} /\ p + S[p].skip <= N /\ p + 1 <= N
    BY <1>0, <1>1, <2>1 DEF LooksFor
  <2>3. (k + p) + S[p].skip <= Len(U) /\ U[(k + p) + 1] = S[p + 1]
    BY <1>1, <1>3, <2>2
  <2>4. S[p].skip = 2 => U[(k + p) + 2] = S[p + 2]
    BY <1>3, <2>2
  <2>5. p > 1 => k + p > 1 /\ U[(k + p) - 1] = S[p - 1]
    BY <1>1, <1>4
  <2>6. QED
    BY <1>2, <2>1, <2>3, <2>4, <2>5 DEF LooksFor
<1>6. ASSUME S[p].do = "create" PROVE Creates(U, k + p)
  <2>1. Creates(S, p)
    BY <1>6 DEF Fits
  <2>2. k + p > 1 /\ U[(k + p) - 1] = S[p - 1]
    BY <1>1, <1>4, <2>1 DEF Creates
  <2>3. p > 2 => k + p > 2 /\ U[(k + p) - 2] = S[p - 2]
    BY <1>1, <1>4
  <2>4. QED
    BY <1>2, <2>1, <2>2, <2>3 DEF Creates
<1>7. ASSUME S[p].do = "want" PROVE Wants(U, k + p, after)
  <2>1. Wants(S, p, before)
    BY <1>7 DEF Fits
  <2>2. p + 2 <= N /\ p + 1 <= N
    BY <1>0, <1>1, <2>1 DEF Wants
  <2>3. (k + p) + 2 <= Len(U) /\ U[(k + p) + 1] = S[p + 1] /\ U[(k + p) + 2] = S[p + 2]
    BY <1>1, <1>3, <2>2
  <2>4. QED
    BY <1>2, <2>1, <2>3 DEF Wants
<1>8. S[p].do = "need" => Create(S[p].of) \in after
  BY DEF Fits
<1>9. QED
  BY <1>2, <1>5, <1>6, <1>7, <1>8 DEF Fits

(* Two sound programs make one, if the second relies on no more than the first has done. *)
LEMMA SoundTogether ==
    ASSUME NEW S, NEW T, NEW before, NEW after,
           Sound(S, before), Sound(T, after), after \subseteq before \cup ToSet(S)
    PROVE  Sound(S \o T, before) /\ ToSet(S) \cup ToSet(T) \subseteq ToSet(S \o T)
<1> DEFINE U == S \o T
           N == Len(S)
           M == Len(T)
<1>1. S \in Seq(Steps) /\ T \in Seq(Steps)
  BY DEF Sound
<1>2. /\ N \in Nat /\ M \in Nat /\ U \in Seq(Steps) /\ Len(U) = N + M
      /\ \A i \in 1 .. N : U[i] = S[i]
      /\ \A i \in 1 .. M : U[N + i] = T[i]
      /\ DOMAIN S = 1 .. N /\ DOMAIN T = 1 .. M /\ DOMAIN U = 1 .. N + M
  BY <1>1
<1> HIDE DEF U
<1>3. ASSUME NEW p \in 1 .. N PROVE Fits(U, p, before \cup Earlier(U, p))
  <2>1. Fits(S, p, before \cup Earlier(S, p))
    BY <1>3 DEF Sound
  <2>2. Earlier(S, p) \subseteq Earlier(U, p)
    BY <1>2 DEF Earlier
  <2>3. N + 0 <= Len(U) /\ \A i \in 1 .. N : U[0 + i] = S[i]
    BY <1>2
  <2>4. Fits(U, 0 + p, before \cup Earlier(U, p))
    BY <1>1, <1>2, <2>1, <2>2, <2>3, FitsElsewhere
  <2>5. 0 + p = p
    BY <1>2
  <2>6. QED
    BY <2>4, <2>5
<1>4. ASSUME NEW r \in 1 .. M PROVE Fits(U, N + r, before \cup Earlier(U, N + r))
  <2>1. Fits(T, r, after \cup Earlier(T, r))
    BY <1>4 DEF Sound
  <2>2. ToSet(S) \subseteq Earlier(U, N + r)
    <3>1. \A i \in 1 .. N : i \in 1 .. (N + r) - 1 /\ U[i] = S[i]
      BY <1>2
    <3>2. QED
      BY <1>2, <3>1 DEF Earlier, ToSet
  <2>3. Earlier(T, r) \subseteq Earlier(U, N + r)
    <3>1. \A i \in 1 .. r - 1 : N + i \in 1 .. (N + r) - 1 /\ U[N + i] = T[i]
      BY <1>2
    <3>2. QED
      BY <3>1 DEF Earlier
  <2>4. M + N <= Len(U)
    BY <1>2
  <2>5. QED
    BY <1>1, <1>2, <2>1, <2>2, <2>3, <2>4, FitsElsewhere
<1>5. Sound(U, before)
  <2>1. ASSUME NEW p \in 1 .. N + M PROVE Fits(U, p, before \cup Earlier(U, p))
    <3>1. CASE p <= N
      BY <1>2, <1>3, <3>1
    <3>2. CASE p > N
      <4>1. p - N \in 1 .. M /\ N + (p - N) = p
        BY <1>2, <3>2
      <4>2. QED
        BY <1>4, <4>1
    <3>3. QED
      BY <1>2, <3>1, <3>2
  <2>2. QED
    BY <1>2, <2>1 DEF Sound
<1>6. ToSet(S) \cup ToSet(T) \subseteq ToSet(U)
  <2>1. \A i \in 1 .. N : i \in 1 .. N + M /\ U[i] = S[i]
    BY <1>2
  <2>2. \A i \in 1 .. M : N + i \in 1 .. N + M /\ U[N + i] = T[i]
    BY <1>2
  <2>3. ToSet(S) \subseteq ToSet(U)
    BY <1>2, <2>1 DEF ToSet
  <2>4. ToSet(T) \subseteq ToSet(U)
    BY <1>2, <2>2 DEF ToSet
  <2>5. QED
    BY <2>3, <2>4
<1>7. QED
  BY <1>5, <1>6 DEF U

(* A fact that holds at 0, and at each number up to n if at the one before. *)
LEMMA Onward ==
    ASSUME NEW n \in Nat, NEW G, 0 \in G, \A i \in 1 .. n : i - 1 \in G => i \in G
    PROVE  0 .. n \subseteq G
<1> SUFFICES ASSUME NEW m \in 0 .. n, m \notin G PROVE FALSE
  OBVIOUS
<1> DEFINE bad == (0 .. n) \ G
<1>1. bad \subseteq Nat /\ bad # {}
  OBVIOUS
<1>2. PICK i \in bad : \A j \in bad : ~(j < i)
  <2> HIDE DEF bad
  <2>1. PICK i \in bad : \A j \in bad : <<j, i>> \notin OpToRel(<, Nat)
    BY <1>1, NatLessThanWellFounded, WFMin
  <2>2. \A j \in bad : ~(j < i)
    BY <1>1, <2>1 DEF OpToRel
  <2>3. QED
    BY <2>2
<1>3. i \in 1 .. n /\ i - 1 \in 0 .. n /\ i - 1 \notin bad
  BY <1>2
<1>4. QED
  BY <1>2, <1>3

(* FlattenSeq joins one sequence after the other. *)
LEMMA Flattens ==
    ASSUME NEW seqs, NEW n \in Nat \ {0}, n = Len(seqs)
    PROVE  \E flat : /\ FlattenSeq(seqs) = flat[n] /\ flat[1] = seqs[1]
                     /\ \A i \in 2 .. n : flat[i] = flat[i - 1] \o seqs[i]
<1> DEFINE Is(f, m) == f = [i \in 1 .. m |-> IF i = 1 THEN seqs[i] ELSE f[i - 1] \o seqs[i]]
           G == {m \in 0 .. n : \E f : Is(f, m)}
<1>1. 0 \in G
  <2> DEFINE f == [i \in 1 .. 0 |-> <<>>]
  <2>1. Is(f, 0)
    OBVIOUS
  <2> HIDE DEF Is, f
  <2>2. \E h : Is(h, 0)
    BY <2>1
  <2>3. QED
    BY <2>2
<1>2. ASSUME NEW m \in 1 .. n, m - 1 \in G PROVE m \in G
  <2>1. PICK f : Is(f, m - 1)
    BY <1>2
  <2> DEFINE next == IF m = 1 THEN seqs[m] ELSE f[m - 1] \o seqs[m]
             g == [i \in 1 .. m |-> IF i < m THEN f[i] ELSE next]
  <2> HIDE DEF next
  <2>2. \A i \in 1 .. m - 1 : i \in 1 .. m /\ i < m /\ g[i] = f[i]
    OBVIOUS
  <2>3. g[m] = next
    OBVIOUS
  <2>4. \A i \in 1 .. m - 1 : f[i] = IF i = 1 THEN seqs[i] ELSE f[i - 1] \o seqs[i]
    BY <2>1
  <2>5. g = [i \in 1 .. m |-> g[i]]
    OBVIOUS
  <2> HIDE DEF g
  <2>6. \A i \in 1 .. m : g[i] = IF i = 1 THEN seqs[i] ELSE g[i - 1] \o seqs[i]
    <3> SUFFICES ASSUME NEW i \in 1 .. m PROVE g[i] = IF i = 1 THEN seqs[i] ELSE g[i - 1] \o seqs[i]
      OBVIOUS
    <3>1. i # 1 => i - 1 \in 1 .. m - 1
      OBVIOUS
    <3>2. CASE i = m
      BY <2>2, <2>3, <3>1, <3>2 DEF next
    <3>3. CASE i # m
      <4>1. i \in 1 .. m - 1
        BY <3>3
      <4>2. QED
        BY <2>2, <2>4, <3>1, <4>1
    <3>4. QED
      BY <3>2, <3>3
  <2>7. Is(g, m)
    BY <2>5, <2>6
  <2> HIDE DEF Is
  <2>8. \E h : Is(h, m)
    BY <2>7
  <2>9. QED
    BY <2>8
<1> HIDE DEF G
<1>3. n \in G
  <2>1. 0 .. n \subseteq G
    BY <1>1, <1>2, Onward
  <2>2. QED
    BY <2>1
<1> DEFINE flat == CHOOSE f : f = [i \in 1 .. Len(seqs) |-> IF i = 1 THEN seqs[i] ELSE f[i - 1] \o seqs[i]]
<1>4. flat = [i \in 1 .. n |-> IF i = 1 THEN seqs[i] ELSE flat[i - 1] \o seqs[i]]
  BY <1>3 DEF G
<1>5. FlattenSeq(seqs) = flat[n]
  BY DEF FlattenSeq
<1> HIDE DEF flat
<1>6. \A i \in 1 .. n : flat[i] = IF i = 1 THEN seqs[i] ELSE flat[i - 1] \o seqs[i]
  BY <1>4
<1>7. QED
  <2>1. 1 \in 1 .. n /\ \A i \in 2 .. n : i \in 1 .. n /\ i # 1
    OBVIOUS
  <2>2. QED
    BY <1>5, <1>6, <2>1

(* Blocks that rely on nothing of one another make a sound part of a program. *)
LEMMA EachSound ==
    ASSUME NEW seqs \in Seq(Seq(Steps)), NEW before,
           \A i \in 1 .. Len(seqs) : Sound(seqs[i], before)
    PROVE  /\ Sound(FlattenSeq(seqs), before)
           /\ \A i \in 1 .. Len(seqs) : ToSet(seqs[i]) \subseteq ToSet(FlattenSeq(seqs))
<1>1. CASE seqs = <<>>
  <2>1. FlattenSeq(seqs) = <<>> /\ Len(seqs) = 0
    BY <1>1 DEF FlattenSeq
  <2>2. Sound(<<>>, before)
    BY DEF Sound
  <2>3. QED
    BY <2>1, <2>2
<1>2. CASE seqs # <<>>
  <2> DEFINE n == Len(seqs)
  <2>1. n \in Nat \ {0}
    BY <1>2
  <2>2. PICK flat : /\ FlattenSeq(seqs) = flat[n] /\ flat[1] = seqs[1]
                    /\ \A i \in 2 .. n : flat[i] = flat[i - 1] \o seqs[i]
    BY <2>1, Flattens
  <2> DEFINE Upto(m) == /\ Sound(flat[m], before)
                        /\ \A i \in 1 .. m : ToSet(seqs[i]) \subseteq ToSet(flat[m])
             G == {m \in 0 .. n : m > 0 => Upto(m)}
  <2>3. 0 \in G
    OBVIOUS
  <2>4. ASSUME NEW m \in 1 .. n, m - 1 \in G PROVE m \in G
    <3>1. CASE m = 1
      <4>1. Upto(1)
        BY <2>1, <2>2
      <4>2. QED
        BY <3>1, <4>1
    <3>2. CASE m # 1
      <4>1. m \in 2 .. n /\ m - 1 \in 1 .. n /\ m - 1 > 0 /\ m > 0
        BY <3>2
      <4>2. Upto(m - 1) /\ flat[m] = flat[m - 1] \o seqs[m] /\ Sound(seqs[m], before)
        BY <2>2, <2>4, <4>1
      <4>3. Sound(flat[m], before) /\ ToSet(flat[m - 1]) \cup ToSet(seqs[m]) \subseteq ToSet(flat[m])
        BY <4>2, SoundTogether
      <4>4. \A i \in 1 .. m : i = m \/ i \in 1 .. m - 1
        OBVIOUS
      <4>5. Upto(m)
        BY <4>2, <4>3, <4>4
      <4>6. QED
        BY <4>5
    <3>3. QED
      BY <3>1, <3>2
  <2>5. n \in G /\ n > 0
    <3> HIDE DEF G
    <3>1. 0 .. n \subseteq G
      BY <2>1, <2>3, <2>4, Onward
    <3>2. QED
      BY <2>1, <3>1
  <2>6. QED
    BY <2>2, <2>5
<1>3. QED
  BY <1>1, <1>2

(* Needs and execs may stand anywhere, once what is needed has been created. *)
LEMMA PlainSound ==
    ASSUME NEW S \in Seq(Steps), NEW before,
           \A p \in 1 .. Len(S) : \/ S[p].do = "exec"
                                  \/ S[p].do = "need" /\ Create(S[p].of) \in before
    PROVE  Sound(S, before)
  BY DEF Sound, Fits

(* A look and the create it may skip. *)
LEMMA RowSound ==
    ASSUME NEW item \in Items, item[1] # "version", NEW before,
           item[1] \in {"member", "grant"} => Need(Row(AdminRole)) \in before
    PROVE  /\ <<Look(item, 1), Create(item)>> \in Seq(Steps)
           /\ Sound(<<Look(item, 1), Create(item)>>, before)
           /\ Create(item) \in ToSet(<<Look(item, 1), Create(item)>>)
<1> DEFINE S == <<Look(item, 1), Create(item)>>
<1>1. Look(item, 1) \in Steps /\ Create(item) \in Steps
  BY DEF Steps
<1>2. S \in Seq(Steps) /\ Len(S) = 2 /\ S[1] = Look(item, 1) /\ S[2] = Create(item)
  BY <1>1
<1> HIDE DEF S
<1>3. ASSUME NEW p \in 1 .. 2 PROVE Fits(S, p, before \cup Earlier(S, p))
  <2>1. CASE p = 1
    <3>1. LooksFor(S, 1, before \cup Earlier(S, 1))
      BY <1>2, StepKinds DEF LooksFor
    <3>2. QED
      BY <1>2, <2>1, <3>1, StepKinds DEF Fits
  <2>2. CASE p = 2
    <3>1. Creates(S, 2)
      BY <1>2, StepKinds DEF Creates
    <3>2. QED
      BY <1>2, <2>2, <3>1, StepKinds DEF Fits
  <2>3. QED
    BY <2>1, <2>2
<1>4. Sound(S, before)
  BY <1>2, <1>3 DEF Sound
<1>5. Create(item) \in ToSet(S)
  BY <1>2 DEF ToSet
<1>6. QED
  BY <1>2, <1>4, <1>5 DEF S

(* The block that seeds a file tool. *)
LEMMA ToolSound ==
    ASSUME NEW f \in ToSet(FileTools), NEW before
    PROVE  /\ seedTool(f) \in Seq(Steps) /\ Sound(seedTool(f), before)
           /\ Create(Row(f)) \in ToSet(seedTool(f))
<1> DEFINE S == seedTool(f)
           old == VersionOf(f, "1.0.0")
<1>1. Row(f) \in Items /\ old \in Items
  BY DEF Items, Rows
<1> HIDE DEF old
<1>2. Look(Row(f), 2) \in Steps /\ Create(Row(f)) \in Steps /\ Create(old) \in Steps
  BY <1>1 DEF Steps
<1>3. /\ S \in Seq(Steps) /\ Len(S) = 3
      /\ S[1] = Look(Row(f), 2) /\ S[2] = Create(Row(f)) /\ S[3] = Create(old)
  BY <1>2 DEF seedTool, old
<1> HIDE DEF S
<1>4. ASSUME NEW p \in 1 .. 3 PROVE Fits(S, p, before \cup Earlier(S, p))
  <2>1. CASE p = 1
    <3>1. LooksFor(S, 1, before \cup Earlier(S, 1))
      BY <1>3, StepKinds, ItemKinds DEF LooksFor, old
    <3>2. QED
      BY <1>3, <2>1, <3>1, StepKinds DEF Fits
  <2>2. CASE p = 2
    <3>1. Creates(S, 2)
      BY <1>3, StepKinds DEF Creates
    <3>2. QED
      BY <1>3, <2>2, <3>1, StepKinds DEF Fits
  <2>3. CASE p = 3
    <3>1. Creates(S, 3)
      BY <1>3 DEF Creates, old
    <3>2. QED
      BY <1>3, <2>3, <3>1, StepKinds DEF Fits
  <2>4. QED
    BY <2>1, <2>2, <2>3
<1>5. Sound(S, before)
  BY <1>3, <1>4 DEF Sound
<1>6. Create(Row(f)) \in ToSet(S)
  BY <1>3 DEF ToSet
<1>7. QED
  BY <1>3, <1>5, <1>6 DEF S

(* The block that corrects a file tool. *)
LEMMA CorrectionSound ==
    ASSUME NEW f \in ToSet(FileTools), NEW before, Create(Row(f)) \in before
    PROVE  /\ correctTool(f) \in Seq(Steps) /\ Sound(correctTool(f), before)
           /\ Create(VersionOf(f, "1.0.1")) \in ToSet(correctTool(f))
<1> DEFINE S == correctTool(f)
           new == VersionOf(f, "1.0.1")
<1>1. new \in Items
  BY DEF Items
<1> HIDE DEF new
<1>2. Want(Row(f), 2) \in Steps /\ Look(new, 1) \in Steps /\ Create(new) \in Steps
  BY <1>1 DEF Steps
<1>3. /\ S \in Seq(Steps) /\ Len(S) = 3
      /\ S[1] = Want(Row(f), 2) /\ S[2] = Look(new, 1) /\ S[3] = Create(new)
  BY <1>2 DEF correctTool, new
<1> HIDE DEF S
<1>4. ASSUME NEW p \in 1 .. 3 PROVE Fits(S, p, before \cup Earlier(S, p))
  <2>1. CASE p = 1
    <3>1. Wants(S, 1, before \cup Earlier(S, 1))
      BY <1>3 DEF Wants, new
    <3>2. QED
      BY <1>3, <2>1, <3>1, StepKinds DEF Fits
  <2>2. CASE p = 2
    <3>1. new[1] = "version" /\ new[2] = f /\ new[3] = "1.0.1"
      BY ItemKinds DEF new
    <3>2. LooksFor(S, 2, before \cup Earlier(S, 2))
      BY <1>3, <3>1, StepKinds DEF LooksFor
    <3>3. QED
      BY <1>3, <2>2, <3>2, StepKinds DEF Fits
  <2>3. CASE p = 3
    <3>1. Creates(S, 3)
      BY <1>3, StepKinds DEF Creates
    <3>2. QED
      BY <1>3, <2>3, <3>1, StepKinds DEF Fits
  <2>4. QED
    BY <2>1, <2>2, <2>3
<1>5. Sound(S, before)
  BY <1>3, <1>4 DEF Sound
<1>6. Create(new) \in ToSet(S)
  BY <1>3 DEF ToSet
<1>7. QED
  BY <1>3, <1>5, <1>6 DEF S, new

(* The grants of the admin role. *)
LEMMA GrantsSound ==
    /\ Sound(seedAdminAccess, {Create(Row(AdminRole))})
    /\ {Create(Grant(t)) : t \in ToSet(Types)} \subseteq ToSet(seedAdminAccess)
<1> DEFINE seqs == [i \in DOMAIN Types |-> seedGrant(Types[i])]
           need == <<Need(Row(AdminRole))>>
           before == {Need(Row(AdminRole))}
<1>1. Types \in Seq(ToSet(Types)) /\ DOMAIN Types = 1 .. Len(Types) /\ Len(Types) \in Nat
  BY StartupAssumption
<1>2. ASSUME NEW t \in ToSet(Types)
      PROVE  /\ seedGrant(t) \in Seq(Steps) /\ Sound(seedGrant(t), before)
             /\ Create(Grant(t)) \in ToSet(seedGrant(t))
  <2>1. Grant(t) \in Items /\ Grant(t)[1] # "version" /\ Need(Row(AdminRole)) \in before
    BY ItemKinds DEF Items
  <2>2. QED
    BY <2>1, RowSound DEF seedGrant
<1>3. \A i \in 1 .. Len(Types) : Types[i] \in ToSet(Types)
  BY <1>1 DEF ToSet
<1>4. seqs \in Seq(Seq(Steps)) /\ Len(seqs) = Len(Types)
      /\ \A i \in 1 .. Len(Types) : seqs[i] = seedGrant(Types[i])
  BY <1>1, <1>2, <1>3
<1>5. Each(seedGrant, Types) = FlattenSeq(seqs)
  BY DEF Each
<1> HIDE DEF seqs, before
<1>6. /\ Sound(FlattenSeq(seqs), before)
      /\ \A i \in 1 .. Len(seqs) : ToSet(seqs[i]) \subseteq ToSet(FlattenSeq(seqs))
  BY <1>2, <1>3, <1>4, EachSound
<1>7. need \in Seq(Steps) /\ Len(need) = 1 /\ need[1] = Need(Row(AdminRole))
  BY DEF Steps, Rows
<1> HIDE DEF need
<1>8. Sound(need, {Create(Row(AdminRole))})
  BY <1>7, PlainSound, StepKinds
<1>9. before \subseteq {Create(Row(AdminRole))} \cup ToSet(need)
  BY <1>7 DEF before, ToSet
<1>10. /\ Sound(need \o FlattenSeq(seqs), {Create(Row(AdminRole))})
       /\ ToSet(FlattenSeq(seqs)) \subseteq ToSet(need \o FlattenSeq(seqs))
  BY <1>6, <1>8, <1>9, SoundTogether
<1>11. seedAdminAccess = need \o FlattenSeq(seqs)
  BY <1>5 DEF seedAdminAccess, need
<1>12. ASSUME NEW t \in ToSet(Types) PROVE Create(Grant(t)) \in ToSet(seedAdminAccess)
  <2>1. PICK i \in 1 .. Len(Types) : t = Types[i]
    BY <1>1 DEF ToSet
  <2>2. QED
    BY <1>2, <1>4, <1>6, <1>10, <1>11, <2>1
<1>13. QED
  BY <1>10, <1>11, <1>12

(* The agent tools. *)
LEMMA AgentToolsSound ==
    ASSUME NEW before
    PROVE  /\ Sound(Each(seedRow, AgentTools), before)
           /\ {Create(Row(name)) : name \in ToSet(AgentTools)} \subseteq ToSet(Each(seedRow, AgentTools))
<1> DEFINE seqs == [i \in DOMAIN AgentTools |-> seedRow(AgentTools[i])]
<1>1. AgentTools \in Seq(ToSet(AgentTools)) /\ DOMAIN AgentTools = 1 .. Len(AgentTools)
      /\ Len(AgentTools) \in Nat
  BY StartupAssumption
<1>2. ASSUME NEW name \in ToSet(AgentTools)
      PROVE  /\ seedRow(name) \in Seq(Steps) /\ Sound(seedRow(name), before)
             /\ Create(Row(name)) \in ToSet(seedRow(name))
  <2>1. Row(name) \in Items /\ Row(name)[1] = "row"
    BY ItemKinds DEF Items, Rows
  <2>2. QED
    BY <2>1, RowSound DEF seedRow
<1>3. \A i \in 1 .. Len(AgentTools) : AgentTools[i] \in ToSet(AgentTools)
  BY <1>1 DEF ToSet
<1>4. seqs \in Seq(Seq(Steps)) /\ Len(seqs) = Len(AgentTools)
      /\ \A i \in 1 .. Len(AgentTools) : seqs[i] = seedRow(AgentTools[i])
  BY <1>1, <1>2, <1>3
<1>5. Each(seedRow, AgentTools) = FlattenSeq(seqs)
  BY DEF Each
<1> HIDE DEF seqs
<1>6. /\ Sound(FlattenSeq(seqs), before)
      /\ \A i \in 1 .. Len(seqs) : ToSet(seqs[i]) \subseteq ToSet(FlattenSeq(seqs))
  BY <1>2, <1>3, <1>4, EachSound
<1>7. ASSUME NEW name \in ToSet(AgentTools) PROVE Create(Row(name)) \in ToSet(Each(seedRow, AgentTools))
  <2>1. PICK i \in 1 .. Len(AgentTools) : name = AgentTools[i]
    BY <1>1 DEF ToSet
  <2>2. QED
    BY <1>2, <1>4, <1>5, <1>6, <2>1
<1>8. QED
  BY <1>5, <1>6, <1>7

(* The file tools. *)
LEMMA CustomToolsSound ==
    /\ Sound(seedCustomTools, {Create(Row(AdminUser))})
    /\ {Create(Row(f)) : f \in ToSet(FileTools)} \subseteq ToSet(seedCustomTools)
<1> DEFINE seqs == [i \in DOMAIN FileTools |-> seedTool(FileTools[i])]
           need == <<Need(Row(AdminUser))>>
           before == {Create(Row(AdminUser))}
<1>1. FileTools \in Seq(ToSet(FileTools)) /\ DOMAIN FileTools = 1 .. Len(FileTools)
      /\ Len(FileTools) \in Nat
  BY StartupAssumption
<1>2. \A f \in ToSet(FileTools) : /\ seedTool(f) \in Seq(Steps) /\ Sound(seedTool(f), before)
                                  /\ Create(Row(f)) \in ToSet(seedTool(f))
  BY ToolSound
<1>3. \A i \in 1 .. Len(FileTools) : FileTools[i] \in ToSet(FileTools)
  BY <1>1 DEF ToSet
<1>4. seqs \in Seq(Seq(Steps)) /\ Len(seqs) = Len(FileTools)
      /\ \A i \in 1 .. Len(FileTools) : seqs[i] = seedTool(FileTools[i])
  BY <1>1, <1>2, <1>3
<1>5. Each(seedTool, FileTools) = FlattenSeq(seqs)
  BY DEF Each
<1> HIDE DEF seqs
<1>6. /\ Sound(FlattenSeq(seqs), before)
      /\ \A i \in 1 .. Len(seqs) : ToSet(seqs[i]) \subseteq ToSet(FlattenSeq(seqs))
  BY <1>2, <1>3, <1>4, EachSound
<1>7. need \in Seq(Steps) /\ Len(need) = 1 /\ need[1] = Need(Row(AdminUser))
  BY DEF Steps, Rows
<1> HIDE DEF need
<1>8. Sound(need, before)
  BY <1>7, PlainSound, StepKinds
<1>9. /\ Sound(need \o FlattenSeq(seqs), before)
      /\ ToSet(FlattenSeq(seqs)) \subseteq ToSet(need \o FlattenSeq(seqs))
  BY <1>6, <1>8, SoundTogether
<1>10. seedCustomTools = need \o FlattenSeq(seqs)
  BY <1>5 DEF seedCustomTools, need
<1>11. ASSUME NEW f \in ToSet(FileTools) PROVE Create(Row(f)) \in ToSet(seedCustomTools)
  <2>1. PICK i \in 1 .. Len(FileTools) : f = FileTools[i]
    BY <1>1 DEF ToSet
  <2>2. QED
    BY <1>2, <1>4, <1>6, <1>9, <1>10, <2>1
<1>12. QED
  BY <1>9, <1>10, <1>11

(* The corrections of all file tools, in any order. *)
LEMMA CorrectionsSound ==
    ASSUME NEW tools \in Orders, NEW before, {Create(Row(f)) : f \in ToSet(FileTools)} \subseteq before
    PROVE  /\ Sound(Each(correctTool, tools), before)
           /\ {Create(VersionOf(f, "1.0.1")) : f \in ToSet(FileTools)} \subseteq ToSet(Each(correctTool, tools))
<1> DEFINE seqs == [i \in DOMAIN tools |-> correctTool(tools[i])]
<1>1. tools \in Seq(ToSet(FileTools)) /\ DOMAIN tools = 1 .. Len(tools) /\ Len(tools) \in Nat
      /\ ToSet(tools) = ToSet(FileTools)
  BY DEF Orders
<1>2. \A f \in ToSet(FileTools) : /\ correctTool(f) \in Seq(Steps) /\ Sound(correctTool(f), before)
                                  /\ Create(VersionOf(f, "1.0.1")) \in ToSet(correctTool(f))
  BY CorrectionSound
<1>3. \A i \in 1 .. Len(tools) : tools[i] \in ToSet(FileTools)
  BY <1>1
<1>4. seqs \in Seq(Seq(Steps)) /\ Len(seqs) = Len(tools)
      /\ \A i \in 1 .. Len(tools) : seqs[i] = correctTool(tools[i])
  BY <1>1, <1>2, <1>3
<1>5. Each(correctTool, tools) = FlattenSeq(seqs)
  BY DEF Each
<1> HIDE DEF seqs
<1>6. /\ Sound(FlattenSeq(seqs), before)
      /\ \A i \in 1 .. Len(seqs) : ToSet(seqs[i]) \subseteq ToSet(FlattenSeq(seqs))
  BY <1>2, <1>3, <1>4, EachSound
<1>7. ASSUME NEW f \in ToSet(FileTools)
      PROVE  Create(VersionOf(f, "1.0.1")) \in ToSet(Each(correctTool, tools))
  <2>1. PICK i \in 1 .. Len(tools) : f = tools[i]
    BY <1>1 DEF ToSet
  <2>2. QED
    BY <1>2, <1>4, <1>5, <1>6, <2>1
<1>8. QED
  BY <1>5, <1>6, <1>7

(* The role of the admin. *)
LEMMA UserRolesSound ==
    /\ Sound(seedUserRoles, {Create(Row(AdminRole)), Create(Row(AdminUser))})
    /\ Create(Member) \in ToSet(seedUserRoles)
<1> DEFINE needs == <<Need(Row(AdminUser)), Need(Row(AdminRole))>>
           pair == <<Look(Member, 1), Create(Member)>>
           before == {Create(Row(AdminRole)), Create(Row(AdminUser))}
<1>1. /\ Member \in Items /\ Member[1] = "member"
      /\ Need(Row(AdminUser)) \in Steps /\ Need(Row(AdminRole)) \in Steps
  BY ItemKinds DEF Items, Steps, Rows
<1>2. /\ needs \in Seq(Steps) /\ Len(needs) = 2
      /\ needs[1] = Need(Row(AdminUser)) /\ needs[2] = Need(Row(AdminRole))
  BY <1>1
<1>3. /\ pair \in Seq(Steps) /\ Sound(pair, {Need(Row(AdminRole))})
      /\ Create(Member) \in ToSet(pair)
  BY <1>1, RowSound
<1>4. seedUserRoles = needs \o pair
  BY DEF seedUserRoles
<1> HIDE DEF needs, pair
<1>5. Sound(needs, before)
  BY <1>2, PlainSound, StepKinds
<1>6. {Need(Row(AdminRole))} \subseteq before \cup ToSet(needs)
  BY <1>2 DEF ToSet
<1>7. Sound(needs \o pair, before) /\ ToSet(pair) \subseteq ToSet(needs \o pair)
  BY <1>3, <1>5, <1>6, SoundTogether
<1>8. QED
  BY <1>3, <1>4, <1>7

(* The program of a start: each step is behind what it relies on, and in the end *)
(* everything has been seen to.                                                  *)
LEMMA ProgramSound ==
    ASSUME NEW tools \in Orders
    PROVE  Sound(Program(tools), {}) /\ Everything \subseteq ToSet(Program(tools))
<1> DEFINE A == <<Exec("tables")>>
           B == A \o seedRow(AdminRole)
           C == B \o seedRow(AdminUser)
           D == C \o seedUserRoles
           F == D \o seedAdminAccess
           G == F \o Each(seedRow, AgentTools)
           H == G \o seedCustomTools
           gaps == <<Exec("archived"), Exec("stubs"), Exec("modes")>>
           I == H \o gaps
           J == I \o Each(correctTool, tools)
           last == <<Exec("settings")>>
           K == J \o last
<1>1. Program(tools) = K
  BY DEF Program, UpP_1
<1>2. \A gap \in Backfills : Exec(gap) \in Steps
  BY DEF Steps
<1>3. /\ A \in Seq(Steps) /\ Len(A) = 1 /\ A[1] = Exec("tables")
      /\ gaps \in Seq(Steps) /\ Len(gaps) = 3
      /\ gaps[1] = Exec("archived") /\ gaps[2] = Exec("stubs") /\ gaps[3] = Exec("modes")
      /\ last \in Seq(Steps) /\ Len(last) = 1 /\ last[1] = Exec("settings")
  BY <1>2 DEF Backfills
<1>4. /\ Row(AdminRole) \in Items /\ Row(AdminRole)[1] = "row"
      /\ Row(AdminUser) \in Items /\ Row(AdminUser)[1] = "row"
  BY ItemKinds DEF Items, Rows
<1> HIDE DEF A, B, C, D, F, G, H, I, J, K, gaps, last
<1>5. Sound(A, {}) /\ Sound(gaps, {}) /\ Sound(last, {})
  BY <1>3, PlainSound, StepKinds
<1>6. /\ Exec("tables") \in ToSet(A) /\ Exec("settings") \in ToSet(last)
      /\ {Exec("archived"), Exec("stubs"), Exec("modes")} \subseteq ToSet(gaps)
  BY <1>3 DEF ToSet
<1>7. Sound(B, {}) /\ ToSet(A) \subseteq ToSet(B) /\ Create(Row(AdminRole)) \in ToSet(B)
  <2>1. Sound(seedRow(AdminRole), {}) /\ Create(Row(AdminRole)) \in ToSet(seedRow(AdminRole))
    BY <1>4, RowSound DEF seedRow
  <2>2. QED
    BY <1>5, <2>1, SoundTogether DEF B
<1>8. Sound(C, {}) /\ ToSet(B) \subseteq ToSet(C) /\ Create(Row(AdminUser)) \in ToSet(C)
  <2>1. Sound(seedRow(AdminUser), {}) /\ Create(Row(AdminUser)) \in ToSet(seedRow(AdminUser))
    BY <1>4, RowSound DEF seedRow
  <2>2. QED
    BY <1>7, <2>1, SoundTogether DEF C
<1>9. Sound(D, {}) /\ ToSet(C) \subseteq ToSet(D) /\ Create(Member) \in ToSet(D)
  <2>1. {Create(Row(AdminRole)), Create(Row(AdminUser))} \subseteq {} \cup ToSet(C)
    BY <1>7, <1>8
  <2>2. QED
    BY <1>8, <2>1, UserRolesSound, SoundTogether DEF D
<1>10. /\ Sound(F, {}) /\ ToSet(D) \subseteq ToSet(F)
       /\ {Create(Grant(t)) : t \in ToSet(Types)} \subseteq ToSet(F)
  <2>1. {Create(Row(AdminRole))} \subseteq {} \cup ToSet(D)
    BY <1>7, <1>8, <1>9
  <2>2. /\ Sound(D \o seedAdminAccess, {})
        /\ ToSet(D) \cup ToSet(seedAdminAccess) \subseteq ToSet(D \o seedAdminAccess)
    BY <1>9, <2>1, GrantsSound, SoundTogether
  <2>3. QED
    BY <2>2, GrantsSound DEF F
<1>11. /\ Sound(G, {}) /\ ToSet(F) \subseteq ToSet(G)
       /\ {Create(Row(name)) : name \in ToSet(AgentTools)} \subseteq ToSet(G)
  <2> DEFINE more == Each(seedRow, AgentTools)
  <2>1. Sound(more, {}) /\ {Create(Row(name)) : name \in ToSet(AgentTools)} \subseteq ToSet(more)
    BY AgentToolsSound
  <2> HIDE DEF more
  <2>2. Sound(F \o more, {}) /\ ToSet(F) \cup ToSet(more) \subseteq ToSet(F \o more)
    BY <1>10, <2>1, SoundTogether
  <2>3. G = F \o more
    BY DEF G, more
  <2>4. QED
    BY <2>1, <2>2, <2>3
<1>12. /\ Sound(H, {}) /\ ToSet(G) \subseteq ToSet(H)
       /\ {Create(Row(f)) : f \in ToSet(FileTools)} \subseteq ToSet(H)
  <2>1. {Create(Row(AdminUser))} \subseteq {} \cup ToSet(G)
    BY <1>8, <1>9, <1>10, <1>11
  <2>2. /\ Sound(G \o seedCustomTools, {})
        /\ ToSet(G) \cup ToSet(seedCustomTools) \subseteq ToSet(G \o seedCustomTools)
    BY <1>11, <2>1, CustomToolsSound, SoundTogether
  <2>3. QED
    BY <2>2, CustomToolsSound DEF H
<1>13. Sound(I, {}) /\ ToSet(H) \cup ToSet(gaps) \subseteq ToSet(I)
  BY <1>5, <1>12, SoundTogether DEF I
<1>14. /\ Sound(J, {}) /\ ToSet(I) \subseteq ToSet(J)
       /\ {Create(VersionOf(f, "1.0.1")) : f \in ToSet(FileTools)} \subseteq ToSet(J)
  <2> DEFINE more == Each(correctTool, tools)
             made == {Create(Row(f)) : f \in ToSet(FileTools)}
  <2>1. Sound(more, made) /\ {Create(VersionOf(f, "1.0.1")) : f \in ToSet(FileTools)} \subseteq ToSet(more)
    BY CorrectionsSound
  <2>2. made \subseteq {} \cup ToSet(I)
    BY <1>12, <1>13
  <2> HIDE DEF more, made
  <2>3. Sound(I \o more, {}) /\ ToSet(I) \cup ToSet(more) \subseteq ToSet(I \o more)
    BY <1>13, <2>1, <2>2, SoundTogether
  <2>4. J = I \o more
    BY DEF J, more
  <2>5. QED
    BY <2>1, <2>3, <2>4
<1>15. Sound(K, {}) /\ ToSet(J) \cup ToSet(last) \subseteq ToSet(K)
  BY <1>5, <1>14, SoundTogether DEF K
<1>16. Everything \subseteq ToSet(K)
  <2>1. {Create(Row(name)) : name \in Rows} \subseteq ToSet(K)
    BY <1>7, <1>8, <1>9, <1>10, <1>11, <1>12, <1>13, <1>14, <1>15 DEF Rows
  <2>2. Create(Member) \in ToSet(K) /\ {Create(Grant(t)) : t \in ToSet(Types)} \subseteq ToSet(K)
    BY <1>9, <1>10, <1>11, <1>12, <1>13, <1>14, <1>15
  <2>3. {Exec(gap) : gap \in Backfills} \subseteq ToSet(K)
    BY <1>6, <1>7, <1>8, <1>9, <1>10, <1>11, <1>12, <1>13, <1>14, <1>15 DEF Backfills
  <2>4. QED
    BY <1>14, <1>15, <2>1, <2>2, <2>3 DEF Everything
<1>17. QED
  BY <1>1, <1>15, <1>16

-----------------------------------------------------------------------------
(* The inductive invariant. *)

StartType ==
    /\ db \in Database /\ gen \in Nat /\ deleting \subseteq [tool : ToSet(FileTools), by : Processes]
    /\ order \in [Processes -> Orders]
    /\ at \in [Processes -> Nat] /\ \A s \in Processes : at[s] <= Len(Program(order[s])) + 1
    /\ role \in [Processes -> Nat] /\ \A s \in Processes : role[s] <= gen
    /\ since \in [Processes -> SUBSET {"start", "edit"}]
    /\ overlapped \in BOOLEAN /\ fatal \subseteq Processes

(* No step about a version meets its tool missing. *)
HasRow(s) ==
    (Starting(s) /\ This(s).do \in {"look", "create"} /\ This(s).of[1] = "version")
        => db.row[This(s).of[2]] # "none"

(* What a start no edit disturbed has behind it is done. *)
Done(s, step) ==
    /\ (step.do = "create" /\ ~(step.of[1] = "version" /\ step.of[3] = "1.0.0")) => IsThere(step.of)
    /\ step.do = "exec" => step.of[1] \notin db.gaps
    /\ step = Need(Row(AdminRole)) => role[s] = gen

PassedIsDone(s) ==
    "edit" \notin since[s] => \A q \in 1 .. at[s] - 1 : Done(s, Program(order[s])[q])

(* A start nothing disturbed is the only one, and creates what is not there. *)
Unmade(s) ==
    (Starting(s) /\ This(s).do = "create") =>
        IF This(s).of[1] = "version" /\ This(s).of[3] = "1.0.0"
        THEN db.versions[This(s).of[2]] = <<>> ELSE ~IsThere(This(s).of)

Undisturbed(s) ==
    since[s] = {} => /\ Unmade(s)
                     /\ Starting(s) => \A q \in Processes : Starting(q) => q = s

(* While starts do not overlap, nothing is counted twice. *)
Uncounted(s) ==
    (Starting(s) /\ This(s).do = "create" /\ This(s).of[1] \in {"member", "grant"} /\ role[s] = gen)
        => ~IsThere(This(s).of)

CountedOnce ==
    ~overlapped => /\ Once(db)
                   /\ \A s, q \in Processes : Starting(s) /\ Starting(q) => s = q
                   /\ \A s \in Processes : Uncounted(s)

StartInv ==
    /\ StartType /\ VersionsFit(db) /\ CountedOnce /\ OnlyDeletedRowsStopIt
    /\ \A s \in Processes : HasRow(s) /\ PassedIsDone(s) /\ Undisturbed(s)

(* A step at which a block begins. *)
Opens(step) == step.do # "create" /\ ~(step.do = "look" /\ step.of[1] = "version")

(* What comes behind a step. *)
LEMMA WhatFollows ==
    ASSUME NEW S, Sound(S, {}), NEW p \in 1 .. Len(S), p + 1 <= Len(S)
    PROVE  /\ S[p + 1].do = "create" =>
                  \/ S[p].do = "look" /\ S[p].of = S[p + 1].of
                  \/ \E f \in ToSet(FileTools) :
                         /\ S[p] = Create(Row(f)) /\ S[p + 1] = Create(VersionOf(f, "1.0.0"))
                         /\ p > 1 /\ S[p - 1] = Look(Row(f), 2)
           /\ (S[p + 1].do = "look" /\ S[p + 1].of[1] = "version") => S[p] = Want(Row(S[p + 1].of[2]), 2)
<1>1. S \in Seq(Steps) /\ p + 1 \in 1 .. Len(S) /\ (p + 1) - 1 = p /\ (p + 1) - 2 = p - 1
      /\ (p + 1 > 2 => p > 1)
  BY DEF Sound
<1>2. Fits(S, p + 1, {} \cup Earlier(S, p + 1))
  BY <1>1 DEF Sound
<1>3. S[p + 1].do = "create" => Creates(S, p + 1)
  BY <1>2 DEF Fits
<1>4. S[p + 1].do = "look" => LooksFor(S, p + 1, {} \cup Earlier(S, p + 1))
  BY <1>2 DEF Fits
<1>5. S[p + 1].do = "create" =>
                  \/ S[p].do = "look" /\ S[p].of = S[p + 1].of
                  \/ \E f \in ToSet(FileTools) :
                         /\ S[p] = Create(Row(f)) /\ S[p + 1] = Create(VersionOf(f, "1.0.0"))
                         /\ p > 1 /\ S[p - 1] = Look(Row(f), 2)
  BY <1>1, <1>3 DEF Creates
<1>6. (S[p + 1].do = "look" /\ S[p + 1].of[1] = "version") => S[p] = Want(Row(S[p + 1].of[2]), 2)
  BY <1>1, <1>4 DEF LooksFor
<1>7. QED
  BY <1>5, <1>6

(* A look that finds passes over what it would have created. *)
LEMMA LookGoesOn ==
    ASSUME NEW S, Sound(S, {}), NEW p \in 1 .. Len(S), S[p].do = "look"
    PROVE  /\ S[p].skip \in {1, 2} /\ p + S[p].skip <= Len(S) /\ S[p + 1] = Create(S[p].of)
           /\ S[p].of \in Items /\ (S[p].of[1] = "version" => S[p].of[3] = "1.0.1")
           /\ S[p].of[1] \in {"member", "grant"} => Need(Row(AdminRole)) \in Earlier(S, p)
           /\ \A q \in p + 1 .. p + S[p].skip :
                  S[q] = Create(S[p].of) \/ \E f \in ToSet(FileTools) : S[q] = Create(VersionOf(f, "1.0.0"))
           /\ p + S[p].skip + 1 <= Len(S) => Opens(S[p + S[p].skip + 1])
<1>1. S \in Seq(Steps) /\ S[p] \in Steps
  BY DEF Sound
<1>2. Fits(S, p, {} \cup Earlier(S, p))
  BY DEF Sound
<1>3. LooksFor(S, p, Earlier(S, p))
  BY <1>2 DEF Fits
<1>4. /\ S[p].skip \in {1, 2} /\ p + S[p].skip <= Len(S) /\ S[p + 1] = Create(S[p].of)
      /\ S[p].of[1] \in {"member", "grant"} => Need(Row(AdminRole)) \in Earlier(S, p)
      /\ S[p].skip = 2 => \E f \in ToSet(FileTools) : S[p].of = Row(f) /\ S[p + 2] = Create(VersionOf(f, "1.0.0"))
  BY <1>3 DEF LooksFor
<1>5. ASSUME NEW q \in p + 1 .. p + S[p].skip
      PROVE  S[q] = Create(S[p].of) \/ \E f \in ToSet(FileTools) : S[q] = Create(VersionOf(f, "1.0.0"))
  <2>1. q = p + 1 \/ (S[p].skip = 2 /\ q = p + 2)
    BY <1>4
  <2>2. QED
    BY <1>4, <2>1
<1>6. ASSUME p + S[p].skip + 1 <= Len(S) PROVE Opens(S[p + S[p].skip + 1])
  <2> DEFINE q == p + S[p].skip
  <2>1. q \in 1 .. Len(S) /\ q + 1 <= Len(S) /\ Len(S) \in Nat
    BY <1>1, <1>4, <1>6
  <2>2. S[q] = Create(S[p].of) \/ \E f \in ToSet(FileTools) : S[q] = Create(VersionOf(f, "1.0.0"))
    BY <1>4, <1>5
  <2> HIDE DEF q
  <2>3. S[q].do = "create"
    BY <2>2, StepKinds
  <2>4. ~(S[q + 1].do = "look" /\ S[q + 1].of[1] = "version")
    BY <2>1, <2>3, WhatFollows, StepKinds
  <2>5. S[q + 1].do # "create"
    <3> SUFFICES ASSUME S[q + 1].do = "create" PROVE FALSE
      OBVIOUS
    <3>1. PICK f \in ToSet(FileTools) : S[q] = Create(Row(f)) /\ S[q - 1] = Look(Row(f), 2)
      BY <2>1, <2>3, WhatFollows, StepKinds
    <3>2. CASE S[p].skip = 1
      <4>1. S[q - 1] = S[p]
        BY <1>4, <3>2 DEF q
      <4>2. QED
        BY <3>1, <3>2, <4>1, StepKinds
    <3>3. CASE S[p].skip = 2
      <4>1. q = p + 2
        BY <3>3 DEF q
      <4>2. PICK g \in ToSet(FileTools) : S[q] = Create(VersionOf(g, "1.0.0"))
        BY <1>4, <3>3, <4>1
      <4>3. Row(f) = VersionOf(g, "1.0.0")
        BY <3>1, <4>2, CreateSame
      <4>4. QED
        BY <4>3, ItemKinds
    <3>4. QED
      BY <1>4, <3>2, <3>3
  <2>6. QED
    BY <2>4, <2>5 DEF Opens, q
<1>7. S[p].of \in Items /\ (S[p].of[1] = "version" => S[p].of[3] = "1.0.1")
  BY <1>1, <1>3, StepForms DEF LooksFor
<1>8. QED
  BY <1>4, <1>5, <1>6, <1>7

(* A want that does not find passes over the version of the tool. *)
LEMMA WantGoesOn ==
    ASSUME NEW S, Sound(S, {}), NEW p \in 1 .. Len(S), S[p].do = "want"
    PROVE  \E f \in ToSet(FileTools) :
               /\ S[p] = Want(Row(f), 2) /\ Create(Row(f)) \in Earlier(S, p)
               /\ p + 2 <= Len(S) /\ S[p + 1] = Look(VersionOf(f, "1.0.1"), 1)
               /\ p + 3 <= Len(S) => Opens(S[p + 3])
<1>1. S \in Seq(Steps) /\ Len(S) \in Nat
  BY DEF Sound
<1>2. Fits(S, p, {} \cup Earlier(S, p))
  BY DEF Sound
<1>3. Wants(S, p, Earlier(S, p))
  BY <1>2 DEF Fits
<1>4. PICK f \in ToSet(FileTools) :
               /\ S[p] = Want(Row(f), 2) /\ Create(Row(f)) \in Earlier(S, p) /\ p + 2 <= Len(S)
               /\ S[p + 1] = Look(VersionOf(f, "1.0.1"), 1) /\ S[p + 2] = Create(VersionOf(f, "1.0.1"))
  BY <1>3 DEF Wants
<1>5. ASSUME p + 3 <= Len(S) PROVE Opens(S[p + 3])
  <2>1. p + 2 \in 1 .. Len(S) /\ (p + 2) + 1 = p + 3 /\ (p + 2) + 1 <= Len(S)
    BY <1>1, <1>5
  <2>2. S[p + 2].do = "create"
    BY <1>4, StepKinds
  <2>3. ~\E g \in ToSet(FileTools) : S[p + 2] = Create(Row(g))
    <3> SUFFICES ASSUME NEW g \in ToSet(FileTools), S[p + 2] = Create(Row(g)) PROVE FALSE
      OBVIOUS
    <3>1. Row(g) = VersionOf(f, "1.0.1")
      BY <1>4, CreateSame
    <3>2. QED
      BY <3>1, ItemKinds
  <2>4. S[p + 3].do # "create" /\ ~(S[p + 3].do = "look" /\ S[p + 3].of[1] = "version")
    BY <2>1, <2>2, <2>3, WhatFollows, StepKinds
  <2>5. QED
    BY <2>4 DEF Opens
<1>6. QED
  BY <1>4, <1>5

(* What comes behind a need, an exec or a create. *)
LEMMA OthersGoOn ==
    ASSUME NEW S, Sound(S, {}), NEW p \in 1 .. Len(S), p + 1 <= Len(S)
    PROVE  /\ S[p].do \in {"need", "exec"} => Opens(S[p + 1])
           /\ S[p].do = "create" =>
                  \/ Opens(S[p + 1])
                  \/ \E f \in ToSet(FileTools) :
                         S[p] = Create(Row(f)) /\ S[p + 1] = Create(VersionOf(f, "1.0.0"))
<1>1. ASSUME S[p].do \in {"need", "exec", "create"} PROVE ~(S[p + 1].do = "look" /\ S[p + 1].of[1] = "version")
  <2> SUFFICES ASSUME S[p + 1].do = "look", S[p + 1].of[1] = "version" PROVE FALSE
    OBVIOUS
  <2>1. S[p] = Want(Row(S[p + 1].of[2]), 2)
    BY WhatFollows
  <2>2. S[p].do = "want"
    BY <2>1, StepKinds
  <2>3. QED
    BY <1>1, <2>2
<1>2. ASSUME S[p].do \in {"need", "exec"} PROVE S[p + 1].do # "create"
  BY <1>2, WhatFollows, StepKinds
<1>3. ASSUME S[p].do = "create", S[p + 1].do = "create"
      PROVE  \E f \in ToSet(FileTools) :
                         S[p] = Create(Row(f)) /\ S[p + 1] = Create(VersionOf(f, "1.0.0"))
  BY <1>3, WhatFollows
<1>4. QED
  BY <1>1, <1>2, <1>3 DEF Opens

-----------------------------------------------------------------------------
(* What a start has before it and behind it. *)
LEMMA ItsProgram ==
    ASSUME StartType, NEW s \in Processes
    PROVE  /\ Sound(Program(order[s]), {}) /\ Everything \subseteq ToSet(Program(order[s]))
           /\ Program(order[s]) \in Seq(Steps) /\ Len(Program(order[s])) \in Nat
           /\ DOMAIN Program(order[s]) = 1 .. Len(Program(order[s]))
           /\ at[s] \in Nat /\ at[s] <= Len(Program(order[s])) + 1
           /\ Starting(s) => This(s) \in Steps
<1>1. Sound(Program(order[s]), {}) /\ Everything \subseteq ToSet(Program(order[s]))
  BY ProgramSound DEF StartType
<1>2. Program(order[s]) \in Seq(Steps)
  BY <1>1 DEF Sound
<1>3. at[s] \in Nat /\ at[s] <= Len(Program(order[s])) + 1
  BY DEF StartType
<1>4. QED
  BY <1>1, <1>2, <1>3 DEF Starting, This

(* What First finds, item by item. *)
LEMMA ThereKinds ==
    /\ \A name : IsThere(Row(name)) <=> db.row[name] = "live"
    /\ IsThere(Member) <=> db.members > 0
    /\ \A t : IsThere(Grant(t)) <=> db.grants[t] > 0
    /\ \A f, v : IsThere(VersionOf(f, v)) <=> HasVersion(f, v)
<1>1. ASSUME NEW name PROVE IsThere(Row(name)) <=> db.row[name] = "live"
  BY ItemKinds DEF IsThere
<1>2. IsThere(Member) <=> db.members > 0
  BY ItemKinds DEF IsThere
<1>3. ASSUME NEW t PROVE IsThere(Grant(t)) <=> db.grants[t] > 0
  BY ItemKinds DEF IsThere
<1>4. ASSUME NEW f, NEW v PROVE IsThere(VersionOf(f, v)) <=> HasVersion(f, v)
  <2> DEFINE item == VersionOf(f, v)
  <2>1. item[1] = "version" /\ item[2] = f /\ item[3] = v
    BY ItemKinds
  <2> HIDE DEF item
  <2>2. IsThere(item) <=> HasVersion(item[2], item[3])
    BY <2>1 DEF IsThere
  <2>3. QED
    BY <2>1, <2>2 DEF item
<1>5. QED
  BY <1>1, <1>2, <1>3, <1>4

(* What an undisturbed start has behind it was created, and its role looked up. *)
LEMMA EarlierIsDone ==
    ASSUME StartInv, NEW s \in Processes, "edit" \notin since[s], Starting(s),
           NEW p \in 1 .. at[s], NEW step \in Earlier(Program(order[s]), p)
    PROVE  Done(s, step)
<1>1. at[s] \in Nat /\ PassedIsDone(s)
  BY ItsProgram DEF StartInv
<1>2. PICK q \in 1 .. p - 1 : step = Program(order[s])[q]
  BY DEF Earlier
<1>3. q \in 1 .. at[s] - 1
  BY <1>1
<1>4. QED
  BY <1>1, <1>2, <1>3 DEF PassedIsDone

(* A start no edit disturbed works with the role that is named admin. *)
LEMMA NotStale ==
    ASSUME StartInv, NEW s \in Processes, "edit" \notin since[s], Starting(s),
           This(s).do \in {"look", "create"}
    PROVE  ~IsStale(s)
<1> DEFINE S == Program(order[s])
           p == at[s]
<1>1. Sound(S, {}) /\ p \in 1 .. Len(S) /\ S \in Seq(Steps)
  BY ItsProgram DEF StartInv, Starting
<1>2. SUFFICES ASSUME S[p].of[1] \in {"member", "grant"} PROVE role[s] = gen
  BY DEF IsStale, This
<1> HIDE DEF S, p
<1>3. \E r \in 1 .. p : Need(Row(AdminRole)) \in Earlier(S, r)
  <2>1. CASE S[p].do = "look"
    BY <1>1, <1>2, <2>1, LookGoesOn
  <2>2. CASE S[p].do = "create"
    <3>1. Creates(S, p)
      BY <1>1, <2>2 DEF Sound, Fits
    <3>2. p > 1 /\ p - 1 \in 1 .. Len(S) /\ p - 1 \in 1 .. p
      BY <1>1, <3>1 DEF Creates
    <3>3. ASSUME NEW f, S[p] = Create(VersionOf(f, "1.0.0")) PROVE FALSE
      <4>1. S[p].of[1] = "version"
        BY <3>3, StepKinds, ItemKinds
      <4>2. QED
        BY <1>2, <4>1
    <3>4. S[p - 1].do = "look" /\ S[p - 1].of = S[p].of
      BY <3>1, <3>3 DEF Creates
    <3>5. Need(Row(AdminRole)) \in Earlier(S, p - 1)
      BY <1>1, <1>2, <3>2, <3>4, LookGoesOn
    <3>6. QED
      BY <3>2, <3>5
  <2>3. QED
    BY <2>1, <2>2 DEF This, S, p
<1>4. PICK r \in 1 .. p : Need(Row(AdminRole)) \in Earlier(S, r)
  BY <1>3
<1>5. Done(s, Need(Row(AdminRole)))
  BY <1>4, EarlierIsDone DEF S, p
<1>6. QED
  BY <1>5 DEF Done

(* A process goes on with its program. *)
LEMMA Advance ==
    ASSUME StartInv, NEW s \in Processes, Starting(s), NEW n \in 1 .. 3,
           at[s] + n <= Len(Program(order[s])) + 1,
           at' = [at EXCEPT ![s] = at[s] + n],
           UNCHANGED <<gen, order, deleting, since, overlapped, fatal>>,
           role' \in [Processes -> Nat], role'[s] \in {role[s], gen},
           \A q \in Processes : q # s => role'[q] = role[q],
           db' \in Database, VersionsFit(db)', OnlyDeletedRowsStopIt',
           \A f \in ToSet(FileTools) : db.row[f] # "none" => db'.row[f] # "none",
           \A item \in Items : IsThere(item) => IsThere(item)',
           db'.gaps \subseteq db.gaps,
           "edit" \notin since[s] =>
               \A q \in at[s] .. at[s] + n - 1 : Done(s, Program(order[s])[q])',
           HasRow(s)', since[s] = {} => Unmade(s)',
           ~overlapped => Once(db)' /\ Uncounted(s)'
    PROVE  StartInv'
<1>1. StartType
  BY DEF StartInv
<1>2. at[s] \in Nat /\ at'[s] = at[s] + n /\ \A q \in Processes : q # s => at'[q] = at[q]
  BY <1>1 DEF StartType
<1>3. StartType'
  <2>1. ASSUME NEW q \in Processes PROVE role'[q] <= gen'
    <3>1. gen' = gen /\ gen \in Nat /\ role[q] <= gen
      BY <1>1 DEF StartType
    <3>2. role'[q] = role[q] \/ role'[q] = gen
      OBVIOUS
    <3>3. QED
      BY <3>1, <3>2
  <2>2. at' \in [Processes -> Nat] /\ \A q \in Processes : at'[q] <= Len(Program(order'[q])) + 1
    BY <1>1, <1>2 DEF StartType
  <2>3. QED
    BY <1>1, <2>1, <2>2 DEF StartType
<1>4. ASSUME NEW q \in Processes, q # s
      PROVE  (Starting(q)' <=> Starting(q)) /\ This(q)' = This(q)
  BY <1>2, <1>4 DEF Starting, This
<1>5. ASSUME NEW q \in Processes, q # s
      PROVE  HasRow(q)'
  <2> SUFFICES ASSUME Starting(q), This(q).do \in {"look", "create"}, This(q).of[1] = "version"
               PROVE  db'.row[This(q).of[2]] # "none"
    BY <1>4, <1>5 DEF HasRow
  <2>1. db.row[This(q).of[2]] # "none"
    BY DEF StartInv, HasRow
  <2>2. This(q) \in Steps
    BY <1>1, ItsProgram
  <2>3. This(q).of \in Items
    BY <2>2, StepForms
  <2>4. This(q).of[2] \in ToSet(FileTools)
    BY <2>3, ItemKinds DEF Items
  <2>5. QED
    BY <2>1, <2>4
<1>6. ASSUME NEW q \in Processes, NEW step \in Steps, Done(q, step), role'[q] = role[q] \/ role'[q] = gen
      PROVE  Done(q, step)'
  <2>1. step.do = "create" => step.of \in Items
    BY StepForms
  <2>2. QED
    BY <1>6, <2>1 DEF Done
<1>7. ASSUME NEW q \in Processes PROVE PassedIsDone(q)'
  <2> SUFFICES ASSUME "edit" \notin since[q], NEW r \in 1 .. at'[q] - 1
               PROVE  Done(q, Program(order[q])[r])'
    BY DEF PassedIsDone
  <2>1. PassedIsDone(q) /\ Program(order[q]) \in Seq(Steps) /\ at[q] <= Len(Program(order[q])) + 1
        /\ at[q] \in Nat
    BY <1>1, ItsProgram DEF StartInv
  <2>2. CASE r \in 1 .. at[q] - 1
    <3>1. Done(q, Program(order[q])[r]) /\ Program(order[q])[r] \in Steps
      BY <2>1, <2>2 DEF PassedIsDone
    <3>2. role'[q] = role[q] \/ role'[q] = gen
      OBVIOUS
    <3>3. QED
      BY <1>6, <3>1, <3>2
  <2>3. CASE r \notin 1 .. at[q] - 1
    <3>1. q = s /\ r \in at[s] .. at[s] + n - 1
      BY <1>2, <2>1, <2>3
    <3>2. QED
      BY <3>1
  <2>4. QED
    BY <2>2, <2>3
<1>8. ASSUME NEW q \in Processes PROVE Undisturbed(q)'
  <2> SUFFICES ASSUME since[q] = {}
               PROVE  Unmade(q)' /\ (Starting(q)' => \A r \in Processes : Starting(r)' => r = q)
    BY DEF Undisturbed
  <2>1. CASE q = s
    <3>1. \A r \in Processes : Starting(r) => r = s
      BY <2>1 DEF StartInv, Undisturbed
    <3>2. QED
      BY <1>4, <2>1, <3>1
  <2>2. CASE q # s
    <3>1. ~Starting(q)
      BY <2>2 DEF StartInv, Undisturbed
    <3>2. QED
      BY <1>4, <2>2, <3>1 DEF Unmade
  <2>3. QED
    BY <2>1, <2>2
<1>9. CountedOnce'
  <2> SUFFICES ASSUME ~overlapped
               PROVE  /\ Once(db)' /\ \A r, q \in Processes : Starting(r)' /\ Starting(q)' => r = q
                      /\ \A q \in Processes : Uncounted(q)'
    BY DEF CountedOnce
  <2>1. \A q \in Processes : Starting(q) => q = s
    BY DEF StartInv, CountedOnce
  <2>2. \A q \in Processes : Starting(q)' => q = s
    BY <1>4, <2>1
  <2>3. QED
    BY <2>2 DEF Uncounted
<1>10. QED
  BY <1>3, <1>5, <1>7, <1>8, <1>9 DEF StartInv

(* An item is there or it is not. *)
LEMMA ThereIsBoolean == ASSUME NEW item \in Items PROVE IsThere(item) \in BOOLEAN
<1>1. CASE \E name \in Rows : item = Row(name)
  BY <1>1, ItemKinds DEF IsThere
<1>2. CASE item = Member
  BY <1>2, ItemKinds DEF IsThere
<1>3. CASE \E t \in ToSet(Types) : item = Grant(t)
  <2>1. item[1] = "grant"
    BY <1>3, ItemKinds
  <2>2. QED
    BY <2>1 DEF IsThere
<1>4. CASE \E f \in ToSet(FileTools), v \in {"1.0.0", "1.0.1"} : item = VersionOf(f, v)
  <2>1. item[1] = "version"
    BY <1>4, ItemKinds
  <2>2. QED
    BY <2>1 DEF IsThere, HasVersion
<1>5. QED
  BY <1>1, <1>2, <1>3, <1>4 DEF Items

(* In the same database the same is there. *)
LEMMA ThereSame == ASSUME db' = db PROVE \A item : IsThere(item)' <=> IsThere(item)
  BY DEF IsThere, HasVersion

(* A process goes on and leaves the database as it is. *)
LEMMA QuietAdvance ==
    ASSUME StartInv, NEW s \in Processes, Starting(s), NEW n \in 1 .. 3,
           at[s] + n <= Len(Program(order[s])) + 1,
           at' = [at EXCEPT ![s] = at[s] + n],
           UNCHANGED <<db, gen, order, deleting, since, overlapped, fatal>>,
           role' \in [Processes -> Nat], role'[s] \in {role[s], gen},
           \A q \in Processes : q # s => role'[q] = role[q],
           "edit" \notin since[s] =>
               \A q \in at[s] .. at[s] + n - 1 : Done(s, Program(order[s])[q])',
           HasRow(s)', since[s] = {} => Unmade(s)', ~overlapped => Uncounted(s)'
    PROVE  StartInv'
<1>1. db' = db /\ db' \in Database
  BY DEF StartInv, StartType
<1>2. VersionsFit(db)' /\ OnlyDeletedRowsStopIt' /\ (~overlapped => Once(db)')
  BY <1>1 DEF StartInv, VersionsFit, OnlyDeletedRowsStopIt, CountedOnce, Once
<1>3. \A item \in Items : IsThere(item) => IsThere(item)'
  BY <1>1, ThereSame
<1>4. /\ \A f \in ToSet(FileTools) : db.row[f] # "none" => db'.row[f] # "none"
      /\ db'.gaps \subseteq db.gaps
  BY <1>1
<1>5. ~overlapped => Once(db)' /\ Uncounted(s)'
  BY <1>2
<1>6. UNCHANGED <<gen, order, deleting, since, overlapped, fatal>>
  OBVIOUS
<1>7. QED
  BY <1>1, <1>2, <1>3, <1>4, <1>5, <1>6, Advance

(* Where a block begins nothing has been looked for. *)
LEMMA OpenIsFine ==
    ASSUME NEW s, Starting(s)' => Opens(This(s)')
    PROVE  HasRow(s)' /\ Unmade(s)' /\ Uncounted(s)'
  BY DEF HasRow, Unmade, Uncounted, Opens

(* Where a process comes to be. *)
LEMMA ComesTo ==
    ASSUME StartType, NEW s \in Processes, Starting(s), NEW n \in 1 .. 3,
           at' = [at EXCEPT ![s] = at[s] + n], order' = order
    PROVE  /\ Starting(s)' <=> at[s] + n <= Len(Program(order[s]))
           /\ This(s)' = Program(order[s])[at[s] + n]
<1>1. at'[s] = at[s] + n /\ at[s] \in Nat
  BY DEF StartType
<1>2. DOMAIN Program(order[s]) = 1 .. Len(Program(order[s])) /\ Len(Program(order[s])) \in Nat
  BY ItsProgram
<1>3. QED
  BY <1>1, <1>2 DEF Starting, This

(* A process ends. *)
LEMMA Ending ==
    ASSUME StartInv, NEW s \in Processes, at' = [at EXCEPT ![s] = Off],
           UNCHANGED <<db, gen, order, since, overlapped>>, deleting' \subseteq deleting,
           role' \in [Processes -> Nat], role'[s] \in {role[s], gen},
           \A q \in Processes : q # s => role'[q] = role[q],
           fatal' \subseteq Processes, OnlyDeletedRowsStopIt'
    PROVE  StartInv'
<1>1. StartType /\ db' = db
  BY DEF StartInv
<1>2. at'[s] = 0 /\ \A q \in Processes : q # s => at'[q] = at[q]
  BY <1>1 DEF StartType, Off
<1>3. StartType'
  <2>1. ASSUME NEW q \in Processes PROVE role'[q] <= gen'
    <3>1. gen' = gen /\ gen \in Nat /\ role[q] <= gen
      BY <1>1 DEF StartType
    <3>2. role'[q] = role[q] \/ role'[q] = gen
      OBVIOUS
    <3>3. QED
      BY <3>1, <3>2
  <2>2. at' \in [Processes -> Nat]
    BY <1>1 DEF StartType, Off
  <2>3. ASSUME NEW q \in Processes PROVE at'[q] <= Len(Program(order'[q])) + 1
    <3>1. Len(Program(order[q])) \in Nat /\ at[q] <= Len(Program(order[q])) + 1 /\ order' = order
      BY <1>1, ItsProgram
    <3>2. QED
      BY <1>2, <3>1
  <2>4. QED
    BY <1>1, <2>1, <2>2, <2>3 DEF StartType
<1>4. ~Starting(s)'
  <2>1. 0 \notin DOMAIN Program(order[s])
    BY <1>1, ItsProgram
  <2>2. QED
    BY <1>2, <2>1 DEF Starting
<1>5. ASSUME NEW q \in Processes, q # s
      PROVE  (Starting(q)' <=> Starting(q)) /\ This(q)' = This(q)
  BY <1>2, <1>5 DEF Starting, This
<1>6. \A item : IsThere(item)' <=> IsThere(item)
  BY <1>1, ThereSame
<1>7. ASSUME NEW q \in Processes, q # s PROVE HasRow(q)' /\ PassedIsDone(q)' /\ Undisturbed(q)' /\ Uncounted(q)' = Uncounted(q)
  <2>1. HasRow(q)'
    BY <1>1, <1>5, <1>7 DEF StartInv, HasRow
  <2>2. PassedIsDone(q)'
    <3>1. PassedIsDone(q) /\ at'[q] = at[q] /\ role'[q] = role[q]
      BY <1>2, <1>7 DEF StartInv
    <3>2. QED
      BY <1>1, <1>6, <3>1 DEF PassedIsDone, Done
  <2>3. Undisturbed(q)'
    <3>1. Undisturbed(q)
      BY DEF StartInv
    <3>2. Unmade(q) => Unmade(q)'
      BY <1>1, <1>5, <1>6, <1>7 DEF Unmade
    <3>3. (\A r \in Processes : Starting(r) => r = q) => \A r \in Processes : Starting(r)' => r = q
      BY <1>4, <1>5
    <3>4. QED
      BY <1>5, <1>7, <3>1, <3>2, <3>3 DEF Undisturbed
  <2>4. Uncounted(q)' = Uncounted(q)
    BY <1>5, <1>6, <1>7 DEF Uncounted
  <2>5. QED
    BY <2>1, <2>2, <2>3, <2>4
<1>8. HasRow(s)' /\ PassedIsDone(s)' /\ Undisturbed(s)' /\ Uncounted(s)'
  BY <1>2, <1>4 DEF HasRow, PassedIsDone, Undisturbed, Unmade, Uncounted
<1>9. CountedOnce'
  BY <1>1, <1>4, <1>5, <1>7, <1>8 DEF StartInv, CountedOnce, Once
<1>10. VersionsFit(db)'
  BY <1>1 DEF StartInv, VersionsFit
<1>11. QED
  BY <1>3, <1>7, <1>8, <1>9, <1>10 DEF StartInv

(* A look, a want or a need keeps what is known of starts. *)
LEMMA QueryStep ==
    ASSUME StartInv, NEW s \in Processes, Query(s), UNCHANGED <<gen, since, overlapped>>
    PROVE  StartInv'
<1>0. PICK S, p, item : S = Program(order[s]) /\ p = at[s] /\ item = S[p].of
  OBVIOUS
<1>1. /\ StartType /\ Sound(S, {}) /\ S \in Seq(Steps) /\ p \in 1 .. Len(S) /\ Len(S) \in Nat
      /\ Starting(s) /\ This(s) = S[p] /\ S[p] \in Steps
  BY <1>0, ItsProgram DEF StartInv, Query, Starting, This
<1>2. db' = db /\ order' = order /\ deleting' = deleting
  BY DEF Query
<1>3. /\ role' \in [Processes -> Nat] /\ role'[s] \in {role[s], gen}
      /\ \A q \in Processes : q # s => role'[q] = role[q]
      /\ (S[p] = Need(Row(AdminRole)) => role'[s] = gen)
      /\ (S[p].do # "need" => role' = role)
  <2>1. role' = IF S[p] = Need(Row(AdminRole)) THEN [role EXCEPT ![s] = gen] ELSE role
    BY <1>1 DEF Query
  <2>2. S[p].do # "need" => S[p] # Need(Row(AdminRole))
    BY StepKinds
  <2>3. role \in [Processes -> Nat] /\ gen \in Nat
    BY <1>1 DEF StartType
  <2>4. QED
    BY <2>1, <2>2, <2>3
<1>4. \A x : IsThere(x)' <=> IsThere(x)
  BY <1>2, ThereSame
<1>5. PICK found \in IF IsStale(s) THEN BOOLEAN ELSE {IsThere(item)} :
           IF S[p].do = "need" /\ ~found THEN Fatal(s)
           ELSE Continue(s, IF (S[p].do = "look") = found THEN 1 + S[p].skip ELSE 1)
  BY <1>0, <1>1 DEF Query
<1>6. S[p].do \in {"look", "want", "need"}
  BY <1>1 DEF Query
<1>7. found \in BOOLEAN /\ (~IsStale(s) => (found <=> IsThere(item)))
  <2>1. item \in Items
    BY <1>0, <1>1, <1>6, StepForms, StepKinds DEF Items, Rows
  <2>2. IsThere(item) \in BOOLEAN
    BY <2>1, ThereIsBoolean
  <2>3. CASE IsStale(s)
    BY <1>5, <2>3
  <2>4. CASE ~IsStale(s)
    BY <1>5, <2>2, <2>4
  <2>5. QED
    BY <2>3, <2>4
<1>8. ASSUME S[p].do \in {"want", "need"} PROVE \E name \in Rows : item = Row(name) /\ Create(item) \in Earlier(S, p)
                                                               /\ (found <=> db.row[name] = "live")
  <2>1. \E name \in Rows : item = Row(name)
    BY <1>0, <1>1, <1>8, StepForms, StepKinds DEF Rows
  <2>2. Create(item) \in Earlier(S, p)
    <3>1. CASE S[p].do = "want"
      BY <1>0, <1>1, <3>1, WantGoesOn, StepKinds
    <3>2. CASE S[p].do = "need"
      BY <1>0, <1>1, <3>2 DEF Sound, Fits
    <3>3. QED
      BY <1>8, <3>1, <3>2
  <2>3. PICK name \in Rows : item = Row(name)
    BY <2>1
  <2>4. ~IsStale(s)
    BY <1>0, <1>1, <2>3, ItemKinds DEF IsStale
  <2>5. found <=> db.row[name] = "live"
    BY <1>7, <2>3, <2>4, ThereKinds
  <2>6. QED
    BY <2>2, <2>3, <2>5
<1>9. ASSUME S[p].do \in {"want", "need"}, "edit" \notin since[s] PROVE found
  <2>1. PICK name \in Rows : item = Row(name) /\ Create(item) \in Earlier(S, p) /\ (found <=> db.row[name] = "live")
    BY <1>8, <1>9
  <2>2. p \in 1 .. at[s] /\ Create(item) \in Earlier(Program(order[s]), p)
    BY <1>0, <1>1, <2>1
  <2>3. Done(s, Create(item))
    BY <1>1, <1>9, <2>2, EarlierIsDone
  <2>4. item[1] = "row"
    BY <2>1, ItemKinds
  <2>5. IsThere(item)
    BY <2>3, <2>4, StepKinds DEF Done
  <2>6. QED
    BY <2>1, <2>5, ThereKinds
<1>10. CASE S[p].do = "need" /\ ~found
  <2>1. Fatal(s)
    BY <1>5, <1>10
  <2>2. since[s] # {}
    BY <1>9, <1>10
  <2>3. at' = [at EXCEPT ![s] = Off] /\ fatal' = fatal
    BY <2>1, <2>2 DEF Fatal
  <2>4. fatal' \subseteq Processes /\ OnlyDeletedRowsStopIt'
    BY <1>1, <1>2, <2>3 DEF StartInv, StartType, OnlyDeletedRowsStopIt
  <2>5. UNCHANGED <<db, gen, order, since, overlapped>> /\ deleting' \subseteq deleting
    BY <1>2
  <2>6. QED
    BY <1>3, <2>3, <2>4, <2>5, Ending
<1>11. ASSUME NEW n \in 1 .. 3, Continue(s, n), p + n <= Len(S) + 1,
              "edit" \notin since[s] => \A q \in p .. p + n - 1 : Done(s, S[q])',
              HasRow(s)', since[s] = {} => Unmade(s)', ~overlapped => Uncounted(s)'
       PROVE  StartInv'
  <2>1. at' = [at EXCEPT ![s] = at[s] + n] /\ fatal' = fatal
    BY <1>11 DEF Continue
  <2>2. UNCHANGED <<db, gen, order, deleting, since, overlapped, fatal>>
    BY <1>2, <2>1
  <2>3. at[s] + n <= Len(Program(order[s])) + 1
        /\ ("edit" \notin since[s] =>
               \A q \in at[s] .. at[s] + n - 1 : Done(s, Program(order[s])[q])')
    BY <1>0, <1>2, <1>11
  <2>4. QED
    BY <1>1, <1>3, <1>11, <2>1, <2>2, <2>3, QuietAdvance
<1>12. ASSUME NEW n \in 1 .. 3, Continue(s, n)
       PROVE  (Starting(s)' <=> p + n <= Len(S)) /\ This(s)' = S[p + n]
  <2>1. at' = [at EXCEPT ![s] = at[s] + n]
    BY <1>12 DEF Continue
  <2>2. QED
    BY <1>0, <1>1, <1>2, <2>1, ComesTo
<1>13. S[p].do # "need" => ~(S[p].do \in {"create", "exec"}) /\ S[p] # Need(Row(AdminRole))
  BY <1>6, StepKinds
<1>14. CASE S[p].do = "need" /\ found
  <2>1. Continue(s, 1)
    BY <1>5, <1>7, <1>14
  <2>2. p + 1 <= Len(S) => Opens(S[p + 1])
    BY <1>1, <1>14, OthersGoOn
  <2>3. HasRow(s)' /\ Unmade(s)' /\ Uncounted(s)'
    BY <1>12, <2>1, <2>2, OpenIsFine
  <2>4. Done(s, S[p])'
    BY <1>2, <1>3, <1>14 DEF Done
  <2>5. \A q \in p .. p + 1 - 1 : q = p
    BY <1>1
  <2>6. p + 1 <= Len(S) + 1
    BY <1>1
  <2>7. QED
    BY <1>2, <1>11, <2>1, <2>3, <2>4, <2>5, <2>6
<1>15. CASE S[p].do = "look" /\ found
  <2>1. Continue(s, 1 + S[p].skip)
    BY <1>5, <1>7, <1>15
  <2>2. /\ S[p].skip \in {1, 2} /\ p + S[p].skip <= Len(S)
        /\ \A q \in p + 1 .. p + S[p].skip :
               S[q] = Create(item) \/ \E f \in ToSet(FileTools) : S[q] = Create(VersionOf(f, "1.0.0"))
        /\ p + S[p].skip + 1 <= Len(S) => Opens(S[p + S[p].skip + 1])
    BY <1>1, <1>15, <1>0, LookGoesOn
  <2> DEFINE n == 1 + S[p].skip
  <2>3. n \in 1 .. 3 /\ p + n <= Len(S) + 1 /\ p + S[p].skip + 1 = p + n
    BY <1>1, <2>2
  <2>4. HasRow(s)' /\ Unmade(s)' /\ Uncounted(s)'
    BY <1>12, <2>1, <2>2, <2>3, OpenIsFine
  <2>5. ASSUME "edit" \notin since[s], NEW q \in p .. p + n - 1 PROVE Done(s, S[q])'
    <3>1. CASE q = p
      BY <1>13, <1>15, <3>1 DEF Done
    <3>2. CASE q # p
      <4>1. q \in p + 1 .. p + S[p].skip
        BY <1>1, <2>2, <3>2
      <4>2. IsThere(item)'
        BY <1>1, <1>4, <1>7, <1>15, <2>5, NotStale
      <4>3. CASE S[q] = Create(item)
        BY <4>2, <4>3, StepKinds DEF Done
      <4>4. ASSUME NEW f, S[q] = Create(VersionOf(f, "1.0.0")) PROVE Done(s, S[q])'
        BY <4>4, StepKinds, ItemKinds DEF Done
      <4>5. QED
        BY <2>2, <4>1, <4>3, <4>4
    <3>3. QED
      BY <3>1, <3>2
  <2> HIDE DEF n
  <2>6. Continue(s, n)
    BY <2>1 DEF n
  <2>7. QED
    BY <1>2, <1>11, <2>3, <2>4, <2>5, <2>6
<1>16. CASE S[p].do = "look" /\ ~found
  <2>1. Continue(s, 1)
    BY <1>5, <1>7, <1>16
  <2>2. /\ p + 1 <= Len(S) /\ S[p + 1] = Create(item)
        /\ item[1] = "version" => item[3] = "1.0.1"
    BY <1>1, <1>16, <1>0, LookGoesOn
  <2>3. Starting(s)' /\ This(s)' = Create(item) /\ This(s)'.of = item /\ This(s)'.do = "create"
    BY <1>12, <2>1, <2>2, StepKinds
  <2>4. HasRow(s)'
    <3>1. item[1] = "version" => db.row[item[2]] # "none"
      BY <1>0, <1>1, <1>16 DEF StartInv, HasRow
    <3>2. QED
      BY <1>2, <2>3, <3>1 DEF HasRow
  <2>5. since[s] = {} => Unmade(s)'
    <3> SUFFICES ASSUME since[s] = {} PROVE Unmade(s)'
      OBVIOUS
    <3>1. ~IsThere(item)'
      BY <1>1, <1>4, <1>7, <1>16, NotStale
    <3>2. ~(item[1] = "version" /\ item[3] = "1.0.0")
      BY <2>2
    <3>3. QED
      BY <2>3, <3>1, <3>2 DEF Unmade
  <2>6. Uncounted(s)'
    <3> SUFFICES ASSUME item[1] \in {"member", "grant"}, role'[s] = gen' PROVE ~IsThere(item)'
      BY <2>3 DEF Uncounted
    <3>1. ~IsStale(s)
      BY <1>0, <1>1, <1>3, <1>16 DEF IsStale
    <3>2. QED
      BY <1>4, <1>7, <1>16, <3>1
  <2>7. Done(s, S[p])'
    BY <1>13, <1>16 DEF Done
  <2>8. \A q \in p .. p + 1 - 1 : q = p
    BY <1>1
  <2>9. p + 1 <= Len(S) + 1
    BY <1>1
  <2>10. QED
    BY <1>2, <1>11, <2>1, <2>4, <2>5, <2>6, <2>7, <2>8, <2>9
<1>17. CASE S[p].do = "want" /\ found
  <2>1. Continue(s, 1)
    BY <1>5, <1>7, <1>17
  <2>2. PICK f \in ToSet(FileTools) : /\ S[p] = Want(Row(f), 2) /\ p + 2 <= Len(S)
                                      /\ S[p + 1] = Look(VersionOf(f, "1.0.1"), 1)
    BY <1>1, <1>17, WantGoesOn
  <2>3. This(s)' = Look(VersionOf(f, "1.0.1"), 1)
    BY <1>12, <2>1, <2>2
  <2>4. This(s)'.do = "look" /\ This(s)'.of[2] = f
    BY <2>3, StepKinds, ItemKinds
  <2>5. db.row[f] # "none"
    <3>1. PICK name \in Rows : item = Row(name) /\ (found <=> db.row[name] = "live")
      BY <1>8, <1>17
    <3>2. item = Row(f)
      BY <1>0, <2>2, StepKinds
    <3>3. name = f
      <4>1. Row(name) = Row(f) /\ Row(name)[2] = name /\ Row(f)[2] = f
        BY <3>1, <3>2, ItemKinds
      <4>2. QED
        BY <4>1
    <3>4. QED
      BY <1>17, <3>1, <3>3
  <2>6. HasRow(s)' /\ Unmade(s)' /\ Uncounted(s)'
    BY <1>2, <2>4, <2>5 DEF HasRow, Unmade, Uncounted
  <2>7. Done(s, S[p])'
    BY <1>13, <1>17 DEF Done
  <2>8. \A q \in p .. p + 1 - 1 : q = p
    BY <1>1
  <2>9. p + 1 <= Len(S) + 1
    BY <1>1
  <2>10. QED
    BY <1>2, <1>11, <2>1, <2>6, <2>7, <2>8, <2>9
<1>18. CASE S[p].do = "want" /\ ~found
  <2>1. PICK f \in ToSet(FileTools) : /\ S[p] = Want(Row(f), 2) /\ p + 2 <= Len(S)
                                      /\ p + 3 <= Len(S) => Opens(S[p + 3])
    BY <1>1, <1>18, WantGoesOn
  <2>2. S[p].skip = 2
    BY <2>1, StepKinds
  <2>3. Continue(s, 3)
    BY <1>5, <1>7, <1>18, <2>2
  <2>4. HasRow(s)' /\ Unmade(s)' /\ Uncounted(s)'
    BY <1>12, <2>1, <2>3, OpenIsFine
  <2>5. "edit" \in since[s]
    BY <1>9, <1>18
  <2>6. p + 3 <= Len(S) + 1
    BY <1>1, <2>1
  <2>7. QED
    BY <1>2, <1>11, <2>3, <2>4, <2>5, <2>6
<1>19. QED
  BY <1>7, <1>6, <1>10, <1>14, <1>15, <1>16, <1>17, <1>18

ThereByKind ==
    /\ \A name : IsThere(Row(name)) <=> db.row[name] = "live"
    /\ IsThere(Member) <=> db.members > 0
    /\ \A t : IsThere(Grant(t)) <=> db.grants[t] > 0
    /\ \A f, v : IsThere(VersionOf(f, v)) <=> HasVersion(f, v)

(* What First finds after a step. *)
LEMMA ThereKindsNext ==
    /\ \A name : IsThere(Row(name))' <=> db'.row[name] = "live"
    /\ IsThere(Member)' <=> db'.members > 0
    /\ \A t : IsThere(Grant(t))' <=> db'.grants[t] > 0
    /\ \A f, v : IsThere(VersionOf(f, v))' <=> HasVersion(f, v)'
<1>1. ThereByKind
  BY ThereKinds DEF ThereByKind
<1>2. ThereByKind'
  BY <1>1, PTL
<1>3. QED
  BY <1>2 DEF ThereByKind

(* A database and its parts. *)
LEMMA DatabaseParts ==
    ASSUME NEW d \in Database
    PROVE  /\ d = [row |-> d.row, members |-> d.members, grants |-> d.grants,
                   versions |-> d.versions, gaps |-> d.gaps]
           /\ d.row \in [Rows -> {"none", "live", "deleted"}] /\ d.members \in Nat
           /\ d.grants \in [ToSet(Types) -> Nat]
           /\ d.versions \in [ToSet(FileTools) -> Seq(Versions)] /\ d.gaps \in SUBSET Backfills
  BY DEF Database

(* A database with one part replaced. *)
LEMMA OtherParts ==
    ASSUME NEW d \in Database, NEW row, NEW grants, NEW versions, NEW gaps
    PROVE  /\ [d EXCEPT !.row = row] = [row |-> row, members |-> d.members, grants |-> d.grants,
                                        versions |-> d.versions, gaps |-> d.gaps]
           /\ [d EXCEPT !.grants = grants] = [row |-> d.row, members |-> d.members, grants |-> grants,
                                              versions |-> d.versions, gaps |-> d.gaps]
           /\ [d EXCEPT !.versions = versions] = [row |-> d.row, members |-> d.members, grants |-> d.grants,
                                                  versions |-> versions, gaps |-> d.gaps]
           /\ [d EXCEPT !.gaps = gaps] = [row |-> d.row, members |-> d.members, grants |-> d.grants,
                                          versions |-> d.versions, gaps |-> gaps]
<1>1. [d EXCEPT !.row = row] = [row |-> row, members |-> d.members, grants |-> d.grants,
                                versions |-> d.versions, gaps |-> d.gaps]
  BY DEF Database
<1>2. [d EXCEPT !.grants = grants] = [row |-> d.row, members |-> d.members, grants |-> grants,
                                      versions |-> d.versions, gaps |-> d.gaps]
  BY DEF Database
<1>3. [d EXCEPT !.versions = versions] = [row |-> d.row, members |-> d.members, grants |-> d.grants,
                                          versions |-> versions, gaps |-> d.gaps]
  BY DEF Database
<1>4. [d EXCEPT !.gaps = gaps] = [row |-> d.row, members |-> d.members, grants |-> d.grants,
                                  versions |-> d.versions, gaps |-> gaps]
  BY DEF Database
<1>5. QED
  BY <1>1, <1>2, <1>3, <1>4

(* A statement that takes nothing away. *)
Grows ==
    /\ db' \in Database /\ VersionsFit(db)' /\ db'.gaps \subseteq db.gaps
    /\ \A f \in ToSet(FileTools) : db.row[f] # "none" => db'.row[f] # "none"
    /\ \A item \in Items : IsThere(item) => IsThere(item)'
    /\ fatal' = fatal => OnlyDeletedRowsStopIt'

(* What only adds rows, counts and versions takes nothing away. *)
LEMMA Growing ==
    ASSUME StartInv, db' \in Database, VersionsFit(db)', db'.gaps \subseteq db.gaps,
           \A name \in Rows : db'.row[name] = db.row[name]
                              \/ (db.row[name] = "none" /\ db'.row[name] = "live"),
           db'.members >= db.members, \A t \in ToSet(Types) : db'.grants[t] >= db.grants[t],
           \A f \in ToSet(FileTools) : \A i \in DOMAIN db.versions[f] :
               i \in DOMAIN db'.versions[f] /\ db'.versions[f][i] = db.versions[f][i]
    PROVE  Grows
<1>1. db \in Database
  BY DEF StartInv, StartType
<1>2. ASSUME NEW item \in Items, IsThere(item) PROVE IsThere(item)'
  <2>1. CASE \E name \in Rows : item = Row(name)
    BY <1>2, <2>1, ThereKinds, ThereKindsNext
  <2>2. CASE item = Member
    <3>1. db.members \in Nat /\ db'.members \in Nat
      BY <1>1 DEF Database
    <3>2. QED
      BY <1>2, <2>2, <3>1, ThereKinds, ThereKindsNext
  <2>3. CASE \E t \in ToSet(Types) : item = Grant(t)
    <3>1. PICK t \in ToSet(Types) : item = Grant(t)
      BY <2>3
    <3>2. db.grants[t] \in Nat /\ db'.grants[t] \in Nat
      BY <1>1 DEF Database
    <3>3. QED
      BY <1>2, <3>1, <3>2, ThereKinds, ThereKindsNext
  <2>4. CASE \E f \in ToSet(FileTools), v \in {"1.0.0", "1.0.1"} : item = VersionOf(f, v)
    <3>1. PICK f \in ToSet(FileTools), v \in {"1.0.0", "1.0.1"} : item = VersionOf(f, v)
      BY <2>4
    <3>2. HasVersion(f, v)
      BY <1>2, <3>1, ThereKinds
    <3>3. PICK i \in DOMAIN db.versions[f] : db.versions[f][i].live /\ db.versions[f][i].name = v
      BY <3>2 DEF HasVersion, ToSet
    <3>4. HasVersion(f, v)'
      BY <3>3 DEF HasVersion, ToSet
    <3>5. QED
      BY <3>1, <3>4, ThereKindsNext
  <2>5. QED
    BY <2>1, <2>2, <2>3, <2>4 DEF Items
<1>3. ASSUME fatal' = fatal PROVE OnlyDeletedRowsStopIt'
  <2> SUFFICES ASSUME fatal # {}
               PROVE  \/ \E name \in Rows : db'.row[name] = "deleted"
                      \/ \E f \in ToSet(FileTools) : \E i \in DOMAIN db'.versions[f] :
                             ~db'.versions[f][i].live
    BY <1>3 DEF OnlyDeletedRowsStopIt
  <2>1. CASE \E name \in Rows : db.row[name] = "deleted"
    BY <2>1
  <2>2. CASE \E f \in ToSet(FileTools) : \E i \in DOMAIN db.versions[f] : ~db.versions[f][i].live
    BY <2>2
  <2>3. QED
    BY <2>1, <2>2 DEF StartInv, OnlyDeletedRowsStopIt
<1>4. \A f \in ToSet(FileTools) : db.row[f] # "none" => db'.row[f] # "none"
  BY DEF Rows
<1>5. QED
  BY <1>2, <1>3, <1>4 DEF Grows

(* Creating a row whose name is free. *)
LEMMA WithRow ==
    ASSUME StartInv, NEW name \in Rows, db.row[name] = "none", db' = With(Row(name))
    PROVE  /\ Grows /\ IsThere(Row(name))' /\ (Once(db) => Once(db)')
           /\ db'.versions = db.versions
<1>1. db \in Database /\ VersionsFit(db)
  BY DEF StartInv, StartType
<1>2. db' = [db EXCEPT !.row[name] = "live"]
  <2> DEFINE item == Row(name)
  <2>1. item[1] = "row" /\ item[2] = name
    BY ItemKinds
  <2> HIDE DEF item
  <2>2. With(item) = [db EXCEPT !.row[name] = "live"]
    BY <2>1 DEF With
  <2>3. QED
    BY <2>2 DEF item
<1>3. /\ db' \in Database /\ db'.row = [db.row EXCEPT ![name] = "live"]
      /\ db'.members = db.members /\ db'.grants = db.grants
      /\ db'.versions = db.versions /\ db'.gaps = db.gaps
  <2>1. db' = [row |-> [db.row EXCEPT ![name] = "live"], members |-> db.members, grants |-> db.grants,
               versions |-> db.versions, gaps |-> db.gaps]
    BY <1>1, <1>2, DatabaseParts
  <2>2. [db.row EXCEPT ![name] = "live"] \in [Rows -> {"none", "live", "deleted"}]
    BY <1>1, DatabaseParts
  <2>3. QED
    BY <1>1, <2>1, <2>2, DatabaseParts DEF Database
<1>4. db.row \in [Rows -> {"none", "live", "deleted"}] /\ db.members \in Nat
      /\ db.grants \in [ToSet(Types) -> Nat]
  BY <1>1 DEF Database
<1>5. VersionsFit(db)'
  <2>1. \A f \in ToSet(FileTools) : db'.row[f] = "none" => db.row[f] = "none"
    BY <1>3, <1>4 DEF Rows
  <2>2. QED
    BY <1>1, <1>3, <2>1 DEF VersionsFit
<1>6. Grows
  <2>1. \A x \in Rows : db'.row[x] = db.row[x] \/ (db.row[x] = "none" /\ db'.row[x] = "live")
    BY <1>3, <1>4
  <2>2. db'.members >= db.members /\ \A t \in ToSet(Types) : db'.grants[t] >= db.grants[t]
    BY <1>3, <1>4
  <2>3. QED
    BY <1>3, <1>5, <2>1, <2>2, Growing
<1>7. IsThere(Row(name))'
  BY <1>3, <1>4, ThereKindsNext
<1>8. QED
  BY <1>3, <1>6, <1>7 DEF Once

(* Giving the admin the role. *)
LEMMA WithMember ==
    ASSUME StartInv, db' = With(Member)
    PROVE  Grows /\ IsThere(Member)' /\ (Once(db) /\ ~IsThere(Member) => Once(db)')
<1>1. db \in Database /\ VersionsFit(db)
  BY DEF StartInv, StartType
<1>2. db' = [db EXCEPT !.members = db.members + 1]
  BY ItemKinds DEF With
<1>3. db.members \in Nat /\ db.grants \in [ToSet(Types) -> Nat]
  BY <1>1 DEF Database
<1>4. /\ db' \in Database /\ db'.members = db.members + 1
      /\ db'.row = db.row /\ db'.grants = db.grants
      /\ db'.versions = db.versions /\ db'.gaps = db.gaps
  <2>1. db' = [row |-> db.row, members |-> db.members + 1, grants |-> db.grants,
               versions |-> db.versions, gaps |-> db.gaps]
    BY <1>1, <1>2, DatabaseParts
  <2>2. QED
    BY <1>1, <1>3, <2>1, DatabaseParts DEF Database
<1>5. VersionsFit(db)'
  BY <1>1, <1>4 DEF VersionsFit
<1>6. Grows
  <2>1. db'.members >= db.members /\ \A t \in ToSet(Types) : db'.grants[t] >= db.grants[t]
    BY <1>3, <1>4
  <2>2. QED
    BY <1>4, <1>5, <2>1, Growing
<1>7. IsThere(Member)'
  BY <1>3, <1>4, ThereKindsNext
<1>8. QED
  BY <1>3, <1>4, <1>6, <1>7, ThereKinds DEF Once

(* Granting the admin role a type. *)
LEMMA WithGrant ==
    ASSUME StartInv, NEW t \in ToSet(Types), db' = With(Grant(t))
    PROVE  Grows /\ IsThere(Grant(t))' /\ (Once(db) /\ ~IsThere(Grant(t)) => Once(db)')
<1>1. db \in Database /\ VersionsFit(db)
  BY DEF StartInv, StartType
<1>2. db' = [db EXCEPT !.grants[t] = db.grants[t] + 1]
  <2> DEFINE item == Grant(t)
  <2>1. item[1] = "grant" /\ item[2] = t
    BY ItemKinds
  <2> HIDE DEF item
  <2>2. With(item) = [db EXCEPT !.grants[t] = db.grants[t] + 1]
    BY <2>1 DEF With
  <2>3. QED
    BY <2>2 DEF item
<1>3. db.members \in Nat /\ db.grants \in [ToSet(Types) -> Nat]
  BY <1>1 DEF Database
<1>4. /\ db' \in Database /\ db'.grants = [db.grants EXCEPT ![t] = db.grants[t] + 1]
      /\ db'.row = db.row /\ db'.members = db.members
      /\ db'.versions = db.versions /\ db'.gaps = db.gaps
  <2>1. db' = [row |-> db.row, members |-> db.members, grants |-> [db.grants EXCEPT ![t] = db.grants[t] + 1],
               versions |-> db.versions, gaps |-> db.gaps]
    BY <1>1, <1>2, DatabaseParts
  <2>2. [db.grants EXCEPT ![t] = db.grants[t] + 1] \in [ToSet(Types) -> Nat]
    BY <1>3
  <2>3. QED
    BY <1>1, <2>1, <2>2, DatabaseParts DEF Database
<1>5. VersionsFit(db)'
  BY <1>1, <1>4 DEF VersionsFit
<1>6. Grows
  <2>1. db'.members >= db.members /\ \A u \in ToSet(Types) : db'.grants[u] >= db.grants[u]
    BY <1>3, <1>4
  <2>2. QED
    BY <1>4, <1>5, <2>1, Growing
<1>7. IsThere(Grant(t))'
  BY <1>3, <1>4, ThereKindsNext
<1>8. QED
  BY <1>3, <1>4, <1>6, <1>7, ThereKinds DEF Once

(* Creating a version of a tool that is there. *)
LEMMA WithVersion ==
    ASSUME StartInv, NEW f \in ToSet(FileTools), NEW v \in {"1.0.0", "1.0.1"}, db.row[f] # "none",
           db' = With(VersionOf(f, v))
    PROVE  Grows /\ IsThere(VersionOf(f, v))' /\ (Once(db) => Once(db)')
<1> DEFINE new == Version(v, "fixed")
<1>1. db \in Database /\ VersionsFit(db)
  BY DEF StartInv, StartType
<1>2. db' = [db EXCEPT !.versions[f] = Append(db.versions[f], new)]
  <2> DEFINE item == VersionOf(f, v)
  <2>1. item[1] = "version" /\ item[2] = f /\ item[3] = v
    BY ItemKinds
  <2> HIDE DEF item
  <2>2. With(item) = [db EXCEPT !.versions[f] = Append(db.versions[f], new)]
    BY <2>1 DEF With
  <2>3. QED
    BY <2>2 DEF item
<1>3. new \in Versions /\ new.live /\ new.name = v /\ new.source = "fixed"
  BY DEF Version, Versions, Releases
<1> HIDE DEF new
<1>4. /\ db.members \in Nat /\ db.grants \in [ToSet(Types) -> Nat]
      /\ db.versions \in [ToSet(FileTools) -> Seq(Versions)]
  BY <1>1 DEF Database
<1>5. /\ Append(db.versions[f], new) \in Seq(Versions)
      /\ DOMAIN db.versions[f] = 1 .. Len(db.versions[f]) /\ Len(db.versions[f]) \in Nat
      /\ DOMAIN Append(db.versions[f], new) = 1 .. Len(db.versions[f]) + 1
      /\ Append(db.versions[f], new)[Len(db.versions[f]) + 1] = new
      /\ \A i \in 1 .. Len(db.versions[f]) : Append(db.versions[f], new)[i] = db.versions[f][i]
  BY <1>3, <1>4
<1>6. /\ db' \in Database /\ db'.versions = [db.versions EXCEPT ![f] = Append(db.versions[f], new)]
      /\ db'.row = db.row /\ db'.members = db.members /\ db'.grants = db.grants /\ db'.gaps = db.gaps
  <2>1. db' = [row |-> db.row, members |-> db.members, grants |-> db.grants,
               versions |-> [db.versions EXCEPT ![f] = Append(db.versions[f], new)], gaps |-> db.gaps]
    BY <1>1, <1>2, DatabaseParts
  <2>2. [db.versions EXCEPT ![f] = Append(db.versions[f], new)] \in [ToSet(FileTools) -> Seq(Versions)]
    BY <1>4, <1>5
  <2>3. QED
    BY <1>1, <2>1, <2>2, DatabaseParts DEF Database
<1>7. db'.versions[f] = Append(db.versions[f], new)
      /\ \A g \in ToSet(FileTools) : g # f => db'.versions[g] = db.versions[g]
  BY <1>4, <1>6
<1>8. VersionsFit(db)'
  <2> SUFFICES ASSUME NEW g \in ToSet(FileTools)
               PROVE  /\ db'.row[g] = "none" => db'.versions[g] = <<>>
                      /\ \A i \in DOMAIN db'.versions[g] : db'.versions[g][i].source = "faulty" =>
                             i = 1 /\ db'.versions[g][i].name = "1.0.0"
    BY DEF VersionsFit
  <2>1. CASE g # f
    BY <1>1, <1>6, <1>7, <2>1 DEF VersionsFit
  <2>2. CASE g = f
    <3>1. \A i \in DOMAIN db'.versions[f] : db'.versions[f][i].source = "faulty" =>
              i \in 1 .. Len(db.versions[f]) /\ db'.versions[f][i] = db.versions[f][i]
      BY <1>3, <1>5, <1>7
    <3>2. QED
      BY <1>1, <1>5, <1>6, <2>2, <3>1 DEF VersionsFit
  <2>3. QED
    BY <2>1, <2>2
<1>9. Grows
  <2>1. db'.members >= db.members /\ \A t \in ToSet(Types) : db'.grants[t] >= db.grants[t]
    BY <1>4, <1>6
  <2>2. ASSUME NEW g \in ToSet(FileTools), NEW i \in DOMAIN db.versions[g]
        PROVE  i \in DOMAIN db'.versions[g] /\ db'.versions[g][i] = db.versions[g][i]
    BY <1>5, <1>7
  <2>3. QED
    BY <1>6, <1>8, <2>1, <2>2, Growing
<1>10. IsThere(VersionOf(f, v))'
  <2>1. \E i \in DOMAIN db'.versions[f] : db'.versions[f][i] = new
    BY <1>5, <1>7
  <2>2. HasVersion(f, v)'
    BY <1>3, <2>1 DEF HasVersion, ToSet
  <2>3. QED
    BY <2>2, ThereKindsNext
<1>11. QED
  BY <1>6, <1>9, <1>10 DEF Once

(* A create that its index refuses is one of something deleted. *)
LEMMA RefusedIsDeleted ==
    ASSUME StartInv, NEW s \in Processes, Starting(s), This(s).do = "create", IsTaken(This(s).of),
           since[s] = {}
    PROVE  \/ \E name \in Rows : db.row[name] = "deleted"
           \/ \E f \in ToSet(FileTools) : \E i \in DOMAIN db.versions[f] : ~db.versions[f][i].live
<1> DEFINE item == This(s).of
<1>1. db \in Database /\ item \in Items /\ Unmade(s)
  BY ItsProgram, StepForms DEF StartInv, StartType, Undisturbed
<1>2. CASE \E name \in Rows : item = Row(name)
  <2>1. PICK name \in Rows : item = Row(name)
    BY <1>2
  <2>2. item[1] = "row" /\ item[2] = name
    BY <2>1, ItemKinds
  <2> HIDE DEF item
  <2>3. db.row[name] # "none"
    BY <2>2 DEF IsTaken, item
  <2>4. ~IsThere(item)
    BY <1>1, <2>2 DEF Unmade, item
  <2>5. db.row[name] # "live"
    BY <2>1, <2>4, ThereKinds
  <2>6. db.row[name] \in {"none", "live", "deleted"}
    BY <1>1, DatabaseParts
  <2>7. QED
    BY <2>3, <2>5, <2>6
<1>3. CASE item = Member
  BY <1>3, ItemKinds DEF IsTaken
<1>4. CASE \E t \in ToSet(Types) : item = Grant(t)
  <2>1. item[1] = "grant"
    BY <1>4, ItemKinds
  <2>2. QED
    BY <2>1 DEF IsTaken
<1>5. CASE \E f \in ToSet(FileTools), v \in {"1.0.0", "1.0.1"} : item = VersionOf(f, v)
  <2>1. PICK f \in ToSet(FileTools), v \in {"1.0.0", "1.0.1"} : item = VersionOf(f, v)
    BY <1>5
  <2>2. item[1] = "version" /\ item[2] = f /\ item[3] = v
    BY <2>1, ItemKinds
  <2> HIDE DEF item
  <2>3. \E i \in DOMAIN db.versions[f] : db.versions[f][i].name = v
    BY <2>2 DEF IsTaken, ToSet, item
  <2>4. PICK i \in DOMAIN db.versions[f] : db.versions[f][i].name = v
    BY <2>3
  <2>5. db.versions[f] # <<>>
    <3>1. DOMAIN db.versions[f] = 1 .. Len(db.versions[f])
      BY <1>1, DatabaseParts
    <3>2. QED
      BY <2>4, <3>1
  <2>6. ~IsThere(item)
    BY <1>1, <2>2, <2>5 DEF Unmade, item
  <2>7. ~HasVersion(f, v)
    BY <2>1, <2>6, ThereKinds
  <2>8. ~db.versions[f][i].live
    BY <2>4, <2>7 DEF HasVersion, ToSet
  <2>9. QED
    BY <2>8
<1>6. QED
  BY <1>1, <1>2, <1>3, <1>4, <1>5 DEF Items

(* A create keeps what is known of starts. *)
LEMMA InsertStep ==
    ASSUME StartInv, NEW s \in Processes, Insert(s), UNCHANGED <<gen, since, overlapped>>
    PROVE  StartInv'
<1>0. PICK S, p, item : S = Program(order[s]) /\ p = at[s] /\ item = S[p].of
  OBVIOUS
<1> PICK n \in 1 .. 3 : n = 1
  OBVIOUS
<1>1. /\ StartType /\ Sound(S, {}) /\ S \in Seq(Steps) /\ p \in 1 .. Len(S) /\ Len(S) \in Nat
      /\ Starting(s) /\ This(s) = S[p] /\ S[p] \in Steps /\ S[p].do = "create"
      /\ S[p] = Create(item) /\ item \in Items
  BY <1>0, ItsProgram, StepForms DEF StartInv, Insert, Starting, This
<1>2. /\ UNCHANGED <<order, role, deleting>>
      /\ IF IsTaken(item) THEN Fatal(s) /\ UNCHANGED db
         ELSE Continue(s, 1) /\ db' = IF IsStale(s) THEN db ELSE With(item)
  BY <1>0, <1>1 DEF Insert
<1>3. role' = role /\ role \in [Processes -> Nat] /\ role'[s] \in {role[s], gen}
  BY <1>1, <1>2 DEF StartType
<1>4. CASE IsTaken(item)
  <2>1. at' = [at EXCEPT ![s] = Off] /\ (since[s] # {} => fatal' = fatal)
        /\ fatal' \subseteq Processes /\ db' = db
    BY <1>1, <1>2, <1>4 DEF Fatal, StartType
  <2>2. OnlyDeletedRowsStopIt'
    <3>1. CASE since[s] = {}
      <4>1. \/ \E name \in Rows : db.row[name] = "deleted"
            \/ \E f \in ToSet(FileTools) : \E i \in DOMAIN db.versions[f] : ~db.versions[f][i].live
        BY <1>0, <1>1, <1>4, <3>1, RefusedIsDeleted
      <4>2. QED
        BY <2>1, <4>1 DEF OnlyDeletedRowsStopIt
    <3>2. CASE since[s] # {}
      BY <2>1, <3>2 DEF StartInv, OnlyDeletedRowsStopIt
    <3>3. QED
      BY <3>1, <3>2
  <2>3. UNCHANGED <<db, gen, order, since, overlapped>> /\ deleting' \subseteq deleting
    BY <1>2, <2>1
  <2>4. QED
    BY <1>3, <2>1, <2>2, <2>3, Ending
<1>5. CASE ~IsTaken(item)
  <2>1. /\ at' = [at EXCEPT ![s] = at[s] + n] /\ fatal' = fatal
        /\ db' = IF IsStale(s) THEN db ELSE With(item)
    BY <1>2, <1>5 DEF Continue
  <2>2. (Starting(s)' <=> p + n <= Len(S)) /\ This(s)' = S[p + n]
    BY <1>0, <1>1, <1>2, <2>1, ComesTo
  <2>3. p + 1 <= Len(S) =>
            \/ Opens(S[p + 1])
            \/ \E f \in ToSet(FileTools) : S[p] = Create(Row(f)) /\ S[p + 1] = Create(VersionOf(f, "1.0.0"))
    BY <1>1, OthersGoOn
  <2>4. item[1] # "row" => HasRow(s)' /\ Unmade(s)' /\ Uncounted(s)'
    <3> SUFFICES ASSUME item[1] # "row" PROVE Starting(s)' => Opens(This(s)')
      BY OpenIsFine
    <3>1. ASSUME NEW f, S[p] = Create(Row(f)) PROVE FALSE
      <4>1. item = Row(f)
        BY <1>1, <3>1, CreateSame
      <4>2. QED
        BY <4>1, ItemKinds
    <3>2. QED
      BY <2>2, <2>3, <3>1
  <2>5. UNCHANGED <<gen, order, deleting, since, overlapped, fatal>>
    BY <1>2, <2>1
  <2>6. at[s] + n <= Len(Program(order[s])) + 1 /\ \A q \in at[s] .. at[s] + n - 1 : q = p
    BY <1>0, <1>1
  <2>7. IsStale(s) => item[1] \in {"member", "grant"}
    BY <1>0, <1>1 DEF IsStale
  <2>8. CASE IsStale(s)
    <3>1. db' = db /\ UNCHANGED <<db, gen, order, deleting, since, overlapped, fatal>>
      BY <2>1, <2>5, <2>8
    <3>2. "edit" \in since[s]
      BY <1>1, <2>8, NotStale
    <3>3. HasRow(s)' /\ Unmade(s)' /\ Uncounted(s)'
      BY <2>4, <2>7, <2>8
    <3>4. QED
      BY <1>1, <1>3, <2>1, <2>6, <3>1, <3>2, <3>3, QuietAdvance
  <2>9. CASE ~IsStale(s)
    <3>1. db' = With(item)
      BY <2>1, <2>9
    <3>2. ASSUME Grows, IsThere(item)', ~overlapped => Once(db)' /\ Uncounted(s)',
                 HasRow(s)', Unmade(s)'
          PROVE  StartInv'
      <4>1. /\ db' \in Database /\ VersionsFit(db)' /\ OnlyDeletedRowsStopIt' /\ db'.gaps \subseteq db.gaps
            /\ \A f \in ToSet(FileTools) : db.row[f] # "none" => db'.row[f] # "none"
            /\ \A x \in Items : IsThere(x) => IsThere(x)'
        BY <2>1, <3>2 DEF Grows
      <4>2. Done(s, S[p])'
        BY <1>1, <3>2, StepKinds DEF Done
      <4>3. \A q \in at[s] .. at[s] + n - 1 : Done(s, Program(order[s])[q])'
        BY <1>0, <1>2, <2>6, <4>2
      <4>4. QED
        BY <1>1, <1>3, <2>1, <2>5, <2>6, <3>2, <4>1, <4>3, Advance
    <3>3. ~overlapped => Once(db)
      BY DEF StartInv, CountedOnce
    <3>4. ASSUME ~overlapped, item[1] \in {"member", "grant"} PROVE ~IsThere(item)
      <4>1. Uncounted(s) /\ role[s] = gen
        BY <1>0, <1>1, <2>9, <3>4 DEF StartInv, CountedOnce, IsStale
      <4>2. QED
        BY <1>0, <1>1, <3>4, <4>1 DEF Uncounted
    <3>5. CASE \E name \in Rows : item = Row(name)
      <4>1. PICK name \in Rows : item = Row(name)
        BY <3>5
      <4>2. item[1] = "row" /\ item[2] = name
        BY <4>1, ItemKinds
      <4>3. db.row[name] = "none"
        BY <1>5, <4>2 DEF IsTaken
      <4>4. /\ Grows /\ IsThere(item)' /\ (Once(db) => Once(db)') /\ db'.versions = db.versions
        BY <3>1, <4>1, <4>3, WithRow
      <4>5. HasRow(s)' /\ Unmade(s)' /\ Uncounted(s)'
        <5>1. CASE Starting(s)' => Opens(This(s)')
          BY <5>1, OpenIsFine
        <5>2. ASSUME NEW f \in ToSet(FileTools), S[p] = Create(Row(f)), S[p + 1] = Create(VersionOf(f, "1.0.0"))
              PROVE  HasRow(s)' /\ Unmade(s)' /\ Uncounted(s)'
          <6>1. item = Row(f)
            BY <1>1, <5>2, CreateSame
          <6>2. name = f
            BY <4>2, <6>1, ItemKinds
          <6>3. db'.row[f] = "live"
            BY <4>1, <4>4, <6>2, ThereKindsNext
          <6>4. db'.versions[f] = <<>>
            BY <4>3, <4>4, <5>2, <6>2 DEF StartInv, VersionsFit
          <6>5. /\ This(s)'.do = "create" /\ This(s)'.of[1] = "version"
                /\ This(s)'.of[2] = f /\ This(s)'.of[3] = "1.0.0"
            BY <2>2, <5>2, StepKinds, ItemKinds
          <6>6. QED
            BY <6>3, <6>4, <6>5 DEF HasRow, Unmade, Uncounted
        <5>3. QED
          BY <2>2, <2>3, <5>1, <5>2
      <4>6. QED
        BY <3>2, <3>3, <4>4, <4>5
    <3>6. CASE item = Member
      <4>1. item[1] = "member"
        BY <3>6, ItemKinds
      <4>2. Grows /\ IsThere(item)' /\ (Once(db) /\ ~IsThere(item) => Once(db)')
        BY <3>1, <3>6, WithMember
      <4>3. QED
        BY <2>4, <3>2, <3>3, <3>4, <4>1, <4>2
    <3>7. CASE \E t \in ToSet(Types) : item = Grant(t)
      <4>1. item[1] = "grant"
        BY <3>7, ItemKinds
      <4>2. Grows /\ IsThere(item)' /\ (Once(db) /\ ~IsThere(item) => Once(db)')
        BY <3>1, <3>7, WithGrant
      <4>3. QED
        BY <2>4, <3>2, <3>3, <3>4, <4>1, <4>2
    <3>8. CASE \E f \in ToSet(FileTools), v \in {"1.0.0", "1.0.1"} : item = VersionOf(f, v)
      <4>1. PICK f \in ToSet(FileTools), v \in {"1.0.0", "1.0.1"} : item = VersionOf(f, v)
        BY <3>8
      <4>2. item[1] = "version" /\ item[2] = f
        BY <4>1, ItemKinds
      <4>3. db.row[f] # "none"
        BY <1>0, <1>1, <4>2 DEF StartInv, HasRow
      <4>4. Grows /\ IsThere(item)' /\ (Once(db) => Once(db)')
        BY <3>1, <4>1, <4>3, WithVersion
      <4>5. QED
        BY <2>4, <3>2, <3>3, <4>2, <4>4
    <3>9. QED
      BY <1>1, <3>5, <3>6, <3>7, <3>8 DEF Items
  <2>10. QED
    BY <2>8, <2>9
<1>6. QED
  BY <1>4, <1>5

(* A statement that fills a gap keeps it. *)
LEMMA ExecuteStep ==
    ASSUME StartInv, NEW s \in Processes, Execute(s), UNCHANGED <<gen, since, overlapped>>
    PROVE  StartInv'
<1>0. PICK S, p, gap : S = Program(order[s]) /\ p = at[s] /\ gap = S[p].of[1]
  OBVIOUS
<1> PICK n \in 1 .. 3 : n = 1
  OBVIOUS
<1>1. /\ StartType /\ Sound(S, {}) /\ S \in Seq(Steps) /\ p \in 1 .. Len(S) /\ Len(S) \in Nat
      /\ Starting(s) /\ This(s) = S[p] /\ S[p].do = "exec"
  BY <1>0, ItsProgram DEF StartInv, Execute, Starting, This
<1>2. /\ UNCHANGED <<order, role, deleting>>
      /\ \/ Continue(s, 1) /\ db' = [db EXCEPT !.gaps = db.gaps \ {gap}]
         \/ (\E q \in Processes \ {s} : Starting(q)) /\ Fatal(s) /\ UNCHANGED db
  BY <1>0, <1>1 DEF Execute
<1>3. role' = role /\ role \in [Processes -> Nat] /\ role'[s] \in {role[s], gen}
  BY <1>1, <1>2 DEF StartType
<1>4. CASE Continue(s, 1) /\ db' = [db EXCEPT !.gaps = db.gaps \ {gap}]
  <2>1. at' = [at EXCEPT ![s] = at[s] + n] /\ fatal' = fatal
    BY <1>4 DEF Continue
  <2>2. (Starting(s)' <=> p + n <= Len(S)) /\ This(s)' = S[p + n]
    BY <1>0, <1>1, <1>2, <2>1, ComesTo
  <2>3. HasRow(s)' /\ Unmade(s)' /\ Uncounted(s)'
    <3>1. p + n <= Len(S) => Opens(S[p + n])
      BY <1>1, OthersGoOn
    <3>2. QED
      BY <2>2, <3>1, OpenIsFine
  <2>4. db \in Database /\ VersionsFit(db)
    BY DEF StartInv, StartType
  <2>5. /\ db' \in Database /\ db'.gaps = db.gaps \ {gap} /\ db'.row = db.row
        /\ db'.members = db.members /\ db'.grants = db.grants /\ db'.versions = db.versions
    <3> PICK left : left = db.gaps \ {gap}
      OBVIOUS
    <3>1. db' = [row |-> db.row, members |-> db.members, grants |-> db.grants,
                 versions |-> db.versions, gaps |-> left]
      <4>1. db' = [db EXCEPT !.gaps = left]
        BY <1>4
      <4>2. QED
        BY <2>4, <4>1, OtherParts
    <3>2. left \in SUBSET Backfills
      BY <2>4, DatabaseParts
    <3>3. QED
      BY <2>4, <3>1, <3>2, DatabaseParts DEF Database
  <2>6. Grows
    <3>1. VersionsFit(db)'
      BY <2>4, <2>5 DEF VersionsFit
    <3>2. db'.members >= db.members /\ \A t \in ToSet(Types) : db'.grants[t] >= db.grants[t]
      BY <2>4, <2>5 DEF Database
    <3>3. QED
      BY <2>5, <3>1, <3>2, Growing
  <2>7. /\ VersionsFit(db)' /\ OnlyDeletedRowsStopIt' /\ db'.gaps \subseteq db.gaps
        /\ \A f \in ToSet(FileTools) : db.row[f] # "none" => db'.row[f] # "none"
        /\ \A x \in Items : IsThere(x) => IsThere(x)'
    BY <2>1, <2>6 DEF Grows
  <2>8. ~overlapped => Once(db)'
    BY <2>5 DEF StartInv, CountedOnce, Once
  <2>9. Done(s, S[p])'
    <3>1. S[p] # Need(Row(AdminRole))
      BY <1>1, StepKinds
    <3>2. QED
      BY <1>0, <1>1, <2>5, <3>1 DEF Done
  <2>10. at[s] + n <= Len(Program(order[s])) + 1
         /\ \A q \in at[s] .. at[s] + n - 1 : Done(s, Program(order[s])[q])'
    <3>1. \A q \in at[s] .. at[s] + n - 1 : q = p
      BY <1>0, <1>1
    <3>2. QED
      BY <1>0, <1>1, <1>2, <2>9, <3>1
  <2>11. UNCHANGED <<gen, order, deleting, since, overlapped, fatal>>
    BY <1>2, <2>1
  <2>12. QED
    BY <1>1, <1>3, <2>1, <2>3, <2>5, <2>7, <2>8, <2>10, <2>11, Advance
<1>5. CASE (\E q \in Processes \ {s} : Starting(q)) /\ Fatal(s) /\ UNCHANGED db
  <2>1. since[s] # {}
    BY <1>1, <1>5 DEF StartInv, Undisturbed
  <2>2. at' = [at EXCEPT ![s] = Off] /\ fatal' = fatal
    BY <1>5, <2>1 DEF Fatal
  <2>3. fatal' \subseteq Processes /\ OnlyDeletedRowsStopIt'
    BY <1>1, <1>5, <2>2 DEF StartInv, StartType, OnlyDeletedRowsStopIt
  <2>4. UNCHANGED <<db, gen, order, since, overlapped>> /\ deleting' \subseteq deleting
    BY <1>2, <1>5
  <2>5. QED
    BY <1>3, <2>2, <2>3, <2>4, Ending
<1>6. QED
  BY <1>2, <1>4, <1>5

(* So does a kill. *)
LEMMA KillStep ==
    ASSUME StartInv, NEW s \in Processes, Kill(s), UNCHANGED <<gen, starts, edits>>
    PROVE  StartInv'
<1>1. /\ at' = [at EXCEPT ![s] = Off] /\ deleting' = {d \in deleting : d.by # s}
      /\ UNCHANGED <<db, order, role, since, overlapped, fatal>>
  BY DEF Kill, past
<1>2. deleting' \subseteq deleting /\ UNCHANGED <<db, gen, order, since, overlapped>>
  BY <1>1
<1>3. fatal' \subseteq Processes /\ OnlyDeletedRowsStopIt'
  BY <1>1 DEF StartInv, StartType, OnlyDeletedRowsStopIt
<1>4. role' = role /\ role \in [Processes -> Nat]
  BY <1>1 DEF StartInv, StartType
<1>5. QED
  BY <1>1, <1>2, <1>3, <1>4, Ending

(* A start begins with a statement of its own. *)
LEMMA FirstOpens ==
    ASSUME NEW S, Sound(S, {}), 1 \in 1 .. Len(S)
    PROVE  Opens(S[1])
<1>1. Fits(S, 1, {} \cup Earlier(S, 1))
  BY DEF Sound
<1>2. S[1].do # "create"
  BY <1>1 DEF Fits, Creates
<1>3. ~(S[1].do = "look" /\ S[1].of[1] = "version")
  BY <1>1 DEF Fits, LooksFor
<1>4. QED
  BY <1>2, <1>3 DEF Opens

(* So does another start. *)
LEMMA StartStep ==
    ASSUME StartInv, NEW s \in Processes, Start(s), UNCHANGED <<gen, edits>>
    PROVE  StartInv'
<1>1. StartType
  BY DEF StartInv
<1>2. PICK others, tools :
          /\ others = {q \in Processes : Starting(q)}
          /\ tools \in [DOMAIN FileTools -> ToSet(FileTools)] /\ ToSet(tools) = ToSet(FileTools)
          /\ order' = [order EXCEPT ![s] = tools]
  BY DEF Start
<1>3. /\ at[s] = Off /\ at' = [at EXCEPT ![s] = 1]
      /\ since' = [q \in Processes |-> IF q = s THEN IF others = {} THEN {} ELSE {"start"}
                                   ELSE IF q \in others THEN since[q] \cup {"start"} ELSE since[q]]
      /\ overlapped' = (overlapped \/ others # {})
      /\ fatal' = fatal \ {s}
      /\ UNCHANGED <<db, role, deleting, gen>>
  BY <1>2 DEF Start
<1>4. tools \in Orders
  <2>1. FileTools \in Seq(ToSet(FileTools))
    BY StartupAssumption
  <2>2. DOMAIN FileTools = 1 .. Len(FileTools) /\ Len(FileTools) \in Nat
    BY <2>1
  <2>3. tools \in Seq(ToSet(FileTools))
    BY <1>2, <2>2
  <2>4. QED
    BY <1>2, <2>3 DEF Orders
<1>5. order' \in [Processes -> Orders]
  BY <1>1, <1>2, <1>4 DEF StartType
<1>6. /\ at'[s] = 1 /\ order'[s] = tools
      /\ \A q \in Processes : q # s => at'[q] = at[q] /\ order'[q] = order[q]
  BY <1>1, <1>2, <1>3 DEF StartType
<1>7. Sound(Program(tools), {}) /\ Everything \subseteq ToSet(Program(tools))
  BY <1>4, ProgramSound
<1>8. Program(tools) \in Seq(Steps) /\ Len(Program(tools)) \in Nat /\ DOMAIN Program(tools) = 1 .. Len(Program(tools))
  BY <1>7 DEF Sound
<1>9. StartType'
  <2>1. at' \in [Processes -> Nat]
    BY <1>1, <1>3 DEF StartType
  <2>2. ASSUME NEW q \in Processes PROVE at'[q] <= Len(Program(order'[q])) + 1
    <3>1. CASE q = s
      BY <1>6, <1>8, <3>1
    <3>2. CASE q # s
      BY <1>1, <1>6, <3>2 DEF StartType
    <3>3. QED
      BY <3>1, <3>2
  <2>3. since' \in [Processes -> SUBSET {"start", "edit"}]
    <3>1. \A q \in Processes : since[q] \in SUBSET {"start", "edit"}
      BY <1>1 DEF StartType
    <3>2. QED
      BY <1>3, <3>1
  <2>4. overlapped' \in BOOLEAN /\ fatal' \subseteq Processes
    BY <1>1, <1>3 DEF StartType
  <2>5. QED
    BY <1>1, <1>3, <1>5, <2>1, <2>2, <2>3, <2>4 DEF StartType
<1>10. ASSUME NEW q \in Processes, q # s
       PROVE  (Starting(q)' <=> Starting(q)) /\ This(q)' = This(q)
  BY <1>6, <1>10 DEF Starting, This
<1>11. ~Starting(s)
  BY <1>1, <1>3, ItsProgram DEF Starting, Off
<1>12. HasRow(s)' /\ Unmade(s)' /\ Uncounted(s)'
  <2>1. Starting(s)' => Opens(This(s)')
    BY <1>6, <1>7, <1>8, FirstOpens DEF Starting, This
  <2>2. QED
    BY <2>1, OpenIsFine
<1>13. \A x : IsThere(x)' <=> IsThere(x)
  BY <1>3, ThereSame
<1>14. ASSUME NEW q \in Processes PROVE HasRow(q)'
  BY <1>3, <1>10, <1>12 DEF StartInv, HasRow
<1>15. ASSUME NEW q \in Processes PROVE PassedIsDone(q)'
  <2>1. CASE q = s
    BY <1>6, <2>1 DEF PassedIsDone
  <2>2. CASE q # s
    <3>1. PassedIsDone(q)
      BY DEF StartInv
    <3>2. since[q] \subseteq since'[q]
      BY <1>3, <2>2
    <3>3. QED
      BY <1>3, <1>6, <1>13, <2>2, <3>1, <3>2 DEF PassedIsDone, Done
  <2>3. QED
    BY <2>1, <2>2
<1>16. ASSUME NEW q \in Processes PROVE Undisturbed(q)'
  <2> SUFFICES ASSUME since'[q] = {}
               PROVE  Unmade(q)' /\ (Starting(q)' => \A r \in Processes : Starting(r)' => r = q)
    BY DEF Undisturbed
  <2>1. CASE q = s
    <3>1. others = {}
      BY <1>3, <2>1
    <3>2. QED
      BY <1>2, <1>10, <1>12, <2>1, <3>1
  <2>2. CASE q # s
    <3>1. q \notin others
      BY <1>3, <2>2
    <3>2. ~Starting(q)
      BY <1>2, <3>1
    <3>3. QED
      BY <1>10, <2>2, <3>2 DEF Unmade
  <2>3. QED
    BY <2>1, <2>2
<1>17. CountedOnce'
  <2> SUFFICES ASSUME ~overlapped'
               PROVE  /\ Once(db)' /\ \A r, q \in Processes : Starting(r)' /\ Starting(q)' => r = q
                      /\ \A q \in Processes : Uncounted(q)'
    BY DEF CountedOnce
  <2>1. ~overlapped /\ others = {}
    BY <1>1, <1>3 DEF StartType
  <2>2. \A q \in Processes : Starting(q)' => q = s
    BY <1>2, <1>10, <2>1
  <2>3. Once(db)'
    BY <1>3, <2>1 DEF StartInv, CountedOnce, Once
  <2>4. \A q \in Processes : Uncounted(q)'
    BY <1>12, <2>2 DEF Uncounted
  <2>5. QED
    BY <2>2, <2>3, <2>4
<1>18. VersionsFit(db)' /\ OnlyDeletedRowsStopIt'
  BY <1>3 DEF StartInv, VersionsFit, OnlyDeletedRowsStopIt
<1>19. QED
  BY <1>9, <1>14, <1>15, <1>16, <1>17, <1>18 DEF StartInv

(* A step of users: it disturbs every start, and what starts are about stays as it is. *)
LEMMA Disturbed ==
    ASSUME StartInv, Disturb, UNCHANGED <<at, order, role, overlapped, fatal>>,
           db' \in Database, VersionsFit(db)', gen' \in {gen, gen + 1},
           deleting' \subseteq [tool : ToSet(FileTools), by : Processes],
           \A f \in ToSet(FileTools) : db'.row[f] = "none" => db.row[f] = "none",
           \A name \in Rows : db.row[name] = "deleted" => db'.row[name] = "deleted",
           \A f \in ToSet(FileTools) : \A i \in DOMAIN db.versions[f] :
               ~db.versions[f][i].live => i \in DOMAIN db'.versions[f] /\ ~db'.versions[f][i].live,
           db'.members <= db.members, \A t \in ToSet(Types) : db'.grants[t] <= db.grants[t]
    PROVE  StartInv'
<1>1. StartType /\ db \in Database
  BY DEF StartInv, StartType
<1>2. \A s \in Processes : "edit" \in since'[s]
  BY DEF Disturb
<1>3. StartType'
  <2>1. gen' \in Nat /\ \A s \in Processes : role'[s] <= gen'
    <3>1. gen \in Nat /\ role' = role /\ \A s \in Processes : role[s] \in Nat /\ role[s] <= gen
      BY <1>1 DEF StartType
    <3>2. QED
      BY <3>1
  <2>2. since' \in [Processes -> SUBSET {"start", "edit"}]
    <3>1. \A q \in Processes : since[q] \in SUBSET {"start", "edit"}
      BY <1>1 DEF StartType
    <3>2. QED
      BY <3>1 DEF Disturb
  <2>3. QED
    BY <1>1, <2>1, <2>2 DEF StartType
<1>4. ASSUME NEW s \in Processes PROVE (Starting(s)' <=> Starting(s)) /\ This(s)' = This(s)
  BY DEF Starting, This
<1>5. ASSUME NEW s \in Processes PROVE HasRow(s)'
  <2> SUFFICES ASSUME Starting(s), This(s).do \in {"look", "create"}, This(s).of[1] = "version"
               PROVE  db'.row[This(s).of[2]] # "none"
    BY <1>4 DEF HasRow
  <2>1. db.row[This(s).of[2]] # "none"
    BY DEF StartInv, HasRow
  <2>2. This(s) \in Steps
    BY <1>1, ItsProgram
  <2>3. This(s).of \in Items
    BY <2>2, StepForms
  <2>4. This(s).of[2] \in ToSet(FileTools)
    BY <2>3, ItemKinds DEF Items
  <2>5. QED
    BY <2>1, <2>4
<1>6. ASSUME NEW s \in Processes PROVE PassedIsDone(s)' /\ Undisturbed(s)'
  BY <1>2 DEF PassedIsDone, Undisturbed
<1>7. CountedOnce'
  <2> SUFFICES ASSUME ~overlapped
               PROVE  /\ Once(db)' /\ \A r, q \in Processes : Starting(r)' /\ Starting(q)' => r = q
                      /\ \A q \in Processes : Uncounted(q)'
    BY DEF CountedOnce
  <2>1. /\ Once(db) /\ \A r, q \in Processes : Starting(r) /\ Starting(q) => r = q
        /\ \A q \in Processes : Uncounted(q)
    BY DEF StartInv, CountedOnce
  <2>2. /\ db.members \in Nat /\ db'.members \in Nat
        /\ \A t \in ToSet(Types) : db.grants[t] \in Nat /\ db'.grants[t] \in Nat
    BY <1>1, DatabaseParts
  <2>3. Once(db)'
    BY <2>1, <2>2 DEF Once
  <2>4. ASSUME NEW s \in Processes PROVE Uncounted(s)'
    <3> SUFFICES ASSUME Starting(s), This(s).do = "create", This(s).of[1] \in {"member", "grant"},
                        role[s] = gen'
                 PROVE  ~IsThere(This(s).of)'
      BY <1>4 DEF Uncounted
    <3>1. gen' = gen
      <4>1. gen \in Nat /\ role[s] <= gen /\ role[s] \in Nat
        BY <1>1 DEF StartType
      <4>2. QED
        BY <4>1
    <3>2. PICK item : item = This(s).of
      OBVIOUS
    <3>3. ~IsThere(item) /\ item[1] \in {"member", "grant"}
      BY <2>1, <3>1, <3>2 DEF Uncounted
    <3>4. item \in Items
      BY <1>1, <3>2, ItsProgram, StepForms
    <3>5. ~IsThere(item)'
      <4>1. CASE item = Member
        BY <2>2, <3>3, <4>1, ThereKinds, ThereKindsNext
      <4>2. CASE \E t \in ToSet(Types) : item = Grant(t)
        BY <2>2, <3>3, <4>2, ThereKinds, ThereKindsNext
      <4>3. QED
        BY <3>3, <3>4, <4>1, <4>2, ItemKinds DEF Items
    <3>6. QED
      BY <1>4, <3>2, <3>5
  <2>5. QED
    BY <1>4, <2>1, <2>3, <2>4
<1>8. OnlyDeletedRowsStopIt'
  <2> SUFFICES ASSUME fatal # {}
               PROVE  \/ \E name \in Rows : db'.row[name] = "deleted"
                      \/ \E f \in ToSet(FileTools) : \E i \in DOMAIN db'.versions[f] :
                             ~db'.versions[f][i].live
    BY DEF OnlyDeletedRowsStopIt
  <2>1. CASE \E name \in Rows : db.row[name] = "deleted"
    BY <2>1
  <2>2. CASE \E f \in ToSet(FileTools) : \E i \in DOMAIN db.versions[f] : ~db.versions[f][i].live
    BY <2>2
  <2>3. QED
    BY <2>1, <2>2 DEF StartInv, OnlyDeletedRowsStopIt
<1>9. QED
  BY <1>3, <1>5, <1>6, <1>7, <1>8 DEF StartInv

(* What an edit does to the database. *)
Changed ==
    /\ db' \in Database /\ VersionsFit(db)'
    /\ \A f \in ToSet(FileTools) : db'.row[f] = "none" => db.row[f] = "none"
    /\ \A name \in Rows : db.row[name] = "deleted" => db'.row[name] = "deleted"
    /\ \A f \in ToSet(FileTools) : \A i \in DOMAIN db.versions[f] :
           ~db.versions[f][i].live => i \in DOMAIN db'.versions[f] /\ ~db'.versions[f][i].live
    /\ db'.members <= db.members /\ \A t \in ToSet(Types) : db'.grants[t] <= db.grants[t]

(* Deleting a row is a change of that kind. *)
LEMMA DeleteRowChanges ==
    ASSUME db \in Database, VersionsFit(db), NEW name \in Rows, DeleteRow(name)
    PROVE  Changed
<1> PICK row : row = [db.row EXCEPT ![name] = "deleted"]
  OBVIOUS
<1>1. db' = [db EXCEPT !.row = row] /\ db.row[name] = "live"
  BY DEF DeleteRow
<1>2. db' = [row |-> row, members |-> db.members, grants |-> db.grants,
             versions |-> db.versions, gaps |-> db.gaps]
  BY <1>1, OtherParts
<1>3. row \in [Rows -> {"none", "live", "deleted"}]
  BY DatabaseParts
<1>4. db' \in Database
  BY <1>2, <1>3, DatabaseParts DEF Database
<1>5. \A x \in Rows : row[x] = IF x = name THEN "deleted" ELSE db.row[x]
  BY DatabaseParts
<1>6. \A f \in ToSet(FileTools) : f \in Rows
  BY DEF Rows
<1>7. db.members \in Nat /\ \A t \in ToSet(Types) : db.grants[t] \in Nat
  BY DatabaseParts
<1>8. VersionsFit(db)'
  BY <1>1, <1>2, <1>5, <1>6 DEF VersionsFit
<1>9. QED
  BY <1>1, <1>2, <1>4, <1>5, <1>6, <1>7, <1>8 DEF Changed

(* Renaming the admin role is. *)
LEMMA RenameRoleChanges ==
    ASSUME db \in Database, VersionsFit(db), RenameRole
    PROVE  Changed
<1> PICK row, none : row = [db.row EXCEPT ![AdminRole] = "none"] /\ none = [t \in ToSet(Types) |-> 0]
  OBVIOUS
<1>1. db.row[AdminRole] = "live"
  BY DEF RenameRole
<1>2. db' = [row |-> row, members |-> 0, grants |-> none,
             versions |-> db.versions, gaps |-> db.gaps]
  BY DEF RenameRole
<1>3. row \in [Rows -> {"none", "live", "deleted"}]
  BY DatabaseParts
<1>4. db' \in Database
  <2>1. none \in [ToSet(Types) -> Nat]
    OBVIOUS
  <2>2. QED
    BY <1>2, <1>3, <2>1, DatabaseParts DEF Database
<1>5. \A x \in Rows : row[x] = IF x = AdminRole THEN "none" ELSE db.row[x]
  BY DatabaseParts
<1>6. \A f \in ToSet(FileTools) : f \in Rows /\ f # AdminRole
  BY StartupAssumption DEF Rows
<1>7. db.members \in Nat /\ \A t \in ToSet(Types) : db.grants[t] \in Nat /\ none[t] = 0
  BY DatabaseParts
<1>8. VersionsFit(db)'
  BY <1>1, <1>2, <1>5, <1>6 DEF VersionsFit
<1>9. QED
  BY <1>1, <1>2, <1>4, <1>5, <1>6, <1>7, <1>8 DEF Changed

(* Revoking a grant is. *)
LEMMA RevokeGrantChanges ==
    ASSUME db \in Database, VersionsFit(db), NEW type \in ToSet(Types), RevokeGrant(type)
    PROVE  Changed
<1> PICK grants : grants = [db.grants EXCEPT ![type] = db.grants[type] - 1]
  OBVIOUS
<1>1. db' = [db EXCEPT !.grants = grants] /\ db.grants[type] > 0
  BY DEF RevokeGrant
<1>2. db' = [row |-> db.row, members |-> db.members, grants |-> grants,
             versions |-> db.versions, gaps |-> db.gaps]
  BY <1>1, OtherParts
<1>3. db.members \in Nat /\ \A t \in ToSet(Types) : db.grants[t] \in Nat
  BY DatabaseParts
<1>4. grants \in [ToSet(Types) -> Nat] /\ \A t \in ToSet(Types) : grants[t] <= db.grants[t]
  BY <1>1, <1>3, DatabaseParts
<1>5. db' \in Database
  BY <1>2, <1>4, DatabaseParts DEF Database
<1>6. VersionsFit(db)'
  BY <1>2 DEF VersionsFit
<1>7. QED
  BY <1>2, <1>3, <1>4, <1>5, <1>6 DEF Changed

(* Creating a version is. *)
LEMMA CreateVersionChanges ==
    ASSUME db \in Database, VersionsFit(db), NEW f \in ToSet(FileTools), NEW name \in Releases,
           CreateVersion(f, name)
    PROVE  Changed
<1> PICK new, list, versions : /\ new = Version(name, "users") /\ list = Append(db.versions[f], new)
                               /\ versions = [db.versions EXCEPT ![f] = list]
  OBVIOUS
<1>1. db' = [db EXCEPT !.versions = versions] /\ db.row[f] = "live"
  BY DEF CreateVersion
<1>2. db' = [row |-> db.row, members |-> db.members, grants |-> db.grants,
             versions |-> versions, gaps |-> db.gaps]
  BY <1>1, OtherParts
<1>3. new \in Versions /\ new.live /\ new.source = "users"
  BY DEF Version, Versions
<1>4. db.members \in Nat /\ \A t \in ToSet(Types) : db.grants[t] \in Nat
  BY DatabaseParts
<1>5. db.versions \in [ToSet(FileTools) -> Seq(Versions)]
  BY DatabaseParts
<1>6. /\ list \in Seq(Versions)
      /\ DOMAIN db.versions[f] = 1 .. Len(db.versions[f]) /\ Len(db.versions[f]) \in Nat
      /\ DOMAIN list = 1 .. Len(db.versions[f]) + 1
      /\ list[Len(db.versions[f]) + 1] = new
      /\ \A i \in 1 .. Len(db.versions[f]) : list[i] = db.versions[f][i]
  BY <1>3, <1>5
<1>7. versions \in [ToSet(FileTools) -> Seq(Versions)] /\ versions[f] = list
      /\ \A g \in ToSet(FileTools) : g # f => versions[g] = db.versions[g]
  BY <1>5, <1>6
<1>8. db' \in Database
  BY <1>2, <1>7, DatabaseParts DEF Database
<1>9. VersionsFit(db)'
  <2> SUFFICES ASSUME NEW g \in ToSet(FileTools)
               PROVE  /\ db'.row[g] = "none" => db'.versions[g] = <<>>
                      /\ \A i \in DOMAIN db'.versions[g] : db'.versions[g][i].source = "faulty" =>
                             i = 1 /\ db'.versions[g][i].name = "1.0.0"
    BY DEF VersionsFit
  <2>1. CASE g # f
    BY <1>2, <1>7, <2>1 DEF VersionsFit
  <2>2. CASE g = f
    <3>1. \A i \in DOMAIN list : list[i].source = "faulty" =>
              i \in 1 .. Len(db.versions[f]) /\ list[i] = db.versions[f][i]
      BY <1>3, <1>6
    <3>2. QED
      BY <1>1, <1>2, <1>6, <1>7, <2>2, <3>1 DEF VersionsFit
  <2>3. QED
    BY <2>1, <2>2
<1>10. ASSUME NEW g \in ToSet(FileTools), NEW i \in DOMAIN db.versions[g], ~db.versions[g][i].live
       PROVE  i \in DOMAIN db'.versions[g] /\ ~db'.versions[g][i].live
  BY <1>2, <1>6, <1>7, <1>10
<1>11. QED
  BY <1>2, <1>4, <1>8, <1>9, <1>10 DEF Changed

(* Deleting the versions of a tool is. *)
LEMMA DeleteVersionsChanges ==
    ASSUME db \in Database, VersionsFit(db), NEW s, NEW f \in ToSet(FileTools), DeleteVersions(s, f)
    PROVE  Changed
<1> PICK list, versions : /\ list = [i \in DOMAIN db.versions[f] |-> [db.versions[f][i] EXCEPT !.live = FALSE]]
                          /\ versions = [db.versions EXCEPT ![f] = list]
  OBVIOUS
<1>1. db' = [db EXCEPT !.versions = versions]
  BY DEF DeleteVersions
<1>2. db' = [row |-> db.row, members |-> db.members, grants |-> db.grants,
             versions |-> versions, gaps |-> db.gaps]
  BY <1>1, OtherParts
<1>3. db.members \in Nat /\ \A t \in ToSet(Types) : db.grants[t] \in Nat
  BY DatabaseParts
<1>4. db.versions \in [ToSet(FileTools) -> Seq(Versions)] /\ db.versions[f] \in Seq(Versions)
  BY DatabaseParts
<1>5. /\ DOMAIN db.versions[f] = 1 .. Len(db.versions[f]) /\ Len(db.versions[f]) \in Nat
      /\ \A i \in 1 .. Len(db.versions[f]) : db.versions[f][i] \in Versions
  BY <1>4
<1>6. ASSUME NEW i \in 1 .. Len(db.versions[f])
      PROVE  /\ list[i] \in Versions /\ ~list[i].live
             /\ list[i].source = db.versions[f][i].source /\ list[i].name = db.versions[f][i].name
  <2> PICK one : one = db.versions[f][i]
    OBVIOUS
  <2>1. list[i] = [one EXCEPT !.live = FALSE]
    BY <1>5
  <2>2. one \in Versions
    BY <1>5
  <2>3. list[i] \in Versions /\ ~list[i].live /\ list[i].source = one.source /\ list[i].name = one.name
    <3> PICK two : two = [one EXCEPT !.live = FALSE]
      OBVIOUS
    <3>1. two \in Versions /\ ~two.live /\ two.source = one.source /\ two.name = one.name
      BY <2>2 DEF Versions
    <3>2. QED
      BY <2>1, <3>1
  <2>4. QED
    BY <2>3
<1>7. list \in Seq(Versions) /\ DOMAIN list = 1 .. Len(db.versions[f])
      /\ (db.versions[f] = <<>> => list = <<>>)
  <2>1. list \in [1 .. Len(db.versions[f]) -> Versions]
    BY <1>5, <1>6
  <2>2. list \in Seq(Versions)
    BY <1>5, <2>1
  <2>3. db.versions[f] = <<>> => list = <<>>
    <3>1. SUFFICES ASSUME db.versions[f] = <<>> PROVE list = <<>>
      OBVIOUS
    <3>2. DOMAIN list = 1 .. 0
      BY <1>5, <3>1
    <3>3. QED
      BY <2>2, <3>2
  <2>4. QED
    BY <1>5, <2>2, <2>3
<1>8. versions \in [ToSet(FileTools) -> Seq(Versions)] /\ versions[f] = list
      /\ \A g \in ToSet(FileTools) : g # f => versions[g] = db.versions[g]
  BY <1>4, <1>7
<1>9. db' \in Database
  BY <1>2, <1>8, DatabaseParts DEF Database
<1>10. VersionsFit(db)'
  <2> SUFFICES ASSUME NEW g \in ToSet(FileTools)
               PROVE  /\ db'.row[g] = "none" => db'.versions[g] = <<>>
                      /\ \A i \in DOMAIN db'.versions[g] : db'.versions[g][i].source = "faulty" =>
                             i = 1 /\ db'.versions[g][i].name = "1.0.0"
    BY DEF VersionsFit
  <2>1. CASE g # f
    BY <1>2, <1>8, <2>1 DEF VersionsFit
  <2>2. CASE g = f
    BY <1>2, <1>5, <1>6, <1>7, <1>8, <2>2 DEF VersionsFit
  <2>3. QED
    BY <2>1, <2>2
<1>11. ASSUME NEW g \in ToSet(FileTools), NEW i \in DOMAIN db.versions[g], ~db.versions[g][i].live
       PROVE  i \in DOMAIN db'.versions[g] /\ ~db'.versions[g][i].live
  BY <1>2, <1>5, <1>6, <1>7, <1>8, <1>11
<1>12. QED
  BY <1>2, <1>3, <1>9, <1>10, <1>11 DEF Changed

(* An edit keeps what is known of starts. *)
LEMMA EditStep ==
    ASSUME StartInv, NEW s \in Processes, Edit(s), Disturb,
           UNCHANGED <<at, order, role, starts, overlapped, fatal>>
    PROVE  StartInv'
<1>1. StartType /\ db \in Database /\ VersionsFit(db)
  BY DEF StartInv, StartType
<1>2. SUFFICES /\ Changed /\ gen' \in {gen, gen + 1}
               /\ deleting' \subseteq [tool : ToSet(FileTools), by : Processes]
  BY Disturbed DEF Changed
<1>3. deleting \subseteq [tool : ToSet(FileTools), by : Processes]
  BY <1>1 DEF StartType
<1>4. CASE /\ \/ DeleteRow(AdminRole) \/ DeleteRow(AdminUser)
              \/ \E t \in ToSet(Types) : RevokeGrant(t)
              \/ \E f \in ToSet(FileTools), name \in Releases : CreateVersion(f, name)
           /\ UNCHANGED <<gen, deleting>>
  <2>1. AdminRole \in Rows /\ AdminUser \in Rows
    BY DEF Rows
  <2>2. Changed
    BY <1>1, <1>4, <2>1, DeleteRowChanges, RevokeGrantChanges, CreateVersionChanges
  <2>3. QED
    BY <1>3, <1>4, <2>2
<1>5. CASE RenameRole /\ UNCHANGED deleting
  <2>1. Changed
    BY <1>1, <1>5, RenameRoleChanges
  <2>2. gen' = gen + 1
    BY <1>5 DEF RenameRole
  <2>3. QED
    BY <1>3, <1>5, <2>1, <2>2
<1>6. CASE \E f \in ToSet(FileTools) : DeleteVersions(s, f) /\ UNCHANGED gen
  <2>1. PICK f \in ToSet(FileTools) : DeleteVersions(s, f) /\ UNCHANGED gen
    BY <1>6
  <2>2. Changed
    BY <1>1, <2>1, DeleteVersionsChanges
  <2>3. deleting' = deleting \cup {[tool |-> f, by |-> s]}
    BY <2>1 DEF DeleteVersions
  <2>4. QED
    BY <1>3, <2>1, <2>2, <2>3
<1>7. QED
  BY <1>4, <1>5, <1>6 DEF Edit

(* So does the end of a deletion. *)
LEMMA FinishStep ==
    ASSUME StartInv, NEW d \in deleting, FinishDelete(d), Disturb,
           UNCHANGED <<gen, at, order, role, starts, edits, overlapped, fatal>>
    PROVE  StartInv'
<1>1. StartType /\ db \in Database /\ VersionsFit(db)
  BY DEF StartInv, StartType
<1>2. SUFFICES /\ Changed /\ gen' \in {gen, gen + 1}
               /\ deleting' \subseteq [tool : ToSet(FileTools), by : Processes]
  BY Disturbed DEF Changed
<1>3. deleting \subseteq [tool : ToSet(FileTools), by : Processes] /\ deleting' = deleting \ {d}
  BY <1>1 DEF StartType, FinishDelete
<1>4. d.tool \in Rows
  BY <1>3 DEF Rows
<1>5. CASE db.row[d.tool] = "live"
  <2>1. DeleteRow(d.tool)
    BY <1>5 DEF FinishDelete
  <2>2. Changed
    BY <1>1, <1>4, <2>1, DeleteRowChanges
  <2>3. QED
    BY <1>3, <2>2
<1>6. CASE db.row[d.tool] # "live"
  <2>1. db' = db
    BY <1>6 DEF FinishDelete
  <2>2. db.members \in Nat /\ \A t \in ToSet(Types) : db.grants[t] \in Nat
    BY <1>1, DatabaseParts
  <2>3. VersionsFit(db)'
    BY <1>1, <2>1 DEF VersionsFit
  <2>4. Changed
    BY <1>1, <2>1, <2>2, <2>3 DEF Changed
  <2>5. QED
    BY <1>3, <2>4
<1>7. QED
  BY <1>5, <1>6

(* What is known of starts holds of a first database. *)
LEMMA StartsWell == StartupInit => StartInv
<1> SUFFICES ASSUME StartupInit PROVE StartInv
  OBVIOUS
<1>1. /\ db \in Database /\ VersionsFit(db) /\ Once(db)
      /\ FileTools \in Orders
  BY StartupAssumption DEF StartupInit, Orders
<1>2. /\ gen = 0 /\ deleting = {} /\ overlapped = FALSE /\ fatal = {}
      /\ at = [s \in Processes |-> 0] /\ order = [s \in Processes |-> FileTools]
      /\ role = [s \in Processes |-> 0] /\ since = [s \in Processes |-> {}]
  BY DEF StartupInit, Off
<1>3. \A s \in Processes : at[s] = 0 /\ order[s] = FileTools /\ role[s] = 0
  BY <1>2
<1>4. Program(FileTools) \in Seq(Steps)
  BY <1>1, ProgramSound DEF Sound
<1>5. DOMAIN Program(FileTools) = 1 .. Len(Program(FileTools)) /\ Len(Program(FileTools)) \in Nat
  BY <1>4
<1>6. \A s \in Processes : ~Starting(s)
  BY <1>3, <1>5 DEF Starting
<1>7. StartType
  <2>1. at \in [Processes -> Nat] /\ order \in [Processes -> Orders] /\ role \in [Processes -> Nat]
        /\ since \in [Processes -> SUBSET {"start", "edit"}]
    BY <1>1, <1>2
  <2>2. \A s \in Processes : at[s] <= Len(Program(order[s])) + 1 /\ role[s] <= gen
    BY <1>2, <1>3, <1>5
  <2>3. QED
    BY <1>1, <1>2, <2>1, <2>2 DEF StartType
<1>8. CountedOnce
  BY <1>1, <1>6 DEF CountedOnce, Uncounted
<1>9. OnlyDeletedRowsStopIt
  BY <1>2 DEF OnlyDeletedRowsStopIt
<1>10. ASSUME NEW s \in Processes PROVE HasRow(s) /\ PassedIsDone(s) /\ Undisturbed(s)
  BY <1>3, <1>6 DEF HasRow, PassedIsDone, Undisturbed, Unmade
<1>11. QED
  BY <1>1, <1>7, <1>8, <1>9, <1>10 DEF StartInv

(* It stays while nothing happens. *)
LEMMA StandsStill == ASSUME StartInv, UNCHANGED startupVars PROVE StartInv'
<1>1. /\ db' = db /\ gen' = gen /\ at' = at /\ order' = order /\ role' = role /\ deleting' = deleting
      /\ since' = since /\ overlapped' = overlapped /\ fatal' = fatal
  BY DEF startupVars, past
<1>2. \A x : IsThere(x)' <=> IsThere(x)
  BY <1>1, ThereSame
<1>3. \A s : (Starting(s)' <=> Starting(s)) /\ This(s)' = This(s)
  BY <1>1 DEF Starting, This
<1>4. \A s \in Processes : HasRow(s)' /\ PassedIsDone(s)' /\ Undisturbed(s)'
  BY <1>1, <1>2, <1>3 DEF StartInv, HasRow, PassedIsDone, Undisturbed, Unmade, Done
<1>5. CountedOnce'
  BY <1>1, <1>2, <1>3 DEF StartInv, CountedOnce, Once, Uncounted
<1>6. StartType' /\ VersionsFit(db)' /\ OnlyDeletedRowsStopIt'
  BY <1>1 DEF StartInv, StartType, VersionsFit, OnlyDeletedRowsStopIt
<1>7. QED
  BY <1>4, <1>5, <1>6 DEF StartInv

(* What is known of starts holds at every moment. *)
THEOREM StartsKeep == StartupSpec => []StartInv
<1>1. StartInv /\ [StartupNext]_startupVars => StartInv'
  <2> SUFFICES ASSUME StartInv, [StartupNext]_startupVars PROVE StartInv'
    OBVIOUS
  <2>1. ASSUME NEW s \in Processes, Query(s), UNCHANGED <<gen, starts, edits, since, overlapped>>
        PROVE  StartInv'
    BY <2>1, QueryStep
  <2>2. ASSUME NEW s \in Processes, Insert(s), UNCHANGED <<gen, starts, edits, since, overlapped>>
        PROVE  StartInv'
    BY <2>2, InsertStep
  <2>3. ASSUME NEW s \in Processes, Execute(s), UNCHANGED <<gen, starts, edits, since, overlapped>>
        PROVE  StartInv'
    BY <2>3, ExecuteStep
  <2>4. ASSUME NEW s \in Processes, Start(s), UNCHANGED <<gen, edits>> PROVE StartInv'
    BY <2>4, StartStep
  <2>5. ASSUME NEW s \in Processes, Kill(s), UNCHANGED <<gen, starts, edits>> PROVE StartInv'
    BY <2>5, KillStep
  <2>6. ASSUME NEW s \in Processes, Edit(s), Disturb, UNCHANGED <<at, order, role, starts, overlapped, fatal>>
        PROVE  StartInv'
    BY <2>6, EditStep
  <2>7. ASSUME NEW d \in deleting, FinishDelete(d), Disturb,
               UNCHANGED <<gen, at, order, role, starts, edits, overlapped, fatal>>
        PROVE  StartInv'
    BY <2>7, FinishStep
  <2>8. CASE UNCHANGED startupVars
    BY <2>8, StandsStill
  <2>9. QED
    BY <2>1, <2>2, <2>3, <2>4, <2>5, <2>6, <2>7, <2>8 DEF StartupNext
<1>2. QED
  BY <1>1, StartsWell, PTL DEF StartupSpec

(* A server whose start nothing disturbed ends by itself only over what was deleted. *)
THEOREM OnlyDeletedStops == StartupSpec => []OnlyDeletedRowsStopIt
<1>1. StartInv => OnlyDeletedRowsStopIt
  BY DEF StartInv
<1>2. QED
  BY <1>1, StartsKeep, PTL

(* The greatest of some positions. *)
LEMMA Latest ==
    ASSUME NEW n \in Nat, NEW G, G \subseteq 1 .. n, G # {}
    PROVE  \E i \in G : \A j \in G : j <= i
<1> DEFINE above == {m \in 0 .. n : \A j \in G : j <= m}
<1>1. above \subseteq Nat /\ n \in above
  OBVIOUS
<1>2. PICK m \in above : \A k \in above : ~(k < m)
  <2> HIDE DEF above
  <2>1. PICK m \in above : \A k \in above : <<k, m>> \notin OpToRel(<, Nat)
    BY <1>1, NatLessThanWellFounded, WFMin
  <2>2. QED
    BY <1>1, <2>1 DEF OpToRel
<1>3. m \in G
  <2> SUFFICES ASSUME m \notin G PROVE FALSE
    OBVIOUS
  <2>1. \A j \in G : j \in 1 .. n /\ j <= m - 1
    <3> SUFFICES ASSUME NEW j \in G PROVE j \in 1 .. n /\ j <= m - 1
      OBVIOUS
    <3>1. j # m /\ j <= m /\ j \in 1 .. n
      BY <1>2
    <3>2. QED
      BY <3>1
  <2>2. m - 1 \in 0 .. n
    <3>1. PICK j \in G : j \in 1 .. n /\ j <= m - 1
      BY <2>1
    <3>2. QED
      BY <3>1
  <2>3. m - 1 \in above
    BY <2>1, <2>2
  <2>4. QED
    BY <1>2, <2>3
<1>4. QED
  BY <1>2, <1>3

(* A server that listens, undisturbed by edits, finds everything seeded. *)
THEOREM ListeningStaysSeeded == StartupSpec => []ListeningIsSeeded
<1>1. StartInv => ListeningIsSeeded
  <2> SUFFICES ASSUME StartInv, NEW s \in Processes, Listening(s), "edit" \notin since[s]
               PROVE  /\ \A name \in Rows : db.row[name] = "live"
                      /\ \A n \in {db.members} \cup {db.grants[t] : t \in ToSet(Types)} :
                             n = 1 \/ (overlapped /\ n > 1)
                      /\ \A f \in ToSet(FileTools) :
                             \E i \in DOMAIN db.versions[f] :
                                 /\ db.versions[f][i].live /\ db.versions[f][i].source # "faulty"
                                 /\ \A j \in DOMAIN db.versions[f] : db.versions[f][j].live => j <= i
                      /\ db.gaps = {}
    BY DEF ListeningIsSeeded
  <2>1. PICK S : S = Program(order[s])
    OBVIOUS
  <2>2. StartType /\ Everything \subseteq ToSet(S) /\ S \in Seq(Steps) /\ Len(S) \in Nat
        /\ at[s] = Len(S) + 1 /\ PassedIsDone(s) /\ db \in Database
    BY <2>1, ItsProgram DEF StartInv, StartType, Listening
  <2>3. ASSUME NEW step \in Everything PROVE Done(s, step)
    <3>1. PICK q \in 1 .. Len(S) : S[q] = step
      BY <2>2 DEF ToSet
    <3>2. q \in 1 .. at[s] - 1
      BY <2>2
    <3>3. QED
      BY <2>1, <2>2, <3>1, <3>2 DEF PassedIsDone
  <2>4. ASSUME NEW name \in Rows PROVE db.row[name] = "live"
    <3>1. Done(s, Create(Row(name)))
      BY <2>3 DEF Everything
    <3>2. IsThere(Row(name))
      BY <3>1, StepKinds, ItemKinds DEF Done
    <3>3. QED
      BY <3>2, ThereKinds
  <2>5. db.members > 0 /\ db.members \in Nat /\ (~overlapped => db.members <= 1)
    <3>1. Done(s, Create(Member))
      BY <2>3 DEF Everything
    <3>2. IsThere(Member)
      BY <3>1, StepKinds, ItemKinds DEF Done
    <3>3. QED
      BY <2>2, <3>2, ThereKinds, DatabaseParts DEF StartInv, CountedOnce, Once
  <2>6. ASSUME NEW t \in ToSet(Types)
        PROVE  db.grants[t] > 0 /\ db.grants[t] \in Nat /\ (~overlapped => db.grants[t] <= 1)
    <3>1. Done(s, Create(Grant(t)))
      BY <2>3 DEF Everything
    <3>2. IsThere(Grant(t))
      BY <3>1, StepKinds, ItemKinds DEF Done
    <3>3. db.grants[t] \in Nat
      BY <2>2, DatabaseParts
    <3>4. QED
      BY <3>2, <3>3, ThereKinds DEF StartInv, CountedOnce, Once
  <2>7. \A n \in {db.members} \cup {db.grants[t] : t \in ToSet(Types)} : n = 1 \/ (overlapped /\ n > 1)
    <3> SUFFICES ASSUME NEW n \in {db.members} \cup {db.grants[t] : t \in ToSet(Types)}
                 PROVE  n = 1 \/ (overlapped /\ n > 1)
      OBVIOUS
    <3>1. n > 0 /\ n \in Nat /\ (~overlapped => n <= 1)
      BY <2>5, <2>6
    <3>2. overlapped \in BOOLEAN
      BY <2>2 DEF StartType
    <3>3. QED
      BY <3>1, <3>2
  <2>8. ASSUME NEW f \in ToSet(FileTools)
        PROVE  \E i \in DOMAIN db.versions[f] :
                   /\ db.versions[f][i].live /\ db.versions[f][i].source # "faulty"
                   /\ \A j \in DOMAIN db.versions[f] : db.versions[f][j].live => j <= i
    <3>1. Done(s, Create(VersionOf(f, "1.0.1")))
      BY <2>3 DEF Everything
    <3>2. IsThere(VersionOf(f, "1.0.1"))
      <4> PICK item : item = VersionOf(f, "1.0.1")
        OBVIOUS
      <4>1. item[1] = "version" /\ item[3] = "1.0.1"
        BY ItemKinds
      <4>2. Done(s, Create(item))
        BY <3>1
      <4>3. IsThere(item)
        BY <4>1, <4>2, StepKinds DEF Done
      <4>4. QED
        BY <4>3
    <3>3. HasVersion(f, "1.0.1")
      BY <3>2, ThereKinds
    <3>4. PICK n : n = Len(db.versions[f])
      OBVIOUS
    <3>5. n \in Nat /\ DOMAIN db.versions[f] = 1 .. n
      BY <2>2, <3>4, DatabaseParts
    <3> DEFINE live == {j \in 1 .. n : db.versions[f][j].live}
    <3>6. PICK k \in live : db.versions[f][k].name = "1.0.1"
      BY <3>3, <3>5 DEF HasVersion, ToSet
    <3>7. PICK i \in live : \A j \in live : j <= i
      <4>1. live \subseteq 1 .. n /\ live # {}
        BY <3>6
      <4> HIDE DEF live
      <4>2. QED
        BY <3>5, <4>1, Latest
    <3>8. db.versions[f][i].source # "faulty"
      <4> SUFFICES ASSUME db.versions[f][i].source = "faulty" PROVE FALSE
        OBVIOUS
      <4>1. i = 1 /\ db.versions[f][i].name = "1.0.0"
        BY <3>5, <3>7 DEF StartInv, VersionsFit
      <4>2. k = i
        BY <3>5, <3>6, <3>7, <4>1
      <4>3. QED
        BY <3>6, <4>1, <4>2
    <3>9. QED
      BY <3>5, <3>7, <3>8
  <2>9. db.gaps = {}
    <3>1. ASSUME NEW gap \in Backfills PROVE gap \notin db.gaps
      <4>1. Done(s, Exec(gap))
        BY <2>3 DEF Everything
      <4>2. QED
        BY <4>1, StepKinds DEF Done
    <3>2. db.gaps \subseteq Backfills
      BY <2>2, DatabaseParts
    <3>3. QED
      BY <3>1, <3>2
  <2>10. QED
    BY <2>4, <2>7, <2>8, <2>9
<1>2. QED
  BY <1>1, StartsKeep, PTL
=============================================================================
