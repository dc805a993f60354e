------------------------------ MODULE JobQueue ------------------------------
(***************************************************************************)
(* The job queue behind custom tools (internal/jobqueue): a Redis list of  *)
(* pending jobs, one worker goroutine per server that pops, runs, retries  *)
(* and completes them, a result key with a TTL plus a pub/sub channel per  *)
(* job, and the chat request (CustomTool.Execute) that enqueues one job    *)
(* and waits for its result.                                               *)
(*                                                                         *)
(* Redis is external: a command is atomic, may fail before or after it     *)
(* took effect, and an RPUSH whose reply is lost is sent again by go-redis *)
(* (MaxRetries is left at its default in pkg/cache/redis.go).  A SUBSCRIBE *)
(* is only written by client.Subscribe; Redis acts on it some time later.  *)
(***************************************************************************)
EXTENDS Naturals, Sequences, FiniteSets

CONSTANTS Jobs,            \* the jobs, one per call of a custom tool
          Servers,         \* server processes; each runs one worker
          Handled,         \* jobs whose type has a registered handler
          Garbled,         \* jobs whose tool prints something other than JSON
          Home,            \* the server whose chat request waits for a job
          DefaultRetries,  \* cfg.JobQueue.DefaultRetries
          MaxFaults,       \* bound: Redis commands that misbehave
          MaxCrashes       \* bound: server crashes

ASSUME JobAssumption ==
    /\ Jobs # {}
    /\ Handled \subseteq Jobs
    /\ Garbled \subseteq Handled
    /\ Home \in [Jobs -> Servers]
    /\ DefaultRetries \in Nat
    /\ MaxFaults \in Nat
    /\ MaxCrashes \in Nat

VARIABLES queue,       \* the list jobqueue:pending:custom_tools
          wpc,         \* where each server's worker stands
          held,        \* the job it has popped (its local copy, Attempts counted)
          outcome,     \* what it is about to record
          stored,      \* the result keys
          caller,      \* where each job's Execute stands
          subscribed,  \* its subscription, as Redis sees it
          heard,       \* the message in its channel
          cancelled,   \* its request context is done
          told,        \* what it reported
          runs, wins,  \* history: handler runs started, and one gave JSON
          doubled,     \* history: times Redis was sent a job twice
          faults, crashes

worker == <<wpc, held, outcome>>
waiter == <<caller, subscribed, heard, cancelled, told>>
history == <<runs, wins, doubled>>
vars == <<queue, worker, stored, waiter, history, faults, crashes>>

Entry == [job: Jobs, attempts: Nat]
WorkerPlaces == {"idle", "running", "requeue", "save", "publish", "stopped", "down"}
CallerPlaces == {"new", "subscribe", "get", "select", "told", "gone"}
StoredResults == {"none", "ok", "failed"}

TypeOK ==
    /\ queue \in Seq(Entry)
    /\ wpc \in [Servers -> WorkerPlaces]
    /\ held \in [Servers -> Entry]
    /\ outcome \in [Servers -> {"ok", "failed", "garbage"}]
    /\ stored \in [Jobs -> StoredResults]
    /\ caller \in [Jobs -> CallerPlaces]
    /\ subscribed \in [Jobs -> {"no", "sent", "active"}]
    /\ heard \in [Jobs -> StoredResults]
    /\ cancelled \in [Jobs -> BOOLEAN]
    /\ told \in [Jobs -> {"nothing", "ok", "failed", "gaveup"}]
    /\ runs \in [Jobs -> Nat]
    /\ wins \in [Jobs -> BOOLEAN]
    /\ doubled \in [Jobs -> Nat]
    /\ faults \in Nat
    /\ crashes \in Nat

-----------------------------------------------------------------------------
\* Between jobs a worker's variables are out of scope; they hold this.
AnyEntry == [job |-> CHOOSE j \in Jobs : TRUE, attempts |-> 0]

Init ==
    /\ queue = <<>>
    /\ wpc = [s \in Servers |-> "idle"]
    /\ held = [s \in Servers |-> AnyEntry]
    /\ outcome = [s \in Servers |-> "failed"]
    /\ stored = [j \in Jobs |-> "none"]
    /\ caller = [j \in Jobs |-> "new"]
    /\ subscribed = [j \in Jobs |-> "no"]
    /\ heard = [j \in Jobs |-> "none"]
    /\ cancelled = [j \in Jobs |-> FALSE]
    /\ told = [j \in Jobs |-> "nothing"]
    /\ runs = [j \in Jobs |-> 0]
    /\ wins = [j \in Jobs |-> FALSE]
    /\ doubled = [j \in Jobs |-> 0]
    /\ faults = 0
    /\ crashes = 0

Fault == faults < MaxFaults /\ faults' = faults + 1
NoFault == UNCHANGED faults

\* process returns, or the loop it runs in ends: the worker lets go of its job.
LetGo(s, place) ==
    /\ wpc' = [wpc EXCEPT ![s] = place]
    /\ held' = [held EXCEPT ![s] = AnyEntry]
    /\ outcome' = [outcome EXCEPT ![s] = "failed"]

\* RedisStore.Enqueue of one entry; reported says whether it returned nil.
Push(entry, reported) ==
    \/ /\ reported
       /\ queue' = Append(queue, entry)
       /\ UNCHANGED doubled /\ NoFault
    \/ /\ reported
       /\ queue' = queue \o <<entry, entry>>
       /\ doubled' = [doubled EXCEPT ![entry.job] = @ + 1]
       /\ Fault
    \/ /\ ~reported
       /\ queue' \in {queue, Append(queue, entry)}
       /\ UNCHANGED doubled /\ Fault

-----------------------------------------------------------------------------
Counted(entry) == [job |-> entry.job, attempts |-> entry.attempts + 1]

\* Mutant of Dequeue: a job of a type not handled here is left in the list.
DequeueHandled(s) ==
    /\ wpc[s] = "idle"
    /\ queue # <<>>
    /\ LET entry == Head(queue)
       IN  /\ entry.job \in Handled
           /\ held' = [held EXCEPT ![s] = Counted(entry)]
           /\ wpc' = [wpc EXCEPT ![s] = "running"]
           /\ runs' = [runs EXCEPT ![entry.job] = @ + 1]
    /\ queue' = Tail(queue)
    /\ UNCHANGED <<outcome, stored, waiter, wins, doubled, faults, crashes>>

\* The worker: Dequeue pops a job, process counts the attempt and looks up the
\* handler. From here on the job exists only in this goroutine.
Dequeue(s) ==
    /\ wpc[s] = "idle"
    /\ queue # <<>>
    /\ LET entry == Head(queue)
       IN  /\ held' = [held EXCEPT ![s] = Counted(entry)]
           /\ IF entry.job \in Handled
              THEN /\ wpc' = [wpc EXCEPT ![s] = "running"]
                   /\ runs' = [runs EXCEPT ![entry.job] = @ + 1]
                   /\ UNCHANGED outcome
              ELSE /\ wpc' = [wpc EXCEPT ![s] = "save"]
                   /\ outcome' = [outcome EXCEPT ![s] = "failed"]
                   /\ UNCHANGED runs
    /\ queue' = Tail(queue)
    /\ UNCHANGED <<stored, waiter, wins, doubled, faults, crashes>>

\* BLPOP fails and Run returns for good; or its reply is lost after the pop, and
\* go-redis asks again or gives up.
DequeueFails(s) ==
    /\ wpc[s] = "idle"
    /\ Fault
    /\ \/ wpc' = [wpc EXCEPT ![s] = "stopped"] /\ UNCHANGED queue
       \/ /\ queue # <<>>
          /\ queue' = Tail(queue)
          /\ \E place \in {"idle", "stopped"} : wpc' = [wpc EXCEPT ![s] = place]
    /\ UNCHANGED <<held, outcome, stored, waiter, history, crashes>>

\* Mutant of Handle: a failed attempt is recorded as the job's failure at once,
\* retries or not.
HandleOnce(s) ==
    /\ wpc[s] = "running"
    /\ wpc' = [wpc EXCEPT ![s] = "save"]
    /\ outcome' = [outcome EXCEPT ![s] = "failed"]
    /\ UNCHANGED <<queue, held, stored, waiter, history, faults, crashes>>

\* The handler returns: output, or an error that is retried while attempts last.
Handle(s) ==
    LET j == held[s].job
    IN  /\ wpc[s] = "running"
        /\ \/ /\ j \notin Garbled
              /\ wins' = [wins EXCEPT ![j] = TRUE]
              /\ outcome' = [outcome EXCEPT ![s] = "ok"]
              /\ wpc' = [wpc EXCEPT ![s] = "save"]
           \/ /\ j \in Garbled
              /\ outcome' = [outcome EXCEPT ![s] = "garbage"]
              /\ wpc' = [wpc EXCEPT ![s] = "save"]
              /\ UNCHANGED wins
           \/ /\ held[s].attempts <= DefaultRetries
              /\ wpc' = [wpc EXCEPT ![s] = "requeue"]
              /\ UNCHANGED <<outcome, wins>>
           \/ /\ held[s].attempts > DefaultRetries
              /\ outcome' = [outcome EXCEPT ![s] = "failed"]
              /\ wpc' = [wpc EXCEPT ![s] = "save"]
              /\ UNCHANGED wins
        /\ UNCHANGED <<queue, held, stored, waiter, runs, doubled, faults, crashes>>

\* Mutants of Requeue: process goes on to record the failure; the attempt just
\* made is not counted.
RequeueAndFail(s) ==
    /\ wpc[s] = "requeue"
    /\ \E reported \in BOOLEAN : Push(held[s], reported)
    /\ wpc' = [wpc EXCEPT ![s] = "save"]
    /\ outcome' = [outcome EXCEPT ![s] = "failed"]
    /\ UNCHANGED <<held, stored, waiter, runs, wins, crashes>>

RequeueUncounted(s) ==
    /\ wpc[s] = "requeue"
    /\ \E reported \in BOOLEAN :
           Push([held[s] EXCEPT !.attempts = @ - 1], reported)
    /\ LetGo(s, "idle")
    /\ UNCHANGED <<stored, waiter, runs, wins, crashes>>

\* The retry goes to the back of the list. If it cannot be pushed that is logged
\* and nothing else happens.
Requeue(s) ==
    /\ wpc[s] = "requeue"
    /\ \E reported \in BOOLEAN : Push(held[s], reported)
    /\ LetGo(s, "idle")
    /\ UNCHANGED <<stored, waiter, runs, wins, crashes>>

\* Complete, first half: encode and SET. Output that is not JSON cannot be
\* encoded; that error and one of Redis are only logged.
SaveResult(s) ==
    LET j == held[s].job
        Record == stored' = [stored EXCEPT ![j] = outcome[s]]
    IN  /\ wpc[s] = "save"
        /\ \/ /\ outcome[s] = "garbage"
              /\ LetGo(s, "idle")
              /\ UNCHANGED stored /\ NoFault
           \/ /\ outcome[s] # "garbage"
              /\ wpc' = [wpc EXCEPT ![s] = "publish"]
              /\ Record /\ NoFault
              /\ UNCHANGED <<held, outcome>>
           \/ /\ outcome[s] # "garbage"
              /\ LetGo(s, "idle")
              /\ Record \/ UNCHANGED stored
              /\ Fault
        /\ UNCHANGED <<queue, waiter, history, crashes>>

\* Mutant of PublishResult: a failure is stored but not published.
PublishSuccess(s) ==
    LET j == held[s].job
    IN  /\ wpc[s] = "publish"
        /\ LetGo(s, "idle")
        /\ heard' = IF subscribed[j] = "active" /\ heard[j] = "none" /\ outcome[s] = "ok"
                    THEN [heard EXCEPT ![j] = outcome[s]] ELSE heard
        /\ UNCHANGED <<queue, stored, caller, subscribed, cancelled, told,
                       history, faults, crashes>>

\* Complete, second half: PUBLISH reaches whoever is subscribed at this moment.
PublishResult(s) ==
    LET j == held[s].job
    IN  /\ wpc[s] = "publish"
        /\ LetGo(s, "idle")
        /\ \/ /\ heard' = IF subscribed[j] = "active" /\ heard[j] = "none"
                          THEN [heard EXCEPT ![j] = outcome[s]] ELSE heard
              /\ NoFault
           \/ UNCHANGED heard /\ Fault
        /\ UNCHANGED <<queue, stored, caller, subscribed, cancelled, told,
                       history, crashes>>

-----------------------------------------------------------------------------
\* Execute returns; AwaitResult's deferred Close ends the subscription. What is
\* left in its channel, or becomes of the request, no longer matters.
Tell(j, answer) ==
    /\ told' = [told EXCEPT ![j] = answer]
    /\ caller' = [caller EXCEPT ![j] = "told"]
    /\ subscribed' = [subscribed EXCEPT ![j] = "no"]
    /\ heard' = [heard EXCEPT ![j] = "none"]
    /\ cancelled' = [cancelled EXCEPT ![j] = FALSE]

\* The checks before the job exists fail: bad arguments, no access, no context.
Refuse(j) ==
    /\ caller[j] = "new"
    /\ Tell(j, "gaveup")
    /\ UNCHANGED <<queue, worker, stored, history, faults, crashes>>

Enqueue(j) ==
    /\ caller[j] = "new"
    /\ \/ /\ Push([job |-> j, attempts |-> 0], TRUE)
          /\ caller' = [caller EXCEPT ![j] = "subscribe"]
          /\ UNCHANGED <<subscribed, heard, cancelled, told>>
       \/ /\ Push([job |-> j, attempts |-> 0], FALSE)
          /\ Tell(j, "gaveup")
    /\ UNCHANGED <<worker, stored, runs, wins, crashes>>

Subscribe(j) ==
    /\ caller[j] = "subscribe"
    /\ caller' = [caller EXCEPT ![j] = "get"]
    /\ subscribed' = [subscribed EXCEPT ![j] = "sent"]
    /\ UNCHANGED <<queue, worker, stored, heard, cancelled, told, history,
                   faults, crashes>>

\* Redis processes the SUBSCRIBE.
SubscribeTakesEffect(j) ==
    /\ subscribed[j] = "sent"
    /\ subscribed' = [subscribed EXCEPT ![j] = "active"]
    /\ UNCHANGED <<queue, worker, stored, caller, heard, cancelled, told,
                   history, faults, crashes>>

\* The connection of the subscription breaks, with a message still unread or
\* not; go-redis subscribes anew.
SubscriptionBreaks(j) ==
    /\ subscribed[j] = "active"
    /\ subscribed' = [subscribed EXCEPT ![j] = "sent"]
    /\ heard' \in {heard, [heard EXCEPT ![j] = "none"]}
    /\ Fault
    /\ UNCHANGED <<queue, worker, stored, caller, cancelled, told, history, crashes>>

\* The direct check of the key, in case the job completed before.
GetResult(j) ==
    /\ caller[j] = "get"
    /\ \/ cancelled[j] /\ Tell(j, "gaveup") /\ NoFault
       \/ ~cancelled[j] /\ Tell(j, "gaveup") /\ Fault
       \/ ~cancelled[j] /\ stored[j] # "none" /\ Tell(j, stored[j]) /\ NoFault
       \/ /\ ~cancelled[j] /\ stored[j] = "none"
          /\ caller' = [caller EXCEPT ![j] = "select"]
          /\ UNCHANGED <<subscribed, heard, cancelled, told>> /\ NoFault
    /\ UNCHANGED <<queue, worker, stored, history, crashes>>

\* The select: a message, or the end of the request. With both ready, either.
Receive(j) ==
    /\ caller[j] = "select"
    /\ heard[j] # "none"
    /\ Tell(j, heard[j])
    /\ UNCHANGED <<queue, worker, stored, history, faults, crashes>>

GiveUp(j) ==
    /\ caller[j] = "select"
    /\ cancelled[j]
    /\ Tell(j, "gaveup")
    /\ UNCHANGED <<queue, worker, stored, history, faults, crashes>>

\* The user closes the page, and with it the request's context.
Cancel(j) ==
    /\ caller[j] \in {"subscribe", "get", "select"}
    /\ ~cancelled[j]
    /\ cancelled' = [cancelled EXCEPT ![j] = TRUE]
    /\ UNCHANGED <<queue, worker, stored, caller, subscribed, heard, told,
                   history, faults, crashes>>

\* The result key's TTL of ten minutes runs out, while somebody may read it.
ResultExpires(j) ==
    /\ stored[j] # "none"
    /\ caller[j] \notin {"told", "gone"}
    /\ stored' = [stored EXCEPT ![j] = "none"]
    /\ UNCHANGED <<queue, worker, waiter, history, faults, crashes>>

\* A server dies with its worker's job and its requests; it may come back.
Crash(s) ==
    /\ crashes < MaxCrashes
    /\ wpc[s] # "down"
    /\ crashes' = crashes + 1
    /\ LetGo(s, "down")
    /\ LET dies == {j \in Jobs : /\ Home[j] = s
                                 /\ caller[j] \in {"subscribe", "get", "select"}}
           Lost(f, v) == [j \in Jobs |-> IF j \in dies THEN v ELSE f[j]]
       IN  /\ caller' = Lost(caller, "gone")
           /\ subscribed' = Lost(subscribed, "no")
           /\ heard' = Lost(heard, "none")
           /\ cancelled' = Lost(cancelled, FALSE)
    /\ UNCHANGED <<queue, stored, told, history, faults>>

Restart(s) ==
    /\ wpc[s] = "down"
    /\ wpc' = [wpc EXCEPT ![s] = "idle"]
    /\ UNCHANGED <<queue, held, outcome, stored, waiter, history, faults, crashes>>

WorkerStep(s) == \/ Dequeue(s) \/ Handle(s) \/ Requeue(s)
                 \/ SaveResult(s) \/ PublishResult(s)

CallerStep(j) == Subscribe(j) \/ GetResult(j) \/ Receive(j) \/ GiveUp(j)

Next ==
    \/ \E s \in Servers : WorkerStep(s) \/ DequeueFails(s) \/ Crash(s) \/ Restart(s)
    \/ \E j \in Jobs : \/ Refuse(j) \/ Enqueue(j) \/ CallerStep(j)
                       \/ SubscribeTakesEffect(j) \/ SubscriptionBreaks(j)
                       \/ Cancel(j) \/ ResultExpires(j)

\* A goroutine that can move does, and a handler returns (every SSH step of it
\* ends with the connection); Redis gets to the SUBSCRIBE it was sent. Requests,
\* faults, crashes and restarts need never happen.
Fairness ==
    /\ \A s \in Servers : WF_vars(WorkerStep(s))
    /\ \A j \in Jobs : WF_vars(CallerStep(j)) /\ WF_vars(SubscribeTakesEffect(j))

Spec == Init /\ [][Next]_vars /\ Fairness
-----------------------------------------------------------------------------
Queued(j) == \E i \in DOMAIN queue : queue[i].job = j
Busy == {s \in Servers : wpc[s] \in {"running", "requeue", "save", "publish"}}
Working(j) == \E s \in Busy : held[s].job = j
Outstanding(j) == Queued(j) \/ Working(j)

\* RetryIfFailed holds over the life of a job (worker.go:13-14): through every
\* requeue, lost reply and crash, a handler is started at most once more than
\* there are retries, for each time Redis was sent the job.
RunsBounded ==
    \A j \in Jobs : runs[j] <= (doubled[j] + 1) * (DefaultRetries + 1)

\* A job has one copy, an entry of the list or in a worker's hands, for each time
\* Redis was sent it. Sent once it has none left when it has an answer, so no run
\* of the tool begins on the machine after the model was told how it ended.
Copies(j) == Cardinality({i \in DOMAIN queue : queue[i].job = j})
             + Cardinality({s \in Busy : held[s].job = j})

OneCopy ==
    \A j \in Jobs :
        /\ Copies(j) <= doubled[j] + 1
        /\ doubled[j] = 0 /\ told[j] \in {"ok", "failed"} =>
               /\ ~Queued(j)
               /\ \A s \in Busy : held[s].job = j => wpc[s] = "publish"

\* The queue keeps what it promises the caller (custom_tool.go:87-110): one
\* answer, success only after a successful run, failure only once every retry
\* is spent or nothing handles the job.
Promise == INSTANCE JobPromise WITH runs <- runs, wins <- wins, told <- told
PromiseKept == Promise!Spec

\* Every pending job is taken up, for as long as one worker is still in its loop:
\* a retried job joins the back of the list and starves no other.
QueueDrains ==
    \A j \in Jobs :
        Queued(j) ~> ~Queued(j) \/ \A s \in Servers : wpc[s] \in {"stopped", "down"}

Waiting(j) == caller[j] = "select" /\ subscribed[j] = "active"

\* A caller whose subscription is active while its job is still outstanding is
\* woken and answers (redis_store.go:87-107), provided no Redis command fails
\* and no server dies, and provided the tool prints JSON.
WakesWhenSubscribed ==
    \A j \in Jobs \ Garbled :
        Waiting(j) /\ Outstanding(j) /\ stored[j] = "none"
            ~> told[j] # "nothing" \/ faults > 0 \/ crashes > 0

=============================================================================
