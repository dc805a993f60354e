# A verification development for vohu

vohu is a chat server whose agent works on remote machines: a user talks to a
language model, the model calls tools, and some tools run commands or compiled
programs over SSH. This directory holds TLA+ models of the server, the TLC
configurations that check them on small instances, and theorems about them
proved with TLAPS.

Paths below are relative to the repository; `agent.go:89` means
`internal/agent/agent.go`, line 89.

## 1. The system

### Parts, state, operations

| part | state it keeps | operations | hard behaviour |
|---|---|---|---|
| agent loop (`internal/agent`) | the growing slice `messages`, the loop counter | `Run`, `executeTool`, three callbacks | a turn of many steps that must leave a history providers accept, on every path |
| provider adapters (`internal/ai_model/models`) | none across calls; partial calls while a stream runs | `Chat`, `StreamChat`, message translation | chunks that interleave; each API has its own rule on where a tool result may stand; a conversation changes its provider |
| tool registry (`internal/tools`, `chat/registry.go`) | a map from names to tools, one per turn | `Register`, `Get`, `buildRegistry` | grows during the turn (`create_custom_tool`); names that collide |
| chat (`internal/platform/chat`) | none of its own | `SendMessage`, conversation CRUD | long requests: state read before and used after minutes of work; a browser that leaves |
| conversations, chat settings | tables `conversations`, `conversation_messages`, `chat_settings` | create, append, list, rename, delete | two turns of one conversation; delete during a turn |
| job queue (`internal/jobqueue`) | a Redis list, result keys with a TTL, pub/sub channels | `Enqueue`, `Dequeue`, `Complete`, `AwaitResult`, `Worker.process` | lost replies, retries, crashes, a subscription racing a result |
| custom tools (`customtool`, `system_tools/custom_tool`) | tables `custom_tools`, `custom_tool_versions` | create, version, call | a call crosses the queue; half-done creation |
| SSH and listing tools (`system_tools`) | none | `ssh_execute`, `list_ssh_connections` | access, row and rules are three queries |
| tool deployment (`internal/tooldeploy`, `toolbuild`) | the binary and `~/.vohu/tools.json` on the target host | `Run`, `ensureDeployed` | several servers writing one host |
| access (`internal/platform/rbac`) | tables `roles`, `user_roles`, `resource_access`; a Redis cache per grantee | `HasAccessLevel`, grant, revoke, assign, role CRUD | a check of several reads; a cache that must follow the tables |
| SSH connections, command rules, command policy | tables `ssh_connections`, `ssh_command_rules` | CRUD, `Evaluate` | first match in an unordered list |
| agent tool catalog (`agenttool`) | table `agent_tools` | list, get, change visibility | visibility that other requests rely on |
| terminal (`internal/platform/terminal`) | one-time tickets in Redis; a WebSocket and an SSH session | `Issue`, `Redeem`, `bridge` | goroutines and a pipe; closing in every order |
| provider keys, custom models | tables, encrypted values | upsert, delete, `Resolve` | "at most one" kept by looking first |
| users, auth | table `users`; stateless tokens | register, login, refresh, user CRUD | unique names over soft-deleted rows |
| migrations, seeders | the schema and its first rows | all of them, in order, at every start | a restart between two statements; a start beside another |
| file and network tools (`internal/tools/filesystem`, `network`) | a set of read paths | read, write, edit, search, fetch | not registered by the server at this commit |

### How they interact

At a start the server migrates and seeds the database, starts one worker
goroutine and listens. Every request passes the authentication, the access
guards of its route and its handler; each of them reads and writes the database
by itself, hardly ever in a transaction.

`SendMessage` loads a conversation's history, resolves a provider and a
credential, fills a registry with the tools the user may see, and gives all of it
to `agent.Run`. `Run` calls the model through an adapter, and for each call of
the reply looks the tool up and executes it; text, calls and results go to the
browser through callbacks as they happen. The messages `Run` added are saved when
it returns. A custom tool checks access (the rbac service, through the Redis
cache), enqueues a job and blocks in `AwaitResult`; a worker goroutine of this or
another server pops the job, builds and deploys the tool if the host does not
list it, runs it, and records the output. `ssh_execute` checks access, loads the
connection and its rules, and runs the command itself. Access, connections,
rules, tools and keys are changed by other requests meanwhile.

### What makes each part correct

* agent loop: the history stays well formed for every provider; it is what the
  browser was told; nothing recorded is lost; the turn is closed once; the cap
  holds; the turn ends.
* provider adapters: a streamed reply is the reply; a call cut off is never run;
  what was stored reads back as what was said, whichever provider reads it.
* job queue: a caller gets one answer, and one that is true of the job; retries
  are bounded; a job has no more copies than Redis was sent; pending jobs are taken
  up; a waiting caller is woken.
* access: the precedence rules of `HasAccessLevel`; an answer that was right at
  some moment of the check; a cache that follows the tables.
* chat turns: a turn starts from whole turns; what "done" reports is on record; a
  deletion takes the messages along and is not undone by a request that comes later.
* tools on machines: what a call reaches its user was allowed, by grant,
  connection and rules together; a tool the model made has a source, or a
  failed statement to show for it.
* deployment: a host that lists a version has its complete binary; the manifest
  stays readable.
* terminal: a ticket is used once; when both ends are gone every goroutine ends;
  output arrives.
* the API: nothing is shown or changed without access; updates, deletions and
  keys survive one another; parts do not outlive their whole; creators own what
  they create.
* keys: a user who has a key pays with it.
* starts: whatever was killed half-way, a server that listens finds everything
  in place; a start can be repeated.

`PROJECT.json` lists the hazards one by one, each at its line.

## 2. The modules

### A turn

| module | models | state and actions |
|---|---|---|
| `ChatMessages` | `ai_model/interface.go` | messages, calls, results; `Answered`, the shape every provider demands; `RankIn`, the place of a position among some of a sequence's |
| `AgentRun` | `agent.go`, the part of `SendMessage` around it | `messages`, `iteration`, `calls`, `next` are the variables of `Run`; `pc` its place; `registry`, `offered`, `events` the registry, the last request's tools and the stream to the browser. One action per call out of `Run`: `StreamChat`, `OnChunk`, `ToolCalls`/`FinalAnswer`/`ProviderError` (its return), `OnToolCall`, `OnToolResult` (execution, callback and append), `Stopped` |
| `ProviderRequests` | `buildOpenAIMessages`, `buildAnthropicMessages` | pure operators from a history to a request, with `Flush` at the same three places as the code, and what the two APIs accept |
| `AgentRequests` | what `StreamChat` of those adapters sends for the messages of `Run` | joins the two: `RequestsAccepted` |
| `ModelStream` | `chat/llm.go`, `providerkey` and `custommodel` `Resolve`, `conversation/codec.go`, the stream of `openai.go`, `anthropic.go`, `gemini.go` | `FindForUser`, `FindGlobal`, `FindInEnv`, `ResolvePreset` choose the credential; `LoadHistory`/`Save` decode and encode; `Send` builds the request, `Receive`, `ReceiveBlank`, `EndStream` are the chunks and their folding. A reply comes in any order of chunks its API allows |
| `ChatTurn` | `SendMessage` around `Run`, `conversation` and its repository | `at` is the statement a turn is before: `Get` (twice), `ListMessages`, `RunReturns`, `DrawId`/`AppendMessages` (the INSERT), `TitleFind`/`TitleSave`. `EditFind`/`EditSave` and `DeleteFind`/`DeleteMessages`/`DeleteRow` are the statements of an update and a deletion; `Leave` cancels the context of a turn, `Die` ends its server. `log` is the order of the ids, `conv` the row with who set each field |

### Tools and machines

| module | models | state and actions |
|---|---|---|
| `CommandPolicy` | `internal/tools/command` | `Evaluate`: the first match decides; `Verdicts`: in every order the query may return the rules |
| `RemoteTools` | `chat/registry.go`, `chat/system_tools`, what a worker does with a job | `db` are the tables; per turn a registry and a call. `BuildBuiltins`, `BuildCustom` fill the registry; `ListRows`/`SiftRow`, `SSHCheck`/`SSHRow`/`SSHRules`/`SSHExecute`, `CreateCheck` to `CreateVersion`, `CustomCheck` and `JobTool` to `JobRun` are the statements of the four kinds of call; `Edit` is any change through the API; uses `CommandPolicy` |
| `JobPromise` | what a custom tool call is promised | `Attempt`, `Succeed`, `Answer` |
| `JobQueue` | `internal/jobqueue`, `CustomTool.Execute`, the worker goroutine of `main.go` | every Redis command is an action: `Dequeue` (BLPOP), `Requeue`/`Enqueue` (RPUSH), `SaveResult` (SET), `PublishResult` (PUBLISH), `Subscribe` and, apart from it, `SubscribeTakesEffect`, `GetResult` (GET); `Receive`/`GiveUp` are the branches of the `select`; `Cancel`, `ResultExpires`, `Crash`, `Restart` come from outside. `Promise == INSTANCE JobPromise WITH ...` is the refinement |
| `ToolDeploy` | `internal/tooldeploy`, `toolbuild` as one step | `place` is the request a server's `Run` is at: `ReadManifest`, `Build`, `CreateBinary`, `WriteBinary`, `CloseBinary`, `Chmod`, `RewriteManifest` (Create of the manifest), `SaveManifest` (its Write), `Execute`, `Finish`. `files`, `listing` and `garbled` are the host; `Lose` is a lost connection or a dying server |
| `Terminal` | `terminal/ticket.go`, `handler.go`, `routes.go` | tickets: `AskTicket`, `Issue` (SET), `Expire`, `Get`, `Del`; `LoadConnection`, `Upgrade`, `StartShell`; the bridge: `ReadMessage`, `WriteStdin`, `Wait` of the handler, `ReadPipe`/`WriteMessage` of the printer, `TakeOutput`/`WriteFails` of a copier of `x/crypto/ssh`; `Type`, `Leave`, `Emit`, `Consume`, `EndShell` are the two ends |

### Access and the API

| module | models | state and actions |
|---|---|---|
| `AccessResolver` | `HasAccessLevel`, `findGrant`, `resolveAnyRole` | a function from the tables to the set of possible answers: a list from the cache has no order (the query has no `ORDER BY`), and nothing keeps a tuple from having two rows |
| `AccessCache` | `cached_repository.go`, the repository below it, and the resolver step by step | a check is at one lookup, in one phase of it (`CacheGet`, `QueryDatabase`, `CacheSet`); a change is `GrantLookup`/`GrantWrite`, `RevokeLookup`/`RevokeDelete` or `AssignRole`, then `Invalidate` (DEL), which a revoke whose lookup failed ("blind") does not send; `Expire` is the TTL |
| `ApiSteps` | `shared`: guards, generic repository, `crud_handler.go`, `ListForCaller` | the vocabulary: an endpoint is a sequence of statements, checks and early returns |
| `ApiConventions` | what the services keep to in every endpoint | predicates on a route: a row is saved that was found, a key without an index is looked for first, a part comes after its whole, a creator is granted, the check the endpoint documents comes before what it changes or shows, and that is of the resource checked. `Api` assumes them of its routes and the run evaluates them on all of them |
| `ConnectionApi`, `ToolApi`, `RoleApi`, `UserApi`, `ModelApi`, `ConversationApi` | routes, handler, service and repository of `sshconn`, `commandrule`; `customtool`, `agenttool`; `rbac`; `user`, `auth`; `providerkey`, `custommodel`; the CRUD of `chat` and `conversation` | one route per endpoint: the columns of its body, its guards, its steps, and the access its documentation asks for. No state |
| `Api` | a server and a database that run those steps | `tables` with soft-deleted rows, `run` with the request of each client, the row it has in hand and the page it shows. One action per kind of step; `Start` is a request, `Fail` a failing statement. Takes access from `AccessResolver` over its own tables |

### The start

| module | models | state and actions |
|---|---|---|
| `Startup` | `platform/migrations`, `platform/seeders`, the order of `main.go` | a start is a sequence of looks, wants, needs and creates (`Program`); `Query`, `Insert`, `Execute` take the next; `Start`, `Kill`, and what users do to seeded rows: `Edit` and the two halves of a deleted tool |

Each state machine has an `MC` module with its instance, and a module of proofs:
`AgentRunProofs` (with `AgentRequests`), `ModelStreamProofs`, `ChatTurnProofs`,
`ToolDeployProofs`, `AccessProofs`, `ApiProofs`, `SSHProofs` (the two ways to a machine,
`RemoteTools` and `Terminal`) and `ServerProofs` (what a server process does, `JobQueue`
and `Startup`). The names of `Terminal` and `Startup` carry that of their module where
the other of the same proofs has them too (`TerminalNext`, `StartupNext`). `MCApi` joins
`Api` with the six modules of endpoints.

Definitions named "Mutant of ..." are plausible bugs: `PROJECT.json` says which
property notices each.

### Abstractions

Text, arguments and data are reduced to what a property tells
apart: which statement wrote a message, whether arguments parsed, which return
of `executeTool` built a result, whether output is JSON, whose key a credential
is. In `AgentRun` the chunks of one reply are one event; `ModelStream` has them one
by one. Redis, Postgres, SSH and the hosts are external: one command is atomic,
and may fail, before or after it took effect. In `ChatTurn` a turn adds one of
`Batches`, any message sequences that `WholeAssumption` admits; `CallsAnswered`
and `TurnClosesOnce` of `AgentRun` say that `Run` returns no others. The manifest
is small enough for one SFTP write (32 KiB); a binary takes several. A job of
`RemoteTools` is run by the worker in place, with its retries; `JobQueue` has the
way there and back. Access in `Api` and `RemoteTools` is read from the tables;
`AccessCache` is about the cache in between.

In `Api` a row keeps the columns its requests write, and a value says which client
wrote it, or is the one value of the part that matters. The API is checked in eight
parts, each with its routes, its tables, and users, roles and grants where they
matter; parts share no other table. A step that touches no table is taken at once:
nobody could tell when it was.

History variables record the past for properties and guard nothing: `runs`,
`wins`, `doubled` (`JobQueue`), `astray`, `commits`, `misled`, `seen` (`AccessCache`),
`crowded`, `before` (`ChatTurn`), `torn`, `overlapped` (`ToolDeploy`), `could`, `gone`,
`meant`, `crossed` (`Api`), `could` (`RemoteTools`), `together`, `kept`, `emitted`,
`shown` (`Terminal`; the bounds read `emitted`), `memory`, `held` (`ModelStream`),
`since`, `overlapped`, `fatal` (`Startup`). `could` is why access is checked
honestly: it collects what a request was allowed at any instant since it began,
so a grant revoked while the request runs is no violation, and a check left out is.

## 3. The runs

| run | checks | shows |
|---|---|---|
| `agent_run` | `CallsAnswered`, `TurnClosesOnce`, `EventsMatchHistory`, `RequestsAccepted`, `RecordOnlyGrows`, `OfferedStaysCallable`, `RunReturns` | a turn keeps its promises on every path |
| `agent_reasons` | `FailureReasonReachesModel` (violated) | why a call failed is dropped on the way to the model |
| `model_streams` | `StreamIsChat`, `CutCallsNeverRun`, `SignedWithinTurn`, `ReloadedIsSame`, `OwnKeyFirst` | a streamed reply is the reply, over two turns on any two providers, and is stored as it was said |
| `chat_turns` | `HistoryIsWhole`, `DoneMeansStored`, `OrphansAreLate`, `NamedByFirst`, `StaysGone` | turns, edits and deletions of one conversation at once |
| `remote_tools` | `ReachedWasAllowed`, `ModelToolsHaveSource` | what a turn's tools reach was allowed, while others change connections, rules, grants and tools; a failed statement of create_custom_tool strands one tool at most |
| `job_queue` | `RunsBounded`, `OneCopy`, `PromiseKept` | the queue implements `JobPromise`, one faulty command included; copies and runs of a job are bounded by how often Redis was sent it |
| `job_queue_live` | `QueueDrains`, `WakesWhenSubscribed` | jobs are taken up and subscribed callers woken |
| `tool_deploy` | `ListedIsDeployed`, `GarbledByOverlap` | what is listed is there, except during or after an upload that was begun from an older manifest; what garbles a manifest |
| `terminal` | `OneUse`, `BridgeReturns`, `OutputArrives` | a ticket serves once but for the window between GET and DEL; a bridge without ends returns; output arrives |
| `access_cache` | `FreshUnlessRaced`, `AnswerWasTrue` | the only ways the cache goes stale; single-change checks are consistent |
| `api` | `ShownWasReadable`, `ChangeWasAllowed`, `DeletedIsGone`, `NothingLostAlone`, `OneKeyEach`, `PartsHaveTheirWhole`, `CreatorIsGranted` | every endpoint but the chat itself, two requests at once: access, deletion, and where rows are lost, doubled or orphaned |
| `startup` | `ListeningIsSeeded`, `OnlyDeletedRowsStopIt` | starts killed anywhere, overlapping, on old databases: who listens finds everything seeded; what keeps a server from starting |

Properties of the form "unless" (`FreshUnlessRaced`, `OrphansAreLate`, `OneKeyEach`,
`NothingLostAlone`, `OnlyDeletedRowsStopIt` and others) name the ways in which the code
can fail, and say that there is no other. For each, the run has states in which the
exception is what makes it true.

### Bounds, and why they are enough

* Agent: cap 2 and 2 calls per reply give a first, middle and last round-trip
  and a first and last call; the calls cover a builtin, the creator of tools, the
  tool it creates and a call that did not parse, two of them with one ID. It
  starts from an empty conversation and from one with a finished turn.
* Streams: two turns, so that a second provider reads what the first one wrote; two
  or three parts in a reply, so that chunks of two calls, or of text and a call,
  interleave; arguments that are an object, nothing, `null`, or cut off; one chunk
  without content; one mishap, which is a failed statement, a broken stream or an
  edit of the keys.
* Queue: two servers and two jobs, one retry, one misbehaving command or one
  crash: every pair of actors meets. A doubled RPUSH needs one fault. The live
  run has a type nobody handles instead of the fault.
* Access: one check that repeats, two changes (one to make stale, one to mix
  with), one role, one level required of three. Rows are bounded by two, so both
  rows of a raced insert occur. One failed command.
* Chat: two turns (the second may start before, while or after the first stores),
  one edit, one deletion, one batch of four rows, which shows any cut inside it, one
  fault. The tabs are symmetric. `HistoryIsWhole` excludes histories after two
  INSERTs at the same moment, where the ids of two turns may alternate: the run
  finds broken histories without that premise.
* Remote tools: one turn of two calls over one connection, in both modes, with no, one
  or two overlapping rules; a custom tool with its own name or with that of a builtin,
  and one to be created; two edits by others (with two, a policy that never was can be
  put together, which `ReachedWasAllowed` excepts), one fault, one retry.
* Deployment: two servers, a tool with two versions and another tool (so manifests of
  equal and of different length), binaries of two writes, one lost connection at any
  request. The servers are symmetric.
* Terminal: one ticket shown twice on two paths, so that redemptions race; one bridge
  (bridges share nothing), one output stream, two pieces of output, one message of
  the browser of either kind, a shell that leaves one piece of input unread. A second
  copier would only wait for the same pipe.
* API: two requests of two users at once, in each of the eight parts: with the first
  one may be anywhere when the second starts, and with `MaxRequests` 2 a second one may
  also follow the first. User 1 manages everything, user 2 has one grant. The rows a
  part begins with are what its requests need to meet. One failing statement.
* Starts: two servers, three starts (a killed one, one beside it, one after), an empty
  database and three of an older release, two resource types, one catalog tool and two
  file tools (one was a stub of the catalog, one has the faulty version), one edit by
  a user. The servers are symmetric.

### Deadlock and fairness

Deadlock is checked for the agent and for the deployment. The others may stop: a server
whose requests are answered has nothing left to do, calls need not come, an idle shell
and its browser may stay, and starts and edits are bounded.

`Run` is one goroutine (`WF_vars(Next)` of `AgentRun`): calls to the model and to a
tool return, with an error at worst. In the queue a goroutine that can move does,
per server and per caller, and Redis gets to a SUBSCRIBE it was sent. In the
terminal each goroutine is fair by itself: the handler, the printer and each copier
(`WF_vars` of `Serve`, `Handle`, `Show`, `Copy`). Nothing is assumed of requests,
browsers, shells, cancellations, faults, crashes or restarts; the other modules claim
no liveness and state no fairness. A handler returning is an assumption:
`deployer.execute` has no deadline, and a remote program that never ends holds its
worker for ever.

## 4. Where the code and its words part

`agent_reasons` is a run of its own. The adapters encode `ToolResult.Result` only
(`openai.go:276`, `anthropic.go:287`); where `executeTool` fails by itself that field
is nil and `Error` carries the reason, so the model gets `null`, although
`system_prompt.go:20` promises it a reason.

The models have these as well; the properties except them by name, or leave them out.

* Queue. `redis_store.go:88` says subscribing first means a completion in between is
  not missed, but `client.Subscribe` does not wait for Redis' confirmation, and the GET
  goes over another connection (`WakesWhenSubscribed` begins with the confirmation).
  `custom_tool.go:107-108` handles output that is not JSON; it is never reached, since
  `Complete` cannot encode such a result, and its caller waits.
* Access. A read that queried before a revoke may fill the cache after its DEL;
  `cached_repository_test.go:72-74` asks that a revoked grant stops being served at
  once (`FreshUnlessRaced`). Deleting a role leaves its grants and assignments in
  force, although `rbac/handler.go:108` says that its users lose what it granted.
* Chat. `chat/handler.go:247` says that the messages of a conversation are a 404 for who
  does not own it; `conversation/service.go:90-104` lets in whoever has a grant to read
  it, or its owner as a "user", and `service_test.go:311`
  (`TestListMessages_AllowsNonOwnerWithResourceAccess`) asks for it. The models follow
  the code (`GetMessages` of `ConversationApi`). `chat/handler.go:301` says the title event replaces the conversation's
  initial generic title; line 398 only asks whether the history was empty, so a
  title the user gave is replaced too (`NamedByFirst`). The text a model streams before
  tool calls is shown and not stored (`agent.go:89-92`; `EventsMatchHistory` compares
  the rest).
* Deployment. `deployer.go:8-10` says that concurrent deployments of one version
  are harmless. Both write the same bytes, but Create truncates the binary where it
  is: the other's Run may start it while it is incomplete, or runs it already, and
  then the host refuses to open it. If the second upload is cut off, the tool stays
  listed and broken, and no later Run repairs it (`ListedIsDeployed` has to except it).
* Terminal. `ticket.go:53` says that a second call with the same ticket always fails:
  two that both GET before either DELs succeed, and so does a later one if the DEL
  failed (`OneUse`). `terminal/handler.go:135-138` says that the session is torn down
  when the browser goes away: what is closed is the pipe, so that beside an idle shell
  the copiers, the handler and the SSH connection stay until it exits or writes
  (`BridgeReturns` has a shell that ended). A shell that exits waits for its browser.
* Starts. Seeders ask for live rows, unique indexes count deleted ones: once the
  default admin, its role or a seeded file tool has been deleted, `Create` fails at the
  next start and every later one, and no server starts any more
  (`OnlyDeletedRowsStopIt` says that nothing else does this). A deletion of a tool cut
  off after its versions ends the same way. A renamed admin role is created anew;
  revoked wildcard grants of the admin come back; the version `1.0.1` that UpP_5 adds
  hides a higher one a user had made, since the latest is the one with the highest id;
  two starts at once may double assignments and grants.

Seen while modelling, and part of the models where they have state: `enabled` of a
user is stored and never asked for at a login. A caller who may read a whole type is
listed rows that an exact prohibited grant denies. A ticket is a capability: the
WebSocket looks neither at the user nor at access again. A thought signature does not
survive the database, so the calls of finished turns go back without one. A failed
result with a blank reason reads back as a success (`codec.go`, omitempty).

## 5. The proofs

All are of the specifications the runs check, for every value of the constants
that satisfies the named assumptions of the modules.

`AgentRunProofs` (from `LimitAssumption`, `CallAssumption`, `HistoryAssumption`):

* `TypeCorrect`, with what ties the loop variables to the place: in the inner loop
  `next` is one of the calls and `iteration` is below the cap. `Advance` could
  not be shown to keep `iteration` in range without it.
* `CallsAlwaysAnswered`. `CallsAnswered` is inductive over that: its first form
  says, for the middle of a reply, exactly how much of it has been answered.
* `EventsAlwaysMatch`. The kth tool event is the kth result recorded: both are found
  by rank (`RankIn`) among positions (`Told`, `Recorded`), which is what lets the
  proof follow two sequences that grow at different moments.
* `TurnAlwaysCloses`, `RecordNeverShrinks`, `OfferedAlwaysCallable`. The last
  rests on `offered` being part of `registry` from the request on, and on
  `registry` only growing.
* `RequestsAlwaysAccepted`. A history with every call answered (`CallsAlwaysAnswered`)
  makes a request that both APIs take, however long it is. OpenAI gets an item per
  message or none: each has its place (`Placed`), so what stands behind a call stays
  behind it. For Anthropic the loop over the history has an invariant (`LoopHolds`):
  what is put together so far is sound (`SoundSo`), and what is pending are the results
  of the message whose calls still await answers, if there is one.

`ModelStreamProofs` (from `ReplyAssumption`: a reply is any sequence of `Parts`; any
number of turns and mishaps, any provider for each turn):

* `OwnKeyAlwaysFirst`, by `KeyInv`: whoever has got past their own key has none, or
  lost it on the way.
* `ReloadedStaysSame`, by `SameInv`: each stored message says to every provider what the
  one in memory said, and a turn under way begins with the stored ones. What the codec
  drops is the signature, which `SaysSame` leaves out on both sides.
* `StreamsLikeChat`, `CutCallsStayUnrun`, `SignedAlways`, by `StreamInv`: during a stream
  there is a part up to which all have begun, in whatever order the chunks of the calls
  come, and what has been shown is what `Folded` makes of those; once the stream has
  ended the fold is the whole reply, and behind its calls stand their answers.

`ServerProofs`, the queue (from `JobAssumption`):

* `TypeCorrect`, with what ties a worker's outcome to its place.
* `PromiseAlwaysKept`: `Spec` implements `JobPromise!Spec`. The inductive
  invariant follows the evidence for an answer along its way: an entry of the
  list has `attempts` no greater than the runs of its job; a worker that is about
  to record, a result key, and a message in a channel are each justified (a
  success by a successful run, a failure by spent retries or a missing handler).
  Every step then maps to `Attempt`, `Succeed`, `Answer` or a stutter.
* `OneCopyAlways` and `RunsAlwaysBounded`. Both count against what Redis was sent, for an
  RPUSH that took effect while its reply was lost leaves two jobs behind, and
  `doubled` notes it. Each copy has a lane of its own, of as many as Redis was sent, so
  there are no more copies than lanes; each run takes the place in its lane that
  `attempts` says, so the runs are no more than the lanes times the places. That no
  run begins after the answer holds of a job sent once: no step but the one that takes a
  copy over gains one (`NothingGained`), and an entry of the list, a worker that holds
  it and an answer exclude each other (`Alone`).

`ServerProofs`, the start (from `StartupAssumption`: no tool is named as the admin or
the admin's role, and a first database is one that older releases leave: a file tool
that is not there has no versions, only the first version of one can be faulty, which is
`1.0.0`, and nothing is granted twice). The theorems are about any seeds, any number of
servers, starts and edits, and any order in which `UpP_5` ranges over its map:

* The program of a start is put together from blocks, and is `Sound`: a create stands
  behind a look for the same thing, a look for a version behind a want for its tool, and
  what a step needs has been created before it. This is proved block by block
  (`RowSound` to `UserRolesSound`), and that two sound parts make one (`SoundTogether`).
* `ListeningStaysSeeded` and `OnlyDeletedStops`, from one invariant (`StartInv`): what a
  start that no edit disturbed has behind it is done, whoever did it (`PassedIsDone`),
  and stays done, for no statement of a start takes anything away; a start that nothing
  disturbed is the only one, and is about to create only what is not there
  (`Undisturbed`); while starts do not overlap nothing is counted twice by a server
  whose admin role still has that name (`CountedOnce`). A create that an index refuses
  can then only be that of something deleted, and a server that listens has everything
  behind it.

`AccessProofs` (from `AccessAssumption`):

* `CacheStaysFresh`. The invariant adds that a check about to fill has the key
  and a value of the right kind, and that a change between its write and its DEL
  holds the key it will delete.
* `AnswersWereTrue`. A check that met at most one change has come where it stands by
  reading one view of the tables, that of now or that before the change, and
  `HasAccessLevel` of each view it may still end by is among what it has seen. That one view
  explains all its lookups is what the cache owes it, so `CacheStaysFresh` is used. Of a
  check that met two changes, or read a key gone astray, nothing is claimed.
* `WeakerIsAllowed` and `ProhibitedIsRefused`, about `HasAccessLevel` on any tables:
  a level allowed allows the lower ones, through grants, roles and cascade; an
  exact prohibited row of the user decides. `Api` takes its answers from the same
  operator.

`ChatTurnProofs` (from `BatchAssumption`, `WholeAssumption`, `KindAssumption`,
`FaultAssumption`):

* `TypeCorrect`.
* `DoneAlwaysStored`. The invariant says that the rows of a turn in the log are those
  before `next`, each in its place, and that what is stored has all of them.
* `HistoryStaysWhole`. It adds that the rows of a turn lie side by side in the log
  unless two INSERTs met (`InRuns`), and that a turn keeps its batch (`BatchInHand`);
  a history is then the whole batches of the turns it shows, one after another, and
  `WholeAssumption`, which is what `AgentRunProofs` proves of `Run`, says that
  each leaves no call without an answer. The lemmas on `RankIn` are those of a bijection
  between a finite set of positions and an initial segment of the numbers.
* `NamedByTheFirst`. Only a turn that saw an empty history gets to the title, and the
  invariant carries that through the row in hand of turns and of edits.
* `OrphansAlwaysLate`. A turn that is over stores nothing more (`OverStays`), so what
  a deletion has wiped stays wiped; the row goes only after that.
* `DeletedStaysGone`, from the actions alone.

`SSHProofs`, the tools (from `RemoteToolsAssumption`):

* `ReachedStaysAllowed`. What a turn is shown and the tool it runs are checked in one
  statement. A command that at most one edit fell into has read (the check,
  then the row, then the rules) the tables of now, or those before the edit, and
  what either allows is in `could`. Where two edits fell into a command's call
  nothing is claimed of it.
* `ModelToolsKeepSource`. A tool of the model's without source that nobody is creating
  any more is in `Stranded`; no statement and no edit adds to that set, and one that
  fails adds at most the tool of its own turn. So the set is finite and no larger
  than `faults`, although both may grow without end.
* `AnyMatchMayDecide`, about the operators of `CommandPolicy` alone. `Evaluate` stops at
  the first match, and the repository asks for the rules without an ORDER BY: exactly
  the verdicts of the rules that match are possible, each from an order that has that
  rule first. So two overlapping rules that disagree leave the command to chance, and a
  set of rules that agree decides it, however many there are.

`SSHProofs`, the terminal (from no assumption):

* `TicketServesOnce`. Whoever got past Redeem left the ticket deleted, or is excused by
  a failed DEL; so who reads a live ticket meets, of those who have read it, only
  requests that are still before their DEL, and `Get` notes the two as met.

`ApiProofs` (from `ApiAssumption`, `RoutesAssumption`, `RowsAssumption`). The theorems are
about every set of routes that keeps to the conventions of `ApiConventions`, with any
number of clients; the run evaluates the assumptions on the fifty endpoints of the server.

* `NothingIsLost`. A request about to save has in hand the row as the requests so far
  meant it, or one of them changed it while another was about it.
* `OneKeyOnly`. Between the lookup that found none and its insert, a request is about
  the key, so whoever inserts another meets it.
* `WholesStay`. Between the lookup of a whole and the insert of a part a deletion of
  the whole meets that request; between the two DELETEs it is the insert that meets it.
* `CreatorsAreGranted`. Between the two inserts the request still has the new id.
* `DeletedStaysGone`. What was gone when a request began is not live until an older
  request brings it back, and what is in hand or on a page was live when read.
* `ShownStaysReadable` and `ChangesStayAllowed`, from one invariant (`AccessInv`): a
  request that has passed the check of its endpoint had, at some instant since it began,
  the level on the very resource it touches (`Earned`). That the row in hand
  is still of that resource when the statement runs rests on two facts: it is the one
  the path or the key named (`FoundStored`, `HandFits`), and no statement of any request
  gives a row of `FixedKeys` (grants, rules, conversations, settings, versions,
  messages) another key (`FixedInHand`). For lists the invariant follows the page through
  its sift (`Sifted`, `ShownOwn`). That each endpoint has its check before its
  change, and on what it changes, is in the assumptions (`ChecksItsNeeds`,
  `TouchesItsOwn`, `KeepsKeys`), evaluated on the real endpoints; what is proved is that
  nothing the other clients do in between defeats it.

`ToolDeployProofs` (from `ToolAssumption`, `NoneAssumption`, `PieceAssumption`,
`FaultAssumption`):

* `TypeCorrect`.
* `ListedAlwaysDeployed`. The inductive invariant follows a binary from its upload to
  the manifest: a file that is not torn is complete, or the server that truncated it
  last has it open and has left in it all it wrote so far; what is listed, or is in
  a manifest somebody has read, has been made executable, and stays so.
* `GarbledOnlyByOverlap`: as long as no two rewrites overlapped, the one server
  between Create and Write finds the manifest as empty as it made it.

The type invariants are proved and in no run, for a theorem says more.

One proof failed for a good reason. `DeletedIsGone` first said that no request has in
hand what was deleted when it began. With two requests that holds; with a third it does
not: an update that read the row before the deletion saves all its columns, `deleted_at`
among them, and whoever begins between the two then finds a live row. `gone` now drops a
row that somebody has brought back. Another proof could not start before `Asked`, which
says what a busy request must be allowed, was written so that no two of its cases
overlap: TLC takes the first that holds, the logic may take either.

Only model-checked:

* liveness (`RunReturns`, `QueueDrains`, `WakesWhenSubscribed`, `BridgeReturns`,
  `OutputArrives`), which is out of the prover's reach.

Every other property of the passing runs is proved. The library's induction theorems take
an operator as a parameter, which no installed prover can instantiate; where a proof
needs induction (over a history, a reply, a program) it takes the least number at which
the claim fails, and the library says that there is one (`Least`, `Onward`).

## 6. Not modelled

* Contents: prompts, argument and output formats, tool schemas, encryption, tokens,
  logging. The filters, sorting and page arithmetic of lists (`shared/filter.go`,
  `pagination.go`): pure functions of one request, without state. A list is
  one page: the limits of 500 tools of a registry and of 1000 rules of a connection
  are not reached.
* The wiring of `main.go`, recovery and request logging.
* The compiler run of `toolbuild`, and SSH itself: steps that succeed or fail.
* The file and network tools (`internal/tools/filesystem`, `network`), which nothing
  registers at this commit: how the server would call them is not in the code.
* The packages (clients of Redis and Postgres, configuration), the web client, the
  generated API documentation (`docs/docs.go`), the deployment files.

## 7. Plan

Everything the first plan named is modelled, and every safety property of the passing
runs is proved. What could be added is an abstract specification of `ChatTurn` (a
conversation is a sequence of whole turns) for it to refine, as far as no two INSERTs meet.
