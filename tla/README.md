# Verification of assemblix

assemblix runs user-built workflows: graphs of nodes that call models and tools,
executed for an HTTP request, by a background worker or for a voice call, and paid
from an organization's credits. This directory holds TLA+ modules of
`assemblix-app-api`, the TLC configurations that check them, and TLAPS proofs about
them.

Paths below are relative to `src/assemblix-app-api/assemblix_api/` unless they start
with `docs/` or `src/`. `PROJECT.json` maps every definition to the lines it models.

Contents: [the system](#the-system), [modules](#the-modules),
[runs](#the-runs-what-each-checks-and-its-bounds), [fairness](#fairness),
[proofs](#the-proofs), [disagreements](#where-the-code-disagrees-with-its-documentation),
[what is not modelled](#what-is-not-modelled), [plan](#plan).

## The system

### Components

| component | state | operations | modelled in |
|---|---|---|---|
| execution queue (`queue/`) | `executions` row, Arq's keys in Redis (job, in-progress, result, try counter), completion channel | enqueue, orphan scan at worker start, deliver, cancel, publish completion, wait for it | `ExecutionQueue` |
| execution lifecycle and trace (`services/execution_service.py`, `execution_trace_service.py`) | status, output, cost columns of the row; `execution_steps` | create, mark running, conclude, log a step once, find a resume point, task result | `ExecutionContract`, `ExecutionQueue`, `WorkflowRun`, `ChatRuns` |
| workflow executor, sequential engine (`execution/workflow_executor.py`) | `ExecutionContext` in memory, one database session | prepare, run node after node with checkpoints, route, finalize, handle an error, resume | `WorkflowRun` (data and routing), `ExecutionQueue` (transactions and crashes) |
| nodes, expressions (`nodes/`, `core/cel_evaluator.py`, `core/template_evaluator.py`) | the context they are handed | one `execute` per node type; which names resolve, how a value is read back | `NodeBehaviour` |
| parallel engine (`execution/dag_scheduler.py` and the loop in `workflow_executor.py`) | tokens per node, ready queue, running tasks, launch counters, shared context | launch, complete, prune, join, fail, time out | `ParallelRun` |
| graph analysis (`execution/graph_analysis.py`) | none | warnings about joins in loops and overlapping ENDs | `ParallelRun` |
| in-process run (`dependencies.py`, `api/rest/executions.py`) | a tracked task and its session, a result future | run, time out, answer, task endpoint | `ChatRuns`, `DebugStreams` |
| chat sessions (`services/chat_service.py`, `chat_message_service.py`) | `chat_sessions`, `chat_messages`, `client_sessions` | load, save state and messages, count, write by hand, delete | `ChatRuns`, `WorkflowRun` |
| concurrency limits (`core/concurrency_limiter.py`) | leased slots in Redis | acquire, wait, release, expire | `ChatRuns` |
| credits (`billing/`) | `organizations` row with granted and purchased balances and period, `credit_transactions` | ensure the period's grant, deduct, drain for a call, top up | `CreditLedger` |
| payments (`services/payment_service.py`) | `payments` rows | checkout, provider notification | `CreditLedger` |
| event stream (`execution/stream_buffer.py`, the SSE endpoint) | two rings of numbered events per run, a condition variable, one generator per client | open, append, append audio, subscribe from a cursor, keepalive, expire | `StreamBuffer` |
| debug streams (`execution/debug_event_manager.py`) | a queue, a buffer, a ready event and a timer per debug run | create, wait for a client, emit, discover, follow, hang up, drop | `DebugStreams` |
| voice sessions (`services/voice_session_service.py`, `realtime/runtime.py`) | `voice_sessions` rows, the call's handler, bridge and avatar's room | admit, open, join both sides, tear down, final hook, close and charge | `VoiceCalls` |
| voice cascade (`realtime/cascade/`) | turn detector, recogniser's stream, reply task, dialogue | hear, speculate, confirm, answer, interrupt, hang up | `CascadeBridge`, `TurnDetector` |
| half cascade (`external/voice/conversation/half_cascade.py`) | synthesis sessions, steps held behind a flush, characters to bill | speak a text bridge's replies, mute, bill | `SpokenReply` |
| accounts and access (`services/user_service.py`, `oauth_service.py`, `organization_service.py`, `project_service.py`, `api_key_service.py`) | users, organizations, members, projects, API keys | register in every way, invite, remove, create, delete | `Accounts` |
| workflow and agent library (`services/workflow_service.py`, `voice_agent_service.py`) | drafts, versions, agents with their hooks | create, edit, publish, copy, move, delete | `WorkflowLibrary` |
| knowledge bases (`services/knowledge_base_service.py`) | bases with counters, documents | create, add, replace, delete | `KnowledgeBases` |
| credentials, channels, templates | rows of a project | create, edit, delete | `ProjectAssets` |
| native conversation bridges, web application, migrations | | | [not modelled](#what-is-not-modelled) |

### How they interact

A queued run crosses most of them. The request (`api/rest/executions.py`) creates the
row, pushes the job to Arq, commits, and, for a synchronous call, subscribes to the
run's completion channel, reads the row and waits. A worker takes the job, opens one
database session for all of it, marks the row `RUNNING`, finds the resume point in
the step log, and drives one of the two engines. After each node it commits. At the
end it deducts credits, saves chat and state, writes the result and leaves the last
commit to the job, which then publishes the completion message and lets Arq record
the job as done. Without the queue the same executor runs in a task of the API
process, and the request waits for its future. The credit row it deducts from is
shared with every other run, with voice calls and with the payment provider's
notifications; the chat's row with every other run for the same client. While it
runs, a streaming run appends events that SSE clients of the same process follow.

A voice call has a runtime between two event streams: a provider's bridge and an
avatar's room. A cascade bridge builds the provider's side out of a recogniser, a
workflow or a model, and a synthesiser; the half cascade puts only the synthesiser
behind a model that writes. All of them promise the runtime one order of events,
`VoiceStream`.

### What is hard

* **Crashes and redelivery.** A worker may die or be told to stop between any two
  steps. What survives are commits and Arq's keys; the rest is repeated.
* **Order of effects in two stores.** The row is in Postgres, the job in Redis. The
  push comes before the commit; the result's commit before Arq's acknowledgement.
* **Lost wakeups.** The completion channel and the event stream both notify without
  memory: who is not listening has to look.
* **READ COMMITTED.** Balances, periods, chat states, versions and counters are read,
  decided upon and written in separate statements of overlapping sessions.
* **Scheduling of branches.** Joins wait for tokens, conditions prune branches, loops
  start over, END filters a state that siblings still write.
* **Cancellation.** A reply task is cancelled while it holds a history index, a
  synthesis session, or characters nobody has billed.
* **Late answers.** A recogniser's final arrives after its timeout; a Redis answer is
  lost after the script ran; a timer fires for a stream that was made again.
* **Partial failure.** A step after the deduction may raise; a call's bridge may open
  when the avatar's room did not.

`PROJECT.json` lists each hazard at its line, with the property that covers it or the
reason there is none.

### What makes each part correct

* queue: one worker at a time runs an execution; a fee is charged once and only with
  the result; a resumed run starts at the right node; the waiter is told; a queued
  run settles.
* engine: the trace is one way through the graph, whatever crashes it went through; a
  failed turn leaves the conversation as it was; the bill is what was used; the answer
  is the agent's it should be.
* parallel engine: exactly the nodes that a live path reaches run, joins wait for
  everything that can still come, each step is recorded, no run is stuck.
* runs in the process: a run is stored whole or not at all; it writes into the chat
  what its nodes set or what it loaded, and nothing else; each slot of a limit stands
  for a call, or for an exchange with Redis that was cut off.
* credits and payments: credits are neither lost nor invented, balances do not go
  negative, a confirmed payment has its effect, no session waits for ever.
* streams: a client gets every retained event, in order, once, across reconnections,
  up to the terminal one; nothing is kept of a run that is over.
* calls: what the caller may not hear yet is not shown, what was cut is not heard
  again, each phrase and each character counts once, a call's money and slot come out
  right, nobody is left in a room.
* workspace: everyone keeps a home, references do not dangle, versions and counters
  tell what there is, under any overlap of requests.

## The modules

| module | what it is |
|---|---|
| `ExecutionContract` | abstract: status and fees of an execution as the database shows them |
| `ExecutionQueue` | the queue path, implements `ExecutionContract` |
| `NodeBehaviour` | what each node type may do with the context of a run |
| `WorkflowRun` | the turns of a conversation by the sequential engine, over `NodeBehaviour` |
| `ParallelRun` | the scheduler and the execution loop around it |
| `ChatRuns` | overlapping runs in the API process, with chats, clients and provider slots |
| `CreditLedger` | one organization's credits under overlapping sessions |
| `StreamBuffer` | one run's event buffer and its SSE clients |
| `DebugStreams` | the debug manager's table of streams and the requests that follow them |
| `VoiceStream` | abstract: the order of events a call's bridge promises the runtime |
| `TurnDetector` | pure: the detector of the caller's turns, frame by frame |
| `CascadeBridge` | a cascade call, implements `VoiceStream`, over `TurnDetector` |
| `SpokenReply` | a text bridge with a synthesiser behind it and the runtime in front; takes any bridge that follows `VoiceStream` and implements it again |
| `VoiceCalls` | calls from admission to the closing of their rows |
| `Accounts`, `WorkflowLibrary`, `KnowledgeBases`, `ProjectAssets` | the parts of the workspace |
| `Workspace` | their composition: all requests side by side, and deleting a project |
| `MC...` | instances for TLC |
| `...Proofs`, `Sums` | theorems checked by TLAPS |

Definitions whose comment begins with "Mutant" are deliberately wrong variants of the
definition after them. No specification uses them: `PROJECT.json` pairs each with the
property that notices it.

### ExecutionQueue

`db` is the committed database; `tx[w]` is the working copy of worker `w`'s session. A
commit (`NodeCheckpoint`, `NodeCompletes`, `CommitJob`) copies one to the other, and a
crash forgets the other. `job[e]` folds Arq's keys into *none, queued, running,
result*. `pc[w]` is where the job stands: *load* (workflow and row are read), *next*
(between two nodes), *body* (inside a node), *finalize*, *commit*, *signal* (the
`finally` clause) and *ack* (Arq's bookkeeping).

| code | action |
|---|---|
| `enqueue_execution`, `_dispatch_sync` | `CreateQueued`, `PushJob`, `CommitQueuedRow`, `DispatchFails` |
| `_await_queued_result` | `Subscribe`, `FirstRead`, `ReadAfterSignal`, `WaitTimesOut` |
| `on_startup` and its orphan scan | `StartWorker`, `RequeueOrphan`, `ScanDone` |
| Arq (external) | `TakeJob`, `Acknowledge`, `ExpireInProgress`, `ResultExpires`, `Shutdown` |
| `run_workflow_job` | `LoadFails`, `Prepare`, `CommitJob`, `Signal`, `DatabaseError`, `JobTimesOut` |
| `_execution_loop_sequential` | `StartNode`, `NodeCheckpoint`, `NodeCompletes`, `NodeRaises`, `LoopRaises` |
| `_finalization_phase`, `_handle_error` | `Finalize`, `FinalizeShortOfCredits`, `FinalizeRaisesAfterDeduction`, `Fail` |

A workflow is the chain 0..`LastNode`; what matters to the queue is how far a run got,
not which way (`WorkflowRun` has the ways). Each node costs one unit, each deduction
one fee. A worker has one job slot: two jobs in one process share nothing but its
death, and two workers dying together is a behaviour of the model. Two history
variables (`reopens`, `resumed`) count what the code does not keep; `unsignalled`
marks messages Redis lost.

Arq is modelled from how the code uses it: job ids make a push a no-op while the job
or its result exists, a cancelled job is retried, a job delivered more often than
`max_tries` is failed without being run, an in-progress key runs out only after its
worker is gone. `ResultExpires` carries the one timing assumption: neither a request
between its push and its commit nor an orphan scan lasts an hour.

### NodeBehaviour and WorkflowRun

`NodeBehaviour` has one operator per node type that gives the set of its outcomes: the
data handed to the next node, the writes to the session's and the project's variables,
what was said, the keys that were billed, or the error. A value is a record with one
field, named for its kind; a prompt, a URL or an answer is a member of a small set,
and what a provider answers is the choice. What a conversion does is kept: a text that
reads as a number becomes one, a name that does not resolve is null in an expression
and an error where the code raises, a merge of a list is not one of a dictionary.
Credentials are looked up as in `_load_credential`: the node's own, the project's for
the provider, the installation's key, or an error; fallbacks in their order.

`WorkflowRun` is the executor over it, for the graphs that `_execution_loop` gives to the
sequential engine: those without a fork and without a join, which is what
`HasParallelism` says and `RunAssumption` demands of every workflow. Conditions branch in
such a graph, but no two ways meet again, and the only loops are those through START; every
other graph is `ParallelRun`'s. `prepared` is the context as the preparation
phase left it and `ctx` as the loop carries it, because the error path reports the
former. `row` and `trace` are what the database has of the execution, `chats` what it
has of the sessions.

| code | action |
|---|---|
| the request and its session (`/execute`, `execute`) | `Ask` |
| `_preparation_phase`, `_execution_loop`, resume included | `Prepare` |
| the loop's body: limits, the node, its error | `StopRun`, `RunNode`, `NodeFails` |
| step log, checkpoint, next edge | `Record` |
| a node other than END without a next edge | `NoNextNode` |
| `_finalization_phase` | `Finalize` |
| a worker's death, a key's deletion | `Crash`, `DeleteCredential` |

A crash comes back to `Prepare` with the trace and loses the rest of the context,
which is what the code does. `spent` and `mixed`, what the nodes used and whether a
fallback changed the kind of key, therefore begin again with it. A step is recorded and
committed before the loop looks for the next node, so a crash can fall in between
(`phase = "stuck"`); `endLost` remembers that one fell behind the last checkpoint, where
the resumed run finds nothing left to do and completes without END's output.

### ParallelRun

The graph is chosen in `Init`; edges are known by their positions, and `Links` are those
the scheduler looks at. `BackEdges` is its search, one edge at a time. `tokens` has one
entry per edge, `Activated` and `Pruned` are the edges `complete` gives tokens to,
`Deliver` passes one on and `AfterComplete` all of them; `ready` and `running` are the
loop's queue and tasks. `Launch` reserves the step number and takes the snapshot of
the state; a task's end and its processing are separate, as `asyncio.wait` returns
sets of tasks (`Wait`, `NodeCompleted`, `EndCompleted`, `NodeFailed`). Which branch a
router takes is free, a branch without an edge included. Each node writes one value,
so the state is the set of nodes whose writes it shows; an END may replace it by its
filtered snapshot. The operators of `graph_analysis.py` (`JoinsInLoop`, overlapping
ENDs) say which graphs the editor warns of. The properties exempt those, and three more
kinds on which the code does not do what it says and warns of nothing: a loop through
START, an edge that gates a join and never gets a token (`Stray`), and two edges for one
choice (`Twins`); see items 13 and 14 below. A run that is over stutters, so that any
other stop is a deadlock TLC reports.

### ChatRuns

The columns of the two rows runs share are what matters here: `chats` (state,
messages, by whom), `client` (its counter), `execs`, `charged`. Each run has a session
of its own: it loads the chat once (`Load`), publishes its own rows at the first node
boundary (`Checkpoint`), calls its provider, and settles in one last transaction
(`Settle` or `SettleWithoutChat`, then `Commit` or `CommitFails`). The deduction locks
the organization's row, so last transactions take turns; the chat's state is merged
into the committed one from what the run loaded, as in
`database/repositories/chat_session_repository.py`. `GetClient` and `InsertClient` are
the get-or-create with its unique index. `BeginCall`, `TakeSlot`, `GoWithout`,
`RedisFails`, `EndCall`, `ReleaseFails`, `Expire` are the two nested semaphores of
`agent_call_guard`: `slots` are Redis' sorted sets, `held` what the run knows it has
of them, `asked` where its call stands. `Cancel` is `_cancel_running`: a sibling of the
calling branch has failed or the time is over, and the call unwinds from where it is. When
that is inside an exchange with Redis (`AcquireCut`, `ReleaseCut`), the handler's `acquired`
was never set, or its `zrem` may not have been sent; `unheard` records the slots whose
exchange was cut off by a cancellation, an error or a crash. The
requests (`AnswerId`, `AnswerResult`, `AnswerTimeout`) and the people
(`SendMessage`, `DeleteChat`) act beside them. A request is told the result before the run
commits (`dependencies.py:777`); when that commit fails, what it was told of never
happened. `SettledWhole` has this as its one exception.

### CreditLedger

`account` is the committed organization row, with the sums of its ledger rows by type.
A session that updates it holds `accountLock` and works on `draft`; `View(s)` is what
it reads, its own draft or the committed row, which is READ COMMITTED for one row.
`paymentLock` is the same for payments. `seen` holds what a session has read and still
acts on: the plan in `ensure_current_period`, the old status in
`process_notification`. `Deduct` is the conditional UPDATE, `Drain` the one of a
call, `Rollback` any error, anywhere. Months stand for dates, and a credit pack for
what it adds.

### StreamBuffer and DebugStreams

In `StreamBuffer`, `kind` is the run's history of events, its length the counter
`_seq`. `log` and `audio` hold the numbers the two rings retain. `at[c]` is where
client `c`'s request stands. asyncio runs one coroutine between two suspensions, and
neither `append` nor the look under the condition's lock suspends, so each is one
step: `EmitControl`, `EmitAudio` and `Finish` append and notify, and `Respond` is the
server's next step for a client: the subscription's look with the decision to wait,
one event of the snapshot it has, the 25 s keepalive, which cancels the generator, or
the end of the response. `Lose` cuts a connection; `Connect` comes back with the last
number received. Receiving is one step with sending: an event sent and lost is an
event not sent, as the next cursor is the client's.

`DebugStreams` has the manager's maps as sets (`streams` with the order `made`,
`ready`, `buffered`, `timers`) and one request per run. A run makes its stream, waits
for a client or gives up waiting, emits, and ends (`CreateStream`, `PrepareFails`,
`ClientReady`, `WaitTimesOut`, `EmitDelta`, `EmitTerminal`); a request polls the table
and takes the oldest stream for its own (`Listen`, `Discover`, `GiveUp`), hears its
terminal event (`Hear`) or hangs up (`HangUp`); both drop queue and buffer under
whichever run made them, and that run's later events open the buffer again.
`DropLater` is the timer.

### Calls

`VoiceStream` is an interface written as a specification: the text of one reply grows
until its end, replies do not overlap, a reply the caller cut is still ended, and the
close is the last event.

`TurnDetector` is `turn.py` as functions: the state after a frame and the signals it
gives. `CascadeBridge` drives it. The bridge's three coroutines are `pc` (the push of
audio with its unhandled `signals`, waiting in *discard* or *barge* for a cancelled
reply), `task` with `brain` (the reply), and the recogniser's pump, whose results
arrive one at a time (`Final`, `Partial`, `StreamFails`). A phrase is a number and a
reply its length, so that a lost, repeated or reordered phrase shows in `history`;
`index` and `said` are what an interruption will rewrite.

| code (`bridge.py`) | action |
|---|---|
| `send_audio`, `_settle`, `turn.py` | `SpeechFrame`, `SilentFrame`, `Asked` |
| `_apply` and the handler of each signal | `PauseStart`, `ResumeSpeech`, `Discard`, `Discarded`, `SpeechStart`, `BargedIn`, `EndOfTurn` |
| `_reply`, `_release`, `_finish_reply`, `_cancel_and_wait` | `BeginReply`, `CollectText`, `Delta`, `BrainEnds`, `FinishHeld`, `Unwind` |
| `_pump_stt`, the recogniser's stream | `Final`, `Partial`, `StreamFails` |
| `interrupt`, `close` | `Interrupt`, `CloseBridge` |

`SpokenReply` takes the inner bridge through `VoiceStream` (`InnerText`, `InnerEnd`,
`InnerSpeech`, `InnerClosed`), runs the pump of `half_cascade.py` (`Drained`,
`Opened`, `OpenFails`, `PumpEnds`), the synthesiser (`Audio`, `SpeechFails`,
`Flushed`, with `Count` and `EndInOrder` the steps held behind the flush) and the
runtime (`PlayAudio`, `CallerSpeaks`, `TurnDone`, `Finished`, `HangUp`). `sent`,
`billed` and `told` say what was given to synthesis, charged, and cut for the client.

`VoiceCalls` has one handler per call: `Accept`, `Check`, `Open`; `BridgeConnects` and
`AvatarJoins` side by side, `ConnectFails`, `Connected`; `CallEnds`, `CloseBridge`,
`StopMedia`; `Elapses` is the time a step may take, which is billed from the building of
the runtime on, connected or not; `HookRuns`, `ReadAgent`, `CloseCall` or `CloseFails`; `Age` is the cutoff
by which a forgotten row stops counting, and `Crash` ends the process with every call
in it.

### Workspace

A request is one transaction under READ COMMITTED. Where a handler keeps what it read
and writes on the strength of it, the request takes two steps (`Begin...`,
`Finish...`) and `request[s]` remembers what it saw; where nothing read is kept, it
takes one (`AtOnce`). A caller is a signed-in user or an API key; `Authorized` is the
check of the dependency that guards the endpoint. Each part declares its rows and
their cascades (`DropProject`, `DropLibraryOf`, `DropBasesOf`, `DropAssetsOf`), and
`Workspace` deletes a project with all of them.

## The runs: what each checks and its bounds

| run | instance | what it shows |
|---|---|---|
| `queue_safety` | 1 execution, 2 workers (symmetric), 2 nodes, 2 tries, 2 stops, every fault, checkpointing on and off | `OneDelivery`, `SettledRunAddsUp`, `ResumeIsExact`, `SettledWakesWaiter`, and that the queue implements `ExecutionContract` |
| `queue_liveness` | the same, 2 tries, 1 stop; faults crash, shutdown and lost messages | `QueuedSettles` |
| `workflow_turns` | 2 workflows without fork or join that together use every node type, a condition and a loop through START; 2 turns in text and audio, 1 crash, 1 deleted key | `TraceFollowsTheGraph`, `FailedTurnLeavesNothing`, `BilledWhatItUsed`, `AnswersForTheLastAgent` |
| `parallel_graphs` | graphs on 6 nodes: every one of 9 forward edges present or not, as it is, with a retry edge, with a loop through START, with a second END (with or without an edge from it), or with a loop closed twice; every order of completions; each node at most three times, 7 steps; deadlock checked | `LiveBranchesRun`, `JoinWaits`, `UnflaggedEndIsAlone`, `StepsRecorded` |
| `chat_runs` | 2 runs (one opening its chat), 2 semaphores of 1 slot, 1 message by hand, 1 fault, cancellations and deletions anywhere | `SettledWhole`, `SlotsAreCalls`, `WritesOwnOrLoaded` |
| `ledger_overlap` | 2 sessions, 3 operations of every kind, 2 payments, 1 month's end | `CreditsConserved`, `PaidIsDelivered`, `SessionsEnd` |
| `stream_replay` | 2 clients, 4 events, rings of 2 and 1, 1 lost connection | `ReceivedInOrder`, `NothingSkipped`, `WaiterIsWoken`, `EveryReaderEnds` |
| `debug_streams` | 3 runs with a request each | `NoStreamLeftBehind`, `DebugResponseEnds` |
| `cascade_call` | 2 phrases, replies of up to 2 deltas, 1 speculation per turn, recogniser failing twice, finals in time or late | `HeldReplyUnseen`, `InterruptHitsLastReply`, `HeardOnceInOrder`, and that the bridge follows `VoiceStream` |
| `spoken_call` | 2 turns of up to 2 characters, a queue of 3 events | `CutReplyStaysSilent`, `EveryCharBilledOnce`, and that the wrapper follows `VoiceStream` |
| `voice_calls` | 2 calls, one with an avatar, a ceiling of 2, 3 credits, calls and hooks of up to 2 minutes, crashes anywhere | `ClosedCallsExplainBalance`, `NoAvatarLeftBehind`, `SlotsComeBack` |
| `workspace` | 2 users, 2 sessions (symmetric), 3 projects, 4 workflows, 1 agent, 1 base with 3 documents, 3 texts (symmetric) of one size of which two fit, 1 other asset, 4 requests | `EveryoneHasAHome`, `VersionsFollowTheirDraft`, `CountersTellTheDocuments`, `NothingDangles` |

Why the bounds are enough for the cases that matter:

* *queue.* Executions share only the worker pool, so one shows the races of a
  delivery. Two workers are needed, and enough, for a second delivery while one is
  under way, a scan beside a running job, and a restart beside it. Two nodes give a
  resume before, between and past the nodes. Two stops against two tries exhaust the
  tries; `queue_liveness` has one try more than stops, which is the precondition of
  the property (the code has five tries).
* *turns.* The second turn reads what the first left: history, variables, a closed
  session, a client's project state. One crash may fall at every step of either. The
  first workflow comes back to START, its only kind of loop in a graph without a join,
  until it reaches the limit of visits per node.
* *parallel.* Six nodes hold a fork into two branches, a router whose branches may
  share an edge's handle, a join, and two ENDs that overlap or not. A loop closed twice
  needs its third turn to reach the second END. The launch limits are small but met:
  runs end by them.
* *chat.* Two runs are what it takes to overwrite each other's state, to insert one
  client twice, and to wait for a slot. One fault falls at every step; cancellations are not counted, and
  fall at every step of a call.
* *ledger.* The row locks serialize writers pairwise: two sessions show every
  interleaving of a read of one with the writes of another. Three operations let a
  charge follow a grant and a purchase. Costs above the free allowance and not above
  the paid one reach a short balance, a mixed deduction and a full one.
* *streams.* Rings of 2 and 1 under four events overflow; a client can read, lose its
  connection, miss an overflow and come back. Three debug runs are the fewest with a
  request that follows another's stream while a third's is being made.
* *calls.* Two phrases show one that interrupts the answer to the other, a final that
  comes late into the next turn, and an order. Two deltas show a reply cut in the
  middle. Three credits for two calls of up to four minutes run short in every way.
* *workspace.* The hazards are pairs: two requests that read before either writes.
  Four requests let two of them prepare what the two others race about. A third
  document lets an upload and a deletion cancel out in the counters under a third request.

`CHECK_DEADLOCK FALSE` stands in every configuration but `parallel_graphs`: a request
that has its answer, a ledger or a workspace whose bounded operations are used up, a
finished call and a client that has its terminal event stop, and should.

## Fairness

* `ExecutionQueue!FairSpec`: weak fairness of each request (it runs to its answer: its
  wait has a timeout), of the expiry of in-progress keys (a Redis TTL) and of each
  worker's own steps, which include starting again after a stop. The last says that a
  process supervisor restarts workers (the compose file's restart policy) and that a
  node's body ends, which the job's timeout guarantees. Crashes, shutdowns, node
  checkpoints and timeouts are not fair. Nothing is assumed of which job a worker
  takes.
* `CreditLedger!FairSpec`: weak fairness of each session's next statement. A statement
  that waits for a lock is not enabled, so `SessionsEnd` would fail if two sessions
  could wait for each other; rollbacks are not needed for it.
* `StreamBuffer!FairSpec`: the run ends (it has a timeout) and the buffer's expiry
  task runs; the server's coroutines run and their timeouts fire; a client that has
  not received its terminal event connects again. The last is what an `EventSource`
  does by itself (docs/workflows/execute.md uses one and describes `Last-Event-ID`).
  Lost connections are not fair, and bounded.
* `DebugStreams`: a run goes on (its nodes have timeouts) and a request's generator
  goes on (it polls with a timeout). Nobody has to hang up, and the timer need not
  fire for `DebugResponseEnds`. The property is of responses that have a stream to themselves,
  their own run's or another's: two on one stream take its events from each other
  (disagreement 19).
* `CascadeBridge`: a cancelled reply unwinds, and the handler that awaits it goes on.
  Neither the caller, nor the recogniser, nor the model has to do anything.
* `SpokenReply`: the pump, the steps behind a flush and the runtime go on, and a
  bridge whose reply was cut ends its turn. The pump's and the flush's are strong
  because `MaxQueue`, a bound of the model and not of the code, disables them now and
  then while the runtime takes events.
* `VoiceCalls`: each handler goes on, its awaits have timeouts, and a row grows old.
  The final hook need not end by itself; `HookRuns` is not in the fairness.

`ParallelRun`, `WorkflowRun`, `ChatRuns` and `Workspace` state none: their properties
are safety, and that a parallel run is not stuck is its deadlock check.

## The proofs

Every theorem holds for any value of the constants that satisfies the module's named
assumption (`QueueAssumption`, `LedgerAssumption`, `RunAssumption`, `BufferAssumption`,
`CallsAssumption`, `AccountsAssumption`, ...). Of the runs' forty properties
thirty-three are stated by a theorem: all but the seven liveness and fairness ones listed
below. An inductive invariant was a TLC invariant before it was proved.

| proofs | about | the runs' properties among the theorems |
|---|---|---|
| `ExecutionQueueProofs` | `ExecutionQueue` | `OneDelivery`, `SettledWakesWaiter`, `ResumeIsExact`, `SettledRunAddsUp`, `ImplementsContract` |
| `TurnProofs` | `WorkflowRun` over `NodeBehaviour`, `CreditLedger` | `TraceFollowsTheGraph`, `FailedTurnLeavesNothing`, `BilledWhatItUsed`, `AnswersForTheLastAgent`; `CreditsConserved`, `PaidIsDelivered` |
| `RunProofs` | `ChatRuns`, `ParallelRun` | `SettledWhole`, `WritesOwnOrLoaded`, `SlotsAreCalls`, `StepsRecorded`, `JoinWaits`, `LiveBranchesRun`, `UnflaggedEndIsAlone` |
| `EventStreamProofs` | `StreamBuffer`, `DebugStreams` | `ReceivedInOrder`, `NothingSkipped`, `WaiterIsWoken`, `NoStreamLeftBehind` |
| `CascadeBridgeProofs` | `CascadeBridge` | `HeldReplyUnseen`, `InterruptHitsLastReply`, `HeardOnceInOrder` |
| `VoiceProofs` | `VoiceCalls`, `SpokenReply` | `ClosedCallsExplainBalance`, `NoAvatarLeftBehind`, `CutReplyStaysSilent`, `EveryCharBilledOnce` |
| `WorkspaceProofs` | `Workspace` and its parts | `EveryoneHasAHome`, `VersionsFollowTheirDraft`, `CountersTellTheDocuments`, `NothingDangles` |
| `Sums` | `SumFunctionOnSet` of the community modules | lemmas only |

Two modules in one proof module have different names for their specifications
(`ParallelSpec` beside `Spec`, `DebugSpec`, `CallsSpec`).

**ExecutionQueueProofs.** `TypeCorrect`, `DeliveredOnce`, `FeesBounded`,
`ReopenedByStopsOnly`, `NoLostWakeup`, `ResumesWhereItStopped`, `SettledRunsAddUp`, and
`QueueImplementsContract` (the initial states and every step map to the contract's). The
inductive invariant is layered, each layer proved over the ones before:

1. *types*;
2. *delivery*: a worker has an execution exactly while its `pc` is in the job, then
   the job's key is *running*, and no other worker has it. `OneDelivery` alone is not
   inductive: nothing in it forbids delivering a job that a worker already holds;
3. *rows*: what a working copy may differ in from the committed row, by `pc`: it is
   `RUNNING` with the committed fees until `finalize`, and then settled with one fee
   more (or, failed, with none). This makes every commit fee-neutral or a settlement;
4. *reopenings*: a settled row whose job could be delivered again is paid for by a
   stop. The orphan scan is the difficult case: it may hold a row it read as in flight
   that has settled since, and the layer shows that the result key then makes its push
   a no-op;
5. *wakeup*: a request that has read *running* is subscribed, so a settlement after
   that read has its signal ahead of it;
6. *steps* (`StepsInv`): the step log of a committed or working row has no gap, a job
   has logged every node before the one it is at, and with checkpointing none from there
   on as completed;
7. *account* (`AccountInv`): an execution that has not settled yet is charged no usage,
   and a job that did not resume has used what the nodes behind it cost. Only runs
   settled once and never resumed are promised a sum, since a resumed one has lost the
   cost of its first part (disagreement 5).

**TurnProofs.** Of `WorkflowRun`: `PathOfEveryRun`, `FailuresLeaveNothing`,
`RunsAreBilledTheirUse`, `RunsAnswerForTheLastAgent`, for any workflows without fork or join
(`RunAssumption`: the others are not run by this engine), variables and limits. `TurnInv` has a part for each. `PathInv`: while a turn is served the trace has
completed steps only, and the loop stands at the successor of the last with the state it
left; so a resumed run, which knows nothing but the trace, stands where the interrupted
one stood. `WaysOn`: while the loop goes on, the last step has a way on, so a run prepared with
nothing to do was interrupted behind the last checkpoint, and `endLost` says so. `AnswerInv`: every agent of the trace put something out
(`AgentAccounted`), hence "last agent" finds the newest and never falls back to END's
input. `BillInv`: the context carries what the run used since it was taken up, less the node
being recorded. They agree (`Agree`) key by key, or in the amounts alone once a fallback
has changed the kind of key, and agreeing is kept by adding; that a node's bill agrees
with its use is a lemma about each node type (`OutcomesAccounted`).
`TalkInv`: until finalization the chats, and what is committed of them, differ from those
the turn was asked in by transcripts at most, and the client's variables by new defaults,
however often the run was prepared. None of the four is inductive alone: each speaks of
the end of a turn or of the trace, and says nothing of the context in memory. A node's id
is assumed not to be the marker for "no node".

Of `CreditLedger`: `TypeCorrect` (no negative balance), `Conservation`,
`ConfirmedIsDelivered`, `GrantedSpentFirst`. The invariant adds what the draft of the
lock's holder says next to the committed account: it is balanced too, it undoes no
top-up and no plan, and it has less purchased credit only when no granted credit is
left. A session that holds a payment's lock to confirm it and is about to commit has
delivered it in the account it will publish.

**RunProofs.** Of `ChatRuns`, two invariants that do not need each other. For
`SlotsStandForCalls`: a semaphore's tokens are within its cap, what a run knows it holds
is there and of a semaphore it has passed, and any other token is one whose exchange was
cut off (`unheard`). For
`RunsStoredWhole` and `RunsWriteOwnOrLoaded`, `RunInv`: what each phase of a run means for
its row, its charge and what it is about to commit; which chat it works for and since
when that exists; that the client's row counts the settled runs, whoever inserts it; that
a chat has a message of a run exactly when the run settled in it; and that a run nobody
overtook still has the chat's committed state as its base. `SettledWhole` alone is not
inductive because it says nothing of the transaction under way.

Of `ParallelRun`, for every graph, `EveryStepRecorded`: the recorded rows and the running
tasks' numbers together are always 0..steps-1 unless the run has failed, so a run that
completes, with no task left, has all of them. And `NodesWaitForTheirInput`, which is
`JoinWaits`, in three parts. *The graph*: a depth-first search that reports no back edge
has a set of nodes to show for it that holds START, is left by no edge and has no edge
back to START (`NoBackEdges`). The search's invariant counts its steps, one for each edge
tried and each node left, so that it is known to be over after as many as there are edges
and nodes. *The scheduler* (`Balanced`): a token on an edge comes from a node that is past
(processed, or dead), and a node other than START that is visited, ready or dead has only
past nodes before it and no token on its edges. `JoinWaits` alone is not inductive: it
says nothing of the tokens, and a token of a node still to run would launch its join
early. *The deliveries*: the balance is kept by each delivery, as the tokens still to be
delivered are of past nodes, for nodes not entered yet, and no two for one edge (`Due`);
a dead node's own tokens join them because nothing leads back from it into what has been
entered. So the balance is kept by `AfterComplete`, however many deliveries it takes.
Acyclic is what the code means by it: no back edge found, which the proof shows to be
enough although unreachable loops are not searched.

`NoBranchIsLost`, which is `LiveBranchesRun`, for every graph. *The search*: if it
reports a back edge, the edge enters START, or a join on a loop that `JoinsInLoop` warns
of (`LoopsAreWarnedOf`): the editor's warning misses no other loop a run can enter, and
the graphs the property speaks of have no back edge. If it reports none, the nodes START
leads to have an order that every edge among them keeps. *The tokens* (`Told`): each edge
that leaves a finished or dead node has a token, or its target has been entered; a live
token is of an edge that was activated, and the target of an activated edge is not dead;
a node not entered yet lacks a token. *The deliveries* come to their end, since each is
of an edge that gets no second token (`Unsent`), so that none is left when the step ends.
When nothing is ready or running, the first node in the order that was not entered would
have all its tokens: so all have been entered, and the ones that ran are those an edge
was activated for.

`SecondEndIsWarnedOf`, which is `UnflaggedEndIsAlone`, also holds with loops.
`ThreadInv` looks at the threads of a run: the nodes to launch, the running tasks, the
live tokens, and the ENDs that have been visited. Every two of them have parted: some
node that is no condition has two different targets, one leading to the one and one to
the other. A step only moves a thread along an edge, lets it end, or splits it at such a
node; a delivery, back edges included, moves a token on. So two visited ENDs have parted
too, which is what `detect_parallel_ends` looks for. `Twins` are exempt because they
split a thread where the analysis sees one successor.

**EventStreamProofs.** Of `StreamBuffer`: `TypeCorrect`, `ReplayIsOrdered`,
`NoLostWakeup`, `OnlyOverrunIsMissed`. The invariant adds that a connected subscription's
cursor is its client's last received number, that what it has still to send is above the
cursor, and that only a reading subscription has something to send. `GapInv` adds that an
event is retained or a whole ring of its class came after it, and that between a
subscription's cursor and each event it holds only such events are missing. Of
`DebugStreams`: `NothingKeptOfARun`. A queue never outlives its buffer, a buffer belongs
to a run between its stream's making and its end, and one of a run that is over has a
timer; a delta that opens a dropped buffer again cannot break it, because its run has the
terminal event still to come.

**CascadeBridgeProofs.** `OnlyLastReplyRewritten`: the index is none, or that of the
history's last entry, an agent's, while nothing of a further reply is shown and no
confirmed turn is being answered; whoever could append an entry clears the index first.
`SpeculationStaysHidden` and `CascadeFollowsStream` share `StreamInv`: the signals not
handled yet are a path of the detector's states that ends where the detector stands; a
handler that waits for a cancelled reply handles the signal it waits for; and while the
caller has the turn only a speculative reply is under way. Without the path of signals
the invariant is not inductive: the bridge acts on signals raised before the detector's
present state. `EveryPhraseHeardOnce` is `HeardOnceInOrder`: dialogue, pending text, finals
and the utterances with the recogniser, flattened, are the phrases in order. Two facts of
`TakenInv` make it inductive: from the moment a reply has taken its text until its turn is
committed, that text is the pending one, even while a cancelled brain call still delivers;
and a final is dropped as stale only after one was missed. That a new reply finds no brain
call of the last one is `StreamInv`'s. The lemmas on `FlattenSeq` (one more sequence, one
more word, the first one taken away) are proved by the first place where the library's
recursive function could fail.

**VoiceProofs.** Of `VoiceCalls`: `NobodyLeftInTheRoom`, `ChargedWhenClosed`
(`CallsAccounted`) and `BalanceExplained`, the whole of `ClosedCallsExplainBalance`, for
any number of calls. Which of bridge and room may be open, and what the row says, depends
on where the handler stands; that table, by phase, is inductive, and with it the balance
plus the sum of the charges is what there was at first (`BooksInv`). Of `SpokenReply`:
`CutReplySilenced`, `CharactersBilledOnce`, `SpokenFollowsStream`. `ControlInv` says where
the pump may stand, which session there is then and which turn it speaks; `SilenceInv`
that a turn the client was told to stop is over or muted and not the one being flushed;
`OuterInv` that what is pending ends a turn, and what the client sees of a reply is no
more than the inner bridge has written.

**WorkspaceProofs.** `EveryoneKeepsAHome`, `VersionsInPlace`, `CountersExplained`,
`NothingLeftBehind`, over `WorkspaceInvariant`, which has one layer for each part.
`AccountsInv` is of accounts, members, projects and keys; `LibraryInv`, `KnowledgeInv` and
`AssetsInv` are each of one group of tables and need of the rest only that a project
their rows name is live. Each layer has a second half (`AccountsPending`,
`LibraryPending`, `KnowledgePending`) for what the requests that have begun will write: a
member about to be removed is not the owner; a version about to be inserted is of a row
that was a draft and still is if it is there; counters that were read are not newer than
those that are there. That half is why the properties alone are not inductive. A layer is
kept by its own module's requests, by deleting a project, and by all other requests
because they leave its tables alone and turn their sessions only to requests of their own
(`Moves`); so a step of the whole is one case for each part, and no part's proof opens
another part's actions.

The attempt to prove `CountersTellTheDocuments` found it false as it was first stated. An
upload notes in `torn` that it wrote over a stale read, and it used to tell a stale read
by the counters: but another upload and the deletion of a document of equal size, both
committed in between, leave the counters as they were, and a second copy of the text can
then slip in unnoticed. The history variable `writes` counts what has been committed to a
base, and the run has three documents and texts of equal size so that the case occurs.

**Sums.** What a sum over a function gains when an entry changes or joins, by a smallest
counterexample over subsets of a finite set, since the library's induction over finite
sets takes an operator as its parameter. It serves the calls' balance and the counters.

Only model-checked:

* liveness and fairness, which TLAPS does not prove: `QueuedSettles`, `SessionsEnd`,
  `EveryReaderEnds`, `DebugResponseEnds`, `SlotsComeBack`, and the liveness half of the
  two `FollowsContract` (their safety half is `CascadeFollowsStream` and
  `SpokenFollowsStream`).

## Where the code disagrees with its documentation

The models do what the code does, so each of these is a behaviour of a model. No
property asserts the documented behaviour: where a property comes near, its comment
says what it exempts.

Queue and runs:

1. A row is "atomically" created and its job pushed (`queue/enqueue.py:1`), but the
   push precedes the commit. A worker in between fails the job, and the row stays
   `QUEUED` with no job until a worker starts after the result key has expired.
2. A worker that dies after the result's commit and before Arq's acknowledgement has
   its job delivered again; `mark_running` does not look at the status, so the settled
   run goes back to `RUNNING` and is charged again.
3. `_handle_error` means to "Save partial state" (`execution/workflow_executor.py:1209`),
   but `execute` still holds the context of the preparation phase (269).
4. "On a failed execution nothing is persisted" (`workflow_executor.py:1069`): the
   message that a transcription node stored stays.
5. A run resumed from its trace has lost the costs, the last agent's place in the
   history, the project's variables and the visit counters of the nodes before; a crash
   after END's checkpoint completes with an empty output, and so does one between a node
   without a way on and the error that is to fail the run.
6. A queued run that opens its session never writes the new id to its row; a
   redelivery opens another session with another greeting, and the task endpoint
   answers without one (`services/execution_service.py:392`).
7. `/execute` runs on sessions that have ended.
8. A fallback on another kind of key is billed to the primary's bucket
   (`nodes/agent_node.py:162`, 260); a transcription on the system's key is not metered.
9. A JSON array as the body of an HTTP node is sent neither as `json` nor as `content`
   (`nodes/http_request_node.py:189`).
10. A semaphore's slot is held "longer than the call could possibly run"
    (`core/concurrency_limiter.py:74`) if Redis' answer is lost after its script ran,
    or if the branch is cancelled (`execution/workflow_executor.py:834`) while it waits for
    that answer, which `except Exception` does not catch: nobody knows of the slot until it
    expires.
11. The message service says the user's message is saved before the run
    (`services/chat_message_service.py:25`); it is saved at its end.
12. Deleting a chat "deletes [...] related executions" (`api/rest/chat_sessions.py:127`);
    their foreign key is set to null.
13. The analysis calls a condition's edges "mutually exclusive"
    (`execution/graph_analysis.py:10`); two edges from one handle are both followed. Nor
    does it see a split in two edges from one node to another, after which everything
    runs twice if one of them closes a loop, to two ENDs if there are two. Only tests
    call the analysis.
14. "Bounded-loop graphs" are said to run by the sequential engine
    (`workflow_executor.py:534`), but a loop makes a join of the node it returns to, unless
    that is START, so the parallel engine runs them. In a graph whose loop has two exits into one join, the tokens of the first turn
    leave the join waiting in the next; the run completes without END. The analysis does
    not warn of such a loop if it goes through START, which has one predecessor. Nodes
    START does not lead to "never execute anyway" (`execution/dag_scheduler.py:217`), but
    an edge from one, or from an END, gates its target for ever.
15. An END with a filtered state overwrites what a sibling has written since END was
    launched (`workflow_executor.py:976`), in the session too.

Credits and streams:

16. Two confirmations of one purchase, which the comment at
    `services/payment_service.py:224` expects, both find it unconfirmed when handled at
    once, and both credit the pack.
17. The monthly grant is "idempotent within a period" (`billing/credit_service.py:171`),
    but two sessions that find the period lapsed both issue it. The balance is
    overwritten, so what the first session spent of it is granted again.
18. The stream's response tails until the terminal event; its first keepalive ends it
    (`api/rest/executions.py:932`: the timeout cancels the generator).
19. Two debug runs at a time: a request may follow the other's stream and wait for ever
    for its own (`api/rest/executions.py:396`).

Calls:

20. The ceiling of concurrent calls and the balance are tested before the insert,
    without a lock; "a single free call" (`services/voice_session_service.py:449`) is
    not kept by overlapping ones, and
    `session_count` loses updates.
21. A call's billed time includes its final hook, which is awaited first, and a call that
    never connected is billed the time it waited; a client gone
    before `session.ready` leaves the bridge open until it closes itself.
22. `_pump_stt` tests for stale finals before orphans and drops an orphan's text
    (`realtime/cascade/bridge.py:537`); a mark for a stream that died swallows the next
    real final. A barge-in before the first delta meters no usage.
23. A synthesiser whose `open` raises ends the half cascade's pump in silence
    (`half_cascade.py:234`); an interrupt that lags behind the next reply aborts that
    one's session; characters of a turn not ended at the hang-up are billed by nobody.

Workspace:

24. Two publications read the same next version. A version is an "immutable copy", but
    the endpoint that edits a draft edits it too.
25. A knowledge base's counters lose updates of overlapping requests, and two copies of
    one text, uploaded at once, make the next upload of it fail.
26. A moved workflow stays the hook of its old project's agents and names its old
    project's credentials.
27. "Only the owner may update" an organization (`api/rest/organizations.py:73`); any
    member may.

## What is not modelled

* *Native conversation bridges* (`external/voice/conversation/openai.py`, `gemini.py`):
  translations of two vendors' event streams, whose order the repository does not
  state; a model of them would assume its result. `VoiceStream` is the contract the
  runtime relies on. The vendors' recognition and synthesis sessions are modelled as far
  as the two bridges that use them see, and not below.
* *Avatar vendors and LiveKit*: external. `VoiceCalls` has their joining, failing and
  leaving.
* *The texts*: prompts, requests, acoustic features, formats of files. The CEL and
  template languages are libraries; `NodeBehaviour` has which names resolve and what a
  value is read back as.
* *Turn hooks and the runtime's records of turns and timings*: written beside a call,
  read by the history pages only. Of hooks, the final one is modelled, because the
  closing waits for it.
* *Client sessions' metadata and deactivation, notifications, rate limits*: one-row
  updates, a fire-and-forget send, a counter per window. Nothing else reads them in a
  way another request could upset, but for the concurrent edits of a metadata
  document, which keep one of the two.
* *A run that resumes with parallel branches*: the code resumes it by the sequential
  engine (`workflow_executor.py:538`), whatever its graph. `WorkflowRun` resumes runs of
  graphs without fork or join, and `ParallelRun` has no crash.
* *`RedisStreamBuffer`*: no code outside the tests constructs it.
* *A node's `validate_config`*: no code calls it.
* *Listing and statistics endpoints, migrations, provider catalogues, the web
  application*: they change no state, change it once, or are user interface.
* *Arq, Postgres and Redis*: external, modelled by what the code relies on.

## Plan

Next proofs, in the order of what they would add:

1. that the seven liveness properties cannot fail by a dead end: for each of them, that
   in every state short of the promise some action the fairness names can be taken. TLC
   checks the whole of it; of `ENABLED`, TLAPS proves nothing, so each guard would be
   stated as a predicate of its own;
2. of `NodeBehaviour` and `TurnDetector`, lemmas on what their operators return.

Next modules:

1. a synthesis session (`external/voice/streaming_tts/`) that implements what
   `SpokenReply` assumes of one;
2. resume with parallel branches: `ExecutionQueue`'s deliveries over `ParallelRun`'s
   step log;
3. rate limits: one abstract limiter, the in-memory and the Redis backends as
   implementations of it.
