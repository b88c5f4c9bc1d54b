--------------------------- MODULE ExecutionQueue ---------------------------
(***************************************************************************)
(* The life of a queued execution: the API request that creates the row    *)
(* and pushes the job, the Arq queue (external), the worker that runs the  *)
(* job through the executor's phases inside one database session, and the  *)
(* request that waits for the result.                                      *)
(*                                                                         *)
(* `db` is the committed database. A worker reads it when it starts a job  *)
(* and works on `tx`, its uncommitted copy of the execution's rows; only a *)
(* commit (after each node, and at the end of the job) publishes it.       *)
(*                                                                         *)
(* A workflow is the chain of nodes 0..LastNode, LastNode being END: the   *)
(* sequential engine's view of a run. Each node costs one unit of          *)
(* system-key usage, each deduction one fee.                               *)
(***************************************************************************)
EXTENDS Naturals, FiniteSets

CONSTANTS
    Executions,   \* execution ids
    Workers,      \* Arq worker processes
    NoExecution,  \* what an idle worker holds
    LastNode,     \* index of the END node
    MaxTries,     \* Arq's max_tries
    MaxRestarts,  \* bound: crashes and shutdowns of workers, in total
    Modes,        \* the values execution_checkpointing_enabled may have
    Faults        \* which of FaultKinds may happen

FaultKinds == {"crash", "shutdown", "timeout", "prepare", "database", "publish",
               "api", "delete"}

ASSUME QueueAssumption ==
    /\ NoExecution \notin Executions
    /\ LastNode \in Nat
    /\ MaxTries \in Nat
    /\ MaxRestarts \in Nat
    /\ Modes \subseteq BOOLEAN
    /\ Faults \subseteq FaultKinds

VARIABLES
    checkpointing, \* execution_checkpointing_enabled, fixed during a behaviour
    api,           \* where the /execute request of each execution stands
    response,      \* what that request answered
    inbox,         \* a completion message is in the request's subscription
    db,            \* committed rows: executions, execution_steps, credit ledger
    gone,          \* executions whose workflow was deleted (rows cascade away)
    job,           \* Arq's keys of each job: none, queued, in progress, result
    tries,         \* Arq's job_try counter
    jobInput,      \* whether the enqueued job carries the request's input
    pc, cur, node, cost, tx, fate, \* each worker's job: see TypeOK
    orphans,       \* the rows a starting worker's orphan scan read and has to push
    reopens,       \* history: times a settled execution was started again
    resumed,       \* history: executions a delivery resumed from a checkpoint
    unsignalled,   \* history: executions whose completion message was lost
    restarts       \* history: crashes and shutdowns so far

apiVars    == <<api, response>>
arqVars    == <<job, tries, jobInput>>
workerVars == <<pc, cur, node, cost, tx, fate, orphans>>
ghostVars  == <<reopens, resumed, unsignalled, restarts>>
vars == <<checkpointing, api, response, inbox, db, gone, job, tries, jobInput,
          pc, cur, node, cost, tx, fate, orphans, reopens, resumed,
          unsignalled, restarts>>

-----------------------------------------------------------------------------
(* The rows of one execution. *)

Nodes == 0..LastNode

InFlight == {"QUEUED", "RUNNING"}
Settled  == {"COMPLETED", "ERROR", "FAILED"}
Status   == {"none"} \union InFlight \union Settled

StepStatus == {"none", "COMPLETED", "FAILED"}
Outputs    == {"none", "end", "empty"}

\* fees and usage are the ledger's sums for the execution, credits the
\* total_credits column of its row.
Row == [status: Status, step: [Nodes -> StepStatus], fees: Nat, usage: Nat,
        credits: Nat, output: Outputs, input: BOOLEAN]

NoRow == [status |-> "none", step |-> [n \in Nodes |-> "none"], fees |-> 0,
          usage |-> 0, credits |-> 0, output |-> "none", input |-> FALSE]

QueuedRow == [NoRow EXCEPT !.status = "QUEUED", !.input = TRUE]

\* log_step behind the has_step guard: the first record of a step number stays.
LogStep(row, n, status) ==
    IF row.step[n] = "none" THEN [row EXCEPT !.step[n] = status] ELSE row

CompletedSteps(row) == {n \in Nodes : row.step[n] = "COMPLETED"}

\* Mutants: start again at the highest completed step; or skip the one after it.
ResumePointAtCompleted(row) ==
    IF checkpointing /\ CompletedSteps(row) # {}
    THEN CHOOSE n \in CompletedSteps(row) : \A m \in CompletedSteps(row) : m <= n
    ELSE 0

\* find_resume_point: the node after the highest completed step, or START.
ResumePoint(row) ==
    IF checkpointing /\ CompletedSteps(row) # {}
    THEN (CHOOSE n \in CompletedSteps(row) : \A m \in CompletedSteps(row) : m <= n) + 1
    ELSE 0

\* Mutants: the system-key usage is left out; the fee is deducted twice.
DeductedFeeOnly(row, used) == [row EXCEPT !.fees = @ + 1]
DeductedTwice(row, used) == [row EXCEPT !.fees = @ + 2, !.usage = @ + used]

\* deduct_for_execution: the fee and the usage the run's context accumulated.
Deducted(row, used) == [row EXCEPT !.fees = @ + 1, !.usage = @ + used]

\* update_execution_status: overwrites the result columns, and meta_data with
\* them, which is where the input of the request was kept.
Concluded(row, status, output, credits) ==
    [row EXCEPT !.status = status, !.output = output, !.credits = credits,
                !.input = FALSE]

\* _handle_error: FAILED, output {}, total_credits left at its default of 0.
FailedRow(row) == Concluded(row, "FAILED", "empty", 0)

-----------------------------------------------------------------------------
(* Predicates over the workers. *)

Executing  == {"next", "body", "finalize", "commit"}
Delivering == {"load"} \union Executing
InJob      == Delivering \union {"signal", "ack"}

HeldBy(e) == {w \in Workers : cur[w] = e}

\* The request is on the execution's channel from subscribe to unsubscribe.
Subscribed(e) == api[e] \in {"subscribed", "waiting"}

-----------------------------------------------------------------------------
Init ==
    /\ checkpointing \in Modes
    /\ api = [e \in Executions |-> "idle"]
    /\ response = [e \in Executions |-> "none"]
    /\ inbox = [e \in Executions |-> FALSE]
    /\ db = [e \in Executions |-> NoRow]
    /\ gone = {}
    /\ job = [e \in Executions |-> "none"]
    /\ tries = [e \in Executions |-> 0]
    /\ jobInput = [e \in Executions |-> FALSE]
    /\ pc = [w \in Workers |-> "down"]
    /\ cur = [w \in Workers |-> NoExecution]
    /\ node = [w \in Workers |-> 0]
    /\ cost = [w \in Workers |-> 0]
    /\ tx = [w \in Workers |-> NoRow]
    /\ fate = [w \in Workers |-> "finish"]
    /\ orphans = [w \in Workers |-> {}]
    /\ reopens = [e \in Executions |-> 0]
    /\ resumed = {}
    /\ unsignalled = {}
    /\ restarts = 0

-----------------------------------------------------------------------------
(* The API request: _dispatch_sync, enqueue_execution, _await_queued_result. *)

\* Mutants: no _job_id, or one that only guards against a job still in the queue.
EnqueueAgain(e, withInput) ==
    /\ job' = [job EXCEPT ![e] = "queued"]
    /\ jobInput' = [jobInput EXCEPT ![e] = withInput]

\* enqueue_job with _job_id: a no-op while the job's key or its result key exists.
Enqueue(e, withInput) ==
    IF job[e] = "none"
    THEN /\ job' = [job EXCEPT ![e] = "queued"]
         /\ jobInput' = [jobInput EXCEPT ![e] = withInput]
    ELSE UNCHANGED <<job, jobInput>>

Answer(e, what) ==
    /\ api' = [api EXCEPT ![e] = "done"]
    /\ response' = [response EXCEPT ![e] = what]

\* create_queued flushes the row into the request's own transaction.
CreateQueued(e) ==
    /\ api[e] = "idle"
    /\ api' = [api EXCEPT ![e] = "created"]
    /\ UNCHANGED <<checkpointing, response, inbox, db, gone>>
    /\ UNCHANGED <<arqVars, workerVars, ghostVars>>

PushJob(e) ==
    /\ api[e] = "created"
    /\ api' = [api EXCEPT ![e] = "pushed"]
    /\ Enqueue(e, TRUE)
    /\ UNCHANGED <<checkpointing, response, inbox, db, gone, tries>>
    /\ UNCHANGED <<workerVars, ghostVars>>

\* session.commit(), then the async answer at once or the wait for the result.
CommitQueuedRow(e) ==
    /\ api[e] = "pushed"
    /\ db' = [db EXCEPT ![e] = QueuedRow]
    /\ \/ Answer(e, "running")
       \/ /\ api' = [api EXCEPT ![e] = "committed"]
          /\ UNCHANGED response
    /\ UNCHANGED <<checkpointing, inbox, gone, arqVars, workerVars, ghostVars>>

\* Redis refuses the push, or the request dies before its commit: no row.
DispatchFails(e) ==
    /\ "api" \in Faults
    /\ api[e] \in {"created", "pushed"}
    /\ Answer(e, "error")
    /\ UNCHANGED <<checkpointing, inbox, db, gone, arqVars, workerVars, ghostVars>>

Subscribe(e) ==
    /\ api[e] = "committed"
    /\ api' = [api EXCEPT ![e] = "subscribed"]
    /\ UNCHANGED <<checkpointing, response, inbox, db, gone>>
    /\ UNCHANGED <<arqVars, workerVars, ghostVars>>

\* get_task_result.
TaskResult(e) ==
    CASE db[e].status = "none"                -> "error"
      [] db[e].status \in InFlight            -> "running"
      [] db[e].status \in {"FAILED", "ERROR"} -> "failed"
      [] OTHER                                -> "completed"

\* Mutant: wait for the signal without reading after the subscription.
FirstReadSkipped(e) ==
    /\ api[e] = "subscribed"
    /\ api' = [api EXCEPT ![e] = "waiting"]
    /\ UNCHANGED <<response, checkpointing, inbox, db, gone>>
    /\ UNCHANGED <<arqVars, workerVars, ghostVars>>

FirstRead(e) ==
    /\ api[e] = "subscribed"
    /\ IF TaskResult(e) = "running"
       THEN /\ api' = [api EXCEPT ![e] = "waiting"]
            /\ UNCHANGED response
       ELSE Answer(e, TaskResult(e))
    /\ UNCHANGED <<checkpointing, inbox, db, gone, arqVars, workerVars, ghostVars>>

\* The signal arrived: read again; still running means the client has to poll.
ReadAfterSignal(e) ==
    /\ api[e] = "waiting"
    /\ inbox[e]
    /\ Answer(e, TaskResult(e))
    /\ UNCHANGED <<checkpointing, inbox, db, gone, arqVars, workerVars, ghostVars>>

\* TASK_TIMEOUT_SECONDS passed without a signal.
WaitTimesOut(e) ==
    /\ api[e] = "waiting"
    /\ ~inbox[e]
    /\ Answer(e, "running")
    /\ UNCHANGED <<checkpointing, inbox, db, gone, arqVars, workerVars, ghostVars>>

\* A workflow is deleted: its executions go with it (ondelete CASCADE).
DeleteWorkflow(e) ==
    /\ "delete" \in Faults
    /\ db[e].status # "none"
    /\ db' = [db EXCEPT ![e] = NoRow]
    /\ gone' = gone \union {e}
    /\ UNCHANGED <<checkpointing, api, response, inbox, arqVars, workerVars, ghostVars>>

-----------------------------------------------------------------------------
(* A worker process: startup with its orphan scan, crash, shutdown. *)

\* find_resumable: the in-flight rows older than the cutoff. Age is abstracted:
\* any of the in-flight rows may be past it.
StartWorker(w) ==
    /\ pc[w] = "down"
    /\ \E found \in SUBSET {e \in Executions : db[e].status \in InFlight} :
          orphans' = [orphans EXCEPT ![w] = {[id |-> e, input |-> db[e].input] : e \in found}]
    /\ pc' = [pc EXCEPT ![w] = "scan"]
    /\ UNCHANGED <<checkpointing, apiVars, inbox, db, gone, arqVars, ghostVars>>
    /\ UNCHANGED <<cur, node, cost, tx, fate>>

\* The scan uses the row as it was read: meta_data["input_data"], {} if absent.
RequeueOrphan(w) ==
    /\ pc[w] = "scan"
    /\ \E o \in orphans[w] :
          /\ Enqueue(o.id, o.input)
          /\ orphans' = [orphans EXCEPT ![w] = @ \ {o}]
    /\ UNCHANGED <<checkpointing, apiVars, inbox, db, gone, tries, ghostVars>>
    /\ UNCHANGED <<pc, cur, node, cost, tx, fate>>

\* The scan is best-effort: an error on the way ends it and the worker starts.
ScanDone(w) ==
    /\ pc[w] = "scan"
    /\ orphans[w] = {} \/ "database" \in Faults
    /\ orphans' = [orphans EXCEPT ![w] = {}]
    /\ pc' = [pc EXCEPT ![w] = "idle"]
    /\ UNCHANGED <<checkpointing, apiVars, inbox, db, gone, arqVars, ghostVars>>
    /\ UNCHANGED <<cur, node, cost, tx, fate>>

\* The worker lets go of its job and is left at pc `to`.
Release(w, to) ==
    /\ pc' = [pc EXCEPT ![w] = to]
    /\ cur' = [cur EXCEPT ![w] = NoExecution]
    /\ node' = [node EXCEPT ![w] = 0]
    /\ cost' = [cost EXCEPT ![w] = 0]
    /\ tx' = [tx EXCEPT ![w] = NoRow]
    /\ fate' = [fate EXCEPT ![w] = "finish"]

\* The process dies: its transaction is rolled back, Arq's in-progress key stays.
Crash(w) ==
    /\ "crash" \in Faults
    /\ restarts < MaxRestarts
    /\ pc[w] # "down"
    /\ Release(w, "down")
    /\ orphans' = [orphans EXCEPT ![w] = {}]
    /\ restarts' = restarts + 1
    /\ unsignalled' = IF pc[w] = "signal" THEN unsignalled \union {cur[w]} ELSE unsignalled
    /\ UNCHANGED <<checkpointing, apiVars, inbox, db, gone, arqVars, reopens, resumed>>

\* SIGTERM: Arq cancels the running job (CancelledError passes every
\* `except Exception`), the session closes without a commit, the finally clause
\* still publishes, and Arq keeps the job for another try. While the publish
\* itself is awaited the cancellation cuts it short.
Shutdown(w) ==
    /\ "shutdown" \in Faults
    /\ restarts < MaxRestarts
    /\ fate[w] = "finish"
    /\ restarts' = restarts + 1
    /\ \/ /\ pc[w] \in {"scan", "idle"}
          /\ Release(w, "down")
          /\ orphans' = [orphans EXCEPT ![w] = {}]
          /\ UNCHANGED <<unsignalled, job>>
       \/ /\ pc[w] \in Delivering
          /\ pc' = [pc EXCEPT ![w] = "signal"]
          /\ tx' = [tx EXCEPT ![w] = NoRow]
          /\ fate' = [fate EXCEPT ![w] = "retry"]
          /\ UNCHANGED <<cur, node, cost, orphans, unsignalled, job>>
       \/ /\ pc[w] = "signal"
          /\ unsignalled' = unsignalled \union {cur[w]}
          /\ job' = [job EXCEPT ![cur[w]] = "queued"]
          /\ Release(w, "down")
          /\ UNCHANGED orphans
    /\ UNCHANGED <<checkpointing, apiVars, inbox, db, gone, tries, jobInput>>
    /\ UNCHANGED <<reopens, resumed>>

-----------------------------------------------------------------------------
(* Arq (external): delivery, expiry of its keys. *)

\* Another delivery than the last allowed one fails the job without running it.
TakeJob(w, e) ==
    /\ pc[w] = "idle"
    /\ job[e] = "queued"
    /\ IF tries[e] < MaxTries
       THEN /\ job' = [job EXCEPT ![e] = "running"]
            /\ tries' = [tries EXCEPT ![e] = @ + 1]
            /\ pc' = [pc EXCEPT ![w] = "load"]
            /\ cur' = [cur EXCEPT ![w] = e]
       ELSE /\ job' = [job EXCEPT ![e] = "result"]
            /\ tries' = [tries EXCEPT ![e] = 0]
            /\ UNCHANGED <<pc, cur>>
    /\ UNCHANGED <<checkpointing, apiVars, inbox, db, gone, jobInput, ghostVars>>
    /\ UNCHANGED <<node, cost, tx, fate, orphans>>

\* The in-progress key of a dead worker runs out: the job is deliverable again.
ExpireInProgress(e) ==
    /\ job[e] = "running"
    /\ HeldBy(e) = {}
    /\ job' = [job EXCEPT ![e] = "queued"]
    /\ UNCHANGED <<checkpointing, apiVars, inbox, db, gone, tries, jobInput>>
    /\ UNCHANGED <<workerVars, ghostVars>>

\* keep_result (one hour) runs out. Timing: neither a request between push and
\* commit nor an orphan scan takes that long.
ResultExpires(e) ==
    /\ job[e] = "result"
    /\ api[e] # "pushed"
    /\ \A w \in Workers : \A o \in orphans[w] : o.id # e
    /\ job' = [job EXCEPT ![e] = "none"]
    /\ UNCHANGED <<checkpointing, apiVars, inbox, db, gone, tries, jobInput>>
    /\ UNCHANGED <<workerVars, ghostVars>>

-----------------------------------------------------------------------------
(* run_workflow_job: load, prepare, run the nodes, finalize, commit, signal. *)

\* The job ends without a commit: rollback, then the finally clause.
AbandonJob(w) ==
    /\ pc' = [pc EXCEPT ![w] = "signal"]
    /\ tx' = [tx EXCEPT ![w] = NoRow]
    /\ UNCHANGED <<checkpointing, apiVars, inbox, db, gone, arqVars, ghostVars>>
    /\ UNCHANGED <<cur, node, cost, fate, orphans>>

\* The workflow is missing (return), the row is not there yet (404, raised), or
\* a later step of the preparation raises before there is a context.
LoadFails(w) ==
    /\ pc[w] = "load"
    /\ db[cur[w]].status = "none" \/ "prepare" \in Faults
    /\ AbandonJob(w)

\* _preparation_phase: mark_running whatever the status, resume point, context
\* with no accumulated cost; a resume point past END skips the loop.
Prepare(w) ==
    LET e == cur[w]
        start == ResumePoint(db[e])
    IN  /\ pc[w] = "load"
        /\ db[e].status # "none"
        /\ tx' = [tx EXCEPT ![w] = [db[e] EXCEPT !.status = "RUNNING"]]
        /\ node' = [node EXCEPT ![w] = start]
        /\ pc' = [pc EXCEPT ![w] = IF start > LastNode THEN "finalize" ELSE "next"]
        /\ reopens' = IF db[e].status \in Settled
                      THEN [reopens EXCEPT ![e] = @ + 1] ELSE reopens
        /\ resumed' = IF start > 0 THEN resumed \union {e} ELSE resumed
        /\ UNCHANGED <<checkpointing, apiVars, inbox, db, gone, arqVars>>
        /\ UNCHANGED <<cur, cost, fate, orphans, unsignalled, restarts>>

\* session.commit() of the worker's transaction.
Commit(w) ==
    /\ cur[w] \notin gone
    /\ db' = [db EXCEPT ![cur[w]] = tx[w]]

\* Cycle and deadline checks pass and the node's body starts.
StartNode(w) ==
    /\ pc[w] = "next"
    /\ pc' = [pc EXCEPT ![w] = "body"]
    /\ UNCHANGED <<checkpointing, apiVars, inbox, db, gone, arqVars, ghostVars>>
    /\ UNCHANGED <<cur, node, cost, tx, fate, orphans>>

\* A node about to await the network commits first (context.db_checkpoint).
NodeCheckpoint(w) ==
    /\ pc[w] = "body"
    /\ Commit(w)
    /\ UNCHANGED <<checkpointing, apiVars, inbox, gone, arqVars, workerVars, ghostVars>>

\* record_completed: cost folded into the context, step logged, checkpoint.
NodeCompletes(w) ==
    LET row == LogStep(tx[w], node[w], "COMPLETED")
    IN  /\ pc[w] = "body"
        /\ cur[w] \notin gone
        /\ tx' = [tx EXCEPT ![w] = row]
        /\ db' = [db EXCEPT ![cur[w]] = row]
        /\ cost' = [cost EXCEPT ![w] = @ + 1]
        /\ node' = [node EXCEPT ![w] = @ + 1]
        /\ pc' = [pc EXCEPT ![w] = IF node[w] = LastNode THEN "finalize" ELSE "next"]
        /\ UNCHANGED <<checkpointing, apiVars, inbox, gone, arqVars, ghostVars>>
        /\ UNCHANGED <<cur, fate, orphans>>

\* What _handle_error leaves in the transaction for the job's final commit.
Fail(w, row) ==
    /\ tx' = [tx EXCEPT ![w] = FailedRow(row)]
    /\ pc' = [pc EXCEPT ![w] = "commit"]
    /\ UNCHANGED <<checkpointing, apiVars, inbox, db, gone, arqVars, ghostVars>>
    /\ UNCHANGED <<cur, node, cost, fate, orphans>>

\* record_failed, NodeExecutionError, _handle_error.
NodeRaises(w) ==
    /\ pc[w] = "body"
    /\ Fail(w, LogStep(tx[w], node[w], "FAILED"))

\* MaxSteps, node limit, deadline, unknown node: raised outside a node's body.
LoopRaises(w) ==
    /\ pc[w] = "next"
    /\ Fail(w, tx[w])

\* The END node's output exists only in the run that executed it.
FinalOutput(w) == IF cost[w] = 0 THEN "empty" ELSE "end"

\* _finalization_phase: deduct, then save, then settle; END may report an error
\* unless the run was resumed past it.
Finalize(w) ==
    /\ pc[w] = "finalize"
    /\ \E status \in {"COMPLETED", "ERROR"} :
          /\ status = "ERROR" => FinalOutput(w) = "end"
          /\ tx' = [tx EXCEPT ![w] = Concluded(Deducted(tx[w], cost[w]), status,
                                               FinalOutput(w), 1 + cost[w])]
    /\ pc' = [pc EXCEPT ![w] = "commit"]
    /\ UNCHANGED <<checkpointing, apiVars, inbox, db, gone, arqVars, ghostVars>>
    /\ UNCHANGED <<cur, node, cost, fate, orphans>>

\* InsufficientCreditsError from the deduction: nothing was written.
FinalizeShortOfCredits(w) ==
    /\ pc[w] = "finalize"
    /\ Fail(w, tx[w])

\* A later step raises (the chat session was deleted): the deduction is already
\* in the transaction that _handle_error's status is committed with.
FinalizeRaisesAfterDeduction(w) ==
    /\ pc[w] = "finalize"
    /\ Fail(w, Deducted(tx[w], cost[w]))

\* A statement fails: _handle_error's own update fails too and is swallowed, and
\* the commit that follows raises or rolls back.
DatabaseError(w) ==
    /\ pc[w] \in Executing
    /\ "database" \in Faults \/ cur[w] \in gone
    /\ AbandonJob(w)

\* job_timeout: cancelled like at a shutdown, but finished as failed.
JobTimesOut(w) ==
    /\ "timeout" \in Faults
    /\ pc[w] \in Delivering
    /\ AbandonJob(w)

CommitJob(w) ==
    /\ pc[w] = "commit"
    /\ Commit(w)
    /\ pc' = [pc EXCEPT ![w] = "signal"]
    /\ tx' = [tx EXCEPT ![w] = NoRow]
    /\ UNCHANGED <<checkpointing, apiVars, inbox, gone, arqVars, ghostVars>>
    /\ UNCHANGED <<cur, node, cost, fate, orphans>>

\* _signal_completion: heard by a request that is on the channel, or dropped by
\* Redis, which the job ignores.
Signal(w) ==
    /\ pc[w] = "signal"
    /\ pc' = [pc EXCEPT ![w] = "ack"]
    /\ \/ /\ inbox' = [inbox EXCEPT ![cur[w]] = @ \/ Subscribed(cur[w])]
          /\ UNCHANGED unsignalled
       \/ /\ "publish" \in Faults
          /\ unsignalled' = unsignalled \union {cur[w]}
          /\ UNCHANGED inbox
    /\ UNCHANGED <<checkpointing, apiVars, db, gone, arqVars, reopens, resumed, restarts>>
    /\ UNCHANGED <<cur, node, cost, tx, fate, orphans>>

\* Mutant: the job swallows its cancellation, and Arq takes it for finished.
AcknowledgeCancelled(w) ==
    /\ pc[w] = "ack"
    /\ job' = [job EXCEPT ![cur[w]] = "result"]
    /\ tries' = [tries EXCEPT ![cur[w]] = 0]
    /\ Release(w, IF fate[w] = "retry" THEN "down" ELSE "idle")
    /\ UNCHANGED <<checkpointing, apiVars, inbox, db, gone, jobInput, ghostVars>>
    /\ UNCHANGED orphans

\* Arq records the result, or after a cancellation puts the job back.
Acknowledge(w) ==
    /\ pc[w] = "ack"
    /\ IF fate[w] = "retry"
       THEN /\ job' = [job EXCEPT ![cur[w]] = "queued"]
            /\ Release(w, "down")
            /\ UNCHANGED tries
       ELSE /\ job' = [job EXCEPT ![cur[w]] = "result"]
            /\ tries' = [tries EXCEPT ![cur[w]] = 0]
            /\ Release(w, "idle")
    /\ UNCHANGED <<checkpointing, apiVars, inbox, db, gone, jobInput, ghostVars>>
    /\ UNCHANGED orphans

-----------------------------------------------------------------------------
Request(e) ==
    \/ CreateQueued(e) \/ PushJob(e) \/ CommitQueuedRow(e) \/ Subscribe(e)
    \/ FirstRead(e) \/ ReadAfterSignal(e) \/ WaitTimesOut(e)

Arq(e) == ExpireInProgress(e) \/ ResultExpires(e)

\* What a live worker does by itself.
Work(w) ==
    \/ StartWorker(w) \/ RequeueOrphan(w) \/ ScanDone(w)
    \/ \E e \in Executions : TakeJob(w, e)
    \/ LoadFails(w) \/ Prepare(w)
    \/ StartNode(w) \/ NodeCompletes(w) \/ NodeRaises(w) \/ LoopRaises(w)
    \/ Finalize(w) \/ FinalizeShortOfCredits(w) \/ FinalizeRaisesAfterDeduction(w)
    \/ DatabaseError(w) \/ CommitJob(w) \/ Signal(w) \/ Acknowledge(w)

\* What may happen to it, or need not happen.
Disturb(w) == NodeCheckpoint(w) \/ JobTimesOut(w) \/ Crash(w) \/ Shutdown(w)

Next ==
    \/ \E e \in Executions :
          Request(e) \/ Arq(e) \/ DispatchFails(e) \/ DeleteWorkflow(e)
    \/ \E w \in Workers : Work(w) \/ Disturb(w)

Spec == Init /\ [][Next]_vars

\* Requests run to their answer, Arq's keys expire, a process supervisor restarts
\* workers and a live worker keeps stepping through its job.
Fairness ==
    /\ \A e \in Executions : WF_vars(Request(e)) /\ WF_vars(ExpireInProgress(e))
    /\ \A w \in Workers : WF_vars(Work(w))

FairSpec == Spec /\ Fairness

-----------------------------------------------------------------------------
(* Properties. *)

\* Each variable has its type.
TypeOK ==
    /\ checkpointing \in BOOLEAN
    /\ api \in [Executions -> {"idle", "created", "pushed", "committed",
                              "subscribed", "waiting", "done"}]
    /\ response \in [Executions -> {"none", "running", "completed", "failed", "error"}]
    /\ inbox \in [Executions -> BOOLEAN]
    /\ db \in [Executions -> Row]
    /\ gone \in SUBSET Executions
    /\ job \in [Executions -> {"none", "queued", "running", "result"}]
    /\ tries \in [Executions -> 0..MaxTries]
    /\ jobInput \in [Executions -> BOOLEAN]
    /\ pc \in [Workers -> {"down", "scan", "idle"} \union InJob]
    /\ cur \in [Workers -> Executions \union {NoExecution}]
    /\ node \in [Workers -> 0..(LastNode + 1)]
    /\ cost \in [Workers -> 0..(LastNode + 1)]
    /\ tx \in [Workers -> Row]
    /\ fate \in [Workers -> {"finish", "retry"}]
    /\ orphans \in [Workers -> SUBSET [id: Executions, input: BOOLEAN]]
    /\ reopens \in [Executions -> Nat]
    /\ resumed \in SUBSET Executions
    /\ unsignalled \in SUBSET Executions
    /\ restarts \in 0..MaxRestarts

\* Two workers never run the same execution: each session's working copy is the
\* only one, although the orphan scan pushes jobs it cannot know to be running.
OneDelivery ==
    \A v, w \in Workers : cur[v] = cur[w] /\ cur[v] # NoExecution => v = w

\* A fee is committed only together with the status that settles the run, so a
\* crash before the final commit never charges; only starting a settled
\* execution again can charge it again.
FeesOnlyWithSettlement ==
    \A e \in Executions :
        db[e].fees <= reopens[e] + (IF db[e].status \in Settled THEN 1 ELSE 0)

\* A settled execution is started again only after a worker was stopped between
\* the job's commit and Arq's acknowledgement: never by the orphan scan, the
\* result key's expiry or a second worker.
ReopenedOnlyByRestart ==
    \A e \in Executions : reopens[e] <= restarts

\* A run that settled, was never started again and never resumed from a
\* checkpoint paid one fee and the usage of every node, its row reports exactly
\* that, and it answers with END's output. (A resumed run does not keep this: its
\* context starts with no accumulated cost, and past END with no output.)
SettledRunAddsUp ==
    \A e \in Executions :
        /\ db[e].status \in {"COMPLETED", "ERROR"}
        /\ reopens[e] = 0
        /\ e \notin resumed
        => /\ db[e].fees = 1
           /\ db[e].usage = LastNode + 1
           /\ db[e].credits = db[e].fees + db[e].usage
           /\ db[e].output = "end"

\* A node's body starts only when every node before it has a committed step, and
\* with checkpointing never when its own step is committed as completed.
ResumeIsExact ==
    \A w \in Workers :
        pc[w] = "body" /\ cur[w] \notin gone
            => /\ \A n \in Nodes : n < node[w] => db[cur[w]].step[n] # "none"
               /\ checkpointing => node[w] \notin CompletedSteps(db[cur[w]])

\* No lost wakeup: a request that waits for an execution that has settled has
\* the completion message, unless the worker has yet to publish it or it was
\* lost on the way.
SettledWakesWaiter ==
    \A e \in Executions :
        /\ api[e] = "waiting"
        /\ db[e].status \in Settled
        /\ e \notin unsignalled
        /\ \A w \in HeldBy(e) : pc[w] # "signal"
        => inbox[e]

\* A committed, unfinished execution whose job is in the queue is settled in the
\* end, whatever workers are stopped under it.
QueuedSettles ==
    \A e \in Executions :
        (db[e].status \in InFlight /\ job[e] = "queued") ~> (db[e].status \in Settled)

\* What the database shows of an execution follows ExecutionContract: a fee comes
\* with the status that earns it, in one commit.
Contract == INSTANCE ExecutionContract
    WITH status <- [e \in Executions |-> db[e].status],
         fees   <- [e \in Executions |-> db[e].fees]

ImplementsContract == Contract!Spec

=============================================================================
