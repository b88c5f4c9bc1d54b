------------------------ MODULE ExecutionQueueProofs ------------------------
(***************************************************************************)
(* Proofs about ExecutionQueue, for every set of executions and workers,   *)
(* every workflow length, and every bound on tries and restarts.           *)
(*                                                                         *)
(* The argument has layers, each inductive relative to the ones below it:  *)
(* the types with the bounds of a job's counters; who holds which job;     *)
(* what a worker's uncommitted rows say compared with the committed ones;  *)
(* which stop a reopening is due to; whom a completion message reaches.    *)
(* On top of these five, apart from each other: what a run logs, and what  *)
(* it is charged. The theorems of the specification follow their layers.   *)
(***************************************************************************)
EXTENDS ExecutionQueue, Integers, WellFoundedInduction, TLAPS

\* Layer 1. The counters of a job stay in the workflow; only a cancelled job is
\* retried.
CountersBounded ==
    \A w \in Workers :
        /\ pc[w] \in {"down", "scan", "idle", "load"} => cost[w] = 0
        /\ pc[w] \in {"next", "body"} => node[w] <= LastNode /\ cost[w] <= node[w]
        /\ fate[w] = "retry" => pc[w] \in {"signal", "ack"}

\* A worker has an execution exactly while it delivers a job.
HoldsInJob ==
    \A w \in Workers : cur[w] \in Executions <=> pc[w] \in InJob

TypeInv == TypeOK /\ CountersBounded /\ HoldsInJob

\* Layer 2. Arq has the key of a worker's execution in progress, and no other
\* worker has the same one.
HeldIsRunning ==
    \A w \in Workers : cur[w] \in Executions => job[cur[w]] = "running"

DeliveryInv == HeldIsRunning /\ OneDelivery

\* Layer 3. Before the request commits its row, and after the row was deleted,
\* nothing is committed for the execution.
NothingCommitted ==
    \A e \in Executions :
        /\ api[e] \in {"idle", "created", "pushed"} => db[e] = NoRow /\ e \notin gone
        /\ e \in gone => db[e] = NoRow

\* The uncommitted rows of a running job: one fee more than the committed ones,
\* at most, and only next to the status that earns it.
WorkingCopy ==
    \A w \in Workers :
        pc[w] \in Executing /\ cur[w] \notin gone =>
            /\ db[cur[w]].status # "none"
            /\ pc[w] # "commit" => /\ tx[w].status = "RUNNING"
                                   /\ tx[w].fees = db[cur[w]].fees
            /\ pc[w] = "commit" =>
                  \/ /\ tx[w].status \in {"COMPLETED", "ERROR"}
                     /\ tx[w].fees = db[cur[w]].fees + 1
                  \/ /\ tx[w].status = "FAILED"
                     /\ tx[w].fees - db[cur[w]].fees \in {0, 1}

\* A job that runs has been counted as a reopening if it is one.
ReopeningCounted ==
    \A w \in Workers :
        pc[w] \in Executing /\ cur[w] \notin gone => db[cur[w]].fees <= reopens[cur[w]]

RowInv == NothingCommitted /\ WorkingCopy /\ ReopeningCounted /\ FeesOnlyWithSettlement

\* The job of a settled execution will be delivered again, or is about to start.
DeliveredAgain(e) ==
    \/ job[e] = "queued"
    \/ job[e] = "running" /\ HeldBy(e) = {}
    \/ \E w \in HeldBy(e) :
          \/ pc[w] = "load"
          \/ pc[w] \in {"signal", "ack"} /\ fate[w] = "retry"

\* A worker was stopped to get there, and that stop is not yet accounted for; and
\* a settled execution whose result key expired is in nobody's orphan scan.
StopAccounted ==
    \A e \in Executions :
        db[e].status \in Settled =>
            /\ DeliveredAgain(e) => reopens[e] < restarts
            /\ job[e] = "none" => \A w \in Workers : \A o \in orphans[w] : o.id # e

ReopenInv == ReopenedOnlyByRestart /\ StopAccounted

Inv == TypeInv /\ DeliveryInv /\ RowInv /\ ReopenInv /\ SettledWakesWaiter
-----------------------------------------------------------------------------
(* The operators on rows. *)

\* A non-empty set of naturals has a least element.
LEMMA LeastElement ==
    ASSUME NEW S \in SUBSET Nat, S # {}
    PROVE  \E x \in S : \A y \in S : x <= y
<1> DEFINE R == OpToRel(<, Nat)
<1>1. IsWellFoundedOn(R, Nat)
  BY NatLessThanWellFounded
<1>2. PICK x \in S : \A y \in S : ~(<<y, x>> \in R)
  <2> HIDE DEF R
  <2> QED BY <1>1, WFMin
<1>3. \A y \in S : ~(y < x)
  BY <1>2 DEF OpToRel
<1>4. \A y \in S : x <= y
  <2> HIDE DEF R
  <2> QED BY <1>3
<1> HIDE DEF R
<1> QED BY <1>4

\* A non-empty set of naturals up to b has a greatest one.
LEMMA GreatestElement ==
    ASSUME NEW b \in Nat, NEW S \in SUBSET (0..b), S # {}
    PROVE  \E x \in S : \A y \in S : y <= x
<1> DEFINE M == {b - x : x \in S}
<1>1. M \in SUBSET Nat
  OBVIOUS
<1>2. M # {}
  <2>1. PICK x \in S : TRUE
    OBVIOUS
  <2>2. b - x \in M
    BY <2>1
  <2> QED BY <2>2
<1>3. PICK m \in M : \A y \in M : m <= y
  <2> HIDE DEF M
  <2> QED BY <1>1, <1>2, LeastElement
<1>4. PICK x \in S : m = b - x
  OBVIOUS
<1>5. \A y \in S : y <= x
  <2> TAKE y \in S
  <2>1. m <= b - y
    BY <1>3
  <2> QED BY <1>4, <2>1
<1> QED BY <1>5

\* find_resume_point answers with a node of the workflow, or one past END, and
\* no completed step is at or after it.
LEMMA ResumePointInWorkflow ==
    ASSUME NEW row \in Row
    PROVE  /\ ResumePoint(row) \in 0..(LastNode + 1)
           /\ checkpointing => \A n \in CompletedSteps(row) : n < ResumePoint(row)
<1> DEFINE S == CompletedSteps(row)
<1>0. S \in SUBSET (0..LastNode) /\ LastNode \in Nat
  BY QueueAssumption DEF CompletedSteps, Nodes
<1>1. CASE checkpointing /\ S # {}
  <2> DEFINE m == CHOOSE n \in S : \A k \in S : k <= n
  <2>1. m \in S /\ \A k \in S : k <= m
    <3> HIDE DEF S
    <3> QED BY <1>0, <1>1, GreatestElement
  <2>2. ResumePoint(row) = m + 1
    BY <1>1 DEF ResumePoint
  <2> HIDE DEF m, S
  <2>3. \A n \in S : n < ResumePoint(row)
    BY <1>0, <2>1, <2>2
  <2> QED BY <1>0, <2>1, <2>2, <2>3 DEF S
<1>2. CASE ~(checkpointing /\ S # {})
  BY <1>0, <1>2 DEF ResumePoint
<1> QED BY <1>1, <1>2

\* The row operators keep rows rows.
LEMMA NoRowType == NoRow \in Row /\ QueuedRow \in Row
  BY DEF NoRow, QueuedRow, Row, Status, InFlight, StepStatus, Outputs

LEMMA StatusType ==
    ASSUME NEW row \in Row, NEW s \in Status
    PROVE  [row EXCEPT !.status = s] \in Row
  BY DEF Row

LEMMA LogStepType ==
    ASSUME NEW row \in Row, NEW n \in Nodes, NEW s \in StepStatus
    PROVE  /\ LogStep(row, n, s) \in Row
           /\ LogStep(row, n, s).status = row.status
           /\ LogStep(row, n, s).fees = row.fees
  BY DEF LogStep, Row

LEMMA DeductedType ==
    ASSUME NEW row \in Row, NEW used \in Nat
    PROVE  /\ Deducted(row, used) \in Row
           /\ Deducted(row, used).fees = row.fees + 1
<1>1. row.fees + 1 \in Nat /\ row.usage + used \in Nat
  BY DEF Row
<1> QED BY <1>1 DEF Deducted, Row

LEMMA ConcludedType ==
    ASSUME NEW row \in Row, NEW s \in Status, NEW o \in Outputs, NEW c \in Nat
    PROVE  /\ Concluded(row, s, o, c) \in Row
           /\ Concluded(row, s, o, c).status = s
           /\ Concluded(row, s, o, c).fees = row.fees
  BY DEF Concluded, Row

LEMMA FailedRowType ==
    ASSUME NEW row \in Row
    PROVE  /\ FailedRow(row) \in Row
           /\ FailedRow(row).status = "FAILED"
           /\ FailedRow(row).fees = row.fees
  BY ConcludedType DEF FailedRow, Status, Settled, Outputs

-----------------------------------------------------------------------------
(* Layer 1: types and counters. *)

LEMMA TypeInit == Init => TypeInv
  BY QueueAssumption, NoRowType DEF Init, TypeInv, TypeOK, CountersBounded, HoldsInJob, InJob,
                                    Delivering, Executing

LEMMA TypeStep == TypeInv /\ [Next]_vars => TypeInv'
<1> SUFFICES ASSUME TypeInv, [Next]_vars PROVE TypeInv'
  OBVIOUS
<1> USE QueueAssumption DEF TypeInv, TypeOK, CountersBounded, HoldsInJob, InJob, Delivering,
                            Executing, apiVars, arqVars, workerVars, ghostVars
<1>1. ASSUME NEW e \in Executions, CreateQueued(e) PROVE TypeInv'
  BY <1>1 DEF CreateQueued
<1>2. ASSUME NEW e \in Executions, PushJob(e) PROVE TypeInv'
  BY <1>2 DEF PushJob, Enqueue
<1>3. ASSUME NEW e \in Executions, CommitQueuedRow(e) PROVE TypeInv'
  BY <1>3, NoRowType DEF CommitQueuedRow, Answer
<1>4. ASSUME NEW e \in Executions, Subscribe(e) PROVE TypeInv'
  BY <1>4 DEF Subscribe
<1>5. ASSUME NEW e \in Executions, FirstRead(e) PROVE TypeInv'
  BY <1>5 DEF FirstRead, Answer, TaskResult
<1>6. ASSUME NEW e \in Executions, ReadAfterSignal(e) PROVE TypeInv'
  BY <1>6 DEF ReadAfterSignal, Answer, TaskResult
<1>7. ASSUME NEW e \in Executions, WaitTimesOut(e) PROVE TypeInv'
  BY <1>7 DEF WaitTimesOut, Answer
<1>8. ASSUME NEW e \in Executions, DispatchFails(e) PROVE TypeInv'
  BY <1>8 DEF DispatchFails, Answer
<1>9. ASSUME NEW e \in Executions, DeleteWorkflow(e) PROVE TypeInv'
  BY <1>9, NoRowType DEF DeleteWorkflow
<1>10. ASSUME NEW e \in Executions, ExpireInProgress(e) PROVE TypeInv'
  BY <1>10 DEF ExpireInProgress
<1>11. ASSUME NEW e \in Executions, ResultExpires(e) PROVE TypeInv'
  BY <1>11 DEF ResultExpires
<1>12. ASSUME NEW w \in Workers, StartWorker(w) PROVE TypeInv'
  <2>1. \A found \in SUBSET Executions :
           {[id |-> e, input |-> db[e].input] : e \in found}
               \in SUBSET [id: Executions, input: BOOLEAN]
    BY DEF Row
  <2> QED BY <1>12, <2>1 DEF StartWorker
<1>13. ASSUME NEW w \in Workers, RequeueOrphan(w) PROVE TypeInv'
  BY <1>13 DEF RequeueOrphan, Enqueue
<1>14. ASSUME NEW w \in Workers, ScanDone(w) PROVE TypeInv'
  BY <1>14 DEF ScanDone
<1>15. ASSUME NEW w \in Workers, NEW e \in Executions, TakeJob(w, e) PROVE TypeInv'
  <2>1. CASE tries[e] < MaxTries
    BY <1>15, <2>1 DEF TakeJob
  <2>2. CASE ~(tries[e] < MaxTries)
    BY <1>15, <2>2 DEF TakeJob
  <2> QED BY <2>1, <2>2
<1>16. ASSUME NEW w \in Workers, LoadFails(w) PROVE TypeInv'
  BY <1>16, NoRowType DEF LoadFails, AbandonJob
<1>17. ASSUME NEW w \in Workers, Prepare(w) PROVE TypeInv'
  <2>1. db[cur[w]] \in Row
    BY <1>17 DEF Prepare
  <2>2. [db[cur[w]] EXCEPT !.status = "RUNNING"] \in Row
    BY <2>1, StatusType DEF Status, InFlight
  <2>3. ResumePoint(db[cur[w]]) \in 0..(LastNode + 1)
    BY <2>1, ResumePointInWorkflow
  <2> QED BY <1>17, <2>2, <2>3 DEF Prepare
<1>18. ASSUME NEW w \in Workers, StartNode(w) PROVE TypeInv'
  BY <1>18 DEF StartNode
<1>19. ASSUME NEW w \in Workers, NodeCheckpoint(w) PROVE TypeInv'
  BY <1>19 DEF NodeCheckpoint, Commit
<1>20. ASSUME NEW w \in Workers, NodeCompletes(w) PROVE TypeInv'
  <2>1. /\ node[w] \in Nodes /\ cost[w] <= node[w]
        /\ node[w] + 1 \in 0..(LastNode + 1) /\ cost[w] + 1 \in 0..(LastNode + 1)
    BY <1>20 DEF NodeCompletes, Nodes
  <2>2. LogStep(tx[w], node[w], "COMPLETED") \in Row
    BY <2>1, LogStepType DEF StepStatus
  <2> QED BY <1>20, <2>1, <2>2 DEF NodeCompletes
<1>21. ASSUME NEW w \in Workers, NodeRaises(w) PROVE TypeInv'
  <2>1. FailedRow(LogStep(tx[w], node[w], "FAILED")) \in Row
    BY <1>21, LogStepType, FailedRowType DEF NodeRaises, Nodes, StepStatus
  <2> QED BY <1>21, <2>1 DEF NodeRaises, Fail
<1>22. ASSUME NEW w \in Workers, LoopRaises(w) PROVE TypeInv'
  <2>1. FailedRow(tx[w]) \in Row
    BY FailedRowType
  <2> QED BY <1>22, <2>1 DEF LoopRaises, Fail
<1>23. ASSUME NEW w \in Workers, Finalize(w) PROVE TypeInv'
  <2>1. \A status \in {"COMPLETED", "ERROR"} :
           Concluded(Deducted(tx[w], cost[w]), status, FinalOutput(w), 1 + cost[w]) \in Row
    <3>1. FinalOutput(w) \in Outputs /\ 1 + cost[w] \in Nat /\ cost[w] \in Nat
      BY DEF FinalOutput, Outputs
    <3> QED BY <3>1, DeductedType, ConcludedType DEF Status, Settled
  <2> QED BY <1>23, <2>1 DEF Finalize
<1>24. ASSUME NEW w \in Workers, FinalizeShortOfCredits(w) PROVE TypeInv'
  <2>1. FailedRow(tx[w]) \in Row
    BY FailedRowType
  <2> QED BY <1>24, <2>1 DEF FinalizeShortOfCredits, Fail
<1>25. ASSUME NEW w \in Workers, FinalizeRaisesAfterDeduction(w) PROVE TypeInv'
  <2>1. FailedRow(Deducted(tx[w], cost[w])) \in Row
    BY DeductedType, FailedRowType
  <2> QED BY <1>25, <2>1 DEF FinalizeRaisesAfterDeduction, Fail
<1>26. ASSUME NEW w \in Workers, DatabaseError(w) PROVE TypeInv'
  BY <1>26, NoRowType DEF DatabaseError, AbandonJob
<1>27. ASSUME NEW w \in Workers, JobTimesOut(w) PROVE TypeInv'
  BY <1>27, NoRowType DEF JobTimesOut, AbandonJob
<1>28. ASSUME NEW w \in Workers, CommitJob(w) PROVE TypeInv'
  BY <1>28, NoRowType DEF CommitJob, Commit
<1>29. ASSUME NEW w \in Workers, Signal(w) PROVE TypeInv'
  <2>1. cur[w] \in Executions
    BY <1>29 DEF Signal
  <2>2. inbox' \in [Executions -> BOOLEAN]
    <3>1. PICK b \in BOOLEAN : b <=> Subscribed(cur[w])
      OBVIOUS
    <3>2. \/ inbox' = [inbox EXCEPT ![cur[w]] = inbox[cur[w]] \/ b]
          \/ inbox' = inbox
      BY <1>29, <3>1 DEF Signal
    <3> QED BY <2>1, <3>1, <3>2
  <2> QED BY <1>29, <2>1, <2>2 DEF Signal
<1>30. ASSUME NEW w \in Workers, Acknowledge(w) PROVE TypeInv'
  <2>1. CASE fate[w] = "retry"
    <3>0. Release(w, "down") /\ job' = [job EXCEPT ![cur[w]] = "queued"]
      BY <1>30, <2>1 DEF Acknowledge
    <3>1. TypeOK'
      BY <1>30, <2>1, <3>0, NoRowType DEF Acknowledge, Release
    <3>2. CountersBounded' /\ HoldsInJob'
      BY <1>30, <2>1 DEF Acknowledge, Release
    <3> QED BY <3>1, <3>2
  <2>2. CASE fate[w] # "retry"
    <3>0. Release(w, "idle") /\ cur[w] \in Executions
      BY <1>30, <2>2 DEF Acknowledge
    <3>1. TypeOK'
      BY <1>30, <2>2, <3>0, NoRowType DEF Acknowledge, Release
    <3>2. CountersBounded' /\ HoldsInJob'
      BY <1>30, <2>2 DEF Acknowledge, Release
    <3> QED BY <3>1, <3>2
  <2> QED BY <2>1, <2>2
<1>31. ASSUME NEW w \in Workers, Crash(w) PROVE TypeInv'
  BY <1>31, NoRowType DEF Crash, Release
<1>32. ASSUME NEW w \in Workers, Shutdown(w) PROVE TypeInv'
  <2>1. restarts' \in 0..MaxRestarts
    BY <1>32 DEF Shutdown
  <2>2. CASE pc[w] \in {"scan", "idle"}
    <3>1. TypeOK'
      BY <1>32, <2>1, <2>2, NoRowType DEF Shutdown, Release
    <3>2. CountersBounded' /\ HoldsInJob'
      BY <1>32, <2>2 DEF Shutdown, Release
    <3> QED BY <3>1, <3>2
  <2>3. CASE pc[w] \in Delivering
    <3>1. TypeOK'
      BY <1>32, <2>1, <2>3, NoRowType DEF Shutdown
    <3>2. CountersBounded' /\ HoldsInJob'
      BY <1>32, <2>3 DEF Shutdown
    <3> QED BY <3>1, <3>2
  <2>4. CASE pc[w] = "signal"
    <3>0. /\ unsignalled' = unsignalled \union {cur[w]} /\ cur[w] \in Executions
          /\ job' = [job EXCEPT ![cur[w]] = "queued"]
          /\ Release(w, "down") /\ UNCHANGED orphans
      BY <1>32, <2>4 DEF Shutdown
    <3>1. TypeOK'
      BY <1>32, <2>1, <3>0, NoRowType DEF Shutdown, Release
    <3>2. CountersBounded' /\ HoldsInJob'
      BY <1>32, <2>4 DEF Shutdown, Release
    <3> QED BY <3>1, <3>2
  <2> QED BY <1>32, <2>2, <2>3, <2>4 DEF Shutdown
<1>33. CASE UNCHANGED vars
  BY <1>33 DEF vars
<1> QED
  BY <1>1, <1>2, <1>3, <1>4, <1>5, <1>6, <1>7, <1>8, <1>9, <1>10, <1>11, <1>12, <1>13, <1>14, <1>15, <1>16, <1>17, <1>18, <1>19, <1>20, <1>21, <1>22, <1>23, <1>24, <1>25, <1>26, <1>27, <1>28, <1>29, <1>30, <1>31, <1>32, <1>33
     DEF Next, Request, Arq, Work, Disturb

-----------------------------------------------------------------------------
(* Layer 2: who holds which job. *)

LEMMA DeliveryInit == Init => DeliveryInv
  BY QueueAssumption DEF Init, DeliveryInv, HeldIsRunning, OneDelivery

LEMMA DeliveryStep == TypeInv /\ TypeInv' /\ DeliveryInv /\ [Next]_vars => DeliveryInv'
<1> SUFFICES ASSUME TypeInv, TypeInv', DeliveryInv, [Next]_vars PROVE DeliveryInv'
  OBVIOUS
<1> USE QueueAssumption DEF DeliveryInv, HeldIsRunning, OneDelivery,
                            apiVars, arqVars, workerVars, ghostVars
<1>0. /\ job \in [Executions -> {"none", "queued", "running", "result"}]
      /\ cur \in [Workers -> Executions \union {NoExecution}]
      /\ \A w \in Workers : cur[w] \in Executions <=> pc[w] \in InJob
  BY DEF TypeInv, TypeOK, HoldsInJob
\* Most actions touch neither Arq's keys nor what a worker holds.
<1>1. ASSUME NEW e \in Executions, CreateQueued(e) PROVE DeliveryInv'
  BY <1>1 DEF CreateQueued
<1>2. ASSUME NEW e \in Executions, PushJob(e) PROVE DeliveryInv'
  BY <1>0, <1>2 DEF PushJob, Enqueue
<1>3. ASSUME NEW e \in Executions, CommitQueuedRow(e) PROVE DeliveryInv'
  BY <1>3 DEF CommitQueuedRow, Answer
<1>4. ASSUME NEW e \in Executions, Subscribe(e) PROVE DeliveryInv'
  BY <1>4 DEF Subscribe
<1>5. ASSUME NEW e \in Executions, FirstRead(e) PROVE DeliveryInv'
  BY <1>5 DEF FirstRead, Answer, TaskResult
<1>6. ASSUME NEW e \in Executions, ReadAfterSignal(e) PROVE DeliveryInv'
  BY <1>6 DEF ReadAfterSignal, Answer, TaskResult
<1>7. ASSUME NEW e \in Executions, WaitTimesOut(e) PROVE DeliveryInv'
  BY <1>7 DEF WaitTimesOut, Answer
<1>8. ASSUME NEW e \in Executions, DispatchFails(e) PROVE DeliveryInv'
  BY <1>8 DEF DispatchFails, Answer
<1>9. ASSUME NEW e \in Executions, DeleteWorkflow(e) PROVE DeliveryInv'
  BY <1>9 DEF DeleteWorkflow
<1>10. ASSUME NEW e \in Executions, ExpireInProgress(e) PROVE DeliveryInv'
  BY <1>0, <1>10 DEF ExpireInProgress, HeldBy
<1>11. ASSUME NEW e \in Executions, ResultExpires(e) PROVE DeliveryInv'
  BY <1>0, <1>11 DEF ResultExpires
<1>12. ASSUME NEW w \in Workers, StartWorker(w) PROVE DeliveryInv'
  BY <1>12 DEF StartWorker
<1>13. ASSUME NEW w \in Workers, RequeueOrphan(w) PROVE DeliveryInv'
  <2>1. PICK o \in orphans[w] : Enqueue(o.id, o.input)
    BY <1>13 DEF RequeueOrphan
  <2>2. UNCHANGED cur
    BY <1>13 DEF RequeueOrphan
  <2>3. \A e \in Executions : job[e] = "running" => job'[e] = "running"
    BY <1>0, <2>1 DEF Enqueue
  <2> QED BY <1>0, <2>2, <2>3
<1>14. ASSUME NEW w \in Workers, ScanDone(w) PROVE DeliveryInv'
  BY <1>14 DEF ScanDone
<1>15. ASSUME NEW w \in Workers, NEW e \in Executions, TakeJob(w, e) PROVE DeliveryInv'
  <2>1. \A v \in Workers : cur[v] # e
    BY <1>0, <1>15 DEF TakeJob
  <2>2. cur[w] = NoExecution
    BY <1>0, <1>15 DEF TakeJob, InJob, Delivering, Executing
  <2>3. CASE tries[e] < MaxTries
    BY <1>0, <1>15, <2>1, <2>2, <2>3 DEF TakeJob
  <2>4. CASE ~(tries[e] < MaxTries)
    BY <1>0, <1>15, <2>1, <2>4 DEF TakeJob
  <2> QED BY <2>3, <2>4
<1>16. ASSUME NEW w \in Workers, LoadFails(w) PROVE DeliveryInv'
  BY <1>16 DEF LoadFails, AbandonJob
<1>17. ASSUME NEW w \in Workers, Prepare(w) PROVE DeliveryInv'
  BY <1>17 DEF Prepare
<1>18. ASSUME NEW w \in Workers, StartNode(w) PROVE DeliveryInv'
  BY <1>18 DEF StartNode
<1>19. ASSUME NEW w \in Workers, NodeCheckpoint(w) PROVE DeliveryInv'
  BY <1>19 DEF NodeCheckpoint, Commit
<1>20. ASSUME NEW w \in Workers, NodeCompletes(w) PROVE DeliveryInv'
  BY <1>20 DEF NodeCompletes
<1>21. ASSUME NEW w \in Workers, NodeRaises(w) PROVE DeliveryInv'
  BY <1>21 DEF NodeRaises, Fail
<1>22. ASSUME NEW w \in Workers, LoopRaises(w) PROVE DeliveryInv'
  BY <1>22 DEF LoopRaises, Fail
<1>23. ASSUME NEW w \in Workers, Finalize(w) PROVE DeliveryInv'
  BY <1>23 DEF Finalize
<1>24. ASSUME NEW w \in Workers, FinalizeShortOfCredits(w) PROVE DeliveryInv'
  BY <1>24 DEF FinalizeShortOfCredits, Fail
<1>25. ASSUME NEW w \in Workers, FinalizeRaisesAfterDeduction(w) PROVE DeliveryInv'
  BY <1>25 DEF FinalizeRaisesAfterDeduction, Fail
<1>26. ASSUME NEW w \in Workers, DatabaseError(w) PROVE DeliveryInv'
  BY <1>26 DEF DatabaseError, AbandonJob
<1>27. ASSUME NEW w \in Workers, JobTimesOut(w) PROVE DeliveryInv'
  BY <1>27 DEF JobTimesOut, AbandonJob
<1>28. ASSUME NEW w \in Workers, CommitJob(w) PROVE DeliveryInv'
  BY <1>28 DEF CommitJob, Commit
<1>29. ASSUME NEW w \in Workers, Signal(w) PROVE DeliveryInv'
  BY <1>29 DEF Signal
<1>30. ASSUME NEW w \in Workers, Acknowledge(w) PROVE DeliveryInv'
  <2>1. /\ cur[w] \in Executions
        /\ cur' = [cur EXCEPT ![w] = NoExecution]
        /\ \E k \in {"queued", "result"} : job' = [job EXCEPT ![cur[w]] = k]
    BY <1>0, <1>30 DEF Acknowledge, Release, InJob
  <2> QED BY <1>0, <2>1
<1>31. ASSUME NEW w \in Workers, Crash(w) PROVE DeliveryInv'
  BY <1>0, <1>31 DEF Crash, Release
<1>32. ASSUME NEW w \in Workers, Shutdown(w) PROVE DeliveryInv'
  <2>1. \/ cur' = [cur EXCEPT ![w] = NoExecution] /\ job' = job
        \/ cur' = cur /\ job' = job
        \/ /\ cur' = [cur EXCEPT ![w] = NoExecution]
           /\ job' = [job EXCEPT ![cur[w]] = "queued"]
           /\ pc[w] = "signal"
    BY <1>32 DEF Shutdown, Release
  <2> QED BY <1>0, <2>1 DEF InJob, Delivering, Executing
<1>33. CASE UNCHANGED vars
  BY <1>33 DEF vars
<1> QED
  BY <1>1, <1>2, <1>3, <1>4, <1>5, <1>6, <1>7, <1>8, <1>9, <1>10, <1>11, <1>12, <1>13, <1>14, <1>15, <1>16, <1>17, <1>18, <1>19, <1>20, <1>21, <1>22, <1>23, <1>24, <1>25, <1>26, <1>27, <1>28, <1>29, <1>30, <1>31, <1>32, <1>33
     DEF Next, Request, Arq, Work, Disturb

-----------------------------------------------------------------------------
(* Layer 3: uncommitted rows against committed ones. *)

LEMMA RowInit == Init => RowInv
  BY QueueAssumption DEF Init, RowInv, NothingCommitted, WorkingCopy, ReopeningCounted,
                         FeesOnlyWithSettlement, NoRow, Settled, Executing

LEMMA RowStep ==
    TypeInv /\ TypeInv' /\ DeliveryInv /\ RowInv /\ [Next]_vars => RowInv'
<1> SUFFICES ASSUME TypeInv, TypeInv', DeliveryInv, RowInv, [Next]_vars PROVE RowInv'
  OBVIOUS
<1> USE QueueAssumption DEF RowInv, NothingCommitted, WorkingCopy, ReopeningCounted,
                            FeesOnlyWithSettlement, Executing, Settled,
                            apiVars, arqVars, workerVars, ghostVars
<1>0. /\ api \in [Executions -> {"idle", "created", "pushed", "committed",
                                "subscribed", "waiting", "done"}]
      /\ db \in [Executions -> Row] /\ tx \in [Workers -> Row]
      /\ \A e \in Executions : db[e] \in Row /\ db[e].fees \in Nat /\ reopens[e] \in Nat
      /\ \A w \in Workers : tx[w] \in Row /\ tx[w].fees \in Nat /\ cost[w] \in Nat
      /\ pc \in [Workers -> {"down", "scan", "idle"} \union InJob]
      /\ cur \in [Workers -> Executions \union {NoExecution}]
      /\ reopens \in [Executions -> Nat]
      /\ \A w \in Workers : pc[w] \in Delivering => cur[w] \in Executions
  BY DEF TypeInv, TypeOK, HoldsInJob, InJob, Delivering, Row
<1>a. \A v, w \in Workers : cur[v] = cur[w] /\ cur[v] \in Executions => v = w
  BY <1>0 DEF DeliveryInv, OneDelivery
<1>1. ASSUME NEW e \in Executions, CreateQueued(e) PROVE RowInv'
  BY <1>0, <1>1 DEF CreateQueued
<1>2. ASSUME NEW e \in Executions, PushJob(e) PROVE RowInv'
  BY <1>0, <1>2 DEF PushJob, Enqueue
<1>3. ASSUME NEW e \in Executions, CommitQueuedRow(e) PROVE RowInv'
  <2>1. /\ db' = [db EXCEPT ![e] = QueuedRow] /\ api[e] = "pushed"
        /\ UNCHANGED <<gone, pc, cur, tx, reopens>>
        /\ api' \in {[api EXCEPT ![e] = "done"], [api EXCEPT ![e] = "committed"]}
    BY <1>3 DEF CommitQueuedRow, Answer
  <2>2. QueuedRow.fees = 0 /\ NoRow.status = "none"
    BY DEF QueuedRow, NoRow
  <2>3. NothingCommitted'
    BY <1>0, <2>1
  <2>4. \A w \in Workers : pc[w] \in Executing /\ cur[w] \notin gone => cur[w] # e
    BY <1>0, <2>1, <2>2
  <2>5. WorkingCopy' /\ ReopeningCounted'
    BY <1>0, <2>1, <2>4 DEF Delivering
  <2>6. FeesOnlyWithSettlement'
    BY <1>0, <2>1, <2>2
  <2> QED BY <2>3, <2>5, <2>6
<1>4. ASSUME NEW e \in Executions, Subscribe(e) PROVE RowInv'
  BY <1>0, <1>4 DEF Subscribe
<1>5. ASSUME NEW e \in Executions, FirstRead(e) PROVE RowInv'
  BY <1>0, <1>5 DEF FirstRead, Answer, TaskResult
<1>6. ASSUME NEW e \in Executions, ReadAfterSignal(e) PROVE RowInv'
  BY <1>0, <1>6 DEF ReadAfterSignal, Answer, TaskResult
<1>7. ASSUME NEW e \in Executions, WaitTimesOut(e) PROVE RowInv'
  BY <1>0, <1>7 DEF WaitTimesOut, Answer
<1>8. ASSUME NEW e \in Executions, DispatchFails(e) PROVE RowInv'
  BY <1>0, <1>8 DEF DispatchFails, Answer
<1>9. ASSUME NEW e \in Executions, DeleteWorkflow(e) PROVE RowInv'
  <2>1. /\ db' = [db EXCEPT ![e] = NoRow] /\ gone' = gone \union {e}
        /\ db[e].status # "none"
        /\ UNCHANGED <<api, pc, cur, tx, reopens>>
    BY <1>9 DEF DeleteWorkflow
  <2>2. NoRow.fees = 0 /\ NoRow.status = "none"
    BY DEF NoRow
  <2>3. NothingCommitted'
    BY <1>0, <2>1, <2>2
  <2>4. WorkingCopy' /\ ReopeningCounted'
    BY <1>0, <2>1 DEF Delivering
  <2>5. FeesOnlyWithSettlement'
    BY <1>0, <2>1, <2>2
  <2> QED BY <2>3, <2>4, <2>5
<1>10. ASSUME NEW e \in Executions, ExpireInProgress(e) PROVE RowInv'
  BY <1>0, <1>10 DEF ExpireInProgress
<1>11. ASSUME NEW e \in Executions, ResultExpires(e) PROVE RowInv'
  BY <1>0, <1>11 DEF ResultExpires
<1>12. ASSUME NEW w \in Workers, StartWorker(w) PROVE RowInv'
  BY <1>0, <1>12 DEF StartWorker
<1>13. ASSUME NEW w \in Workers, RequeueOrphan(w) PROVE RowInv'
  BY <1>0, <1>13 DEF RequeueOrphan, Enqueue
<1>14. ASSUME NEW w \in Workers, ScanDone(w) PROVE RowInv'
  BY <1>0, <1>14 DEF ScanDone
<1>15. ASSUME NEW w \in Workers, NEW e \in Executions, TakeJob(w, e) PROVE RowInv'
  BY <1>0, <1>15 DEF TakeJob
<1>16. ASSUME NEW w \in Workers, LoadFails(w) PROVE RowInv'
  BY <1>0, <1>16 DEF LoadFails, AbandonJob
<1>17. ASSUME NEW w \in Workers, Prepare(w) PROVE RowInv'
  <2> DEFINE e == cur[w]
             row == [db[e] EXCEPT !.status = "RUNNING"]
  <2>1. /\ e \in Executions /\ pc[w] = "load" /\ db[e].status # "none"
        /\ tx' = [tx EXCEPT ![w] = row]
        /\ pc' \in {[pc EXCEPT ![w] = "next"], [pc EXCEPT ![w] = "finalize"]}
        /\ reopens' = IF db[e].status \in Settled
                      THEN [reopens EXCEPT ![e] = reopens[e] + 1] ELSE reopens
        /\ UNCHANGED <<api, db, gone, cur>>
    BY <1>0, <1>17 DEF Prepare, Delivering
  <2>2. row.status = "RUNNING" /\ row.fees = db[e].fees
    BY <1>0, <2>1 DEF Row
  <2>3. NothingCommitted'
    BY <2>1
  <2> HIDE DEF row
  <2>4. WorkingCopy'
    BY <1>0, <2>1, <2>2
  <2>5. \A x \in Executions : reopens'[x] \in Nat /\ reopens[x] <= reopens'[x]
    BY <1>0, <2>1
  <2>6. db[e].fees <= reopens'[e]
    BY <1>0, <2>1
  <2>7. ReopeningCounted'
    BY <1>0, <2>1, <2>5, <2>6 DEF Delivering
  <2>8. FeesOnlyWithSettlement'
    BY <1>0, <2>1, <2>5
  <2> QED BY <2>3, <2>4, <2>7, <2>8
<1>18. ASSUME NEW w \in Workers, StartNode(w) PROVE RowInv'
  BY <1>0, <1>18 DEF StartNode
<1>19. ASSUME NEW w \in Workers, NodeCheckpoint(w) PROVE RowInv'
  <2>1. /\ cur[w] \in Executions /\ cur[w] \notin gone /\ pc[w] = "body"
        /\ db' = [db EXCEPT ![cur[w]] = tx[w]]
        /\ UNCHANGED <<api, gone, pc, cur, tx, reopens>>
    BY <1>0, <1>19 DEF NodeCheckpoint, Commit, Delivering
  <2>2. tx[w].status = "RUNNING" /\ tx[w].fees = db[cur[w]].fees
        /\ db[cur[w]].status # "none" /\ tx[w].fees <= reopens[cur[w]]
    BY <2>1
  <2>3. NothingCommitted'
    <3>1. NoRow.status = "none"
      BY DEF NoRow
    <3> QED BY <1>0, <2>1, <2>2, <3>1
  <2>4. WorkingCopy' /\ ReopeningCounted'
    BY <1>0, <1>a, <2>1, <2>2 DEF Delivering
  <2>5. FeesOnlyWithSettlement'
    BY <1>0, <2>1, <2>2
  <2> QED BY <2>3, <2>4, <2>5
<1>20. ASSUME NEW w \in Workers, NodeCompletes(w) PROVE RowInv'
  <2> DEFINE row == LogStep(tx[w], node[w], "COMPLETED")
  <2>1. /\ cur[w] \in Executions /\ cur[w] \notin gone /\ pc[w] = "body"
        /\ db' = [db EXCEPT ![cur[w]] = row] /\ tx' = [tx EXCEPT ![w] = row]
        /\ pc' \in {[pc EXCEPT ![w] = "next"], [pc EXCEPT ![w] = "finalize"]}
        /\ UNCHANGED <<api, gone, cur, reopens>>
    BY <1>0, <1>20 DEF NodeCompletes, Delivering
  <2>2. row.status = tx[w].status /\ row.fees = tx[w].fees
    <3>1. node[w] \in Nodes
      BY <2>1 DEF Nodes, TypeInv, TypeOK, CountersBounded
    <3> QED BY <1>0, <3>1, LogStepType DEF StepStatus
  <2>3. row.status = "RUNNING" /\ row.fees = db[cur[w]].fees
        /\ db[cur[w]].status # "none" /\ row.fees <= reopens[cur[w]]
    BY <2>1, <2>2
  <2> HIDE DEF row
  <2>4. NothingCommitted'
    <3>1. NoRow.status = "none"
      BY DEF NoRow
    <3> QED BY <1>0, <2>1, <2>3, <3>1
  <2>5. WorkingCopy' /\ ReopeningCounted'
    <3>1. \A v \in Workers \ {w} : pc'[v] = pc[v] /\ tx'[v] = tx[v]
                /\ (pc[v] \in Executing => cur[v] \in Executions /\ db'[cur[v]] = db[cur[v]])
      BY <1>0, <1>a, <2>1 DEF Delivering
    <3>2. pc'[w] \in {"next", "finalize"} /\ tx'[w] = row /\ db'[cur[w]] = row
      BY <1>0, <2>1
    <3> QED BY <2>1, <2>3, <3>1, <3>2
  <2>6. FeesOnlyWithSettlement'
    BY <1>0, <2>1, <2>3
  <2> QED BY <2>4, <2>5, <2>6
<1>21. ASSUME NEW w \in Workers, NodeRaises(w) PROVE RowInv'
  <2> DEFINE row == LogStep(tx[w], node[w], "FAILED")
  <2>1. /\ pc[w] = "body"
        /\ tx' = [tx EXCEPT ![w] = FailedRow(row)] /\ pc' = [pc EXCEPT ![w] = "commit"]
        /\ UNCHANGED <<api, db, gone, cur, reopens>>
    BY <1>21 DEF NodeRaises, Fail
  <2>2. FailedRow(row).status = "FAILED" /\ FailedRow(row).fees = tx[w].fees
    <3>1. node[w] \in Nodes
      BY <2>1 DEF Nodes, TypeInv, TypeOK, CountersBounded
    <3> QED BY <1>0, <3>1, LogStepType, FailedRowType DEF StepStatus
  <2> HIDE DEF row
  <2> QED BY <1>0, <2>1, <2>2
<1>22. ASSUME NEW w \in Workers, LoopRaises(w) PROVE RowInv'
  <2> DEFINE row == tx[w]
  <2>1. /\ pc[w] \in {"next", "body", "finalize"}
        /\ tx' = [tx EXCEPT ![w] = FailedRow(row)] /\ pc' = [pc EXCEPT ![w] = "commit"]
        /\ UNCHANGED <<api, db, gone, cur, reopens>>
    BY <1>22 DEF LoopRaises, Fail
  <2>2. FailedRow(row).status = "FAILED" /\ FailedRow(row).fees = tx[w].fees
    BY <1>0, <1>22, FailedRowType
  <2> HIDE DEF row
  <2> QED BY <1>0, <2>1, <2>2
<1>23. ASSUME NEW w \in Workers, Finalize(w) PROVE RowInv'
  <2> DEFINE row(status) ==
        Concluded(Deducted(tx[w], cost[w]), status, FinalOutput(w), 1 + cost[w])
  <2>1. PICK status \in {"COMPLETED", "ERROR"} : tx' = [tx EXCEPT ![w] = row(status)]
    BY <1>23 DEF Finalize
  <2>2. /\ pc[w] = "finalize" /\ pc' = [pc EXCEPT ![w] = "commit"]
        /\ UNCHANGED <<api, db, gone, cur, reopens>>
    BY <1>23 DEF Finalize
  <2>3. row(status).status = status /\ row(status).fees = tx[w].fees + 1
    <3>1. FinalOutput(w) \in Outputs /\ 1 + cost[w] \in Nat
      BY <1>0 DEF FinalOutput, Outputs
    <3>2. /\ Deducted(tx[w], cost[w]) \in Row
          /\ Deducted(tx[w], cost[w]).fees = tx[w].fees + 1
      BY <1>0, DeductedType
    <3>3. status \in Status
      BY DEF Status
    <3> QED BY <3>1, <3>2, <3>3, ConcludedType
  <2> HIDE DEF row
  <2> QED BY <1>0, <2>1, <2>2, <2>3
<1>24. ASSUME NEW w \in Workers, FinalizeShortOfCredits(w) PROVE RowInv'
  <2> DEFINE row == tx[w]
  <2>1. /\ pc[w] \in {"next", "body", "finalize"}
        /\ tx' = [tx EXCEPT ![w] = FailedRow(row)] /\ pc' = [pc EXCEPT ![w] = "commit"]
        /\ UNCHANGED <<api, db, gone, cur, reopens>>
    BY <1>24 DEF FinalizeShortOfCredits, Fail
  <2>2. FailedRow(row).status = "FAILED" /\ FailedRow(row).fees = tx[w].fees
    BY <1>0, <1>24, FailedRowType
  <2> HIDE DEF row
  <2> QED BY <1>0, <2>1, <2>2
<1>25. ASSUME NEW w \in Workers, FinalizeRaisesAfterDeduction(w) PROVE RowInv'
  <2> DEFINE row == Deducted(tx[w], cost[w])
  <2>1. /\ pc[w] \in {"next", "body", "finalize"}
        /\ tx' = [tx EXCEPT ![w] = FailedRow(row)] /\ pc' = [pc EXCEPT ![w] = "commit"]
        /\ UNCHANGED <<api, db, gone, cur, reopens>>
    BY <1>25 DEF FinalizeRaisesAfterDeduction, Fail
  <2>2. FailedRow(row).status = "FAILED" /\ FailedRow(row).fees = tx[w].fees + 1
    BY <1>0, <1>25, FailedRowType, DeductedType
  <2> HIDE DEF row
  <2> QED BY <1>0, <2>1, <2>2
<1>26. ASSUME NEW w \in Workers, DatabaseError(w) PROVE RowInv'
  BY <1>0, <1>26 DEF DatabaseError, AbandonJob
<1>27. ASSUME NEW w \in Workers, JobTimesOut(w) PROVE RowInv'
  BY <1>0, <1>27 DEF JobTimesOut, AbandonJob
<1>28. ASSUME NEW w \in Workers, CommitJob(w) PROVE RowInv'
  <2>1. /\ cur[w] \in Executions /\ cur[w] \notin gone /\ pc[w] = "commit"
        /\ db' = [db EXCEPT ![cur[w]] = tx[w]]
        /\ pc' = [pc EXCEPT ![w] = "signal"] /\ tx' = [tx EXCEPT ![w] = NoRow]
        /\ UNCHANGED <<api, gone, cur, reopens>>
    BY <1>0, <1>28 DEF CommitJob, Commit, Delivering
  <2>2. /\ tx[w].status \in Settled /\ tx[w].fees <= reopens[cur[w]] + 1
        /\ db[cur[w]].status # "none"
    BY <1>0, <2>1
  <2>3. NothingCommitted'
    <3>1. NoRow.status = "none"
      BY DEF NoRow
    <3> QED BY <1>0, <2>1, <2>2, <3>1
  <2>4. WorkingCopy' /\ ReopeningCounted'
    BY <1>0, <1>a, <2>1 DEF Delivering
  <2>5. FeesOnlyWithSettlement'
    BY <1>0, <2>1, <2>2
  <2> QED BY <2>3, <2>4, <2>5
<1>29. ASSUME NEW w \in Workers, Signal(w) PROVE RowInv'
  BY <1>0, <1>29 DEF Signal
<1>30. ASSUME NEW w \in Workers, Acknowledge(w) PROVE RowInv'
  BY <1>0, <1>30 DEF Acknowledge, Release
<1>31. ASSUME NEW w \in Workers, Crash(w) PROVE RowInv'
  BY <1>0, <1>31 DEF Crash, Release
<1>32. ASSUME NEW w \in Workers, Shutdown(w) PROVE RowInv'
  <2>1. /\ UNCHANGED <<api, db, gone, reopens>>
        /\ \/ pc' = [pc EXCEPT ![w] = "signal"] /\ cur' = cur
           \/ pc' = [pc EXCEPT ![w] = "down"] /\ cur' = [cur EXCEPT ![w] = NoExecution]
        /\ \A v \in Workers : v # w => tx'[v] = tx[v]
    BY <1>0, <1>32 DEF Shutdown, Release
  <2> QED BY <1>0, <2>1
<1>33. CASE UNCHANGED vars
  BY <1>33 DEF vars
<1> QED
  BY <1>1, <1>2, <1>3, <1>4, <1>5, <1>6, <1>7, <1>8, <1>9, <1>10, <1>11, <1>12, <1>13, <1>14, <1>15, <1>16, <1>17, <1>18, <1>19, <1>20, <1>21, <1>22, <1>23, <1>24, <1>25, <1>26, <1>27, <1>28, <1>29, <1>30, <1>31, <1>32, <1>33
     DEF Next, Request, Arq, Work, Disturb

-----------------------------------------------------------------------------
(* Layer 4: every reopening has its stop. *)

LEMMA ReopenInit == Init => ReopenInv
  BY QueueAssumption DEF Init, ReopenInv, ReopenedOnlyByRestart, StopAccounted, NoRow, Settled

LEMMA ReopenStep ==
    TypeInv /\ TypeInv' /\ DeliveryInv /\ RowInv /\ ReopenInv /\ [Next]_vars => ReopenInv'
<1> SUFFICES ASSUME TypeInv, TypeInv', DeliveryInv, RowInv, ReopenInv, [Next]_vars
             PROVE  ReopenInv'
  OBVIOUS
<1> USE QueueAssumption DEF ReopenInv, ReopenedOnlyByRestart, StopAccounted,
                            DeliveredAgain, HeldBy, Settled,
                            apiVars, arqVars, workerVars, ghostVars
<1>0. /\ db \in [Executions -> Row]
      /\ job \in [Executions -> {"none", "queued", "running", "result"}]
      /\ pc \in [Workers -> {"down", "scan", "idle"} \union InJob]
      /\ cur \in [Workers -> Executions \union {NoExecution}]
      /\ fate \in [Workers -> {"finish", "retry"}]
      /\ orphans \in [Workers -> SUBSET [id: Executions, input: BOOLEAN]]
      /\ reopens \in [Executions -> Nat] /\ restarts \in Nat
      /\ \A e \in Executions : reopens[e] \in Nat
      /\ \A w \in Workers : cur[w] \in Executions <=> pc[w] \in InJob
      /\ \A w \in Workers : fate[w] = "retry" => pc[w] \in {"signal", "ack"}
      /\ \A w \in Workers : cur[w] \in Executions => job[cur[w]] = "running"
      /\ \A v, w \in Workers : cur[v] = cur[w] /\ cur[v] \in Executions => v = w
  BY DEF TypeInv, TypeOK, HoldsInJob, CountersBounded, DeliveryInv, HeldIsRunning,
         OneDelivery
<1>r. NoRow.status = "none"
  BY DEF NoRow
<1> USE DEF InJob, Delivering, Executing
<1>1. ASSUME NEW e \in Executions, CreateQueued(e) PROVE ReopenInv'
  BY <1>0, <1>1 DEF CreateQueued
<1>2. ASSUME NEW e \in Executions, PushJob(e) PROVE ReopenInv'
  <2>1. db[e].status = "none"
    BY <1>r, <1>2 DEF PushJob, RowInv, NothingCommitted
  <2> QED BY <1>0, <1>2, <2>1 DEF PushJob, Enqueue
<1>3. ASSUME NEW e \in Executions, CommitQueuedRow(e) PROVE ReopenInv'
  <2>1. QueuedRow.status = "QUEUED"
    BY DEF QueuedRow, NoRow
  <2>2. db' = [db EXCEPT ![e] = QueuedRow]
    BY <1>3 DEF CommitQueuedRow
  <2>3. UNCHANGED <<job, pc, cur, fate, orphans, reopens, restarts>>
    BY <1>3 DEF CommitQueuedRow
  <2> QED BY <1>0, <2>1, <2>2, <2>3
<1>4. ASSUME NEW e \in Executions, Subscribe(e) PROVE ReopenInv'
  BY <1>0, <1>4 DEF Subscribe
<1>5. ASSUME NEW e \in Executions, FirstRead(e) PROVE ReopenInv'
  BY <1>0, <1>5 DEF FirstRead, Answer, TaskResult
<1>6. ASSUME NEW e \in Executions, ReadAfterSignal(e) PROVE ReopenInv'
  BY <1>0, <1>6 DEF ReadAfterSignal, Answer, TaskResult
<1>7. ASSUME NEW e \in Executions, WaitTimesOut(e) PROVE ReopenInv'
  BY <1>0, <1>7 DEF WaitTimesOut, Answer
<1>8. ASSUME NEW e \in Executions, DispatchFails(e) PROVE ReopenInv'
  BY <1>0, <1>8 DEF DispatchFails, Answer
<1>9. ASSUME NEW e \in Executions, DeleteWorkflow(e) PROVE ReopenInv'
  BY <1>0, <1>r, <1>9 DEF DeleteWorkflow
<1>10. ASSUME NEW e \in Executions, ExpireInProgress(e) PROVE ReopenInv'
  BY <1>0, <1>10 DEF ExpireInProgress
<1>11. ASSUME NEW e \in Executions, ResultExpires(e) PROVE ReopenInv'
  BY <1>0, <1>11 DEF ResultExpires
<1>12. ASSUME NEW w \in Workers, StartWorker(w) PROVE ReopenInv'
  <2>1. PICK found \in SUBSET {e \in Executions : db[e].status \in InFlight} :
            orphans' = [orphans EXCEPT ![w] = {[id |-> e, input |-> db[e].input] : e \in found}]
    BY <1>12 DEF StartWorker
  <2>2. \A o \in orphans'[w] : db[o.id].status \in InFlight
    BY <1>0, <2>1
  <2>3. /\ \A v \in Workers : v # w => orphans'[v] = orphans[v]
        /\ pc[w] = "down" /\ pc' = [pc EXCEPT ![w] = "scan"]
        /\ UNCHANGED <<db, job, cur, fate, reopens, restarts>>
    BY <1>0, <2>1, <1>12 DEF StartWorker
  <2>4. \A e \in Executions : DeliveredAgain(e)' => DeliveredAgain(e)
    BY <1>0, <2>3
  <2> QED BY <1>0, <2>2, <2>3, <2>4 DEF InFlight
<1>13. ASSUME NEW w \in Workers, RequeueOrphan(w) PROVE ReopenInv'
  <2>1. PICK o \in orphans[w] : /\ Enqueue(o.id, o.input)
                               /\ orphans' = [orphans EXCEPT ![w] = orphans[w] \ {o}]
    BY <1>13 DEF RequeueOrphan
  <2>2. UNCHANGED <<db, pc, cur, fate, reopens, restarts>>
    BY <1>13 DEF RequeueOrphan
  <2>3. o.id \in Executions /\ \A v \in Workers : orphans'[v] \in SUBSET orphans[v]
    <3>1. o \in [id: Executions, input: BOOLEAN]
      BY <1>0
    <3>2. o.id \in Executions
      BY <3>1
    <3>3. \A v \in Workers : orphans'[v] \in SUBSET orphans[v]
      BY <1>0, <2>1
    <3> QED BY <3>2, <3>3
  <2>4. db[o.id].status \in Settled => job' = job
    <3> HIDE DEF DeliveredAgain
    <3> QED BY <2>1, <2>3 DEF Enqueue
  <2>5. \A e \in Executions : e # o.id => job'[e] = job[e]
    BY <1>0, <2>1 DEF Enqueue
  <2> QED BY <1>0, <2>2, <2>3, <2>4, <2>5
<1>14. ASSUME NEW w \in Workers, ScanDone(w) PROVE ReopenInv'
  <2>1. /\ pc[w] = "scan" /\ pc' = [pc EXCEPT ![w] = "idle"]
        /\ \A v \in Workers : orphans'[v] \in SUBSET orphans[v]
        /\ UNCHANGED <<db, job, cur, fate, reopens, restarts>>
    BY <1>0, <1>14 DEF ScanDone
  <2>2. \A e \in Executions : DeliveredAgain(e)' => DeliveredAgain(e)
    BY <1>0, <2>1
  <2> HIDE DEF DeliveredAgain
  <2> QED BY <2>1, <2>2
<1>15. ASSUME NEW w \in Workers, NEW e \in Executions, TakeJob(w, e) PROVE ReopenInv'
  <2>1. CASE tries[e] < MaxTries
    BY <1>0, <1>15, <2>1 DEF TakeJob
  <2>2. CASE ~(tries[e] < MaxTries)
    BY <1>0, <1>15, <2>2 DEF TakeJob
  <2> QED BY <2>1, <2>2
<1>16. ASSUME NEW w \in Workers, LoadFails(w) PROVE ReopenInv'
  BY <1>0, <1>16 DEF LoadFails, AbandonJob
<1>17. ASSUME NEW w \in Workers, Prepare(w) PROVE ReopenInv'
  <2> DEFINE e == cur[w]
  <2>1. /\ e \in Executions /\ pc[w] = "load"
        /\ pc' \in {[pc EXCEPT ![w] = "next"], [pc EXCEPT ![w] = "finalize"]}
        /\ reopens' = IF db[e].status \in Settled
                      THEN [reopens EXCEPT ![e] = reopens[e] + 1] ELSE reopens
        /\ UNCHANGED <<db, job, cur, fate, orphans, restarts>>
    BY <1>0, <1>17 DEF Prepare
  <2>2. DeliveredAgain(e) /\ ~DeliveredAgain(e)'
    BY <1>0, <2>1
  <2>3. ReopenedOnlyByRestart'
    BY <1>0, <2>1, <2>2
  <2>4. \A x \in Executions : x # e => (DeliveredAgain(x)' => DeliveredAgain(x))
    BY <1>0, <2>1
  <2>5. StopAccounted'
    BY <1>0, <2>1, <2>2, <2>4
  <2> QED BY <2>3, <2>5
<1>18. ASSUME NEW w \in Workers, StartNode(w) PROVE ReopenInv'
  BY <1>0, <1>18 DEF StartNode
<1>19. ASSUME NEW w \in Workers, NodeCheckpoint(w) PROVE ReopenInv'
  <2>1. /\ cur[w] \in Executions /\ db' = [db EXCEPT ![cur[w]] = tx[w]]
        /\ tx[w].status = "RUNNING"
        /\ UNCHANGED <<job, pc, cur, fate, orphans, reopens, restarts>>
    BY <1>0, <1>19 DEF NodeCheckpoint, Commit, RowInv, WorkingCopy
  <2> QED BY <1>0, <2>1
<1>20. ASSUME NEW w \in Workers, NodeCompletes(w) PROVE ReopenInv'
  <2> DEFINE row == LogStep(tx[w], node[w], "COMPLETED")
  <2>1. /\ cur[w] \in Executions /\ pc[w] = "body" /\ db' = [db EXCEPT ![cur[w]] = row]
        /\ pc' \in {[pc EXCEPT ![w] = "next"], [pc EXCEPT ![w] = "finalize"]}
        /\ UNCHANGED <<job, cur, fate, orphans, reopens, restarts>>
    BY <1>0, <1>20 DEF NodeCompletes
  <2>2. row.status = "RUNNING"
    <3>1. node[w] \in Nodes /\ tx[w] \in Row
      BY <2>1 DEF Nodes, TypeInv, TypeOK, CountersBounded
    <3>2. tx[w].status = "RUNNING"
      BY <1>20 DEF NodeCompletes, RowInv, WorkingCopy
    <3> QED BY <3>1, <3>2, LogStepType DEF StepStatus
  <2> HIDE DEF row
  <2> QED BY <1>0, <2>1, <2>2
<1>21. ASSUME NEW w \in Workers, NodeRaises(w) PROVE ReopenInv'
  BY <1>0, <1>21 DEF NodeRaises, Fail
<1>22. ASSUME NEW w \in Workers, LoopRaises(w) PROVE ReopenInv'
  BY <1>0, <1>22 DEF LoopRaises, Fail
<1>23. ASSUME NEW w \in Workers, Finalize(w) PROVE ReopenInv'
  BY <1>0, <1>23 DEF Finalize
<1>24. ASSUME NEW w \in Workers, FinalizeShortOfCredits(w) PROVE ReopenInv'
  BY <1>0, <1>24 DEF FinalizeShortOfCredits, Fail
<1>25. ASSUME NEW w \in Workers, FinalizeRaisesAfterDeduction(w) PROVE ReopenInv'
  BY <1>0, <1>25 DEF FinalizeRaisesAfterDeduction, Fail
<1>26. ASSUME NEW w \in Workers, DatabaseError(w) PROVE ReopenInv'
  BY <1>0, <1>26 DEF DatabaseError, AbandonJob
<1>27. ASSUME NEW w \in Workers, JobTimesOut(w) PROVE ReopenInv'
  BY <1>0, <1>27 DEF JobTimesOut, AbandonJob
<1>28. ASSUME NEW w \in Workers, CommitJob(w) PROVE ReopenInv'
  <2> DEFINE e == cur[w]
  <2>1. /\ e \in Executions /\ pc[w] = "commit" /\ db' = [db EXCEPT ![e] = tx[w]]
        /\ pc' = [pc EXCEPT ![w] = "signal"]
        /\ UNCHANGED <<job, cur, fate, orphans, reopens, restarts>>
    BY <1>0, <1>28 DEF CommitJob, Commit
  <2>2. ~DeliveredAgain(e)' /\ job'[e] = "running"
    BY <1>0, <2>1
  <2>3. \A x \in Executions : x # e =>
            (DeliveredAgain(x)' => DeliveredAgain(x)) /\ db'[x] = db[x]
    BY <1>0, <2>1
  <2> QED BY <2>1, <2>2, <2>3
<1>29. ASSUME NEW w \in Workers, Signal(w) PROVE ReopenInv'
  BY <1>0, <1>29 DEF Signal
<1>30. ASSUME NEW w \in Workers, Acknowledge(w) PROVE ReopenInv'
  <2>0. PICK e \in Executions : e = cur[w]
    BY <1>0, <1>30 DEF Acknowledge
  <2>1. /\ pc[w] = "ack"
        /\ UNCHANGED <<db, orphans, reopens, restarts>>
        /\ cur' = [cur EXCEPT ![w] = NoExecution]
        /\ pc' \in {[pc EXCEPT ![w] = "down"], [pc EXCEPT ![w] = "idle"]}
        /\ fate' = [fate EXCEPT ![w] = "finish"]
    BY <1>30 DEF Acknowledge, Release
  <2>2. job' = [job EXCEPT ![e] = IF fate[w] = "retry" THEN "queued" ELSE "result"]
    BY <1>30, <2>0 DEF Acknowledge
  <2>3. DeliveredAgain(e)' => DeliveredAgain(e)
    <3>1. HeldBy(e)' = {}
      BY <1>0, <2>0, <2>1
    <3>2. CASE fate[w] = "retry"
      BY <2>0, <2>1, <3>2
    <3>3. CASE fate[w] # "retry"
      <4>1. job'[e] = "result"
        BY <1>0, <2>1, <2>2, <3>3
      <4> HIDE DEF HeldBy
      <4> QED BY <3>1, <4>1
    <3> QED BY <3>2, <3>3
  <2>4. \A x \in Executions : x # e =>
            (DeliveredAgain(x)' => DeliveredAgain(x)) /\ job'[x] = job[x]
    BY <1>0, <2>0, <2>1, <2>2
  <2>5. job'[e] # "none"
    BY <1>0, <2>0, <2>1, <2>2
  <2> HIDE DEF DeliveredAgain
  <2> QED BY <2>1, <2>3, <2>4, <2>5
<1>31. ASSUME NEW w \in Workers, Crash(w) PROVE ReopenInv'
  <2>1. UNCHANGED <<db, reopens>> /\ restarts' = restarts + 1
    BY <1>31 DEF Crash
  <2>2. \A v \in Workers : orphans'[v] \in SUBSET orphans[v]
    BY <1>0, <1>31 DEF Crash
  <2>3. \A e \in Executions : job'[e] = "none" => job[e] = "none"
    BY <1>0, <1>31 DEF Crash
  <2> QED BY <1>0, <2>1, <2>2, <2>3
<1>32. ASSUME NEW w \in Workers, Shutdown(w) PROVE ReopenInv'
  <2>1. UNCHANGED <<db, reopens>> /\ restarts' = restarts + 1
    BY <1>32 DEF Shutdown
  <2>2. \A v \in Workers : orphans'[v] \in SUBSET orphans[v]
    BY <1>0, <1>32 DEF Shutdown
  <2>3. \A e \in Executions : job'[e] = "none" => job[e] = "none"
    BY <1>0, <1>32 DEF Shutdown
  <2> QED BY <1>0, <2>1, <2>2, <2>3
<1>33. CASE UNCHANGED vars
  BY <1>33 DEF vars
<1> QED
  BY <1>1, <1>2, <1>3, <1>4, <1>5, <1>6, <1>7, <1>8, <1>9, <1>10, <1>11, <1>12, <1>13, <1>14, <1>15, <1>16, <1>17, <1>18, <1>19, <1>20, <1>21, <1>22, <1>23, <1>24, <1>25, <1>26, <1>27, <1>28, <1>29, <1>30, <1>31, <1>32, <1>33
     DEF Next, Request, Arq, Work, Disturb

-----------------------------------------------------------------------------
(* The request's wait. *)

LEMMA WakeInit == Init => SettledWakesWaiter
  BY DEF Init, SettledWakesWaiter

LEMMA WakeStep ==
    TypeInv /\ DeliveryInv /\ RowInv /\ SettledWakesWaiter /\ [Next]_vars
        => SettledWakesWaiter'
<1> SUFFICES ASSUME TypeInv, DeliveryInv, RowInv, SettledWakesWaiter, [Next]_vars
             PROVE  SettledWakesWaiter'
  OBVIOUS
<1> USE QueueAssumption DEF SettledWakesWaiter, HeldBy, Settled,
                            apiVars, arqVars, workerVars, ghostVars
<1>0. /\ api \in [Executions -> {"idle", "created", "pushed", "committed",
                                "subscribed", "waiting", "done"}]
      /\ db \in [Executions -> Row]
      /\ inbox \in [Executions -> BOOLEAN]
      /\ pc \in [Workers -> {"down", "scan", "idle"} \union InJob]
      /\ cur \in [Workers -> Executions \union {NoExecution}]
      /\ \A w \in Workers : cur[w] \in Executions <=> pc[w] \in InJob
      /\ \A v, w \in Workers : cur[v] = cur[w] /\ cur[v] \in Executions => v = w
  BY DEF TypeInv, TypeOK, HoldsInJob, DeliveryInv, OneDelivery
<1> USE DEF InJob, Delivering, Executing
<1>1. ASSUME NEW e \in Executions, CreateQueued(e) PROVE SettledWakesWaiter'
  BY <1>0, <1>1 DEF CreateQueued
<1>2. ASSUME NEW e \in Executions, PushJob(e) PROVE SettledWakesWaiter'
  BY <1>0, <1>2 DEF PushJob, Enqueue
<1>3. ASSUME NEW e \in Executions, CommitQueuedRow(e) PROVE SettledWakesWaiter'
  <2>1. QueuedRow.status = "QUEUED"
    BY DEF QueuedRow, NoRow
  <2>2. /\ db' = [db EXCEPT ![e] = QueuedRow]
        /\ api' \in {[api EXCEPT ![e] = "done"], [api EXCEPT ![e] = "committed"]}
        /\ UNCHANGED <<inbox, pc, cur, unsignalled>>
    BY <1>3 DEF CommitQueuedRow, Answer
  <2> QED BY <1>0, <2>1, <2>2
<1>4. ASSUME NEW e \in Executions, Subscribe(e) PROVE SettledWakesWaiter'
  BY <1>0, <1>4 DEF Subscribe
<1>5. ASSUME NEW e \in Executions, FirstRead(e) PROVE SettledWakesWaiter'
  <2>1. CASE TaskResult(e) = "running"
    <3>1. db[e].status \in InFlight
      BY <2>1 DEF TaskResult, InFlight
    <3> QED BY <1>0, <1>5, <2>1, <3>1 DEF FirstRead, InFlight
  <2>2. CASE TaskResult(e) # "running"
    BY <1>0, <1>5, <2>2 DEF FirstRead, Answer
  <2> QED BY <2>1, <2>2
<1>6. ASSUME NEW e \in Executions, ReadAfterSignal(e) PROVE SettledWakesWaiter'
  BY <1>0, <1>6 DEF ReadAfterSignal, Answer, TaskResult
<1>7. ASSUME NEW e \in Executions, WaitTimesOut(e) PROVE SettledWakesWaiter'
  BY <1>0, <1>7 DEF WaitTimesOut, Answer
<1>8. ASSUME NEW e \in Executions, DispatchFails(e) PROVE SettledWakesWaiter'
  BY <1>0, <1>8 DEF DispatchFails, Answer
<1>9. ASSUME NEW e \in Executions, DeleteWorkflow(e) PROVE SettledWakesWaiter'
  <2>1. NoRow.status = "none"
    BY DEF NoRow
  <2> QED BY <1>0, <1>9, <2>1 DEF DeleteWorkflow
<1>10. ASSUME NEW e \in Executions, ExpireInProgress(e) PROVE SettledWakesWaiter'
  BY <1>0, <1>10 DEF ExpireInProgress
<1>11. ASSUME NEW e \in Executions, ResultExpires(e) PROVE SettledWakesWaiter'
  BY <1>0, <1>11 DEF ResultExpires
<1>12. ASSUME NEW w \in Workers, StartWorker(w) PROVE SettledWakesWaiter'
  BY <1>0, <1>12 DEF StartWorker
<1>13. ASSUME NEW w \in Workers, RequeueOrphan(w) PROVE SettledWakesWaiter'
  BY <1>0, <1>13 DEF RequeueOrphan, Enqueue
<1>14. ASSUME NEW w \in Workers, ScanDone(w) PROVE SettledWakesWaiter'
  BY <1>0, <1>14 DEF ScanDone
<1>15. ASSUME NEW w \in Workers, NEW e \in Executions, TakeJob(w, e) PROVE SettledWakesWaiter'
  BY <1>0, <1>15 DEF TakeJob
<1>16. ASSUME NEW w \in Workers, LoadFails(w) PROVE SettledWakesWaiter'
  BY <1>0, <1>16 DEF LoadFails, AbandonJob
<1>17. ASSUME NEW w \in Workers, Prepare(w) PROVE SettledWakesWaiter'
  BY <1>0, <1>17 DEF Prepare
<1>18. ASSUME NEW w \in Workers, StartNode(w) PROVE SettledWakesWaiter'
  BY <1>0, <1>18 DEF StartNode
<1>19. ASSUME NEW w \in Workers, NodeCheckpoint(w) PROVE SettledWakesWaiter'
  <2>1. /\ cur[w] \in Executions /\ db' = [db EXCEPT ![cur[w]] = tx[w]]
        /\ tx[w].status = "RUNNING" /\ UNCHANGED <<api, inbox, pc, cur, unsignalled>>
    BY <1>0, <1>19 DEF NodeCheckpoint, Commit, RowInv, WorkingCopy
  <2> QED BY <1>0, <2>1
<1>20. ASSUME NEW w \in Workers, NodeCompletes(w) PROVE SettledWakesWaiter'
  <2> DEFINE row == LogStep(tx[w], node[w], "COMPLETED")
  <2>1. /\ cur[w] \in Executions /\ pc[w] = "body" /\ db' = [db EXCEPT ![cur[w]] = row]
        /\ pc' \in {[pc EXCEPT ![w] = "next"], [pc EXCEPT ![w] = "finalize"]}
        /\ UNCHANGED <<api, inbox, cur, unsignalled>>
    BY <1>0, <1>20 DEF NodeCompletes
  <2>2. row.status = "RUNNING"
    <3>1. node[w] \in Nodes /\ tx[w] \in Row
      BY <2>1 DEF Nodes, TypeInv, TypeOK, CountersBounded
    <3>2. tx[w].status = "RUNNING"
      BY <1>20 DEF NodeCompletes, RowInv, WorkingCopy
    <3> QED BY <3>1, <3>2, LogStepType DEF StepStatus
  <2> HIDE DEF row
  <2> QED BY <1>0, <2>1, <2>2
<1>21. ASSUME NEW w \in Workers, NodeRaises(w) PROVE SettledWakesWaiter'
  BY <1>0, <1>21 DEF NodeRaises, Fail
<1>22. ASSUME NEW w \in Workers, LoopRaises(w) PROVE SettledWakesWaiter'
  BY <1>0, <1>22 DEF LoopRaises, Fail
<1>23. ASSUME NEW w \in Workers, Finalize(w) PROVE SettledWakesWaiter'
  BY <1>0, <1>23 DEF Finalize
<1>24. ASSUME NEW w \in Workers, FinalizeShortOfCredits(w) PROVE SettledWakesWaiter'
  BY <1>0, <1>24 DEF FinalizeShortOfCredits, Fail
<1>25. ASSUME NEW w \in Workers, FinalizeRaisesAfterDeduction(w) PROVE SettledWakesWaiter'
  BY <1>0, <1>25 DEF FinalizeRaisesAfterDeduction, Fail
<1>26. ASSUME NEW w \in Workers, DatabaseError(w) PROVE SettledWakesWaiter'
  BY <1>0, <1>26 DEF DatabaseError, AbandonJob
<1>27. ASSUME NEW w \in Workers, JobTimesOut(w) PROVE SettledWakesWaiter'
  BY <1>0, <1>27 DEF JobTimesOut, AbandonJob
<1>28. ASSUME NEW w \in Workers, CommitJob(w) PROVE SettledWakesWaiter'
  <2>1. /\ cur[w] \in Executions /\ db' = [db EXCEPT ![cur[w]] = tx[w]]
        /\ pc' = [pc EXCEPT ![w] = "signal"] /\ pc[w] = "commit"
        /\ UNCHANGED <<api, inbox, cur, unsignalled>>
    BY <1>0, <1>28 DEF CommitJob, Commit
  <2> QED BY <1>0, <2>1
<1>29. ASSUME NEW w \in Workers, Signal(w) PROVE SettledWakesWaiter'
  <2>1. /\ cur[w] \in Executions /\ pc[w] = "signal" /\ pc' = [pc EXCEPT ![w] = "ack"]
        /\ UNCHANGED <<api, db, cur>>
    BY <1>0, <1>29 DEF Signal
  <2>2. CASE /\ inbox' = [inbox EXCEPT ![cur[w]] = inbox[cur[w]] \/ Subscribed(cur[w])]
             /\ UNCHANGED unsignalled
    <3>1. \A e \in Executions : e # cur[w] => inbox'[e] = inbox[e]
      BY <1>0, <2>2
    <3>2. api[cur[w]] = "waiting" => inbox'[cur[w]]
      BY <1>0, <2>1, <2>2 DEF Subscribed
    <3> QED BY <1>0, <2>1, <2>2, <3>1, <3>2
  <2>3. CASE UNCHANGED inbox /\ unsignalled' = unsignalled \union {cur[w]}
    BY <1>0, <2>1, <2>3
  <2> QED BY <1>29, <2>2, <2>3 DEF Signal
<1>30. ASSUME NEW w \in Workers, Acknowledge(w) PROVE SettledWakesWaiter'
  <2>1. /\ pc[w] = "ack" /\ UNCHANGED <<api, db, inbox, unsignalled>>
        /\ \A v \in Workers : v # w => cur'[v] = cur[v] /\ pc'[v] = pc[v]
    BY <1>0, <1>30 DEF Acknowledge, Release
  <2> QED BY <1>0, <2>1
<1>31. ASSUME NEW w \in Workers, Crash(w) PROVE SettledWakesWaiter'
  <2>1. /\ UNCHANGED <<api, db, inbox>>
        /\ \A v \in Workers : v # w => cur'[v] = cur[v] /\ pc'[v] = pc[v]
        /\ unsignalled' = IF pc[w] = "signal" THEN unsignalled \union {cur[w]}
                          ELSE unsignalled
    BY <1>0, <1>31 DEF Crash, Release
  <2> QED BY <1>0, <2>1
<1>32. ASSUME NEW w \in Workers, Shutdown(w) PROVE SettledWakesWaiter'
  <2>1. UNCHANGED <<api, db, inbox>>
    BY <1>32 DEF Shutdown
  <2>2. \A v \in Workers : v # w => cur'[v] = cur[v] /\ pc'[v] = pc[v]
    BY <1>0, <1>32 DEF Shutdown, Release
  <2>3. \/ pc[w] \in {"scan", "idle"} /\ UNCHANGED unsignalled
        \/ cur' = cur /\ pc'[w] = "signal" /\ UNCHANGED unsignalled
        \/ unsignalled' = unsignalled \union {cur[w]}
    BY <1>0, <1>32 DEF Shutdown
  <2> QED BY <1>0, <2>1, <2>2, <2>3
<1>33. CASE UNCHANGED vars
  BY <1>33 DEF vars
<1> QED
  BY <1>1, <1>2, <1>3, <1>4, <1>5, <1>6, <1>7, <1>8, <1>9, <1>10, <1>11, <1>12, <1>13, <1>14, <1>15, <1>16, <1>17, <1>18, <1>19, <1>20, <1>21, <1>22, <1>23, <1>24, <1>25, <1>26, <1>27, <1>28, <1>29, <1>30, <1>31, <1>32, <1>33
     DEF Next, Request, Arq, Work, Disturb

-----------------------------------------------------------------------------
(* The theorems of the specification. *)

\* Everything a job keeps hold of stays consistent, whatever stops it.
THEOREM InvariantHolds == Spec => []Inv
<1>1. Init => Inv
  BY TypeInit, DeliveryInit, RowInit, ReopenInit, WakeInit DEF Inv
<1>2. Inv /\ [Next]_vars => Inv'
  <2> SUFFICES ASSUME Inv, [Next]_vars PROVE Inv'
    OBVIOUS
  <2>1. TypeInv'
    BY TypeStep DEF Inv
  <2>2. DeliveryInv'
    BY <2>1, DeliveryStep DEF Inv
  <2>3. RowInv'
    BY <2>1, RowStep DEF Inv
  <2>4. ReopenInv'
    BY <2>1, ReopenStep DEF Inv
  <2>5. SettledWakesWaiter'
    BY WakeStep DEF Inv
  <2> QED BY <2>1, <2>2, <2>3, <2>4, <2>5 DEF Inv
<1> QED BY <1>1, <1>2, PTL DEF Spec

\* The types, with tries and the position in the workflow within their bounds.
THEOREM TypeCorrect == Spec => []TypeOK
<1>1. Inv => TypeOK
  BY DEF Inv, TypeInv
<1> QED BY <1>1, InvariantHolds, PTL

\* No two workers run one execution, whatever orphan scans and expiring keys do.
THEOREM DeliveredOnce == Spec => []OneDelivery
<1>1. Inv => OneDelivery
  BY DEF Inv, DeliveryInv
<1> QED BY <1>1, InvariantHolds, PTL

\* An execution has at most one committed fee for each time it was started and
\* settled, and none while its only run is unsettled.
THEOREM FeesBounded == Spec => []FeesOnlyWithSettlement
<1>1. Inv => FeesOnlyWithSettlement
  BY DEF Inv, RowInv
<1> QED BY <1>1, InvariantHolds, PTL

\* A settled execution is started again at most once for each stopped worker.
THEOREM ReopenedByStopsOnly == Spec => []ReopenedOnlyByRestart
<1>1. Inv => ReopenedOnlyByRestart
  BY DEF Inv, ReopenInv
<1> QED BY <1>1, InvariantHolds, PTL

\* A waiting request of a settled execution has been signalled, or will be, or
\* its message was lost with a stopped worker or a failed publish.
THEOREM NoLostWakeup == Spec => []SettledWakesWaiter
<1>1. Inv => SettledWakesWaiter
  BY DEF Inv
<1> QED BY <1>1, InvariantHolds, PTL

-----------------------------------------------------------------------------
(* Layers 6 and 7: what a run logs and what it is charged. *)

\* Layer 6. The steps of a row have no gap.
GapFree(row) ==
    \A n, m \in Nodes : m < n /\ row.step[n] # "none" => row.step[m] # "none"

\* The job that runs has logged every node before the one it is at, none of which
\* a run that resumes has logged as completed from there on; and what it has
\* logged is committed.
StepsInv ==
    /\ \A e \in Executions : GapFree(db[e])
    /\ \A w \in Workers : pc[w] \in Executing => GapFree(tx[w])
    /\ \A w \in Workers : pc[w] \in {"next", "body"} =>
          /\ \A n \in Nodes : n < node[w] => tx[w].step[n] # "none"
          /\ checkpointing => \A n \in Nodes : node[w] <= n => tx[w].step[n] # "COMPLETED"
          /\ cur[w] \notin gone => db[cur[w]].step = tx[w].step

\* Layer 7. What the row of a run from START to END reports.
AddsUp(row) ==
    /\ row.fees = 1
    /\ row.usage = LastNode + 1
    /\ row.credits = row.fees + row.usage
    /\ row.output = "end"

\* Until an execution settles for the first time no usage is charged to it, and a
\* job that has not resumed has used what its nodes cost.
AccountInv ==
    /\ \A e \in Executions :
          reopens[e] = 0 /\ db[e].status \notin Settled => db[e].usage = 0
    /\ \A w \in Workers :
          pc[w] \in Executing /\ cur[w] \notin gone /\ reopens[cur[w]] = 0 =>
              /\ db[cur[w]].status \notin Settled
              /\ pc[w] # "commit" => tx[w].usage = 0
              /\ cur[w] \notin resumed =>
                    /\ pc[w] \in {"next", "body"} => cost[w] = node[w]
                    /\ pc[w] = "finalize" => cost[w] = LastNode + 1
                    /\ pc[w] = "commit" /\ tx[w].status # "FAILED" => AddsUp(tx[w])
    /\ SettledRunAddsUp

\* Steps that leave the rows alone, those that run no node, and those after which
\* their worker runs none.
SameRows == UNCHANGED <<checkpointing, db, gone, reopens, resumed>>
Idles == SameRows /\ UNCHANGED <<pc, cur, node, cost, tx>>
OthersStay(w) ==
    \A v \in Workers \ {w} :
        pc'[v] = pc[v] /\ cur'[v] = cur[v] /\ node'[v] = node[v] /\ cost'[v] = cost[v]
        /\ tx'[v] = tx[v]
Leaves(w) == SameRows /\ OthersStay(w) /\ pc'[w] \notin Executing

\* A job at `from` is marked as failed, `row` being its row so far.
GivesUp(w, from, row) ==
    /\ pc[w] = from /\ pc' = [pc EXCEPT ![w] = "commit"]
    /\ tx' = [tx EXCEPT ![w] = FailedRow(row)]
    /\ SameRows /\ UNCHANGED <<cur, node, cost>>

\* All that can happen to the rows and to the jobs that work on them.
LEMMA WorkShape ==
    ASSUME TypeInv, [Next]_vars
    PROVE  \/ Idles
           \/ \E e \in Executions : CommitQueuedRow(e) \/ DeleteWorkflow(e)
           \/ \E w \in Workers :
                \/ Leaves(w) \/ Prepare(w) \/ StartNode(w) \/ NodeCheckpoint(w)
                \/ NodeCompletes(w) \/ Finalize(w) \/ CommitJob(w)
                \/ GivesUp(w, "body", LogStep(tx[w], node[w], "FAILED"))
                \/ GivesUp(w, "next", tx[w]) \/ GivesUp(w, "finalize", tx[w])
                \/ GivesUp(w, "finalize", Deducted(tx[w], cost[w]))
<1> DEFINE Shape == \/ Idles \/ \E w \in Workers : Leaves(w)
<1>0. pc \in [Workers -> {"down", "scan", "idle"} \union InJob]
  BY DEF TypeInv, TypeOK
<1> USE DEF SameRows, apiVars, arqVars, workerVars, ghostVars
<1>1. ASSUME NEW e \in Executions,
             \/ CreateQueued(e) \/ PushJob(e) \/ Subscribe(e) \/ FirstRead(e)
             \/ ReadAfterSignal(e) \/ WaitTimesOut(e) \/ DispatchFails(e)
             \/ ExpireInProgress(e) \/ ResultExpires(e)
      PROVE  Idles
  BY <1>1 DEF CreateQueued, PushJob, Subscribe, FirstRead, ReadAfterSignal, WaitTimesOut,
              DispatchFails, ExpireInProgress, ResultExpires, Idles
<1>2. ASSUME NEW w \in Workers,
             \/ StartWorker(w) \/ RequeueOrphan(w) \/ ScanDone(w)
             \/ (\E e \in Executions : TakeJob(w, e))
             \/ LoadFails(w) \/ DatabaseError(w) \/ JobTimesOut(w) \/ Signal(w)
      PROVE  Idles \/ Leaves(w)
  BY <1>0, <1>2 DEF StartWorker, RequeueOrphan, ScanDone, TakeJob, LoadFails, DatabaseError,
                    JobTimesOut, Signal, AbandonJob, Idles, Leaves, OthersStay, Executing,
                    TypeInv, TypeOK
<1>3. ASSUME NEW w \in Workers, Acknowledge(w) \/ Crash(w) \/ Shutdown(w)
      PROVE  Leaves(w)
  BY <1>0, <1>3 DEF Acknowledge, Crash, Shutdown, Release, Leaves, OthersStay, Executing,
                    TypeInv, TypeOK
<1>4. ASSUME NEW w \in Workers, NodeRaises(w)
      PROVE  GivesUp(w, "body", LogStep(tx[w], node[w], "FAILED"))
  BY <1>4 DEF NodeRaises, Fail, GivesUp
<1>5. ASSUME NEW w \in Workers, LoopRaises(w) PROVE GivesUp(w, "next", tx[w])
  BY <1>5 DEF LoopRaises, Fail, GivesUp
<1>6. ASSUME NEW w \in Workers, FinalizeShortOfCredits(w) PROVE GivesUp(w, "finalize", tx[w])
  BY <1>6 DEF FinalizeShortOfCredits, Fail, GivesUp
<1>7. ASSUME NEW w \in Workers, FinalizeRaisesAfterDeduction(w)
      PROVE  GivesUp(w, "finalize", Deducted(tx[w], cost[w]))
  BY <1>7 DEF FinalizeRaisesAfterDeduction, Fail, GivesUp
<1>8. CASE UNCHANGED vars
  BY <1>8 DEF vars, Idles
<1> QED BY <1>1, <1>2, <1>3, <1>4, <1>5, <1>6, <1>7, <1>8 DEF Next, Request, Arq, Work, Disturb

\* What the operators on rows do to the steps.
LEMMA LoggedStep ==
    ASSUME NEW row \in Row, NEW n \in Nodes, NEW s \in {"COMPLETED", "FAILED"}
    PROVE  /\ LogStep(row, n, s) \in Row
           /\ LogStep(row, n, s).step[n] # "none"
           /\ \A m \in Nodes : m # n => LogStep(row, n, s).step[m] = row.step[m]
           /\ LogStep(row, n, s).status = row.status /\ LogStep(row, n, s).usage = row.usage
           /\ (\A m \in Nodes : m < n => row.step[m] # "none") /\ GapFree(row)
                 => GapFree(LogStep(row, n, s))
<1>1. CASE row.step[n] = "none"
  <2>1. PICK steps \in [Nodes -> StepStatus] : steps = [row.step EXCEPT ![n] = s]
    <3>1. row.step \in [Nodes -> StepStatus] /\ s \in StepStatus
      BY DEF Row, StepStatus
    <3> QED BY <3>1
  <2>2. row.step \in [Nodes -> StepStatus]
    BY DEF Row
  <2>3. steps[n] = s /\ \A m \in Nodes : m # n => steps[m] = row.step[m]
    BY <2>1, <2>2
  <2>4. LogStep(row, n, s) = [row EXCEPT !.step = steps]
    BY <1>1, <2>1 DEF LogStep
  <2>5. /\ [row EXCEPT !.step = steps] \in Row /\ [row EXCEPT !.step = steps].step = steps
        /\ [row EXCEPT !.step = steps].status = row.status
        /\ [row EXCEPT !.step = steps].usage = row.usage
    BY DEF Row
  <2>6. (\A m \in Nodes : m < n => row.step[m] # "none") /\ GapFree(row)
           => GapFree(LogStep(row, n, s))
    <3> SUFFICES ASSUME \A m \in Nodes : m < n => row.step[m] # "none", GapFree(row),
                        NEW k \in Nodes, NEW m \in Nodes, m < k, steps[k] # "none"
                 PROVE  steps[m] # "none"
      BY <2>4, <2>5 DEF GapFree
    <3> QED BY <2>3 DEF GapFree
  <2> QED BY <2>3, <2>4, <2>5, <2>6
<1>2. CASE row.step[n] # "none"
  BY <1>2 DEF LogStep
<1> QED BY <1>1, <1>2

LEMMA SameSteps ==
    ASSUME NEW row \in Row
    PROVE  /\ \A s \in Status : /\ [row EXCEPT !.status = s].step = row.step
                                /\ [row EXCEPT !.status = s].usage = row.usage
           /\ \A used \in Nat : /\ Deducted(row, used).step = row.step
                                /\ Deducted(row, used).usage = row.usage + used
           /\ \A s \in Status, o \in Outputs, c \in Nat :
                 /\ Concluded(row, s, o, c).step = row.step
                 /\ Concluded(row, s, o, c).usage = row.usage
                 /\ Concluded(row, s, o, c).credits = c
                 /\ Concluded(row, s, o, c).output = o
           /\ FailedRow(row).step = row.step
<1>1. \A used \in Nat : row.fees + 1 \in Nat /\ row.usage + used \in Nat
  BY DEF Row
<1>2. \A used \in Nat : /\ Deducted(row, used).step = row.step
                        /\ Deducted(row, used).usage = row.usage + used
  BY <1>1 DEF Deducted, Row
<1>3. \A s \in Status, o \in Outputs, c \in Nat :
                 /\ Concluded(row, s, o, c).step = row.step
                 /\ Concluded(row, s, o, c).usage = row.usage
                 /\ Concluded(row, s, o, c).credits = c
                 /\ Concluded(row, s, o, c).output = o
  BY DEF Concluded, Row
<1>4. FailedRow(row).step = row.step
  BY <1>3 DEF FailedRow, Status, Settled, Outputs
<1>5. \A s \in Status : /\ [row EXCEPT !.status = s].step = row.step
                        /\ [row EXCEPT !.status = s].usage = row.usage
  BY DEF Row
<1> QED BY <1>2, <1>3, <1>4, <1>5

LEMMA SameGaps ==
    ASSUME NEW row, NEW old, row.step = old.step, GapFree(old)
    PROVE  GapFree(row)
BY DEF GapFree

\* A run starts where every node before it is logged, and with checkpointing none
\* from there on is completed.
LEMMA ResumesExactly ==
    ASSUME NEW row \in Row, GapFree(row)
    PROVE  /\ \A n \in Nodes : n < ResumePoint(row) => row.step[n] # "none"
           /\ checkpointing =>
                 \A n \in Nodes : ResumePoint(row) <= n => row.step[n] # "COMPLETED"
<1> DEFINE S == CompletedSteps(row)
<1>0. S \in SUBSET (0..LastNode) /\ LastNode \in Nat /\ Nodes = 0..LastNode
  BY QueueAssumption DEF CompletedSteps, Nodes
<1>1. checkpointing => \A n \in Nodes : ResumePoint(row) <= n => row.step[n] # "COMPLETED"
  <2>1. ResumePoint(row) \in 0..(LastNode + 1)
        /\ (checkpointing => \A n \in CompletedSteps(row) : n < ResumePoint(row))
    BY ResumePointInWorkflow
  <2> SUFFICES ASSUME checkpointing, NEW n \in Nodes, ResumePoint(row) <= n,
                      row.step[n] = "COMPLETED"
               PROVE  FALSE
    OBVIOUS
  <2>2. n \in CompletedSteps(row)
    BY DEF CompletedSteps
  <2>3. n < ResumePoint(row)
    BY <2>1, <2>2
  <2> QED BY <1>0, <2>1, <2>3
<1>2. CASE checkpointing /\ S # {}
  <2> DEFINE m == CHOOSE n \in S : \A k \in S : k <= n
  <2>1. m \in S
    <3> HIDE DEF S
    <3> QED BY <1>0, <1>2, GreatestElement
  <2>2. ResumePoint(row) = m + 1
    BY <1>2 DEF ResumePoint
  <2>3. m \in Nodes /\ row.step[m] = "COMPLETED"
    BY <2>1 DEF CompletedSteps
  <2> HIDE DEF m
  <2>4. \A n \in Nodes : n < ResumePoint(row) => row.step[n] # "none"
    BY <1>0, <2>2, <2>3 DEF GapFree
  <2> QED BY <1>1, <2>4
<1>3. CASE ~(checkpointing /\ S # {})
  <2>1. ResumePoint(row) = 0
    BY <1>3 DEF ResumePoint
  <2> QED BY <1>0, <1>1, <2>1
<1> QED BY <1>2, <1>3

\* What the steps of a working job keep true of its row.
LoggedUpTo(w) ==
    /\ pc[w] \in Executing => GapFree(tx[w])
    /\ pc[w] \in {"next", "body"} =>
          /\ \A n \in Nodes : n < node[w] => tx[w].step[n] # "none"
          /\ checkpointing => \A n \in Nodes : node[w] <= n => tx[w].step[n] # "COMPLETED"
          /\ cur[w] \notin gone => db[cur[w]].step = tx[w].step

LEMMA StepsInit == Init => StepsInv
BY DEF Init, StepsInv, GapFree, NoRow, Executing

\* A step of one worker leaves the other jobs as they were, whose rows are others.
LEMMA OthersLog ==
    ASSUME Inv, StepsInv, NEW w \in Workers, OthersStay(w), UNCHANGED <<checkpointing, gone>>,
           \/ db' = db
           \/ \E row : /\ cur[w] \in Executions /\ GapFree(row)
                       /\ db' = [db EXCEPT ![cur[w]] = row],
           LoggedUpTo(w)'
    PROVE  StepsInv'
<1>1. \A v \in Workers \ {w} : pc[v] \in {"next", "body"} =>
        cur[v] \in Executions /\ (cur[w] \in Executions => cur[v] # cur[w])
  BY QueueAssumption DEF Inv, TypeInv, HoldsInJob, InJob, Delivering, Executing, DeliveryInv, OneDelivery
<1>2. \A v \in Workers \ {w} : pc[v] \in {"next", "body"} => db'[cur[v]] = db[cur[v]]
  BY <1>1 DEF Inv, TypeInv, TypeOK
<1>3. \A v \in Workers \ {w} : LoggedUpTo(v)'
  BY <1>1, <1>2 DEF OthersStay, StepsInv, LoggedUpTo
<1>4. \A e \in Executions : GapFree(db'[e])
  BY DEF StepsInv, Inv, TypeInv, TypeOK
<1> QED BY <1>3, <1>4 DEF StepsInv, LoggedUpTo

\* The steps logged, one step for each that changes a row.
LEMMA StepsStep ==
    ASSUME Inv, StepsInv, [Next]_vars PROVE StepsInv'
<1>0. /\ db \in [Executions -> Row] /\ tx \in [Workers -> Row] /\ checkpointing \in BOOLEAN
      /\ pc \in [Workers -> {"down", "scan", "idle"} \union InJob]
      /\ node \in [Workers -> 0..(LastNode + 1)] /\ cost \in [Workers -> 0..(LastNode + 1)]
      /\ \A w \in Workers : pc[w] \in Delivering => cur[w] \in Executions
      /\ \A w \in Workers : pc[w] \in {"next", "body"} => node[w] \in Nodes
  BY DEF Inv, TypeInv, TypeOK, HoldsInJob, CountersBounded, InJob, Delivering, Nodes
<1>a. \A w \in Workers : OthersStay(w) /\ LoggedUpTo(w)' /\ UNCHANGED <<checkpointing, gone>>
         /\ (\/ db' = db
             \/ \E row : /\ cur[w] \in Executions /\ GapFree(row)
                         /\ db' = [db EXCEPT ![cur[w]] = row])
         => StepsInv'
  BY OthersLog
<1>b. \A w \in Workers : LoggedUpTo(w)
  BY DEF StepsInv, LoggedUpTo
<1>1. CASE Idles
  BY <1>1 DEF Idles, SameRows, StepsInv
<1>2. ASSUME NEW w \in Workers, Leaves(w) PROVE StepsInv'
  BY <1>a, <1>2 DEF Leaves, SameRows, LoggedUpTo, Executing
<1>3. ASSUME NEW e \in Executions, NEW row \in {NoRow, QueuedRow}, db' = [db EXCEPT ![e] = row],
             \A w \in Workers : pc[w] \in {"next", "body"} /\ cur[w] \notin gone' => cur[w] # e,
             UNCHANGED <<checkpointing, pc, cur, node, tx>>, gone \subseteq gone'
      PROVE  StepsInv'
  <2>1. GapFree(row)
    <3>1. NoRow.step = [n \in Nodes |-> "none"] /\ QueuedRow.step = [n \in Nodes |-> "none"]
      BY DEF NoRow, QueuedRow
    <3>2. row.step = [n \in Nodes |-> "none"]
      BY <3>1
    <3> QED BY <3>2 DEF GapFree
  <2>2. \A f \in Executions : GapFree(db'[f])
    BY <1>0, <1>3, <2>1 DEF StepsInv
  <2>3. \A w \in Workers : pc[w] \in {"next", "body"} /\ cur[w] \notin gone' => db'[cur[w]] = db[cur[w]]
    BY <1>0, <1>3 DEF Delivering, Executing
  <2> QED BY <1>3, <2>2, <2>3 DEF StepsInv
<1>4. ASSUME NEW e \in Executions, CommitQueuedRow(e) PROVE StepsInv'
  <2>1. \A w \in Workers : pc[w] \in {"next", "body"} /\ cur[w] \notin gone => cur[w] # e
    BY <1>4 DEF CommitQueuedRow, Inv, RowInv, NothingCommitted, WorkingCopy, Executing, NoRow
  <2>2. /\ db' = [db EXCEPT ![e] = QueuedRow] /\ gone' = gone
        /\ UNCHANGED <<checkpointing, pc, cur, node, tx>>
    BY <1>4 DEF CommitQueuedRow, workerVars
  <2> QED BY <1>3, <2>1, <2>2
<1>5. ASSUME NEW e \in Executions, DeleteWorkflow(e) PROVE StepsInv'
  <2>1. /\ db' = [db EXCEPT ![e] = NoRow] /\ gone' = gone \union {e}
        /\ UNCHANGED <<checkpointing, pc, cur, node, tx>>
    BY <1>5 DEF DeleteWorkflow, workerVars
  <2> QED BY <1>3, <2>1
<1>6. ASSUME NEW w \in Workers, Prepare(w) PROVE StepsInv'
  <2>1. PICK row \in Row : row = [db[cur[w]] EXCEPT !.status = "RUNNING"] /\ row.step = db[cur[w]].step
    <3>1. "RUNNING" \in Status /\ db[cur[w]] \in Row
      BY <1>0, <1>6 DEF Prepare, Delivering, Status, InFlight
    <3>2. [db[cur[w]] EXCEPT !.status = "RUNNING"] \in Row
      BY <3>1, StatusType
    <3>3. [db[cur[w]] EXCEPT !.status = "RUNNING"].step = db[cur[w]].step
      BY <3>1, SameSteps
    <3> QED BY <3>2, <3>3
  <2>2. PICK n \in 0..(LastNode + 1) : n = ResumePoint(db[cur[w]])
    BY <1>0, <1>6, ResumePointInWorkflow DEF Prepare, Delivering
  <2>3. /\ \A m \in Nodes : m < n => db[cur[w]].step[m] # "none"
        /\ checkpointing => \A m \in Nodes : n <= m => db[cur[w]].step[m] # "COMPLETED"
        /\ GapFree(db[cur[w]])
    BY <1>0, <1>6, <2>2, ResumesExactly DEF Prepare, Delivering, StepsInv
  <2>4. /\ tx' = [tx EXCEPT ![w] = row] /\ node' = [node EXCEPT ![w] = n]
        /\ pc' \in {[pc EXCEPT ![w] = "next"], [pc EXCEPT ![w] = "finalize"]}
        /\ UNCHANGED <<checkpointing, db, gone, cur, cost>>
    BY <1>6, <2>1, <2>2 DEF Prepare
  <2>5. OthersStay(w)
    BY <1>0, <2>4 DEF OthersStay
  <2>6. GapFree(row)
    BY <2>1, <2>3, SameGaps
  <2>7. LoggedUpTo(w)'
    BY <1>0, <2>1, <2>3, <2>4, <2>6 DEF LoggedUpTo
  <2> QED BY <1>a, <2>4, <2>5, <2>7
<1>7. ASSUME NEW w \in Workers, StartNode(w) PROVE StepsInv'
  <2>1. /\ pc[w] = "next" /\ pc' = [pc EXCEPT ![w] = "body"]
        /\ UNCHANGED <<checkpointing, db, gone, cur, node, cost, tx>>
    BY <1>7 DEF StartNode
  <2>2. OthersStay(w) /\ LoggedUpTo(w)'
    BY <1>0, <1>b, <2>1 DEF OthersStay, LoggedUpTo, Executing
  <2> QED BY <1>a, <2>1, <2>2
<1>8. ASSUME NEW w \in Workers, NodeCheckpoint(w) PROVE StepsInv'
  <2>1. /\ pc[w] = "body" /\ cur[w] \in Executions /\ db' = [db EXCEPT ![cur[w]] = tx[w]]
        /\ UNCHANGED <<checkpointing, gone, pc, cur, node, cost, tx>>
    BY <1>0, <1>8 DEF NodeCheckpoint, Commit, workerVars, Delivering, Executing
  <2>2. GapFree(tx[w]) /\ db'[cur[w]] = tx[w]
    BY <1>0, <1>b, <2>1 DEF LoggedUpTo, Executing
  <2>3. OthersStay(w) /\ LoggedUpTo(w)'
    BY <1>b, <2>1, <2>2 DEF OthersStay, LoggedUpTo
  <2> QED BY <1>a, <2>1, <2>2, <2>3
<1>9. ASSUME NEW w \in Workers, NodeCompletes(w) PROVE StepsInv'
  <2>1. PICK row \in Row : /\ row = LogStep(tx[w], node[w], "COMPLETED")
                           /\ row.step[node[w]] # "none"
                           /\ \A m \in Nodes : m # node[w] => row.step[m] = tx[w].step[m]
                           /\ GapFree(row)
    <3>1. pc[w] = "body" /\ node[w] \in Nodes /\ tx[w] \in Row
      BY <1>0, <1>9 DEF NodeCompletes
    <3>2. (\A m \in Nodes : m < node[w] => tx[w].step[m] # "none") /\ GapFree(tx[w])
      BY <1>b, <3>1 DEF LoggedUpTo, Executing
    <3> QED BY <3>1, <3>2, LoggedStep
  <2>2. /\ pc[w] = "body" /\ cur[w] \in Executions /\ db' = [db EXCEPT ![cur[w]] = row]
        /\ tx' = [tx EXCEPT ![w] = row] /\ node' = [node EXCEPT ![w] = node[w] + 1]
        /\ pc' \in {[pc EXCEPT ![w] = "next"], [pc EXCEPT ![w] = "finalize"]}
        /\ \A v \in Workers \ {w} : cost'[v] = cost[v]
        /\ UNCHANGED <<checkpointing, gone, cur>>
    BY <1>0, <1>9, <2>1 DEF NodeCompletes, Delivering, Executing
  <2>3. node[w] \in Nodes /\ Nodes = 0..LastNode /\ LastNode \in Nat
    BY <1>0, <2>2, QueueAssumption DEF Nodes
  <2>4. /\ \A m \in Nodes : m < node[w] + 1 => row.step[m] # "none"
        /\ checkpointing => \A m \in Nodes : node[w] + 1 <= m => row.step[m] # "COMPLETED"
    BY <1>b, <2>1, <2>2, <2>3 DEF LoggedUpTo
  <2>5. OthersStay(w)
    BY <1>0, <2>2 DEF OthersStay
  <2>6. LoggedUpTo(w)'
    BY <1>0, <2>1, <2>2, <2>4 DEF LoggedUpTo
  <2> QED BY <1>a, <2>1, <2>2, <2>5, <2>6
<1>10. ASSUME NEW w \in Workers, NEW from \in {"next", "body", "finalize"}, NEW row \in Row,
              GapFree(row), GivesUp(w, from, row)
       PROVE  StepsInv'
  <2>1. /\ pc' = [pc EXCEPT ![w] = "commit"] /\ tx' = [tx EXCEPT ![w] = FailedRow(row)]
        /\ UNCHANGED <<checkpointing, db, gone, cur, node, cost>>
    BY <1>10 DEF GivesUp, SameRows
  <2>2. GapFree(FailedRow(row))
    BY <1>10, SameSteps, SameGaps
  <2>3. OthersStay(w) /\ LoggedUpTo(w)'
    BY <1>0, <2>1, <2>2 DEF OthersStay, LoggedUpTo
  <2> QED BY <1>a, <2>1, <2>3
<1>11. ASSUME NEW w \in Workers, GivesUp(w, "body", LogStep(tx[w], node[w], "FAILED"))
       PROVE  StepsInv'
  <2>1. /\ node[w] \in Nodes /\ GapFree(tx[w])
        /\ \A m \in Nodes : m < node[w] => tx[w].step[m] # "none"
    BY <1>0, <1>b, <1>11 DEF GivesUp, LoggedUpTo, Executing
  <2>2. LogStep(tx[w], node[w], "FAILED") \in Row /\ GapFree(LogStep(tx[w], node[w], "FAILED"))
    BY <1>0, <2>1, LoggedStep
  <2> QED BY <1>10, <1>11, <2>2
<1>12. ASSUME NEW w \in Workers, GivesUp(w, "next", tx[w]) \/ GivesUp(w, "finalize", tx[w])
       PROVE  StepsInv'
  <2>1. tx[w] \in Row /\ GapFree(tx[w])
    BY <1>0, <1>b, <1>12 DEF GivesUp, LoggedUpTo, Executing
  <2> QED BY <1>10, <1>12, <2>1
<1>13. ASSUME NEW w \in Workers, GivesUp(w, "finalize", Deducted(tx[w], cost[w])) PROVE StepsInv'
  <2>1. tx[w] \in Row /\ GapFree(tx[w]) /\ cost[w] \in Nat
    BY <1>0, <1>b, <1>13 DEF GivesUp, LoggedUpTo, Executing
  <2>2. Deducted(tx[w], cost[w]) \in Row /\ GapFree(Deducted(tx[w], cost[w]))
    BY <2>1, DeductedType, SameSteps, SameGaps
  <2> QED BY <1>10, <1>13, <2>2
<1>14. ASSUME NEW w \in Workers, Finalize(w) PROVE StepsInv'
  <2>1. PICK status \in {"COMPLETED", "ERROR"} :
           tx' = [tx EXCEPT ![w] = Concluded(Deducted(tx[w], cost[w]), status, FinalOutput(w),
                                             1 + cost[w])]
    BY <1>14 DEF Finalize
  <2>2. PICK row \in Row : row = Deducted(tx[w], cost[w]) /\ row.step = tx[w].step
    <3>1. tx[w] \in Row /\ cost[w] \in Nat
      BY <1>0
    <3> QED BY <3>1, DeductedType, SameSteps
  <2>3. Concluded(row, status, FinalOutput(w), 1 + cost[w]).step = row.step
    <3>1. status \in Status /\ FinalOutput(w) \in Outputs /\ 1 + cost[w] \in Nat
      BY <1>0 DEF Status, Settled, FinalOutput, Outputs
    <3> QED BY <3>1, SameSteps
  <2>4. /\ pc[w] = "finalize" /\ pc' = [pc EXCEPT ![w] = "commit"]
        /\ UNCHANGED <<checkpointing, db, gone, cur, node, cost>>
    BY <1>14 DEF Finalize
  <2>5. GapFree(tx'[w])
    <3>1. GapFree(tx[w]) /\ tx'[w].step = tx[w].step
      BY <1>0, <1>b, <2>1, <2>2, <2>3, <2>4 DEF LoggedUpTo, Executing
    <3> QED BY <3>1, SameGaps
  <2>6. OthersStay(w) /\ LoggedUpTo(w)'
    BY <1>0, <2>1, <2>4, <2>5 DEF OthersStay, LoggedUpTo
  <2> QED BY <1>a, <2>4, <2>6
<1>15. ASSUME NEW w \in Workers, CommitJob(w) PROVE StepsInv'
  <2>1. /\ pc[w] = "commit" /\ cur[w] \in Executions /\ db' = [db EXCEPT ![cur[w]] = tx[w]]
        /\ pc' = [pc EXCEPT ![w] = "signal"]
        /\ OthersStay(w) /\ UNCHANGED <<checkpointing, gone>>
    BY <1>0, <1>15 DEF CommitJob, Commit, Delivering, Executing, OthersStay
  <2>2. GapFree(tx[w]) /\ LoggedUpTo(w)'
    BY <1>0, <1>b, <2>1 DEF LoggedUpTo, Executing
  <2> QED BY <1>a, <2>1, <2>2
<1>16. TypeInv
  BY DEF Inv
<1> QED BY <1>1, <1>2, <1>4, <1>5, <1>6, <1>7, <1>8, <1>9, <1>11, <1>12, <1>13, <1>14, <1>15,
           <1>16, WorkShape

\* With checkpointing or without, a job runs a node only after every node before it
\* was logged, and never again one whose completion was committed, whatever stopped
\* the jobs before it.  (find_resume_point, log_step)
THEOREM ResumesWhereItStopped == Spec => []ResumeIsExact
<1>1. Inv /\ StepsInv => ResumeIsExact
  <2> SUFFICES ASSUME Inv, StepsInv, NEW w \in Workers, pc[w] = "body", cur[w] \notin gone
               PROVE  /\ \A n \in Nodes : n < node[w] => db[cur[w]].step[n] # "none"
                      /\ checkpointing => node[w] \notin CompletedSteps(db[cur[w]])
    BY DEF ResumeIsExact
  <2>1. node[w] \in Nodes /\ node[w] <= node[w]
    BY QueueAssumption DEF Inv, TypeInv, TypeOK, CountersBounded, Nodes
  <2> QED BY <2>1 DEF StepsInv, CompletedSteps
<1>2. Inv /\ StepsInv /\ [Next]_vars => StepsInv'
  BY StepsStep
<1> QED BY <1>1, <1>2, StepsInit, InvariantHolds, PTL DEF Spec


\* What a working job has been charged so far.
ChargedUpTo(w) ==
    pc[w] \in Executing /\ cur[w] \notin gone /\ reopens[cur[w]] = 0 =>
        /\ db[cur[w]].status \notin Settled
        /\ pc[w] # "commit" => tx[w].usage = 0
        /\ cur[w] \notin resumed =>
              /\ pc[w] \in {"next", "body"} => cost[w] = node[w]
              /\ pc[w] = "finalize" => cost[w] = LastNode + 1
              /\ pc[w] = "commit" /\ tx[w].status # "FAILED" => AddsUp(tx[w])

\* What is committed for an execution.
CommittedAddsUp(e) ==
    /\ reopens[e] = 0 /\ db[e].status \notin Settled => db[e].usage = 0
    /\ db[e].status \in {"COMPLETED", "ERROR"} /\ reopens[e] = 0 /\ e \notin resumed
          => AddsUp(db[e])

LEMMA AccountParts ==
    AccountInv <=> (\A e \in Executions : CommittedAddsUp(e)) /\ (\A w \in Workers : ChargedUpTo(w))
BY DEF AccountInv, CommittedAddsUp, ChargedUpTo, SettledRunAddsUp, AddsUp

LEMMA AccountInit == Init => AccountInv
BY DEF Init, AccountInv, SettledRunAddsUp, NoRow, Executing, Settled

\* A step of one worker leaves the accounts of the other executions as they were.
LEMMA OthersCharge ==
    ASSUME Inv, AccountInv, NEW w \in Workers, OthersStay(w), gone' = gone,
           \/ db' = db /\ reopens' = reopens /\ resumed' = resumed
           \/ /\ cur[w] \in Executions
              /\ \A e \in Executions \ {cur[w]} :
                    db'[e] = db[e] /\ reopens'[e] = reopens[e] /\ (e \in resumed' <=> e \in resumed)
              /\ CommittedAddsUp(cur[w])'
              /\ cur' = cur,
           ChargedUpTo(w)'
    PROVE  AccountInv'
<1>0. /\ \A e \in Executions : CommittedAddsUp(e)
      /\ \A v \in Workers : ChargedUpTo(v)
  BY AccountParts
<1>1. \A v \in Workers \ {w} : pc[v] \in Executing =>
        cur[v] \in Executions /\ (cur[w] \in Executions => cur[v] # cur[w])
  BY QueueAssumption DEF Inv, TypeInv, HoldsInJob, InJob, Delivering, Executing, DeliveryInv, OneDelivery
<1>2. \A v \in Workers \ {w} : pc[v] \in Executing =>
        /\ db'[cur[v]] = db[cur[v]] /\ reopens'[cur[v]] = reopens[cur[v]]
        /\ cur[v] \in resumed' <=> cur[v] \in resumed
  BY <1>1
<1>3. \A v \in Workers \ {w} : ChargedUpTo(v)'
  BY <1>0, <1>2 DEF OthersStay, ChargedUpTo
<1>4. \A e \in Executions : CommittedAddsUp(e)'
  BY <1>0 DEF CommittedAddsUp
<1>5. \A v \in Workers : ChargedUpTo(v)'
  BY <1>3
<1> QED BY <1>4, <1>5 DEF AccountInv, CommittedAddsUp, ChargedUpTo, SettledRunAddsUp, AddsUp

\* The accounts, one step for each that changes a row.
LEMMA AccountStep ==
    ASSUME Inv, Inv', AccountInv, [Next]_vars PROVE AccountInv'
<1>0. /\ db \in [Executions -> Row] /\ tx \in [Workers -> Row] /\ reopens \in [Executions -> Nat]
      /\ pc \in [Workers -> {"down", "scan", "idle"} \union InJob]
      /\ node \in [Workers -> 0..(LastNode + 1)] /\ cost \in [Workers -> 0..(LastNode + 1)]
      /\ LastNode \in Nat /\ resumed \subseteq Executions
      /\ \A w \in Workers : pc[w] \in Delivering => cur[w] \in Executions
      /\ \A w \in Workers : pc[w] = "load" => cost[w] = 0
  BY QueueAssumption DEF Inv, TypeInv, TypeOK, HoldsInJob, CountersBounded, InJob, Delivering
<1>a. \A w \in Workers :
        /\ OthersStay(w) /\ ChargedUpTo(w)' /\ gone' = gone
        /\ \/ db' = db /\ reopens' = reopens /\ resumed' = resumed
           \/ /\ cur[w] \in Executions
              /\ \A e \in Executions \ {cur[w]} :
                    db'[e] = db[e] /\ reopens'[e] = reopens[e] /\ (e \in resumed' <=> e \in resumed)
              /\ CommittedAddsUp(cur[w])'
              /\ cur' = cur
        => AccountInv'
  BY OthersCharge
<1>b. /\ \A w \in Workers : ChargedUpTo(w)
      /\ \A e \in Executions : CommittedAddsUp(e)
  BY AccountParts
<1>c. \A w \in Workers : pc[w] \in Executing /\ cur[w] \notin gone /\ reopens[cur[w]] = 0 =>
        (pc[w] # "commit" => tx[w].fees = 0 /\ tx[w].status = "RUNNING")
  <2> SUFFICES ASSUME NEW w \in Workers, pc[w] \in Executing, cur[w] \notin gone, reopens[cur[w]] = 0
               PROVE  pc[w] # "commit" => tx[w].fees = 0 /\ tx[w].status = "RUNNING"
    OBVIOUS
  <2>1. cur[w] \in Executions /\ db[cur[w]].fees \in Nat
    BY <1>0 DEF Delivering, Row
  <2>2. db[cur[w]].fees <= 0
    BY DEF Inv, RowInv, ReopeningCounted
  <2>3. db[cur[w]].fees = 0
    BY <2>1, <2>2
  <2> QED BY <2>3 DEF Inv, RowInv, WorkingCopy
<1>1. CASE Idles
  BY <1>1 DEF Idles, SameRows, AccountInv, SettledRunAddsUp
<1>2. ASSUME NEW w \in Workers, Leaves(w) PROVE AccountInv'
  BY <1>a, <1>2 DEF Leaves, SameRows, ChargedUpTo
<1>3. ASSUME NEW e \in Executions, NEW row \in {NoRow, QueuedRow}, db' = [db EXCEPT ![e] = row],
             \A w \in Workers : pc[w] \in Executing /\ cur[w] \notin gone' => cur[w] # e,
             UNCHANGED <<pc, cur, node, cost, tx, reopens, resumed>>, gone \subseteq gone'
      PROVE  AccountInv'
  <2>1. row.status \in {"none", "QUEUED"} /\ row.usage = 0
    <3>1. NoRow.status = "none" /\ NoRow.usage = 0
      BY DEF NoRow
    <3>2. QueuedRow.status = "QUEUED" /\ QueuedRow.usage = 0
      BY DEF QueuedRow, NoRow
    <3> QED BY <3>1, <3>2
  <2>2. \A f \in Executions : CommittedAddsUp(f)'
    BY <1>0, <1>b, <1>3, <2>1 DEF CommittedAddsUp, Settled
  <2>3. \A w \in Workers : pc[w] \in Executing /\ cur[w] \notin gone' => db'[cur[w]] = db[cur[w]]
    BY <1>0, <1>3 DEF Delivering
  <2>4. \A w \in Workers : ChargedUpTo(w)'
    BY <1>b, <1>3, <2>3 DEF ChargedUpTo
  <2> QED BY <2>2, <2>4 DEF AccountInv, CommittedAddsUp, ChargedUpTo, SettledRunAddsUp, AddsUp
<1>4. ASSUME NEW e \in Executions, CommitQueuedRow(e) PROVE AccountInv'
  <2>1. \A w \in Workers : pc[w] \in Executing /\ cur[w] \notin gone => cur[w] # e
    BY <1>4 DEF CommitQueuedRow, Inv, RowInv, NothingCommitted, WorkingCopy, NoRow
  <2>2. /\ db' = [db EXCEPT ![e] = QueuedRow] /\ gone' = gone
        /\ UNCHANGED <<pc, cur, node, cost, tx, reopens, resumed>>
    BY <1>4 DEF CommitQueuedRow, workerVars, ghostVars
  <2> QED BY <1>3, <2>1, <2>2
<1>5. ASSUME NEW e \in Executions, DeleteWorkflow(e) PROVE AccountInv'
  <2>1. /\ db' = [db EXCEPT ![e] = NoRow] /\ gone' = gone \union {e}
        /\ UNCHANGED <<pc, cur, node, cost, tx, reopens, resumed>>
    BY <1>5 DEF DeleteWorkflow, workerVars, ghostVars
  <2> QED BY <1>3, <2>1
<1>6. ASSUME NEW w \in Workers, Prepare(w) PROVE AccountInv'
  <2>1. PICK row \in Row : row = [db[cur[w]] EXCEPT !.status = "RUNNING"] /\ row.usage = db[cur[w]].usage
    <3>1. "RUNNING" \in Status /\ db[cur[w]] \in Row
      BY <1>0, <1>6 DEF Prepare, Delivering, Status, InFlight
    <3>2. [db[cur[w]] EXCEPT !.status = "RUNNING"] \in Row
      BY <3>1, StatusType
    <3>3. [db[cur[w]] EXCEPT !.status = "RUNNING"].usage = db[cur[w]].usage
      BY <3>1, SameSteps
    <3> QED BY <3>2, <3>3
  <2>2. PICK n \in 0..(LastNode + 1) : n = ResumePoint(db[cur[w]])
    BY <1>0, <1>6, ResumePointInWorkflow DEF Prepare, Delivering
  <2>3. /\ pc[w] = "load" /\ cur[w] \in Executions /\ cost[w] = 0
        /\ tx' = [tx EXCEPT ![w] = row] /\ node' = [node EXCEPT ![w] = n]
        /\ pc' = [pc EXCEPT ![w] = IF n > LastNode THEN "finalize" ELSE "next"]
        /\ reopens' = (IF db[cur[w]].status \in Settled
                       THEN [reopens EXCEPT ![cur[w]] = @ + 1] ELSE reopens)
        /\ resumed' = (IF n > 0 THEN resumed \union {cur[w]} ELSE resumed)
        /\ UNCHANGED <<db, gone, cur, cost>>
    BY <1>0, <1>6, <2>1, <2>2 DEF Prepare, Delivering
  <2>4. OthersStay(w)
    BY <1>0, <2>3 DEF OthersStay
  <2>5. \A e \in Executions \ {cur[w]} :
           db'[e] = db[e] /\ reopens'[e] = reopens[e] /\ (e \in resumed' <=> e \in resumed)
    BY <1>0, <2>3
  <2>6. reopens'[cur[w]] = 0 => reopens[cur[w]] = 0 /\ db[cur[w]].status \notin Settled
    BY <1>0, <2>3
  <2>7. CommittedAddsUp(cur[w])'
    BY <1>b, <2>3, <2>6 DEF CommittedAddsUp, Settled
  <2>8. reopens'[cur[w]] = 0 => row.usage = 0
    BY <1>b, <2>1, <2>3, <2>6 DEF CommittedAddsUp
  <2>9. cur[w] \notin resumed' => n = 0 /\ pc' = [pc EXCEPT ![w] = "next"]
    <3> SUFFICES ASSUME cur[w] \notin resumed'
                 PROVE  n = 0 /\ pc' = [pc EXCEPT ![w] = "next"]
      OBVIOUS
    <3>1. ~(n > 0)
      BY <2>3
    <3>2. n = 0 /\ ~(n > LastNode)
      BY <1>0, <3>1
    <3> QED BY <2>3, <3>2
  <2>10. ChargedUpTo(w)'
    BY <1>0, <2>3, <2>6, <2>8, <2>9 DEF ChargedUpTo
  <2> QED BY <1>a, <2>3, <2>4, <2>5, <2>7, <2>10
<1>7. ASSUME NEW w \in Workers, StartNode(w) PROVE AccountInv'
  <2>1. /\ pc[w] = "next" /\ pc' = [pc EXCEPT ![w] = "body"]
        /\ UNCHANGED <<db, gone, cur, node, cost, tx, reopens, resumed>>
    BY <1>7 DEF StartNode, ghostVars
  <2>2. OthersStay(w) /\ ChargedUpTo(w)'
    BY <1>0, <1>b, <2>1 DEF OthersStay, ChargedUpTo, Executing
  <2> QED BY <1>a, <2>1, <2>2
<1>8. ASSUME NEW w \in Workers, NEW row \in Row, pc[w] = "body",
             cur[w] \notin gone, db' = [db EXCEPT ![cur[w]] = row],
             row.status = tx[w].status, row.usage = tx[w].usage,
             UNCHANGED <<gone, cur, reopens, resumed>>
      PROVE  /\ cur[w] \in Executions
             /\ \A e \in Executions \ {cur[w]} :
                   db'[e] = db[e] /\ reopens'[e] = reopens[e] /\ (e \in resumed' <=> e \in resumed)
             /\ CommittedAddsUp(cur[w])'
             /\ reopens[cur[w]] = 0 => db'[cur[w]].status \notin Settled
  <2>1. cur[w] \in Executions /\ pc[w] \in Executing /\ pc[w] # "commit"
    BY <1>0, <1>8 DEF Delivering, Executing
  <2>2. db'[cur[w]] = row /\ \A e \in Executions \ {cur[w]} : db'[e] = db[e]
    BY <1>0, <1>8, <2>1
  <2>3. reopens[cur[w]] = 0 => row.status = "RUNNING" /\ row.usage = 0
    BY <1>8, <1>b, <1>c, <2>1 DEF ChargedUpTo
  <2>4. CommittedAddsUp(cur[w])'
    BY <1>8, <2>2, <2>3 DEF CommittedAddsUp
  <2> QED BY <1>8, <2>1, <2>2, <2>3, <2>4 DEF Settled
<1>9. ASSUME NEW w \in Workers, NodeCheckpoint(w) PROVE AccountInv'
  <2>1. /\ pc[w] = "body" /\ cur[w] \notin gone /\ db' = [db EXCEPT ![cur[w]] = tx[w]]
        /\ UNCHANGED <<gone, pc, cur, node, cost, tx, reopens, resumed>>
    BY <1>9 DEF NodeCheckpoint, Commit, workerVars, ghostVars
  <2>2. /\ cur[w] \in Executions
        /\ \A e \in Executions \ {cur[w]} :
              db'[e] = db[e] /\ reopens'[e] = reopens[e] /\ (e \in resumed' <=> e \in resumed)
        /\ CommittedAddsUp(cur[w])'
        /\ reopens[cur[w]] = 0 => db'[cur[w]].status \notin Settled
    BY <1>0, <1>8, <2>1
  <2>3. OthersStay(w) /\ ChargedUpTo(w)'
    BY <1>b, <2>1, <2>2 DEF OthersStay, ChargedUpTo
  <2> QED BY <1>a, <2>1, <2>2, <2>3
<1>10. ASSUME NEW w \in Workers, NodeCompletes(w) PROVE AccountInv'
  <2>1. PICK row \in Row : /\ row = LogStep(tx[w], node[w], "COMPLETED")
                           /\ row.status = tx[w].status /\ row.usage = tx[w].usage
    <3>1. node[w] \in Nodes /\ tx[w] \in Row
      BY <1>0, <1>10 DEF NodeCompletes, Inv, TypeInv, CountersBounded, Nodes
    <3> QED BY <3>1, LoggedStep
  <2>2. /\ pc[w] = "body" /\ cur[w] \notin gone /\ db' = [db EXCEPT ![cur[w]] = row]
        /\ tx' = [tx EXCEPT ![w] = row] /\ node' = [node EXCEPT ![w] = node[w] + 1]
        /\ cost' = [cost EXCEPT ![w] = cost[w] + 1]
        /\ pc' = [pc EXCEPT ![w] = IF node[w] = LastNode THEN "finalize" ELSE "next"]
        /\ UNCHANGED <<gone, cur, reopens, resumed>>
    BY <1>10, <2>1 DEF NodeCompletes, ghostVars
  <2>3. /\ cur[w] \in Executions
        /\ \A e \in Executions \ {cur[w]} :
              db'[e] = db[e] /\ reopens'[e] = reopens[e] /\ (e \in resumed' <=> e \in resumed)
        /\ CommittedAddsUp(cur[w])'
        /\ reopens[cur[w]] = 0 => db'[cur[w]].status \notin Settled
    BY <1>8, <2>1, <2>2
  <2>4. reopens[cur[w]] = 0 => row.usage = 0
    BY <1>b, <2>1, <2>2 DEF ChargedUpTo, Executing
  <2>5. reopens[cur[w]] = 0 /\ cur[w] \notin resumed => cost[w] = node[w]
    BY <1>b, <2>2 DEF ChargedUpTo, Executing
  <2>6. OthersStay(w)
    BY <1>0, <2>2 DEF OthersStay
  <2>7. /\ tx'[w] = row /\ node'[w] = node[w] + 1 /\ cost'[w] = cost[w] + 1
        /\ pc'[w] = (IF node[w] = LastNode THEN "finalize" ELSE "next")
    BY <1>0, <2>2
  <2>8. ChargedUpTo(w)'
    BY <2>2, <2>3, <2>4, <2>5, <2>7 DEF ChargedUpTo
  <2> QED BY <1>a, <2>2, <2>3, <2>6, <2>8
<1>11. ASSUME NEW w \in Workers, NEW from \in {"next", "body", "finalize"}, NEW row \in Row,
              GivesUp(w, from, row)
       PROVE  AccountInv'
  <2>1. /\ pc[w] = from /\ pc' = [pc EXCEPT ![w] = "commit"]
        /\ tx' = [tx EXCEPT ![w] = FailedRow(row)]
        /\ UNCHANGED <<db, gone, cur, node, cost, reopens, resumed>>
    BY <1>11 DEF GivesUp, SameRows
  <2>2. FailedRow(row).status = "FAILED"
    BY <1>11, FailedRowType
  <2>3. OthersStay(w) /\ ChargedUpTo(w)'
    BY <1>0, <1>b, <2>1, <2>2 DEF OthersStay, ChargedUpTo, Executing
  <2> QED BY <1>a, <2>1, <2>3
<1>12. ASSUME NEW w \in Workers,
              \/ GivesUp(w, "body", LogStep(tx[w], node[w], "FAILED"))
              \/ GivesUp(w, "next", tx[w]) \/ GivesUp(w, "finalize", tx[w])
              \/ GivesUp(w, "finalize", Deducted(tx[w], cost[w]))
       PROVE  AccountInv'
  <2>1. tx[w] \in Row /\ cost[w] \in Nat /\ Deducted(tx[w], cost[w]) \in Row
    BY <1>0, DeductedType
  <2>2. GivesUp(w, "body", LogStep(tx[w], node[w], "FAILED")) => LogStep(tx[w], node[w], "FAILED") \in Row
    <3>1. pc[w] = "body" => node[w] \in Nodes
      BY <1>0 DEF Inv, TypeInv, CountersBounded, Nodes
    <3> QED BY <2>1, <3>1, LoggedStep DEF GivesUp
  <2> QED BY <1>11, <1>12, <2>1, <2>2
<1>13. ASSUME NEW w \in Workers, Finalize(w) PROVE AccountInv'
  <2>1. PICK status \in {"COMPLETED", "ERROR"} :
           tx' = [tx EXCEPT ![w] = Concluded(Deducted(tx[w], cost[w]), status, FinalOutput(w),
                                             1 + cost[w])]
    BY <1>13 DEF Finalize
  <2>2. /\ pc[w] = "finalize" /\ pc' = [pc EXCEPT ![w] = "commit"]
        /\ UNCHANGED <<db, gone, cur, node, cost, reopens, resumed>>
    BY <1>13 DEF Finalize, ghostVars
  <2>3. PICK row \in Row : /\ row = Deducted(tx[w], cost[w])
                           /\ row.fees = tx[w].fees + 1 /\ row.usage = tx[w].usage + cost[w]
    <3>1. tx[w] \in Row /\ cost[w] \in Nat
      BY <1>0
    <3> QED BY <3>1, DeductedType, SameSteps
  <2>4. /\ tx'[w].fees = row.fees /\ tx'[w].usage = row.usage
        /\ tx'[w].credits = 1 + cost[w] /\ tx'[w].output = FinalOutput(w)
    <3>1. status \in Status /\ FinalOutput(w) \in Outputs /\ 1 + cost[w] \in Nat
      BY <1>0 DEF Status, Settled, FinalOutput, Outputs
    <3>2. tx'[w] = Concluded(row, status, FinalOutput(w), 1 + cost[w])
      BY <1>0, <2>1, <2>3
    <3> QED BY <3>1, <3>2, ConcludedType, SameSteps
  <2>5. ASSUME cur[w] \notin gone, reopens[cur[w]] = 0, cur[w] \notin resumed PROVE AddsUp(tx'[w])
    <3>1. tx[w].usage = 0 /\ tx[w].fees = 0 /\ cost[w] = LastNode + 1
      BY <1>b, <1>c, <2>2, <2>5 DEF ChargedUpTo, Executing
    <3>2. FinalOutput(w) = "end"
      BY <1>0, <3>1 DEF FinalOutput
    <3> QED BY <1>0, <2>3, <2>4, <3>1, <3>2 DEF AddsUp
  <2>6. OthersStay(w)
    BY <1>0, <2>1, <2>2 DEF OthersStay
  <2>7. ChargedUpTo(w)'
    BY <1>0, <1>b, <2>2, <2>5 DEF ChargedUpTo, Executing, AddsUp
  <2> QED BY <1>a, <2>2, <2>6, <2>7
<1>14. ASSUME NEW w \in Workers, CommitJob(w) PROVE AccountInv'
  <2>1. /\ pc[w] = "commit" /\ cur[w] \in Executions /\ cur[w] \notin gone
        /\ db' = [db EXCEPT ![cur[w]] = tx[w]] /\ pc' = [pc EXCEPT ![w] = "signal"]
        /\ OthersStay(w) /\ UNCHANGED <<gone, cur, reopens, resumed>>
    BY <1>0, <1>14 DEF CommitJob, Commit, Delivering, Executing, OthersStay, ghostVars
  <2>2. \A e \in Executions \ {cur[w]} :
           db'[e] = db[e] /\ reopens'[e] = reopens[e] /\ (e \in resumed' <=> e \in resumed)
    BY <1>0, <2>1
  <2>3. /\ tx[w].status \in Settled
        /\ reopens[cur[w]] = 0 /\ cur[w] \notin resumed /\ tx[w].status # "FAILED" => AddsUp(tx[w])
    BY <1>b, <2>1 DEF ChargedUpTo, Executing, Inv, RowInv, WorkingCopy, Settled
  <2>4. db'[cur[w]] = tx[w]
    BY <1>0, <2>1
  <2>5. CommittedAddsUp(cur[w])'
    BY <2>1, <2>3, <2>4 DEF CommittedAddsUp, AddsUp
  <2>6. ChargedUpTo(w)'
    BY <1>0, <2>1 DEF ChargedUpTo, Executing
  <2> QED BY <1>a, <2>1, <2>2, <2>5, <2>6
<1>15. TypeInv
  BY DEF Inv
<1> QED BY <1>1, <1>2, <1>4, <1>5, <1>6, <1>7, <1>9, <1>10, <1>12, <1>13, <1>14, <1>15, WorkShape

\* A run that went from START to END in one piece paid one fee and the usage of every
\* node, and its row says so, for any workflow and whatever happened to the others.
\* (_finalization_phase, deduct_for_execution, update_execution_status)
THEOREM SettledRunsAddUp == Spec => []SettledRunAddsUp
<1>1. AccountInv => SettledRunAddsUp
  BY DEF AccountInv
<1>2. Inv /\ Inv' /\ AccountInv /\ [Next]_vars => AccountInv'
  BY AccountStep
<1> QED BY <1>1, <1>2, AccountInit, InvariantHolds, PTL DEF Spec

-----------------------------------------------------------------------------
(* The queue implements the contract. *)

\* One committed row changes: the contract sees its new status and fees.
LEMMA RowBecomes ==
    ASSUME TypeOK, NEW e \in Executions, NEW row \in Row,
           db' = [db EXCEPT ![e] = row]
    PROVE  Contract!Becomes(e, row.status, row.fees)
  BY DEF TypeOK, Contract!Becomes

\* Every step of the queue is a step of the contract, or one it does not see.
LEMMA ContractStep == Inv /\ [Next]_vars => [Contract!Next]_(Contract!vars)
<1> SUFFICES ASSUME Inv, [Next]_vars
             PROVE  [Contract!Next]_(Contract!vars)
  OBVIOUS
<1>0. /\ TypeOK /\ RowInv /\ HoldsInJob
      /\ \A w \in Workers : tx[w] \in Row
      /\ \A w \in Workers : pc[w] \in Executing => cur[w] \in Executions
  BY DEF Inv, TypeInv, TypeOK, HoldsInJob, InJob, Delivering
<1>1. CASE UNCHANGED db
  BY <1>1 DEF Contract!vars
<1>2. ASSUME NEW e \in Executions, CommitQueuedRow(e) PROVE Contract!Next
  <2>1. db' = [db EXCEPT ![e] = QueuedRow] /\ db[e] = NoRow
    BY <1>0, <1>2 DEF CommitQueuedRow, RowInv, NothingCommitted
  <2>2. Contract!Becomes(e, QueuedRow.status, QueuedRow.fees)
    BY <1>0, <2>1, RowBecomes, NoRowType
  <2>3. Contract!Accept(e)
    <3>1. /\ QueuedRow.status = "QUEUED" /\ QueuedRow.fees = 0
          /\ db[e].status = "none" /\ db[e].fees = 0
      BY <2>1 DEF QueuedRow, NoRow
    <3> QED BY <2>2, <3>1 DEF Contract!Accept, Contract!Becomes
  <2> QED BY <2>3 DEF Contract!Next
<1>3. ASSUME NEW e \in Executions, DeleteWorkflow(e) PROVE Contract!Next
  <2>1. db' = [db EXCEPT ![e] = NoRow] /\ db[e].status # "none"
    BY <1>3 DEF DeleteWorkflow
  <2>2. Contract!Becomes(e, NoRow.status, NoRow.fees)
    BY <1>0, <2>1, RowBecomes, NoRowType
  <2>3. Contract!Delete(e)
    BY <2>1, <2>2 DEF Contract!Delete, NoRow
  <2> QED BY <2>3 DEF Contract!Next
<1>4. ASSUME NEW w \in Workers, NEW row \in Row, pc[w] \in {"next", "body", "finalize"},
             cur[w] \notin gone, db' = [db EXCEPT ![cur[w]] = row],
             row.status = tx[w].status, row.fees = tx[w].fees
      PROVE  Contract!Next
  <2>1. PICK e \in Executions : e = cur[w]
    BY <1>0, <1>4 DEF Executing
  <2>2. db[e].status # "none" /\ row.status = "RUNNING" /\ row.fees = db[e].fees
    BY <1>0, <1>4, <2>1 DEF RowInv, WorkingCopy, Executing
  <2>3. Contract!Becomes(e, row.status, row.fees)
    BY <1>0, <1>4, <2>1, RowBecomes
  <2>4. Contract!Begin(e)
    BY <2>2, <2>3 DEF Contract!Begin, Contract!Becomes
  <2> QED BY <2>4 DEF Contract!Next
<1>5. ASSUME NEW w \in Workers, NodeCheckpoint(w) PROVE Contract!Next
  BY <1>0, <1>4, <1>5 DEF NodeCheckpoint, Commit
<1>6. ASSUME NEW w \in Workers, NodeCompletes(w) PROVE Contract!Next
  <2> DEFINE row == LogStep(tx[w], node[w], "COMPLETED")
  <2>1. node[w] \in Nodes
    BY <1>6 DEF NodeCompletes, Nodes, Inv, TypeInv, TypeOK, CountersBounded
  <2>2. row \in Row /\ row.status = tx[w].status /\ row.fees = tx[w].fees
    BY <1>0, <2>1, LogStepType DEF StepStatus
  <2> HIDE DEF row
  <2> QED BY <1>4, <1>6, <2>2 DEF NodeCompletes, row
<1>7. ASSUME NEW w \in Workers, CommitJob(w) PROVE Contract!Next
  <2>1. PICK e \in Executions : e = cur[w]
    BY <1>0, <1>7 DEF CommitJob, Executing
  <2>2. db' = [db EXCEPT ![e] = tx[w]] /\ tx[w] \in Row
    BY <1>0, <1>7, <2>1 DEF CommitJob, Commit
  <2>3. /\ db[e].status # "none"
        /\ \/ tx[w].status \in {"COMPLETED", "ERROR"} /\ tx[w].fees = db[e].fees + 1
           \/ tx[w].status = "FAILED" /\ tx[w].fees - db[e].fees \in {0, 1}
    BY <1>0, <1>7, <2>1 DEF CommitJob, Commit, RowInv, WorkingCopy, Executing
  <2>4. Contract!Becomes(e, tx[w].status, tx[w].fees)
    <3>1. PICK row \in Row : row = tx[w]
      BY <2>2
    <3>2. db' = [db EXCEPT ![e] = row]
      BY <2>2, <3>1
    <3>3. Contract!Becomes(e, row.status, row.fees)
      BY <1>0, <3>2, RowBecomes
    <3> QED BY <3>1, <3>3 DEF Contract!Becomes
  <2>5. CASE tx[w].status \in {"COMPLETED", "ERROR"}
    <3>1. Contract!Succeed(e)
      BY <2>3, <2>4, <2>5 DEF Contract!Succeed, Contract!Earning, Contract!Becomes
    <3> QED BY <3>1 DEF Contract!Next
  <2>6. CASE tx[w].status = "FAILED"
    <3>1. tx[w].fees \in Nat /\ db[e].fees \in Nat
      BY <1>0, <2>2 DEF TypeOK, Row
    <3>2. \E n \in {0, 1} : tx[w].fees = db[e].fees + n
      BY <2>3, <2>6, <3>1
    <3>3. Contract!Fail(e)
      BY <2>3, <2>4, <2>6, <3>2 DEF Contract!Fail, Contract!Becomes
    <3> QED BY <3>3 DEF Contract!Next
  <2> QED BY <2>3, <2>5, <2>6
<1>8. CASE db' # db
  BY <1>2, <1>3, <1>5, <1>6, <1>7, <1>8
     DEF Next, Request, Arq, Work, Disturb, vars, apiVars, arqVars, workerVars, ghostVars,
         CreateQueued, PushJob, Subscribe, FirstRead, ReadAfterSignal, WaitTimesOut,
         DispatchFails, ExpireInProgress, ResultExpires, StartWorker, RequeueOrphan,
         ScanDone, TakeJob, LoadFails, AbandonJob, Prepare, StartNode, NodeRaises,
         Fail, LoopRaises, Finalize, FinalizeShortOfCredits,
         FinalizeRaisesAfterDeduction, DatabaseError, JobTimesOut, Signal, Acknowledge,
         Crash, Shutdown
<1> QED BY <1>1, <1>8

\* What the committed database shows follows ExecutionContract: a fee and the
\* status that earns it appear in one step.
THEOREM QueueImplementsContract == Spec => ImplementsContract
<1>1. Init => Contract!Init
  BY DEF Init, Contract!Init, NoRow
<1> QED
  BY <1>1, ContractStep, InvariantHolds, PTL DEF Spec, ImplementsContract, Contract!Spec

=============================================================================
