-------------------------- MODULE ExecutionContract --------------------------
(***************************************************************************)
(* What an execution promises to whoever reads the database: the rows a    *)
(* client, the billing page or the chat history can see of one execution,  *)
(* without workers, queue or request. ExecutionQueue implements it.        *)
(*                                                                         *)
(* The promise is weaker than the documentation's: a settled execution may *)
(* be started again. What it does keep is that a fee and the status that   *)
(* earns it appear in one step.                                            *)
(***************************************************************************)
EXTENDS Naturals

CONSTANT Executions

VARIABLES status, \* the committed status of each execution, "none" without a row
          fees    \* the execution fees committed for it

vars == <<status, fees>>

Earning == {"COMPLETED", "ERROR"}
Settled == Earning \union {"FAILED"}

Init ==
    /\ status = [e \in Executions |-> "none"]
    /\ fees = [e \in Executions |-> 0]

Becomes(e, newStatus, newFees) ==
    /\ status' = [status EXCEPT ![e] = newStatus]
    /\ fees' = [fees EXCEPT ![e] = newFees]

Accept(e) == status[e] = "none" /\ Becomes(e, "QUEUED", fees[e])

\* A first commit of the run, or of a settled run that was started again.
Begin(e) == status[e] # "none" /\ Becomes(e, "RUNNING", fees[e])

\* The result and its fee, in one step.
Succeed(e) ==
    /\ status[e] # "none"
    /\ \E s \in Earning : Becomes(e, s, fees[e] + 1)

\* A failure charges nothing, unless finalization failed after the deduction.
Fail(e) ==
    /\ status[e] # "none"
    /\ \E n \in {0, 1} : Becomes(e, "FAILED", fees[e] + n)

\* The workflow is deleted and the rows with it.
Delete(e) == status[e] # "none" /\ Becomes(e, "none", 0)

Next ==
    \E e \in Executions : Accept(e) \/ Begin(e) \/ Succeed(e) \/ Fail(e) \/ Delete(e)

Spec == Init /\ [][Next]_vars

=============================================================================
