------------------------------ MODULE DurableRun ------------------------------
(***************************************************************************)
(* What the WorkflowEngine port promises of a run, whichever adapter       *)
(* drives it (ports/workflow.py, and the run lifecycle that ARCHITECTURE   *)
(* draws).  A run is created once; its steps are checkpointed one by one,  *)
(* in the workflow's order, and a checkpoint is never taken back; the run  *)
(* then ends exactly once, succeeded only with every step checkpointed.    *)
(*                                                                         *)
(* Who executes a step, how often a body is tried, queues, leases and      *)
(* crashes are all absent: the engines refine this module.                 *)
(***************************************************************************)
EXTENDS Naturals

CONSTANTS
    Runs,        \* the workflow runs
    NumSteps     \* the number of steps of their workflow

VARIABLES
    status,      \* WorkflowRun.status; "none" before the row exists
    done         \* how many steps are checkpointed as succeeded

abstractVars == <<status, done>>

Terminal == {"succeeded", "failed"}

Init ==
    /\ status = [r \in Runs |-> "none"]
    /\ done = [r \in Runs |-> 0]

Create(r) ==
    /\ status[r] = "none"
    /\ status' = [status EXCEPT ![r] = "running"]
    /\ UNCHANGED done

Checkpoint(r) ==
    /\ status[r] = "running"
    /\ done[r] < NumSteps
    /\ done' = [done EXCEPT ![r] = @ + 1]
    /\ UNCHANGED status

Succeed(r) ==
    /\ status[r] = "running"
    /\ done[r] = NumSteps
    /\ status' = [status EXCEPT ![r] = "succeeded"]
    /\ UNCHANGED done

Fail(r) ==
    /\ status[r] = "running"
    /\ status' = [status EXCEPT ![r] = "failed"]
    /\ UNCHANGED done

Next == \E r \in Runs : Create(r) \/ Checkpoint(r) \/ Succeed(r) \/ Fail(r)

Spec == Init /\ [][Next]_abstractVars

===============================================================================
