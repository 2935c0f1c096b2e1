------------------------------ MODULE InlineRuns ------------------------------
(***************************************************************************)
(* WORKFLOW_PROVIDER=inline: the API process drives its own runs.  A       *)
(* submission looks its idempotency key up, inserts the run and spawns a   *)
(* background task that drives it through the same steps as a worker       *)
(* would, with no queue and no lease: what keeps a second drive away is    *)
(* that only the request whose insert went through spawns one.             *)
(*                                                                         *)
(* The process has one event loop; every await is a step of its own.  The  *)
(* run rows live in Postgres or in the in-memory twin of the repository,   *)
(* which report a taken key differently.                                   *)
(***************************************************************************)
EXTENDS Naturals, FiniteSets

CONSTANTS
    Keys,          \* idempotency keys; a run is named by its own
    Requests,      \* the submissions, and the background task each may spawn
    NumSteps,      \* the steps of the workflow
    MaxAttempts,   \* max_attempts of each step
    Stores,        \* the repositories to start from: "sql", "memory"
    Direct,        \* the keys started through the port itself, one call at a time
    Cancellable,   \* the runs somebody may cancel
    MaxCrashes     \* bound: lost processes and lost tasks

Steps == 1..NumSteps

ASSUME InlineAssumption ==
    /\ NumSteps \in Nat \ {0}
    /\ MaxAttempts \in [Steps -> Nat \ {0}]
    /\ Stores \subseteq {"sql", "memory"}
    /\ Direct \subseteq Keys
    /\ Cancellable \subseteq Keys
    /\ MaxCrashes \in Nat

VARIABLES
    store,     \* which repository the process was wired with
    status,    \* the run rows, by key; "none" before the insert
    records,   \* the step records
    asking,    \* where _start_run stands in a request
    heard,     \* what a request was answered: the run, or a server error
    key,       \* the key a request, and then its task, works on
    pc,        \* where the task is in engine.start
    step,      \* _drive's locals
    attempt,
    bodies,    \* ghost: how often the body of a step was entered
    crashes

rowVars  == <<store, status, records>>
taskVars == <<pc, step, attempt>>
vars == <<rowVars, asking, heard, key, taskVars, bodies, crashes>>

Terminal == {"succeeded", "failed"}
NoRecord == [status |-> "absent", attempts |-> 0]
RecordOf(t) == records[key[t]][step[t]]
NeverMemoized(t) == FALSE
Memoized(t) == RecordOf(t).status = "succeeded"

Driving(t) == pc[t] \notin {"none", "find", "create"}

Init ==
    /\ store \in Stores
    /\ status = [k \in Keys |-> "none"]
    /\ records = [k \in Keys |-> [s \in Steps |-> NoRecord]]
    /\ asking = [q \in Requests |-> "idle"]
    /\ heard = [q \in Requests |-> "nothing"]
    /\ key \in [Requests -> Keys]
    /\ pc = [t \in Requests |-> "none"]
    /\ step = [t \in Requests |-> 1]
    /\ attempt = [t \in Requests |-> 0]
    /\ bodies = [k \in Keys |-> [s \in Steps |-> 0]]
    /\ crashes = 0

-------------------------------------------------------------------------------
(***************************************************************************)
(* _start_run.                                                             *)
(***************************************************************************)

Answer(q, what) ==
    /\ heard' = [heard EXCEPT ![q] = what]
    /\ asking' = [asking EXCEPT ![q] = "idle"]

Spawn(q) ==
    /\ pc' = [pc EXCEPT ![q] = "find"]
    /\ step' = [step EXCEPT ![q] = 1]
    /\ attempt' = [attempt EXCEPT ![q] = 0]

Submit(q) ==
    /\ asking[q] = "idle"
    /\ pc[q] = "none"
    /\ key[q] \notin Direct
    /\ asking' = [asking EXCEPT ![q] = "look"]
    /\ UNCHANGED <<rowVars, heard, key, taskVars, bodies, crashes>>

LookUp(q) ==
    /\ asking[q] = "look"
    /\ \/ /\ status[key[q]] # "none"
          /\ Answer(q, "run")
       \/ /\ status[key[q]] = "none"
          /\ asking' = [asking EXCEPT ![q] = "add"]
          /\ UNCHANGED heard
    /\ UNCHANGED <<rowVars, key, taskVars, bodies, crashes>>

AddRunSpawnsAnyway(q) ==
    /\ asking[q] = "add"
    /\ status' = [status EXCEPT ![key[q]] = IF @ = "none" THEN "running" ELSE @]
    /\ Spawn(q)
    /\ Answer(q, "run")
    /\ UNCHANGED <<store, records, key, bodies, crashes>>

InsertRun(k) == status' = [status EXCEPT ![k] = "running"]

\* A taken key: the in-memory repository raises the DuplicateKeyError that
\* _start_run catches, the SQL one lets the unique index's IntegrityError through.
AnswerToDuplicate == IF store = "memory" THEN "run" ELSE "error"

\* The insert.
AddRun(q) ==
    /\ asking[q] = "add"
    /\ \/ /\ status[key[q]] = "none"
          /\ InsertRun(key[q])
          /\ Spawn(q)
          /\ Answer(q, "run")
       \/ /\ status[key[q]] # "none"
          /\ Answer(q, AnswerToDuplicate)
          /\ UNCHANGED <<status, taskVars>>
    /\ UNCHANGED <<store, records, key, bodies, crashes>>

-------------------------------------------------------------------------------
(***************************************************************************)
(* engine.start and _drive, in the task a request spawned.                 *)
(***************************************************************************)

Goto(t, label) == pc' = [pc EXCEPT ![t] = label]
EndTask(t) == Goto(t, "none")

\* A caller of the port itself, as the contract suite is: it starts a run, and
\* starts it again after a crash.
StartDirectly(t) ==
    /\ pc[t] = "none"
    /\ key[t] \in Direct
    /\ \A u \in Requests : key[u] = key[t] => pc[u] = "none"
    /\ Spawn(t)
    /\ UNCHANGED <<rowVars, asking, heard, key, bodies, crashes>>

Find(t) ==
    /\ pc[t] = "find"
    /\ \/ /\ status[key[t]] = "none"
          /\ Goto(t, "create")
       \/ /\ status[key[t]] \in Terminal
          /\ EndTask(t)
       \/ /\ status[key[t]] = "running"
          /\ Goto(t, "step")
    /\ UNCHANGED <<rowVars, asking, heard, key, step, attempt, bodies, crashes>>

CreateRunUnsaved(t) ==
    /\ pc[t] = "create"
    /\ Goto(t, "step")
    /\ UNCHANGED <<rowVars, asking, heard, key, step, attempt, bodies, crashes>>

\* _create_run: with one call at a time nothing has taken the key meanwhile.
CreateRun(t) ==
    /\ pc[t] = "create"
    /\ status[key[t]] = "none"
    /\ InsertRun(key[t])
    /\ Goto(t, "step")
    /\ UNCHANGED <<store, records, asking, heard, key, step, attempt, bodies, crashes>>

\* The next step, or the end of the loop.
LeaveBeforeLast(t) == IF step[t] >= NumSteps - 1 THEN "succeed" ELSE "step"
AfterStep(t) == IF step[t] = NumSteps THEN "succeed" ELSE "step"

Advance(t) ==
    /\ Goto(t, AfterStep(t))
    /\ step' = [step EXCEPT ![t] = IF @ = NumSteps THEN @ ELSE @ + 1]

CheckStep(t) ==
    /\ pc[t] = "step"
    /\ \/ /\ Memoized(t)
          /\ Advance(t)
          /\ UNCHANGED attempt
       \/ /\ ~Memoized(t)
          /\ attempt' = [attempt EXCEPT ![t] = RecordOf(t).attempts + 1]
          /\ Goto(t, "execute")
          /\ UNCHANGED step
    /\ UNCHANGED <<rowVars, asking, heard, key, bodies, crashes>>

RetryAllowedOnceMore(t) == attempt[t] <= MaxAttempts[step[t]]
RetryAllowed(t) == attempt[t] < MaxAttempts[step[t]]

\* The body of the step: it returns, or raises a transient or another error.
\* A retry keeps the attempt number in memory; no record is written for it.
Outcome(t, saved, retried, failed) ==
    \/ Goto(t, saved) /\ UNCHANGED attempt
    \/ /\ RetryAllowed(t)
       /\ attempt' = [attempt EXCEPT ![t] = @ + 1]
       /\ Goto(t, retried)
    \/ Goto(t, failed) /\ UNCHANGED attempt

EnterBody(t) == bodies' = [bodies EXCEPT ![key[t]][step[t]] = @ + 1]

\* BaseStep.execute looks the record up once more before it runs the body.
Execute(t) ==
    /\ pc[t] = "execute"
    /\ \/ /\ ~Memoized(t)
          /\ EnterBody(t)
          /\ Outcome(t, "save", "sleep", "fail_step")
          /\ UNCHANGED step
       \/ /\ Memoized(t)
          /\ Advance(t)
          /\ UNCHANGED <<attempt, bodies>>
    /\ UNCHANGED <<rowVars, asking, heard, key, crashes>>

Backoff(t) ==
    /\ pc[t] = "sleep"
    /\ Goto(t, "execute")
    /\ UNCHANGED <<rowVars, asking, heard, key, step, attempt, bodies, crashes>>

SaveRecord(t, verdict, attempts) ==
    records' = [records EXCEPT ![key[t]][step[t]] =
                   [status |-> verdict, attempts |-> attempts]]

\* The checkpoint counts from the record, not from the retries made in memory.
SaveStep(t) ==
    /\ pc[t] = "save"
    /\ SaveRecord(t, "succeeded", RecordOf(t).attempts + 1)
    /\ Advance(t)
    /\ UNCHANGED <<store, status, asking, heard, key, attempt, bodies, crashes>>

FailStep(t) ==
    /\ pc[t] = "fail_step"
    /\ SaveRecord(t, "failed", attempt[t])
    /\ Goto(t, "fail_run")
    /\ UNCHANGED <<store, status, asking, heard, key, step, attempt, bodies, crashes>>

EndRunFailuresOnly(t) ==
    /\ pc[t] \in {"fail_run", "succeed"}
    /\ status' = [status EXCEPT ![key[t]] = IF pc[t] = "fail_run" THEN "failed" ELSE @]
    /\ EndTask(t)
    /\ UNCHANGED <<store, records, asking, heard, key, step, attempt, bodies, crashes>>

\* _fail_run and _succeed_run write the verdict whatever the row says by now.
EndRun(t) ==
    /\ pc[t] \in {"fail_run", "succeed"}
    /\ status' = [status EXCEPT ![key[t]] =
                     IF pc[t] = "succeed" THEN "succeeded" ELSE "failed"]
    /\ EndTask(t)
    /\ UNCHANGED <<store, records, asking, heard, key, step, attempt, bodies, crashes>>

Cancel(k) ==
    /\ k \in Cancellable
    /\ status[k] # "none"
    /\ status' = [status EXCEPT ![k] = "failed"]
    /\ UNCHANGED <<store, records, asking, heard, key, taskVars, bodies, crashes>>

-------------------------------------------------------------------------------

\* The API process dies with every request and task in it; of an in-memory
\* repository nothing would be left to go on with.
Crash ==
    /\ store = "sql"
    /\ crashes < MaxCrashes
    /\ crashes' = crashes + 1
    /\ asking' = [q \in Requests |-> "idle"]
    /\ pc' = [t \in Requests |-> "none"]
    /\ UNCHANGED <<rowVars, heard, key, step, attempt, bodies>>

\* A database call outside a step raises: spawn logs the error and drops it.
LoseTask(t) ==
    /\ pc[t] \in {"find", "create", "step", "fail_step", "fail_run", "succeed"}
    /\ crashes < MaxCrashes
    /\ crashes' = crashes + 1
    /\ EndTask(t)
    /\ UNCHANGED <<rowVars, asking, heard, key, step, attempt, bodies>>

TaskStep(t) ==
    \/ Find(t) \/ CreateRun(t) \/ CheckStep(t) \/ Execute(t) \/ Backoff(t)
    \/ SaveStep(t) \/ FailStep(t) \/ EndRun(t)

RequestStep(q) == LookUp(q) \/ AddRun(q)

Next ==
    \/ \E q \in Requests : Submit(q) \/ RequestStep(q) \/ StartDirectly(q) \/ TaskStep(q) \/ LoseTask(q)
    \/ \E k \in Keys : Cancel(k)
    \/ Crash

Spec == Init /\ [][Next]_vars

\* The event loop resumes every task; what a candidate submits is their choice.
FairSpec == Spec /\ \A q \in Requests : WF_vars(TaskStep(q)) /\ WF_vars(RequestStep(q))

-------------------------------------------------------------------------------
(***************************************************************************)
(* Properties.                                                             *)
(***************************************************************************)

TaskLabels == {"none", "find", "create", "step", "execute", "sleep", "save",
               "fail_step", "fail_run", "succeed"}

\* The types of the variables; a task past its lookup has a row to work on, and
\* an attempt number is never past a step's ceiling but for the one granted to
\* a step whose failure was recorded and whose run was not.
TypeOK ==
    /\ store \in Stores
    /\ status \in [Keys -> {"none", "running"} \cup Terminal]
    /\ records \in [Keys -> [Steps -> [status : {"absent", "succeeded", "failed"},
                                       attempts : Nat]]]
    /\ asking \in [Requests -> {"idle", "look", "add"}]
    /\ heard \in [Requests -> {"nothing", "run", "error"}]
    /\ key \in [Requests -> Keys]
    /\ pc \in [Requests -> TaskLabels]
    /\ step \in [Requests -> Steps]
    /\ attempt \in [Requests -> Nat]
    /\ bodies \in [Keys -> [Steps -> Nat]]
    /\ crashes \in Nat
    /\ \A t \in Requests : Driving(t) => status[key[t]] # "none"

\* A double tap never drives a run twice: the engine takes no lease, so two
\* tasks on one key would run its steps against each other.
OneDrive ==
    \A t, u \in Requests : Driving(t) /\ Driving(u) /\ key[t] = key[u] => t = u

\* A step's body is entered at most max_attempts times for every time its run
\* was started, and never again once it is checkpointed, whatever crashed.
AttemptsBounded ==
    \A k \in Keys, s \in Steps :
        bodies[k][s] <= MaxAttempts[s] * (1 + crashes)

\* Nothing a finished step did is done again: a body is not entered while a
\* checkpoint of its step exists.
CheckpointIsFinal ==
    [][\A k \in Keys, s \in Steps :
          records[k][s].status = "succeeded" =>
              /\ records'[k][s] = records[k][s]
              /\ bodies'[k][s] = bodies[k][s]]_vars

\* The inline engine keeps the port's promise for every run nobody cancels: a
\* cancelled run that is still being driven is overwritten with its verdict.
Kept == Keys \ Cancellable
Promise == INSTANCE DurableRun WITH
    Runs <- Kept,
    status <- [k \in Kept |-> status[k]],
    done <- [k \in Kept |-> Cardinality({s \in Steps : records[k][s].status = "succeeded"})]
KeepsPromise == Promise!Spec

\* Every run ends unless a process or a task of it was lost: no error of a step
\* leaves it at "running" forever.
EveryRunEnds ==
    \A k \in Keys : status[k] = "running" ~> (status[k] \in Terminal \/ crashes > 0)

\* What _start_run's docstring says, and the SQL repository does not bear out: a
\* second submission with the same key joins the first run.
SecondCallJoins == \A q \in Requests : heard[q] # "error"

===============================================================================
