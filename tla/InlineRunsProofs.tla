--------------------------- MODULE InlineRunsProofs ---------------------------
(***************************************************************************)
(* The inline engine, for any number of keys, requests, steps, attempts    *)
(* and lost processes: a key has one task at most, its steps' bodies are   *)
(* entered no more often than attempts and restarts allow, and the runs    *)
(* nobody cancels go the way DurableRun draws.                             *)
(***************************************************************************)
EXTENDS InlineRuns, FiniteSetTheorems, TLAPS

USE DEF InsertRun

StepRows == [status : {"absent", "succeeded", "failed"}, attempts : Nat]

Types ==
    /\ status \in [Keys -> {"none", "running"} \cup Terminal]
    /\ records \in [Keys -> [Steps -> StepRows]]
    /\ asking \in [Requests -> {"idle", "look", "add"}]
    /\ key \in [Requests -> Keys]
    /\ pc \in [Requests -> TaskLabels]
    /\ step \in [Requests -> Steps]
    /\ attempt \in [Requests -> Nat]
    /\ bodies \in [Keys -> [Steps -> Nat]]
    /\ crashes \in Nat

OneTask ==
    \A t, u \in Requests : pc[t] # "none" /\ pc[u] # "none" /\ key[t] = key[u] => t = u

\* Whoever submits leaves the keys of the port's callers alone, and before the
\* insert of a submitted run there is no task for it.
Unborn ==
    \A q \in Requests :
        /\ asking[q] # "idle" => key[q] \notin Direct
        /\ status[key[q]] = "none" /\ key[q] \notin Direct => pc[q] = "none"

\* A task drives a row that exists, and one that nobody cancels is running.
DrivenRunning ==
    \A t \in Requests :
        Driving(t) => /\ status[key[t]] # "none"
                      /\ key[t] \notin Cancellable => status[key[t]] = "running"

Tasks == Types /\ OneTask /\ Unborn /\ DrivenRunning

-------------------------------------------------------------------------------

LEMMA StepsCounted ==
    /\ 1 \in Steps /\ NumSteps \in Steps
    /\ \A s \in Steps : s \in Nat /\ s >= 1 /\ s <= NumSteps
    /\ \A s \in Steps : s # NumSteps => s + 1 \in Steps
    /\ \A s \in Steps : MaxAttempts[s] \in Nat /\ MaxAttempts[s] >= 1
BY InlineAssumption DEF Steps

\* An update two levels down changes one value and keeps the type.
LEMMA DeepUpdate ==
    ASSUME NEW V, NEW f \in [Keys -> [Steps -> V]], NEW k \in Keys, NEW s \in Steps, NEW v \in V,
           NEW g, g = [f EXCEPT ![k][s] = v]
    PROVE  /\ g \in [Keys -> [Steps -> V]]
           /\ \A i \in Keys, j \in Steps : g[i][j] = IF i = k /\ j = s THEN v ELSE f[i][j]
<1> DEFINE h == [f[k] EXCEPT ![s] = v]
<1>1. g = [f EXCEPT ![k] = h]
    OBVIOUS
<1>2. h \in [Steps -> V] /\ \A j \in Steps : h[j] = IF j = s THEN v ELSE f[k][j]
    OBVIOUS
<1> HIDE DEF h
<1>3. g \in [Keys -> [Steps -> V]] /\ \A i \in Keys : g[i] = IF i = k THEN h ELSE f[i]
    BY <1>1, <1>2
<1> QED
    BY <1>2, <1>3

LEMMA BodiesUpdate ==
    ASSUME bodies \in [Keys -> [Steps -> Nat]], NEW k \in Keys, NEW s \in Steps,
           bodies' = [bodies EXCEPT ![k][s] = @ + 1]
    PROVE  /\ bodies' \in [Keys -> [Steps -> Nat]]
           /\ \A i \in Keys, j \in Steps :
                 bodies'[i][j] = IF i = k /\ j = s THEN bodies[i][j] + 1 ELSE bodies[i][j]
<1>1. bodies[k][s] + 1 \in Nat /\ bodies' = [bodies EXCEPT ![k][s] = bodies[k][s] + 1]
    OBVIOUS
<1> QED
    BY <1>1, DeepUpdate

LEMMA RecordsUpdate ==
    ASSUME records \in [Keys -> [Steps -> StepRows]], NEW k \in Keys, NEW s \in Steps,
           NEW v \in StepRows, records' = [records EXCEPT ![k][s] = v]
    PROVE  /\ records' \in [Keys -> [Steps -> StepRows]]
           /\ \A i \in Keys, j \in Steps :
                 records'[i][j] = IF i = k /\ j = s THEN v ELSE records[i][j]
BY DeepUpdate

LEMMA AdvanceTypes ==
    ASSUME Types, NEW t \in Requests, Advance(t)
    PROVE  pc' \in [Requests -> TaskLabels] /\ step' \in [Requests -> Steps]
<1>1. AfterStep(t) \in TaskLabels
    BY DEF AfterStep, TaskLabels
<1>2. step[t] \in Steps
    BY DEF Types
<1> QED
    BY <1>1, <1>2, StepsCounted DEF Advance, Goto, Types

\* What a step of a task does to the others: nothing.
LEMMA OthersWait ==
    ASSUME Types, NEW t \in Requests, TaskStep(t)
    PROVE  /\ key' = key /\ asking' = asking /\ crashes' = crashes
           /\ pc[t] # "none"
           /\ \A u \in Requests : u # t => /\ pc'[u] = pc[u]
                                           /\ step'[u] = step[u]
                                           /\ attempt'[u] = attempt[u]
           /\ \A k \in Keys : k # key[t] => /\ status'[k] = status[k]
                                            /\ records'[k] = records[k]
                                            /\ bodies'[k] = bodies[k]
BY DEF Types, TaskStep, Find, CreateRun, CheckStep, Execute, Backoff, SaveStep, FailStep, EndRun,
    Goto, EndTask, Advance, Outcome, EnterBody, SaveRecord, rowVars, taskVars

LEMMA InitTasks == Init => Tasks
<1> SUFFICES ASSUME Init PROVE Tasks
    OBVIOUS
<1>1. Types
    BY StepsCounted DEF Init, Types, NoRecord, StepRows, TaskLabels
<1>2. OneTask /\ Unborn /\ DrivenRunning
    BY DEF Init, OneTask, Unborn, DrivenRunning, Driving
<1> QED
    BY <1>1, <1>2 DEF Tasks

LEMMA TaskStepTypes == ASSUME Types, NEW t \in Requests, TaskStep(t) PROVE Types'
<1> USE StepsCounted DEF Types
<1>k. key[t] \in Keys /\ step[t] \in Steps
    OBVIOUS
<1>1. CASE Find(t)
    BY <1>1 DEF Find, Goto, EndTask, rowVars, TaskLabels
<1>2. CASE CreateRun(t)
    BY <1>2 DEF CreateRun, Goto, TaskLabels
<1>3. CASE CheckStep(t)
    <2>1. RecordOf(t).attempts + 1 \in Nat
        BY <1>k DEF RecordOf, StepRows
    <2>2. attempt' \in [Requests -> Nat]
        BY <1>3, <2>1 DEF CheckStep
    <2>3. pc' \in [Requests -> TaskLabels] /\ step' \in [Requests -> Steps]
        BY <1>3, AdvanceTypes DEF CheckStep, Goto, TaskLabels
    <2> QED
        BY <1>3, <2>2, <2>3 DEF CheckStep, rowVars
<1>4. CASE Execute(t)
    <2> DEFINE k == key[t]
               s == step[t]
    <2>1. bodies' \in [Keys -> [Steps -> Nat]]
        BY <1>k, <1>4, BodiesUpdate DEF Execute, EnterBody
    <2>2. attempt' \in [Requests -> Nat]
        <3>1. attempt' = attempt \/ attempt' = [attempt EXCEPT ![t] = @ + 1]
            BY <1>4 DEF Execute, Outcome
        <3> QED
            BY <3>1
    <2>3. pc' \in [Requests -> TaskLabels] /\ step' \in [Requests -> Steps]
        BY <1>4, AdvanceTypes DEF Execute, Outcome, Goto, TaskLabels
    <2> QED
        BY <1>4, <2>1, <2>2, <2>3 DEF Execute, rowVars
<1>5. CASE Backoff(t)
    BY <1>5 DEF Backoff, Goto, rowVars, TaskLabels
<1>6. CASE SaveStep(t) \/ FailStep(t)
    <2>1. RecordOf(t).attempts + 1 \in Nat /\ attempt[t] \in Nat
        BY <1>k DEF RecordOf, StepRows
    <2>2. PICK v \in StepRows : records' = [records EXCEPT ![key[t]][step[t]] = v]
        BY <1>6, <2>1 DEF SaveStep, FailStep, SaveRecord, StepRows
    <2>3. records' \in [Keys -> [Steps -> StepRows]]
        BY <1>k, <2>2, RecordsUpdate
    <2>4. pc' \in [Requests -> TaskLabels] /\ step' \in [Requests -> Steps]
        BY <1>6, AdvanceTypes DEF SaveStep, FailStep, Goto, TaskLabels
    <2> QED
        BY <1>6, <2>3, <2>4 DEF SaveStep, FailStep
<1>7. CASE EndRun(t)
    BY <1>7 DEF EndRun, EndTask, Goto, Terminal, TaskLabels
<1> QED
    BY <1>1, <1>2, <1>3, <1>4, <1>5, <1>6, <1>7 DEF TaskStep

LEMMA TaskStepTasks == ASSUME Tasks, NEW t \in Requests, TaskStep(t) PROVE Tasks'
<1> USE DEF Tasks
<1>1. Types'
    BY TaskStepTypes
<1>2. OneTask'
    BY OthersWait DEF OneTask
<1>3. \/ status'[key[t]] # "none"
      \/ status[key[t]] = "none" /\ pc'[t] \in {"none", "create"}
    BY DEF TaskStep, Find, CreateRun, CheckStep, Execute, Backoff, SaveStep, FailStep, EndRun,
        Goto, EndTask, rowVars, Types, DrivenRunning, Driving
<1>4. Unborn'
    <2>1. ASSUME NEW q \in Requests, status'[key[q]] = "none", key[q] \notin Direct PROVE pc'[q] = "none"
        <3>1. CASE key[q] = key[t]
            BY <1>3, <2>1, <3>1, OthersWait DEF Unborn
        <3>2. CASE key[q] # key[t]
            BY <2>1, <3>2, OthersWait DEF Unborn, Types
        <3> QED
            BY <3>1, <3>2
    <2> QED
        BY <2>1, OthersWait DEF Unborn
<1>5. DrivenRunning'
    <2>1. ASSUME NEW u \in Requests, u # t, Driving(u)'
          PROVE  /\ status'[key[u]] # "none"
                 /\ key[u] \notin Cancellable => status'[key[u]] = "running"
        <3>1. Driving(u)
            BY <2>1, OthersWait DEF Driving
        <3>2. key[u] # key[t]
            BY <2>1, <3>1, OthersWait DEF OneTask, Driving
        <3> QED
            BY <3>1, <3>2, OthersWait DEF DrivenRunning, Types
    <2>2. ASSUME Driving(t)'
          PROVE  /\ status'[key[t]] # "none"
                 /\ key[t] \notin Cancellable => status'[key[t]] = "running"
        <3>1. CASE Find(t)
            BY <2>2, <3>1 DEF Find, Goto, EndTask, rowVars, Driving, Types
        <3>2. CASE CreateRun(t)
            BY <3>2 DEF CreateRun, Types
        <3>3. CASE EndRun(t)
            BY <2>2, <3>3 DEF EndRun, EndTask, Goto, Driving, Types
        <3>4. ASSUME ~Find(t), ~CreateRun(t), ~EndRun(t) PROVE Driving(t) /\ status' = status
            BY <3>4 DEF TaskStep, CheckStep, Execute, Backoff, SaveStep, FailStep, rowVars, Driving
        <3> QED
            BY <3>1, <3>2, <3>3, <3>4 DEF DrivenRunning
    <2> QED
        BY <2>1, <2>2, OthersWait DEF DrivenRunning
<1> QED
    BY <1>1, <1>2, <1>4, <1>5

LEMMA OthersTasks ==
    ASSUME Tasks, [Next]_vars, ~\E t \in Requests : TaskStep(t)
    PROVE  Tasks'
<1> USE StepsCounted DEF Tasks
<1>1. ASSUME NEW q \in Requests, Submit(q) \/ LookUp(q) PROVE Tasks'
    <2>1. UNCHANGED <<status, records, key, pc, step, attempt, bodies, crashes>>
        BY <1>1 DEF Submit, LookUp, rowVars, taskVars
    <2>2. /\ asking' \in [Requests -> {"idle", "look", "add"}]
          /\ \A r \in Requests : asking'[r] # "idle" => asking[r] # "idle" \/ key[r] \notin Direct
        BY <1>1 DEF Submit, LookUp, Answer, Types
    <2> QED
        BY <2>1, <2>2 DEF Types, OneTask, Unborn, DrivenRunning, Driving
<1>2. ASSUME NEW q \in Requests, AddRun(q) PROVE Tasks'
    <2>1. asking' \in [Requests -> {"idle", "look", "add"}]
          /\ \A r \in Requests : asking'[r] # "idle" => asking[r] # "idle"
        BY <1>2 DEF AddRun, Answer, Types
    <2>2. CASE status' = status /\ UNCHANGED taskVars
        BY <1>2, <2>1, <2>2 DEF AddRun, taskVars, Types, OneTask, Unborn, DrivenRunning, Driving
    <2>3. CASE status[key[q]] = "none" /\ status' = [status EXCEPT ![key[q]] = "running"] /\ Spawn(q)
        <3>1. UNCHANGED <<records, key, bodies, crashes>>
            BY <1>2 DEF AddRun
        <3>2. Types'
            BY <2>1, <2>3, <3>1 DEF Types, Spawn, TaskLabels
        <3>3. key[q] \notin Direct
            BY <1>2 DEF AddRun, Unborn
        <3>4. \A u \in Requests : key[u] = key[q] => pc[u] = "none"
            BY <2>3, <3>3 DEF Unborn
        <3>5. \A u \in Requests : pc'[u] = IF u = q THEN "find" ELSE pc[u]
            BY <2>3 DEF Spawn, Types
        <3>6. OneTask'
            BY <3>1, <3>4, <3>5 DEF OneTask
        <3>7. Unborn'
            BY <2>1, <2>3, <3>1, <3>5 DEF Unborn, Types
        <3>8. DrivenRunning'
            BY <2>3, <3>1, <3>5, <3>4 DEF DrivenRunning, Driving, Types
        <3> QED
            BY <3>2, <3>6, <3>7, <3>8
    <2> QED
        BY <1>2, <2>2, <2>3 DEF AddRun
<1>3. ASSUME NEW t \in Requests, StartDirectly(t) PROVE Tasks'
    <2>1. UNCHANGED <<status, records, asking, key, bodies, crashes>>
        BY <1>3 DEF StartDirectly, rowVars
    <2>2. Types'
        BY <1>3, <2>1 DEF StartDirectly, Types, Spawn, TaskLabels
    <2>3. \A u \in Requests : pc'[u] = IF u = t THEN "find" ELSE pc[u]
        BY <1>3 DEF StartDirectly, Spawn, Types
    <2>4. OneTask' /\ Unborn' /\ DrivenRunning'
        BY <1>3, <2>1, <2>3 DEF StartDirectly, OneTask, Unborn, DrivenRunning, Driving
    <2> QED
        BY <2>2, <2>4
<1>4. ASSUME NEW t \in Requests, LoseTask(t) PROVE Tasks'
    <2>1. UNCHANGED <<status, records, asking, key, step, attempt, bodies>> /\ crashes' \in Nat
        BY <1>4 DEF LoseTask, rowVars, Types
    <2>2. \A u \in Requests : pc'[u] = pc[u] \/ pc'[u] = "none"
        BY <1>4 DEF LoseTask, EndTask, Goto, Types
    <2>3. pc' \in [Requests -> TaskLabels]
        BY <1>4 DEF LoseTask, EndTask, Goto, Types, TaskLabels
    <2> QED
        BY <2>1, <2>2, <2>3 DEF Types, OneTask, Unborn, DrivenRunning, Driving
<1>5. CASE Crash
    BY <1>5 DEF Crash, rowVars, Types, OneTask, Unborn, DrivenRunning, Driving, TaskLabels
<1>6. ASSUME NEW k \in Keys, Cancel(k) PROVE Tasks'
    <2>1. UNCHANGED <<records, asking, key, pc, step, attempt, bodies, crashes>>
        BY <1>6 DEF Cancel, taskVars
    <2>2. /\ status' \in [Keys -> {"none", "running"} \cup Terminal]
          /\ \A m \in Keys : /\ status'[m] = "none" <=> status[m] = "none"
                             /\ m \notin Cancellable => status'[m] = status[m]
        BY <1>6 DEF Cancel, Types, Terminal
    <2>3. \A q \in Requests : key[q] \in Keys
        BY DEF Types
    <2> QED
        BY <2>1, <2>2, <2>3 DEF Types, OneTask, Unborn, DrivenRunning, Driving
<1>7. CASE UNCHANGED vars
    BY <1>7 DEF vars, rowVars, taskVars, Types, OneTask, Unborn, DrivenRunning, Driving
<1> QED
    BY <1>1, <1>2, <1>3, <1>4, <1>5, <1>6, <1>7 DEF Next, RequestStep

LEMMA NextTasks == ASSUME Tasks, [Next]_vars PROVE Tasks'
BY TaskStepTasks, OthersTasks

\* A double tap never drives a run twice (_start_run in routers/session.py over
\* InlineWorkflowEngine.start): the engine takes no lease, the insert decides.
THEOREM NeverDrivenTwice == Spec => []OneDrive
<1>1. Tasks => OneDrive
    BY DEF Tasks, OneTask, OneDrive, Driving
<1> QED
    BY <1>1, InitTasks, NextTasks, PTL DEF Spec

-------------------------------------------------------------------------------
(***************************************************************************)
(* Checkpoints, and the refinement of DurableRun.                          *)
(***************************************************************************)

Taken(k, s) == records[k][s].status = "succeeded"
TakenBy(k) == {s \in Steps : Taken(k, s)}

\* A task has the steps before its own behind it, runs the body of one that has no
\* checkpoint, and reports success with all of them taken.
InOrder(t) ==
    /\ pc[t] \in {"find", "create"} => step[t] = 1
    /\ Driving(t) => \A s \in Steps : s < step[t] => Taken(key[t], s)
    /\ pc[t] \in {"execute", "sleep", "save", "fail_step"} => ~Taken(key[t], step[t])
    /\ pc[t] = "succeed" => \A s \in Steps : Taken(key[t], s)
CheckpointsInOrder == \A t \in Requests : InOrder(t)

\* The step of another task leaves a task where it is.
LEMMA OthersInOrder ==
    ASSUME Tasks, CheckpointsInOrder, NEW t \in Requests, TaskStep(t),
           NEW u \in Requests, u # t
    PROVE  InOrder(u)'
<1>1. CASE ~Driving(u)
    BY <1>1, OthersWait DEF Tasks, CheckpointsInOrder, InOrder, Driving
<1>2. CASE Driving(u)
    <2>1. key[u] # key[t]
        BY <1>2, OthersWait DEF Tasks, OneTask, Driving
    <2>2. records'[key[u]] = records[key[u]]
        BY <2>1, OthersWait DEF Tasks, Types
    <2>3. UNCHANGED <<key[u], pc[u], step[u]>>
        BY OthersWait DEF Tasks
    <2> QED
        BY <2>2, <2>3 DEF CheckpointsInOrder, InOrder, Driving, Taken
<1> QED
    BY <1>1, <1>2

\* Past a step that is taken all steps up to the next one are.
LEMMA AdvanceInOrder ==
    ASSUME Tasks, NEW t \in Requests, Driving(t), Advance(t), key' = key,
           \A s \in Steps : s <= step[t] => Taken(key[t], s)'
    PROVE  InOrder(t)'
<1>1. step[t] \in Steps
    BY DEF Tasks, Types
<1>2. CASE step[t] = NumSteps
    <2>1. pc'[t] = "succeed" /\ step'[t] = step[t] /\ key'[t] = key[t]
        BY <1>2 DEF Advance, Goto, AfterStep, Tasks, Types
    <2>2. \A s \in Steps : Taken(key[t], s)'
        BY <1>2, StepsCounted
    <2> QED
        BY <2>1, <2>2 DEF InOrder, Taken
<1>3. CASE step[t] # NumSteps
    <2>1. pc'[t] = "step" /\ step'[t] = step[t] + 1 /\ key'[t] = key[t]
        BY <1>3 DEF Advance, Goto, AfterStep, Tasks, Types
    <2>2. \A s \in Steps : s < step[t] + 1 => Taken(key[t], s)'
        BY <1>1, StepsCounted
    <2> QED
        BY <2>1, <2>2 DEF InOrder, Taken
<1> QED
    BY <1>2, <1>3

\* The checkpoint is a new one, of a run that is being driven.
LEMMA CheckpointTaken ==
    ASSUME Tasks, CheckpointsInOrder, NEW t \in Requests, SaveStep(t)
    PROVE  /\ step[t] \in Steps \ TakenBy(key[t])
           /\ TakenBy(key[t])' = TakenBy(key[t]) \cup {step[t]}
           /\ \A k \in Keys : k # key[t] => TakenBy(k)' = TakenBy(k)
<1>1. key[t] \in Keys /\ step[t] \in Steps
    BY DEF Tasks, Types
<1>2. ~Taken(key[t], step[t])
    BY DEF CheckpointsInOrder, InOrder, SaveStep, Driving
<1>3. [status |-> "succeeded", attempts |-> RecordOf(t).attempts + 1] \in StepRows
    BY <1>1 DEF RecordOf, StepRows, Tasks, Types
<1>4. \A i \in Keys, j \in Steps :
          records'[i][j] = IF i = key[t] /\ j = step[t]
                           THEN [status |-> "succeeded", attempts |-> RecordOf(t).attempts + 1]
                           ELSE records[i][j]
    BY <1>1, <1>3, RecordsUpdate DEF SaveStep, SaveRecord, Tasks, Types
<1>5. ASSUME NEW k \in Keys, NEW s \in Steps
      PROVE  Taken(k, s)' <=> (k = key[t] /\ s = step[t]) \/ Taken(k, s)
    <2>1. CASE k = key[t] /\ s = step[t]
        BY <1>4, <2>1 DEF Taken
    <2>2. CASE ~(k = key[t] /\ s = step[t])
        BY <1>4, <2>2 DEF Taken
    <2> QED
        BY <2>1, <2>2
<1>6. key' = key
    BY DEF SaveStep
<1> QED
    BY <1>1, <1>2, <1>5, <1>6 DEF TakenBy

\* A failure takes nothing back.
LEMMA FailureTakesNothing ==
    ASSUME Tasks, CheckpointsInOrder, NEW t \in Requests, FailStep(t)
    PROVE  \A k \in Keys : TakenBy(k)' = TakenBy(k)
<1>1. key[t] \in Keys /\ step[t] \in Steps
    BY DEF Tasks, Types
<1>2. ~Taken(key[t], step[t])
    BY DEF CheckpointsInOrder, InOrder, FailStep, Driving
<1>3. [status |-> "failed", attempts |-> attempt[t]] \in StepRows
    BY DEF StepRows, Tasks, Types
<1>4. \A i \in Keys, j \in Steps :
          records'[i][j] = IF i = key[t] /\ j = step[t]
                           THEN [status |-> "failed", attempts |-> attempt[t]]
                           ELSE records[i][j]
    BY <1>1, <1>3, RecordsUpdate DEF FailStep, SaveRecord, Tasks, Types
<1>5. ASSUME NEW k \in Keys, NEW s \in Steps PROVE Taken(k, s)' <=> Taken(k, s)
    <2>1. CASE k = key[t] /\ s = step[t]
        BY <1>2, <1>4, <2>1 DEF Taken
    <2>2. CASE ~(k = key[t] /\ s = step[t])
        BY <1>4, <2>2 DEF Taken
    <2> QED
        BY <2>1, <2>2
<1> QED
    BY <1>5 DEF TakenBy

LEMMA TaskStepInOrder ==
    ASSUME Tasks, CheckpointsInOrder, NEW t \in Requests, TaskStep(t)
    PROVE  CheckpointsInOrder'
<1>o. \A u \in Requests : u # t => InOrder(u)'
    BY OthersInOrder
<1>k. key[t] \in Keys /\ step[t] \in Steps /\ key' = key
    BY OthersWait DEF Tasks, Types
<1>i. InOrder(t)
    BY DEF CheckpointsInOrder
<1>1. ASSUME Find(t) \/ CreateRun(t) PROVE InOrder(t)'
    <2>1. step' = step /\ pc'[t] \notin {"execute", "sleep", "save", "fail_step", "succeed"}
        BY <1>1 DEF Find, CreateRun, Goto, EndTask, Tasks, Types
    <2>2. step[t] = 1
        BY <1>1, <1>i DEF Find, CreateRun, InOrder
    <2> QED
        BY <1>k, <2>1, <2>2, StepsCounted DEF InOrder
<1>2. ASSUME CheckStep(t) PROVE InOrder(t)'
    <2>1. records' = records /\ Driving(t)
        BY <1>2 DEF CheckStep, rowVars, Driving
    <2>2. CASE Memoized(t) /\ Advance(t)
        <3>1. \A s \in Steps : s <= step[t] => Taken(key[t], s)'
            BY <1>i, <1>k, <2>1, <2>2, StepsCounted DEF InOrder, Memoized, RecordOf, Taken
        <3> QED
            BY <1>k, <2>1, <2>2, <3>1, AdvanceInOrder
    <2>3. CASE ~Memoized(t) /\ Goto(t, "execute") /\ step' = step
        BY <1>i, <1>k, <2>1, <2>3 DEF InOrder, Driving, Memoized, RecordOf, Taken, Goto, Tasks, Types
    <2> QED
        BY <1>2, <2>2, <2>3 DEF CheckStep
<1>3. ASSUME Execute(t) PROVE InOrder(t)'
    <2>1. ~Memoized(t) /\ Driving(t)
        BY <1>3, <1>i DEF Execute, Memoized, RecordOf, InOrder, Taken, Driving
    <2>2. records' = records /\ step' = step /\ pc'[t] \in {"save", "sleep", "fail_step"}
        BY <1>3, <2>1 DEF Execute, Outcome, Goto, rowVars, Tasks, Types
    <2> QED
        BY <1>i, <1>k, <2>1, <2>2 DEF InOrder, Driving, Memoized, RecordOf, Taken
<1>4. ASSUME Backoff(t) PROVE InOrder(t)'
    BY <1>i, <1>k, <1>4 DEF Backoff, Goto, rowVars, InOrder, Driving, Taken, Tasks, Types
<1>5. ASSUME SaveStep(t) PROVE InOrder(t)'
    <2>1. Driving(t) /\ Advance(t)
        BY <1>5 DEF SaveStep, Driving
    <2>2. \A s \in Steps : s <= step[t] => s \in TakenBy(key[t])'
        BY <1>5, <1>i, <1>k, <2>1, CheckpointTaken, StepsCounted DEF InOrder, TakenBy
    <2> QED
        BY <1>k, <2>1, <2>2, AdvanceInOrder DEF TakenBy
<1>6. ASSUME FailStep(t) PROVE InOrder(t)'
    <2>1. Driving(t) /\ step' = step /\ pc'[t] = "fail_run"
        BY <1>6 DEF FailStep, Driving, Goto, Tasks, Types
    <2>2. \A s \in Steps : s < step[t] => s \in TakenBy(key[t])'
        BY <1>6, <1>i, <1>k, <2>1, FailureTakesNothing DEF InOrder, TakenBy
    <2> QED
        BY <1>k, <2>1, <2>2 DEF InOrder, TakenBy
<1>7. ASSUME EndRun(t) PROVE InOrder(t)'
    BY <1>7 DEF EndRun, EndTask, Goto, InOrder, Driving, Tasks, Types
<1>8. InOrder(t)'
    BY <1>1, <1>2, <1>3, <1>4, <1>5, <1>6, <1>7 DEF TaskStep
<1> QED
    BY <1>o, <1>8 DEF CheckpointsInOrder

\* Requests, callers, cancellations and losses: none of them touches a record, a
\* task at work or its place; a new task begins with the first step.
LEMMA OthersKeepOrder ==
    ASSUME Tasks, CheckpointsInOrder, [Next]_vars, ~\E t \in Requests : TaskStep(t)
    PROVE  CheckpointsInOrder'
<1>1. records' = records /\ key' = key
    BY DEF Next, RequestStep, Submit, LookUp, AddRun, StartDirectly, LoseTask, Crash, Cancel,
        vars, rowVars, taskVars
<1>2. ASSUME NEW t \in Requests
      PROVE  \/ pc'[t] = pc[t] /\ step'[t] = step[t]
             \/ pc'[t] = "none"
             \/ pc'[t] = "find" /\ step'[t] = 1
    <2>t. pc \in [Requests -> TaskLabels] /\ step \in [Requests -> Steps]
        BY DEF Tasks, Types
    <2>1. ASSUME NEW q \in Requests, Spawn(q)
          PROVE  \/ pc'[t] = pc[t] /\ step'[t] = step[t]
                 \/ pc'[t] = "find" /\ step'[t] = 1
        BY <2>t, <2>1 DEF Spawn
    <2>2. ASSUME NEW q \in Requests, AddRun(q) \/ StartDirectly(q)
          PROVE  Spawn(q) \/ UNCHANGED <<pc, step>>
        BY <2>2 DEF AddRun, StartDirectly, taskVars
    <2>3. ASSUME NEW q \in Requests, LoseTask(q)
          PROVE  pc'[t] \in {pc[t], "none"} /\ step' = step
        BY <2>t, <2>3 DEF LoseTask, EndTask, Goto
    <2>4. CASE Crash
        BY <2>4 DEF Crash
    <2>5. ASSUME NEW q \in Requests, Submit(q) \/ LookUp(q) PROVE UNCHANGED <<pc, step>>
        BY <2>5 DEF Submit, LookUp, taskVars
    <2>6. ASSUME NEW k \in Keys, Cancel(k) PROVE UNCHANGED <<pc, step>>
        BY <2>6 DEF Cancel, taskVars
    <2>7. CASE UNCHANGED vars
        BY <2>7 DEF vars, taskVars
    <2> QED
        BY <2>1, <2>2, <2>3, <2>4, <2>5, <2>6, <2>7 DEF Next, RequestStep
<1> QED
    BY <1>1, <1>2 DEF CheckpointsInOrder, InOrder, Driving, Taken

LEMMA InitInOrder == Init => CheckpointsInOrder
BY DEF Init, CheckpointsInOrder, InOrder, Driving

Inv == Tasks /\ CheckpointsInOrder

LEMMA NextInv == ASSUME Inv, [Next]_vars PROVE Inv'
BY NextTasks, TaskStepInOrder, OthersKeepOrder DEF Inv

LEMMA InvHolds == Spec => []Inv
<1>1. Init => Inv
    BY InitTasks, InitInOrder DEF Inv
<1> QED
    BY <1>1, NextInv, PTL DEF Spec

\* What a step means for the row and the checkpoints of each run.
RowOf(k) == <<status[k], TakenBy(k)>>

LEMMA StepsFinite == IsFiniteSet(Steps) /\ Cardinality(Steps) = NumSteps
BY FS_Interval, InlineAssumption DEF Steps

LEMMA CountTaken ==
    ASSUME NEW k \in Keys
    PROVE  /\ Cardinality(TakenBy(k)) \in Nat
           /\ IsFiniteSet(TakenBy(k))
           /\ TakenBy(k) # Steps => Cardinality(TakenBy(k)) < NumSteps
<1>1. TakenBy(k) \subseteq Steps
    BY DEF TakenBy
<1> QED
    BY <1>1, StepsFinite, FS_Subset, FS_CardinalityType, InlineAssumption

\* A step of a task changes the row of its own run in one of four ways, or not.
LEMMA TaskStepOnRow ==
    ASSUME Inv, NEW t \in Requests, TaskStep(t), NEW k \in Kept, k = key[t]
    PROVE  \/ RowOf(k)' = RowOf(k)
           \/ /\ status[k] = "none" /\ status' = [status EXCEPT ![k] = "running"]
              /\ TakenBy(k)' = TakenBy(k)
           \/ /\ status[k] = "running" /\ status' = status
              /\ \E s \in Steps \ TakenBy(k) : TakenBy(k)' = TakenBy(k) \cup {s}
           \/ /\ status[k] = "running" /\ status' = [status EXCEPT ![k] = "succeeded"]
              /\ TakenBy(k) = Steps /\ TakenBy(k)' = TakenBy(k)
           \/ /\ status[k] = "running" /\ status' = [status EXCEPT ![k] = "failed"]
              /\ TakenBy(k)' = TakenBy(k)
<1>k. k \in Keys /\ key' = key
    BY OthersWait DEF Inv, Tasks, Types
<1>r. Driving(t) => status[k] = "running"
    BY <1>k DEF Kept, Inv, Tasks, DrivenRunning
<1>1. CASE UNCHANGED <<status, records>>
    BY <1>1, <1>k DEF RowOf, TakenBy, Taken
<1>2. CASE CreateRun(t)
    BY <1>2, <1>k DEF CreateRun, TakenBy, Taken
<1>3. CASE SaveStep(t)
    <2>1. Driving(t) /\ status' = status
        BY <1>3 DEF SaveStep, Driving
    <2> QED
        BY <1>3, <1>k, <1>r, <2>1, CheckpointTaken DEF Inv
<1>4. CASE FailStep(t)
    BY <1>4, <1>k, FailureTakesNothing DEF FailStep, RowOf, Inv
<1>5. CASE EndRun(t)
    <2>1. Driving(t) /\ records' = records
        BY <1>5 DEF EndRun, Driving
    <2>2. pc[t] = "succeed" => TakenBy(k) = Steps
        BY DEF Inv, CheckpointsInOrder, InOrder, TakenBy
    <2>3. TakenBy(k)' = TakenBy(k)
        BY <1>k, <2>1 DEF TakenBy, Taken
    <2> QED
        BY <1>5, <1>r, <2>1, <2>2, <2>3 DEF EndRun
<1> QED
    BY <1>1, <1>2, <1>3, <1>4, <1>5 DEF TaskStep, Find, CheckStep, Execute, Backoff, rowVars

\* What the others do to a row that nobody may cancel: they insert it.
LEMMA OthersOnRow ==
    ASSUME Inv, [Next]_vars, ~\E t \in Requests : TaskStep(t)
    PROVE  /\ \A k \in Keys : TakenBy(k)' = TakenBy(k)
           /\ \/ \A k \in Kept : status'[k] = status[k]
              \/ \E k \in Keys : status[k] = "none" /\ status' = [status EXCEPT ![k] = "running"]
<1>t. status \in [Keys -> {"none", "running"} \cup Terminal] /\ key \in [Requests -> Keys]
    BY DEF Inv, Tasks, Types
<1>1. ASSUME NEW q \in Requests, Submit(q) \/ LookUp(q) \/ StartDirectly(q) \/ LoseTask(q)
      PROVE  UNCHANGED <<status, records>>
    BY <1>1 DEF Submit, LookUp, StartDirectly, LoseTask, rowVars
<1>2. ASSUME NEW q \in Requests, AddRun(q)
      PROVE  /\ records' = records
             /\ \/ status' = status
                \/ status[key[q]] = "none" /\ status' = [status EXCEPT ![key[q]] = "running"]
    BY <1>2 DEF AddRun
<1>3. CASE Crash \/ UNCHANGED vars
    BY <1>3 DEF Crash, vars, rowVars, TakenBy, Taken
<1>4. ASSUME NEW k \in Keys, Cancel(k)
      PROVE  records' = records /\ \A m \in Kept : status'[m] = status[m]
    BY <1>t, <1>4 DEF Cancel, Kept
<1>5. records' = records
    BY <1>1, <1>2, <1>3, <1>4 DEF Next, RequestStep, Crash, vars, rowVars
<1>6. \A k \in Keys : TakenBy(k)' = TakenBy(k)
    BY <1>5 DEF TakenBy, Taken
<1>7. \/ \A k \in Kept : status'[k] = status[k]
      \/ \E k \in Keys : status[k] = "none" /\ status' = [status EXCEPT ![k] = "running"]
    BY <1>t, <1>1, <1>2, <1>3, <1>4 DEF Next, RequestStep, Crash, vars, rowVars
<1> QED
    BY <1>6, <1>7

\* The rows and the checkpoints, as DurableRun sees them.
StatusSeen == [k \in Kept |-> status[k]]
DoneSeen == [k \in Kept |-> Cardinality(TakenBy(k))]

LEMMA Seen ==
    /\ StatusSeen' = StatusSeen /\ DoneSeen' = DoneSeen => [Promise!Next]_(Promise!abstractVars)
    /\ Promise!Init <=> /\ StatusSeen = [k \in Kept |-> "none"]
                        /\ DoneSeen = [k \in Kept |-> 0]
    /\ \A k : Promise!Create(k) <=>
             /\ StatusSeen[k] = "none"
             /\ StatusSeen' = [StatusSeen EXCEPT ![k] = "running"]
             /\ DoneSeen' = DoneSeen
    /\ \A k : Promise!Checkpoint(k) <=>
             /\ StatusSeen[k] = "running"
             /\ DoneSeen[k] < NumSteps
             /\ DoneSeen' = [DoneSeen EXCEPT ![k] = @ + 1]
             /\ StatusSeen' = StatusSeen
    /\ \A k : Promise!Succeed(k) <=>
             /\ StatusSeen[k] = "running"
             /\ DoneSeen[k] = NumSteps
             /\ StatusSeen' = [StatusSeen EXCEPT ![k] = "succeeded"]
             /\ DoneSeen' = DoneSeen
    /\ \A k : Promise!Fail(k) <=>
             /\ StatusSeen[k] = "running"
             /\ StatusSeen' = [StatusSeen EXCEPT ![k] = "failed"]
             /\ DoneSeen' = DoneSeen
BY Zenon DEF StatusSeen, DoneSeen, TakenBy, Taken, Promise!abstractVars, Promise!Init, Promise!Create,
    Promise!Checkpoint, Promise!Succeed, Promise!Fail

LEMMA KeptKeys == Kept \subseteq Keys
BY DEF Kept

\* A status changed for one run, seen through the runs kept.
LEMMA StatusChanged ==
    ASSUME status \in [Keys -> {"none", "running"} \cup Terminal], NEW k \in Keys, NEW v,
           status' = [status EXCEPT ![k] = v]
    PROVE  /\ k \in Kept => StatusSeen' = [StatusSeen EXCEPT ![k] = v]
           /\ k \notin Kept => StatusSeen' = StatusSeen
BY KeptKeys DEF StatusSeen

LEMMA TaskStepKeepsPromise ==
    ASSUME Inv, NEW t \in Requests, TaskStep(t)
    PROVE  [Promise!Next]_(Promise!abstractVars)
<1>k. key[t] \in Keys /\ status \in [Keys -> {"none", "running"} \cup Terminal]
    BY DEF Inv, Tasks, Types
<1>p. PICK k \in Keys : k = key[t]
    BY <1>k
<1>1. \A m \in Keys : m # k => status'[m] = status[m] /\ TakenBy(m)' = TakenBy(m)
    BY <1>p, OthersWait DEF Inv, Tasks, TakenBy, Taken
<1>2. CASE k \notin Kept
    <2>1. StatusSeen' = StatusSeen /\ DoneSeen' = DoneSeen
        BY <1>1, <1>2, KeptKeys DEF StatusSeen, DoneSeen
    <2> QED
        BY <2>1, Seen
<1>3. CASE k \in Kept
    <2>1. TakenBy(k)' = TakenBy(k) => DoneSeen' = DoneSeen
        BY <1>1, KeptKeys DEF DoneSeen
    <2>2. StatusSeen[k] = status[k] /\ DoneSeen[k] = Cardinality(TakenBy(k))
        BY <1>3 DEF StatusSeen, DoneSeen
    <2>3. CASE RowOf(k)' = RowOf(k)
        <3>1. StatusSeen' = StatusSeen
            BY <1>1, <2>3, KeptKeys DEF RowOf, StatusSeen
        <3> QED
            BY <2>1, <2>3, <3>1, Seen DEF RowOf
    <2>4. CASE /\ status[k] = "none" /\ status' = [status EXCEPT ![k] = "running"]
               /\ TakenBy(k)' = TakenBy(k)
        <3>1. Promise!Create(k)
            BY <1>3, <1>k, <2>1, <2>2, <2>4, StatusChanged, Seen
        <3> QED
            BY <1>3, <3>1 DEF Promise!Next
    <2>5. CASE /\ status[k] = "running" /\ status' = status
               /\ \E s \in Steps \ TakenBy(k) : TakenBy(k)' = TakenBy(k) \cup {s}
        <3>1. PICK s \in Steps \ TakenBy(k) : TakenBy(k)' = TakenBy(k) \cup {s}
            BY <2>5
        <3>2. Cardinality(TakenBy(k)') = Cardinality(TakenBy(k)) + 1
            BY <1>k, <3>1, CountTaken, FS_AddElement
        <3>3. Cardinality(TakenBy(k)) < NumSteps
            BY <1>k, <3>1, CountTaken
        <3>4. DoneSeen' = [DoneSeen EXCEPT ![k] = @ + 1]
            BY <1>1, <1>3, <3>2, KeptKeys DEF DoneSeen
        <3>5. StatusSeen' = StatusSeen
            BY <2>5 DEF StatusSeen
        <3>6. Promise!Checkpoint(k)
            BY <2>2, <2>5, <3>3, <3>4, <3>5, Seen
        <3> QED
            BY <1>3, <3>6 DEF Promise!Next
    <2>6. CASE /\ status[k] = "running" /\ status' = [status EXCEPT ![k] = "succeeded"]
               /\ TakenBy(k) = Steps /\ TakenBy(k)' = TakenBy(k)
        <3>1. Promise!Succeed(k)
            BY <1>3, <1>k, <2>1, <2>2, <2>6, StatusChanged, StepsFinite, Seen
        <3> QED
            BY <1>3, <3>1 DEF Promise!Next
    <2>7. CASE /\ status[k] = "running" /\ status' = [status EXCEPT ![k] = "failed"]
               /\ TakenBy(k)' = TakenBy(k)
        <3>1. Promise!Fail(k)
            BY <1>3, <1>k, <2>1, <2>2, <2>7, StatusChanged, Seen
        <3> QED
            BY <1>3, <3>1 DEF Promise!Next
    <2> QED
        BY <1>3, <1>p, <2>3, <2>4, <2>5, <2>6, <2>7, TaskStepOnRow
<1> QED
    BY <1>2, <1>3

LEMMA OthersKeepPromise ==
    ASSUME Inv, [Next]_vars, ~\E t \in Requests : TaskStep(t)
    PROVE  [Promise!Next]_(Promise!abstractVars)
<1>t. status \in [Keys -> {"none", "running"} \cup Terminal]
    BY DEF Inv, Tasks, Types
<1>1. DoneSeen' = DoneSeen
    BY OthersOnRow, KeptKeys DEF DoneSeen
<1>2. CASE \A k \in Kept : status'[k] = status[k]
    BY <1>1, <1>2, Seen DEF StatusSeen
<1>3. ASSUME NEW k \in Keys, status[k] = "none", status' = [status EXCEPT ![k] = "running"]
      PROVE  [Promise!Next]_(Promise!abstractVars)
    <2>1. CASE k \in Kept
        <3>1. Promise!Create(k)
            BY <1>t, <1>1, <1>3, <2>1, StatusChanged, Seen DEF StatusSeen
        <3> QED
            BY <2>1, <3>1 DEF Promise!Next
    <2>2. CASE k \notin Kept
        BY <1>t, <1>1, <1>3, <2>2, StatusChanged, Seen
    <2> QED
        BY <2>1, <2>2
<1> QED
    BY <1>2, <1>3, OthersOnRow

\* InlineWorkflowEngine keeps what the WorkflowEngine port (ports/workflow.py)
\* promises of every run that nobody cancels: created once, checkpointed step by
\* step, ended exactly once, and succeeded only with every step checkpointed.
THEOREM InlineKeepsPromise == Spec => KeepsPromise
<1>1. Init => Promise!Init
    <2> SUFFICES ASSUME Init PROVE Promise!Init
        OBVIOUS
    <2>1. StatusSeen = [k \in Kept |-> "none"]
        BY KeptKeys DEF Init, StatusSeen
    <2>2. \A k \in Kept : TakenBy(k) = {}
        BY KeptKeys DEF Init, TakenBy, Taken, NoRecord
    <2>3. DoneSeen = [k \in Kept |-> 0]
        BY <2>2, FS_EmptySet DEF DoneSeen
    <2> QED
        BY <2>1, <2>3, Seen
<1>2. Inv /\ [Next]_vars => [Promise!Next]_(Promise!abstractVars)
    BY TaskStepKeepsPromise, OthersKeepPromise
<1> QED
    BY <1>1, <1>2, InvHolds, PTL DEF Spec, KeepsPromise, Promise!Spec

\* A checkpointed step is never run again and its record never rewritten (_drive and
\* BaseStep.execute both look it up first, and no second task is between the two).
THEOREM CheckpointsAreFinal == Spec => CheckpointIsFinal
<1> DEFINE Untouched == \A k \in Keys, s \in Steps :
                            records[k][s].status = "succeeded" =>
                                /\ records'[k][s] = records[k][s]
                                /\ bodies'[k][s] = bodies[k][s]
<1>1. ASSUME Inv, NEW t \in Requests, TaskStep(t) PROVE Untouched
    <2>t. key[t] \in Keys /\ step[t] \in Steps /\ attempt[t] \in Nat
          /\ records \in [Keys -> [Steps -> StepRows]] /\ bodies \in [Keys -> [Steps -> Nat]]
        BY <1>1 DEF Inv, Tasks, Types
    <2>i. pc[t] \in {"execute", "sleep", "save", "fail_step"} => ~Taken(key[t], step[t])
        BY <1>1 DEF Inv, CheckpointsInOrder, InOrder
    <2>1. CASE Execute(t)
        <3>1. ~Taken(key[t], step[t]) /\ records' = records
            BY <2>i, <2>1 DEF Execute, rowVars
        <3>2. EnterBody(t)
            BY <3>1, <2>1 DEF Execute, Memoized, RecordOf, Taken
        <3> QED
            BY <2>t, <3>1, <3>2, BodiesUpdate DEF EnterBody, Taken
    <2>2. CASE SaveStep(t) \/ FailStep(t)
        <3>1. ~Taken(key[t], step[t]) /\ bodies' = bodies
            BY <2>i, <2>2 DEF SaveStep, FailStep
        <3>2. RecordOf(t).attempts + 1 \in Nat
            BY <2>t DEF RecordOf, StepRows
        <3>3. PICK v \in StepRows : records' = [records EXCEPT ![key[t]][step[t]] = v]
            BY <2>t, <2>2, <3>2 DEF SaveStep, FailStep, SaveRecord, StepRows
        <3> QED
            BY <2>t, <3>1, <3>3, RecordsUpdate DEF Taken
    <2>3. CASE Find(t) \/ CreateRun(t) \/ CheckStep(t) \/ Backoff(t) \/ EndRun(t)
        BY <2>3 DEF Find, CreateRun, CheckStep, Backoff, EndRun, rowVars
    <2> QED
        BY <1>1, <2>1, <2>2, <2>3 DEF TaskStep
<1>2. ASSUME [Next]_vars, ~\E t \in Requests : TaskStep(t) PROVE Untouched
    BY <1>2 DEF Next, RequestStep, Submit, LookUp, AddRun, StartDirectly, LoseTask, Crash, Cancel,
        vars, rowVars, taskVars
<1>3. Inv /\ [Next]_vars => [Untouched]_vars
    BY <1>1, <1>2
<1> QED
    BY <1>3, InvHolds, PTL DEF Spec, CheckpointIsFinal

-------------------------------------------------------------------------------
(***************************************************************************)
(* Attempts: what a step may have spent when nobody works on it, and what  *)
(* the task that works on it may add.                                      *)
(***************************************************************************)

\* What the starts of a run that ended in a loss may have spent on a step.
Spent(s) == MaxAttempts[s] * crashes

AtCeiling == \A k \in Keys, s \in Steps : bodies[k][s] <= Spent(s) + MaxAttempts[s]

\* A run that has not ended and that no task drives is not charged for its last start.
Idle(k) ==
    status[k] \notin Terminal /\ (\A t \in Requests : Driving(t) => key[t] # k)
        => \A s \in Steps : bodies[k][s] <= Spent(s)

\* Neither is a step that the task has not reached.
Ahead(t) ==
    Driving(t) => \A s \in Steps : s > step[t] \/ (s = step[t] /\ pc[t] = "step")
                                     => bodies[key[t]][s] <= Spent(s)

\* While a body is tried it was entered once for every attempt before this one; a
\* step whose failure is on record has had them all and is granted one more.
Trial(t) ==
    pc[t] \in {"execute", "sleep"} =>
        /\ attempt[t] >= 1
        /\ bodies[key[t]][step[t]] <=
              Spent(step[t]) + (IF attempt[t] <= MaxAttempts[step[t]] THEN attempt[t] - 1 ELSE 0)

AttemptsCounted ==
    /\ AtCeiling
    /\ \A k \in Keys : Idle(k)
    /\ \A t \in Requests : Ahead(t) /\ Trial(t)

LEMMA SpentCounted ==
    ASSUME Types, NEW s \in Steps
    PROVE  /\ Spent(s) \in Nat
           /\ MaxAttempts[s] * (1 + crashes) = Spent(s) + MaxAttempts[s]
           /\ crashes' = crashes => Spent(s)' = Spent(s)
           /\ crashes' = crashes + 1 => Spent(s)' = Spent(s) + MaxAttempts[s]
<1>1. MaxAttempts[s] \in Nat /\ crashes \in Nat
    BY StepsCounted DEF Types
<1> QED
    BY <1>1 DEF Spent

LEMMA InitCounted == Init => AttemptsCounted
<1> SUFFICES ASSUME Init PROVE AttemptsCounted
    OBVIOUS
<1>1. Types
    BY InitTasks DEF Tasks
<1>2. \A s \in Steps : Spent(s) \in Nat /\ MaxAttempts[s] \in Nat
    BY <1>1, SpentCounted, StepsCounted
<1>3. \A k \in Keys, s \in Steps : bodies[k][s] = 0
    BY DEF Init
<1>4. AtCeiling /\ \A k \in Keys : Idle(k)
    BY <1>2, <1>3 DEF AtCeiling, Idle
<1>5. \A t \in Requests : Ahead(t) /\ Trial(t)
    BY DEF Init, Ahead, Trial, Driving
<1> QED
    BY <1>4, <1>5 DEF AttemptsCounted

\* The runs of other tasks.
LEMMA OthersCounted ==
    ASSUME Inv, AttemptsCounted, NEW t \in Requests, TaskStep(t)
    PROVE  /\ \A k \in Keys, s \in Steps :
                 k # key[t] => bodies'[k][s] <= Spent(s)' + MaxAttempts[s]
           /\ \A k \in Keys : k # key[t] => Idle(k)'
           /\ \A u \in Requests : u # t => Ahead(u)' /\ Trial(u)'
<1>t. Types /\ key \in [Requests -> Keys] /\ step \in [Requests -> Steps]
    BY DEF Inv, Tasks, Types
<1>s. \A s \in Steps : Spent(s)' = Spent(s)
    BY <1>t, SpentCounted, OthersWait
<1>1. \A k \in Keys, s \in Steps :
          k # key[t] => bodies'[k][s] <= Spent(s)' + MaxAttempts[s]
    BY <1>t, <1>s, OthersWait DEF AttemptsCounted, AtCeiling
<1>2. ASSUME NEW k \in Keys, k # key[t] PROVE Idle(k)'
    <2>1. bodies'[k] = bodies[k] /\ status'[k] = status[k] /\ key' = key
        BY <1>t, <1>2, OthersWait
    <2>2. \A u \in Requests : key[u] = k => (Driving(u)' <=> Driving(u))
        BY <1>t, <1>2, OthersWait DEF Driving
    <2>3. Idle(k)
        BY DEF AttemptsCounted
    <2> QED
        BY <1>s, <2>1, <2>2, <2>3 DEF Idle
<1>3. ASSUME NEW u \in Requests, u # t PROVE Ahead(u)' /\ Trial(u)'
    <2>1. UNCHANGED <<key[u], pc[u], step[u], attempt[u]>>
        BY <1>t, <1>3, OthersWait
    <2>2. CASE pc[u] = "none"
        BY <2>1, <2>2 DEF Ahead, Trial, Driving
    <2>3. CASE pc[u] # "none"
        <3>1. bodies'[key[u]] = bodies[key[u]]
            BY <1>t, <1>3, <2>3, OthersWait DEF Inv, Tasks, OneTask
        <3>2. Ahead(u) /\ Trial(u) /\ step[u] \in Steps
            BY <1>t DEF AttemptsCounted
        <3> QED
            BY <1>s, <2>1, <3>1, <3>2 DEF Ahead, Trial, Driving
    <2> QED
        BY <2>2, <2>3
<1> QED
    BY <1>1, <1>2, <1>3

\* The run of the task that moves.
LEMMA OwnCounted ==
    ASSUME Inv, AttemptsCounted, NEW t \in Requests, TaskStep(t), NEW k \in Keys, k = key[t]
    PROVE  /\ \A s \in Steps : bodies'[k][s] <= Spent(s)' + MaxAttempts[s]
           /\ Idle(k)'
           /\ Ahead(t)' /\ Trial(t)'
<1>t. Types /\ key' = key /\ crashes' = crashes /\ step[t] \in Steps /\ attempt[t] \in Nat
    BY OthersWait DEF Inv, Tasks, Types
<1>s. \A s \in Steps : /\ Spent(s)' = Spent(s) /\ Spent(s) \in Nat
                        /\ MaxAttempts[s] \in Nat /\ MaxAttempts[s] >= 1
                        /\ bodies[k][s] \in Nat /\ s \in Nat
    BY <1>t, SpentCounted, StepsCounted DEF Types
<1>b. \A s \in Steps : bodies[k][s] <= Spent(s) + MaxAttempts[s]
    BY DEF AttemptsCounted, AtCeiling
<1>a. Idle(k) /\ Ahead(t) /\ Trial(t)
    BY DEF AttemptsCounted
<1>o. pc[t] # "none" => \A u \in Requests : u # t /\ key[u] = k => pc[u] = "none"
    BY DEF Inv, Tasks, OneTask
<1>1. CASE Find(t) \/ CreateRun(t)
    <2>1. bodies' = bodies /\ pc[t] \in {"find", "create"}
          /\ pc'[t] \in {"none", "create", "step"}
        BY <1>1, <1>t DEF Find, CreateRun, Goto, EndTask, Types
    <2>2. \A u \in Requests : Driving(u) => key[u] # k
        BY <1>o, <2>1 DEF Driving
    <2>3. \/ \A s \in Steps : bodies[k][s] <= Spent(s)
          \/ status'[k] \in Terminal /\ pc'[t] = "none"
        BY <1>1, <1>a, <1>t, <2>2 DEF Find, CreateRun, Idle, Terminal, Goto, EndTask, rowVars, Types
    <2>4. Idle(k)'
        BY <1>s, <2>1, <2>3 DEF Idle
    <2>5. Ahead(t)' /\ Trial(t)'
        <3>1. step' = step
            BY <1>1 DEF Find, CreateRun
        <3> QED
            BY <1>s, <1>t, <2>1, <2>3, <3>1 DEF Ahead, Trial, Driving
    <2> QED
        BY <1>b, <1>s, <2>1, <2>4, <2>5
<1>2. ASSUME Driving(t), Advance(t), bodies' = bodies
      PROVE  Idle(k)' /\ Ahead(t)' /\ Trial(t)'
    <2>1. \/ pc'[t] = "succeed" /\ step'[t] = step[t]
          \/ pc'[t] = "step" /\ step'[t] = step[t] + 1
        BY <1>2, <1>t DEF Advance, Goto, AfterStep, Types
    <2>2. Idle(k)'
        BY <1>t, <2>1 DEF Idle, Driving
    <2>3. Ahead(t)' /\ Trial(t)'
        BY <1>2, <1>a, <1>s, <1>t, <2>1 DEF Ahead, Trial, Driving
    <2> QED
        BY <2>2, <2>3
<1>3. CASE CheckStep(t)
    <2>1. bodies' = bodies /\ Driving(t) /\ pc[t] = "step"
        BY <1>3 DEF CheckStep, Driving
    <2>2. CASE Advance(t)
        BY <1>2, <1>b, <1>s, <2>1, <2>2
    <2>3. CASE ~Advance(t)
        <3>1. RecordOf(t).attempts + 1 \in Nat \ {0}
            BY <1>t DEF RecordOf, StepRows, Types
        <3>2. pc'[t] = "execute" /\ step'[t] = step[t] /\ attempt'[t] \in Nat /\ attempt'[t] >= 1
            BY <1>3, <1>t, <2>3, <3>1 DEF CheckStep, Goto, Types
        <3>3. Idle(k)'
            BY <1>t, <3>2 DEF Idle, Driving
        <3>4. Ahead(t)' /\ Trial(t)'
            BY <1>a, <1>s, <1>t, <2>1, <3>2 DEF Ahead, Trial, Driving
        <3> QED
            BY <1>b, <1>s, <2>1, <3>3, <3>4
    <2> QED
        BY <2>2, <2>3
<1>4. CASE Execute(t)
    <2>1. pc[t] = "execute" /\ step' = step /\ EnterBody(t) /\ Outcome(t, "save", "sleep", "fail_step")
        BY <1>4 DEF Execute, Memoized, RecordOf, Inv, CheckpointsInOrder, InOrder, Taken, Driving
    <2>2. \A s \in Steps : bodies'[k][s] = IF s = step[t] THEN bodies[k][s] + 1 ELSE bodies[k][s]
        BY <1>t, <2>1, BodiesUpdate DEF EnterBody, Types
    <2>3. /\ pc'[t] \in {"save", "sleep", "fail_step"}
          /\ pc'[t] = "sleep" => attempt[t] < MaxAttempts[step[t]] /\ attempt'[t] = attempt[t] + 1
        BY <1>t, <2>1 DEF Outcome, RetryAllowed, Goto, Types
    <2>4. bodies[k][step[t]] <= Spent(step[t])
             + (IF attempt[t] <= MaxAttempts[step[t]] THEN attempt[t] - 1 ELSE 0) /\ attempt[t] >= 1
        BY <1>a, <2>1 DEF Trial
    <2>5. \A s \in Steps : bodies'[k][s] <= Spent(s)' + MaxAttempts[s]
        BY <1>b, <1>s, <1>t, <2>2, <2>4
    <2>6. Idle(k)'
        BY <1>t, <2>3 DEF Idle, Driving
    <2>7. Ahead(t)'
        BY <1>a, <1>s, <1>t, <2>1, <2>2, <2>3 DEF Ahead, Driving
    <2>8. Trial(t)'
        BY <1>s, <1>t, <2>1, <2>2, <2>3, <2>4 DEF Trial
    <2> QED
        BY <2>5, <2>6, <2>7, <2>8
<1>5. CASE Backoff(t)
    <2>1. /\ bodies' = bodies /\ step' = step /\ attempt' = attempt
          /\ pc[t] = "sleep" /\ pc'[t] = "execute"
        BY <1>5, <1>t DEF Backoff, Goto, Types
    <2>2. Idle(k)'
        BY <1>t, <2>1 DEF Idle, Driving
    <2>3. Ahead(t)' /\ Trial(t)'
        BY <1>a, <1>s, <1>t, <2>1 DEF Ahead, Trial, Driving
    <2> QED
        BY <1>b, <1>s, <2>1, <2>2, <2>3
<1>6. CASE SaveStep(t)
    BY <1>2, <1>6, <1>b, <1>s DEF SaveStep, Driving
<1>7. CASE FailStep(t)
    <2>1. bodies' = bodies /\ step' = step /\ pc[t] = "fail_step" /\ pc'[t] = "fail_run"
        BY <1>7, <1>t DEF FailStep, Goto, Types
    <2>2. Idle(k)'
        BY <1>t, <2>1 DEF Idle, Driving
    <2>3. Ahead(t)' /\ Trial(t)'
        BY <1>a, <1>s, <1>t, <2>1 DEF Ahead, Trial, Driving
    <2> QED
        BY <1>b, <1>s, <2>1, <2>2, <2>3
<1>8. CASE EndRun(t)
    <2>1. bodies' = bodies /\ pc'[t] = "none" /\ status'[k] \in Terminal
        BY <1>8, <1>t DEF EndRun, EndTask, Goto, Terminal, Types
    <2> QED
        BY <1>b, <1>s, <2>1 DEF Idle, Ahead, Trial, Driving
<1> QED
    BY <1>1, <1>3, <1>4, <1>5, <1>6, <1>7, <1>8 DEF TaskStep

LEMMA TaskStepCounted ==
    ASSUME Inv, AttemptsCounted, NEW t \in Requests, TaskStep(t)
    PROVE  AttemptsCounted'
<1>1. PICK k \in Keys : k = key[t]
    BY DEF Inv, Tasks, Types
<1> QED
    BY <1>1, OthersCounted, OwnCounted DEF AttemptsCounted, AtCeiling

\* A loss charges every step with a whole round of attempts, used up or not.
LEMMA LossCounted ==
    ASSUME Inv, AttemptsCounted, Crash \/ \E t \in Requests : LoseTask(t)
    PROVE  AttemptsCounted'
<1>t. Types /\ step \in [Requests -> Steps] /\ key \in [Requests -> Keys]
    BY DEF Inv, Tasks, Types
<1>1. UNCHANGED <<bodies, step, attempt, key>> /\ crashes' = crashes + 1
    BY DEF Crash, LoseTask
<1>2. \A u \in Requests : pc'[u] \in {pc[u], "none"}
    BY <1>t DEF Crash, LoseTask, EndTask, Goto, Types
<1>s. \A s \in Steps : /\ Spent(s)' = Spent(s) + MaxAttempts[s]
                        /\ Spent(s) \in Nat /\ MaxAttempts[s] \in Nat
    BY <1>t, <1>1, SpentCounted, StepsCounted
<1>3. \A k \in Keys, s \in Steps : bodies'[k][s] <= Spent(s)' /\ bodies[k][s] \in Nat
    BY <1>t, <1>1, <1>s DEF AttemptsCounted, AtCeiling, Types
<1>4. AtCeiling' /\ \A k \in Keys : Idle(k)'
    BY <1>1, <1>s, <1>3 DEF AtCeiling, Idle
<1>5. ASSUME NEW u \in Requests PROVE Ahead(u)' /\ Trial(u)'
    <2>1. Trial(u) /\ attempt[u] \in Nat /\ MaxAttempts[step[u]] \in Nat /\ step[u] \in Steps /\ key[u] \in Keys
        BY <1>t, StepsCounted DEF AttemptsCounted, Types
    <2>2. Ahead(u)'
        BY <1>t, <1>1, <1>3 DEF Ahead
    <2>3. Trial(u)'
        BY <1>1, <1>2, <1>3, <1>s, <2>1 DEF Trial
    <2> QED
        BY <2>2, <2>3
<1> QED
    BY <1>4, <1>5 DEF AttemptsCounted

LEMMA RestCounted ==
    ASSUME Inv, AttemptsCounted, [Next]_vars, ~\E t \in Requests : TaskStep(t) \/ LoseTask(t), ~Crash
    PROVE  AttemptsCounted'
<1>t. Types
    BY DEF Inv, Tasks
<1>1. UNCHANGED <<bodies, key, crashes>>
    BY DEF Next, RequestStep, Submit, LookUp, AddRun, StartDirectly, Cancel, vars
<1>2. ASSUME NEW u \in Requests
      PROVE  \/ UNCHANGED <<pc[u], step[u], attempt[u]>>
             \/ pc'[u] = "find" /\ pc[u] = "none"
    <2>1. ASSUME NEW q \in Requests, AddRun(q)
          PROVE  (pc[q] = "none" /\ Spawn(q)) \/ UNCHANGED taskVars
        BY <2>1 DEF AddRun, Inv, Tasks, Unborn
    <2>2. ASSUME NEW q \in Requests, StartDirectly(q) PROVE pc[q] = "none" /\ Spawn(q)
        BY <2>2 DEF StartDirectly
    <2>3. ASSUME NEW q \in Requests, (pc[q] = "none" /\ Spawn(q)) \/ UNCHANGED taskVars
          PROVE  \/ UNCHANGED <<pc[u], step[u], attempt[u]>>
                 \/ pc'[u] = "find" /\ pc[u] = "none"
        BY <1>t, <2>3 DEF Spawn, taskVars, Types
    <2>4. ASSUME ~\E q \in Requests : AddRun(q) \/ StartDirectly(q) PROVE UNCHANGED taskVars
        BY <2>4 DEF Next, RequestStep, Submit, LookUp, Cancel, vars, taskVars
    <2> QED
        BY <2>1, <2>2, <2>3, <2>4 DEF taskVars
<1>3. \A u \in Requests : Driving(u)' <=> Driving(u)
    BY <1>2 DEF Driving
<1>4. ASSUME NEW k \in Keys PROVE status'[k] \notin Terminal => status[k] \notin Terminal
    <2>1. ASSUME NEW q \in Requests, AddRun(q)
          PROVE  \/ status' = status
                 \/ status[key[q]] = "none" /\ status' = [status EXCEPT ![key[q]] = "running"]
        BY <2>1 DEF AddRun
    <2>2. ASSUME NEW m \in Keys, Cancel(m) PROVE status' = [status EXCEPT ![m] = "failed"]
        BY <2>2 DEF Cancel
    <2>3. ASSUME ~\E q \in Requests : AddRun(q), ~\E m \in Keys : Cancel(m) PROVE status' = status
        BY <2>3 DEF Next, RequestStep, Submit, LookUp, StartDirectly, vars, rowVars
    <2> QED
        BY <1>t, <2>1, <2>2, <2>3 DEF Types, Terminal
<1>s. \A s \in Steps : Spent(s)' = Spent(s)
    BY <1>t, <1>1, SpentCounted
<1>5. AtCeiling'
    BY <1>1, <1>s DEF AttemptsCounted, AtCeiling
<1>6. \A k \in Keys : Idle(k)'
    BY <1>1, <1>3, <1>4, <1>s DEF AttemptsCounted, Idle
<1>7. ASSUME NEW u \in Requests PROVE Ahead(u)' /\ Trial(u)'
    <2>1. CASE pc'[u] = "find"
        BY <2>1 DEF Ahead, Trial, Driving
    <2>2. CASE UNCHANGED <<pc[u], step[u], attempt[u]>>
        <3>1. step[u] \in Steps /\ Ahead(u) /\ Trial(u)
            BY <1>t DEF AttemptsCounted, Types
        <3> QED
            BY <1>1, <1>s, <2>2, <3>1 DEF Ahead, Trial, Driving
    <2> QED
        BY <1>2, <2>1, <2>2
<1> QED
    BY <1>5, <1>6, <1>7 DEF AttemptsCounted

\* _drive and BaseStep.execute: a step's body is entered at most max_attempts times for
\* every start of its run, however often the process or a task of it was lost.
THEOREM AttemptsAreBounded == Spec => []AttemptsBounded
<1>1. Inv /\ AttemptsCounted /\ [Next]_vars => AttemptsCounted'
    BY TaskStepCounted, LossCounted, RestCounted
<1>2. Inv /\ AttemptsCounted => AttemptsBounded
    BY SpentCounted DEF Inv, Tasks, AttemptsCounted, AtCeiling, AttemptsBounded
<1> QED
    BY <1>1, <1>2, InitCounted, InvHolds, PTL DEF Spec

===============================================================================
