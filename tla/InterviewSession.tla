--------------------------- MODULE InterviewSession ---------------------------
(***************************************************************************)
(* One interview session: the candidate's requests (submit_turn, finish)   *)
(* against the workers that drive its turn runs and its evaluation run.    *)
(* They share the session row, the turn rows, the staged uploads and the   *)
(* report, and no lock: each reads a row, awaits, and writes it back whole.*)
(* Every read and every commit is a step of its own.                       *)
(*                                                                         *)
(* The engine is reduced to what RedisStreams shows of it: a running run   *)
(* is driven by one worker at a time, a run that lost its driver is driven *)
(* again, and a checkpointed step does not run twice.                      *)
(***************************************************************************)
EXTENDS Naturals, FiniteSets

CONSTANTS
    Requests,          \* the candidate's HTTP requests that may be in flight
    Drivers,           \* the workers
    MaxTurns,          \* settings.session_max_turns
    IntakeAttempts,    \* _INTAKE_ATTEMPTS_BEFORE_FALLBACK
    MaxCrashes,        \* bound: workers lost (or retries deferred) in mid-run
    MaxErrors          \* bound: runs failed by a permanent error

ASSUME SessionAssumption ==
    /\ MaxTurns \in Nat
    /\ IntakeAttempts \in Nat
    /\ MaxCrashes \in Nat
    /\ MaxErrors \in Nat

VARIABLES
    session,     \* the session row: its phase, and the rounds its name and coverage reflect
    rows,        \* the turn rows, by index: 2n the reply of round n, 2n + 1 what it was told
    upload,      \* the bytes staged for a round: whose request they came with
    outcome,     \* compose's checkpoint
    collected,   \* collect_answers' checkpoint: the rounds whose reply is scored
    reports,     \* the report rows of the session, by the rounds they score
    run,         \* the status of the runs, "none" before there is one
    todo,        \* a run's first step without a checkpoint
    drive,       \* the run a worker drives
    at,          \* where in it
    snap,        \* the session as the worker last read it
    asking,      \* where a request stands
    index,       \* the turn_index it computed
    seen,        \* the session as require_candidate_session read it
    crashes,
    errors

rowVars     == <<session, rows, upload, reports>>
recordVars  == <<outcome, collected, todo>>
driverVars  == <<drive, at, snap>>
requestVars == <<asking, index, seen>>
faultVars   == <<crashes, errors>>
vars == <<rowVars, recordVars, run, driverVars, requestVars, faultVars>>

Lifecycle == INSTANCE SessionLifecycle WITH phase <- session.phase

\* The runs of the session: one per round, keyed session:turn_index, and one
\* keyed session:report.
Rounds == 0..(MaxTurns - 1)
Report == MaxTurns
Keys   == 0..MaxTurns

FreshSession == [phase |-> "intake", noted |-> {}]
NoOutcome == [session |-> FreshSession, kind |-> "none"]

Reply(n) == 2 * n
Told(n)  == 2 * n + 1
AddRow(i) == rows' = rows \cup {i}
TurnCount == Cardinality(rows)

\* The whole row is written back; a report is replaced if there is one.
UpdateSession(s) == session' = s
UpsertReport(scored) == reports' = {scored}
UpdateRun(k, status) == run' = [run EXCEPT ![k] = status]

Advanced(s, event) == [s EXCEPT !.phase = Lifecycle!After(s.phase, event)]

Init ==
    /\ session = FreshSession
    /\ rows = {}
    /\ upload = [n \in Rounds |-> {}]
    /\ outcome = [n \in Rounds |-> NoOutcome]
    /\ collected = {}
    /\ reports = {}
    /\ run = [k \in Keys |-> "none"]
    /\ todo = [k \in Keys |-> IF k = Report THEN "collect_answers" ELSE "persist_audio"]
    /\ drive = [d \in Drivers |-> 0]
    /\ at = [d \in Drivers |-> "free"]
    /\ snap = [d \in Drivers |-> FreshSession]
    /\ asking = [q \in Requests |-> "idle"]
    /\ index = [q \in Requests |-> 0]
    /\ seen = [q \in Requests |-> FreshSession]
    /\ crashes = 0
    /\ errors = 0

-------------------------------------------------------------------------------
(***************************************************************************)
(* The API.  A request that is refused (409) changes nothing.              *)
(***************************************************************************)

OpenPhases == {"intake", "questioning"}
FinishAnyPhase == OpenPhases \cup {"closing", "evaluating", "completed"}
FinishPhases == {"closing", "evaluating", "completed"}

\* _start_run: the row is added unless its key exists, whatever its status.
StartRun(k) == run' = [run EXCEPT ![k] = IF @ = "none" THEN "running" ELSE @]

Respond(q) ==
    /\ asking' = [asking EXCEPT ![q] = "idle"]
    /\ index' = [index EXCEPT ![q] = 0]
    /\ seen' = [seen EXCEPT ![q] = FreshSession]

SubmitTurn(q) ==
    /\ asking[q] = "idle"
    /\ session.phase \in OpenPhases
    /\ asking' = [asking EXCEPT ![q] = "count"]
    /\ UNCHANGED <<rowVars, recordVars, run, driverVars, index, seen, faultVars>>

NextIndexAfterReply == (TurnCount + 1) \div 2
NextIndex == TurnCount \div 2

CountTurnsUncapped(q) ==
    /\ asking[q] = "count"
    /\ index' = [index EXCEPT ![q] = NextIndex]
    /\ asking' = [asking EXCEPT ![q] = "stage"]
    /\ UNCHANGED <<rowVars, recordVars, run, driverVars, seen, faultVars>>

CountTurns(q) ==
    /\ asking[q] = "count"
    /\ \/ /\ NextIndex < MaxTurns
          /\ index' = [index EXCEPT ![q] = NextIndex]
          /\ asking' = [asking EXCEPT ![q] = "stage"]
          /\ UNCHANGED seen
       \/ /\ NextIndex >= MaxTurns
          /\ Respond(q)
    /\ UNCHANGED <<rowVars, recordVars, run, driverVars, faultVars>>

\* A blob is overwritten.
Put(n, content) == upload' = [upload EXCEPT ![n] = content]

\* The staging key is the round's: a second upload replaces the first.
StageUpload(q) ==
    /\ asking[q] = "stage"
    /\ Put(index[q], {q})
    /\ asking' = [asking EXCEPT ![q] = "start"]
    /\ UNCHANGED <<session, rows, reports, recordVars, run, driverVars, index, seen, faultVars>>

StartTurnBeforeUpload(q) ==
    /\ asking[q] = "stage"
    /\ StartRun(index[q])
    /\ UNCHANGED <<rowVars, recordVars, driverVars, requestVars, faultVars>>

StartTurn(q) ==
    /\ asking[q] = "start"
    /\ StartRun(index[q])
    /\ Respond(q)
    /\ UNCHANGED <<rowVars, recordVars, driverVars, faultVars>>

Finish(q) ==
    /\ asking[q] = "idle"
    /\ session.phase \in FinishPhases
    /\ seen' = [seen EXCEPT ![q] = session]
    /\ asking' = [asking EXCEPT ![q] =
                     IF session.phase = "closing" THEN "evaluate" ELSE "report"]
    /\ UNCHANGED <<rowVars, recordVars, run, driverVars, index, faultVars>>

StartEvaluation(q) ==
    /\ asking[q] = "evaluate"
    /\ UpdateSession(Advanced(seen[q], "start_evaluation"))
    /\ asking' = [asking EXCEPT ![q] = "report"]
    /\ UNCHANGED <<rows, upload, reports, recordVars, run, driverVars, index, seen, faultVars>>

StartReport(q) ==
    /\ asking[q] = "report"
    /\ StartRun(Report)
    /\ Respond(q)
    /\ UNCHANGED <<rowVars, recordVars, driverVars, faultVars>>

\* The API process stops, or storage or the database fails the request.
LoseRequest(q) ==
    /\ asking[q] # "idle"
    /\ Respond(q)
    /\ UNCHANGED <<rowVars, recordVars, run, driverVars, faultVars>>

-------------------------------------------------------------------------------
(***************************************************************************)
(* A worker drives a run: it enters at the first step without a checkpoint.*)
(***************************************************************************)

Take(d) ==
    /\ at[d] = "free"
    /\ \E k \in Keys :
          /\ run[k] = "running"
          /\ \A e \in Drivers : at[e] = "free" \/ drive[e] # k
          /\ drive' = [drive EXCEPT ![d] = k]
          /\ at' = [at EXCEPT ![d] = todo[k]]
    /\ UNCHANGED <<rowVars, recordVars, run, snap, requestVars, faultVars>>

Release(d) ==
    /\ drive' = [drive EXCEPT ![d] = 0]
    /\ at' = [at EXCEPT ![d] = "free"]
    /\ snap' = [snap EXCEPT ![d] = FreshSession]

EndRun(d, verdict) ==
    /\ UpdateRun(drive[d], verdict)
    /\ Release(d)

Goto(d, label) == at' = [at EXCEPT ![d] = label]

\* The step's output is saved and the drive moves to the next one.
Checkpoint(d, step) ==
    /\ todo' = [todo EXCEPT ![drive[d]] = step]
    /\ Goto(d, step)

-------------------------------------------------------------------------------
(***************************************************************************)
(* The turn workflow.  synthesize touches no row but its own checkpoint    *)
(* (reply_mode is "text") and is left out.                                 *)
(***************************************************************************)

\* persist_audio and transcribe read the staged bytes, which are there
\* (BytesBeforeRun), and keep what they made of them in their checkpoints alone.
PersistAudio(d) ==
    /\ at[d] = "persist_audio"
    /\ Checkpoint(d, "transcribe")
    /\ UNCHANGED <<rowVars, outcome, collected, run, drive, snap, requestVars, faultVars>>

Transcribe(d) ==
    /\ at[d] = "transcribe"
    /\ Checkpoint(d, "compose")
    /\ UNCHANGED <<rowVars, outcome, collected, run, drive, snap, requestVars, faultVars>>

ComposeReads(d) ==
    /\ at[d] = "compose"
    /\ snap' = [snap EXCEPT ![d] = session]
    /\ Goto(d, "history")
    /\ UNCHANGED <<rowVars, recordVars, run, drive, requestVars, faultVars>>

\* build_history: the rounds whose interviewer row is there, by its kind.
ToldRounds(kind) == {n \in Rounds : Told(n) \in rows /\ outcome[n].kind = kind}


\* TurnPipeline.run, with the model, the policy and the completion rule left
\* open: what counts as an answer is no concern of this module.  Any other
\* phase, or a history that asked nothing, raises.
Moved(s, n, phase, kind) ==
    [session |-> [phase |-> phase, noted |-> s.noted \cup {n}], kind |-> kind]

IntakeOutcomes(s, n) ==
    LET asked == Cardinality(ToldRounds("intake"))
        named == Moved(s, n, Lifecycle!After(s.phase, "register_name"), "question")
        again == Moved(s, n, s.phase, "intake")
    IN  IF asked + 1 < IntakeAttempts THEN {named, again} ELSE {named}

QuestionOutcomes(s, n) ==
    LET answered == Lifecycle!After(s.phase, "record_answer")
    IN  {Moved(s, n, answered, "question"),
         Moved(s, n, Lifecycle!After(answered, "reach_closing"), "closing")}

OutcomesAnyPhase(s, n) ==
    IF s.phase = "intake" THEN IntakeOutcomes(s, n)
    ELSE QuestionOutcomes([s EXCEPT !.phase = "questioning"], n)

Outcomes(s, n) ==
    IF s.phase = "intake" THEN IntakeOutcomes(s, n)
    ELSE IF Lifecycle!Allows(s.phase, "record_answer") /\ ToldRounds("question") # {}
    THEN QuestionOutcomes(s, n)
    ELSE {}

Compose(d) ==
    /\ at[d] = "history"
    /\ LET possible == Outcomes(snap[d], drive[d])
       IN  \/ \E o \in possible :
                 /\ outcome' = [outcome EXCEPT ![drive[d]] = o]
                 /\ Checkpoint(d, "commit_turn")
                 /\ UNCHANGED <<run, drive, snap>>
           \/ /\ possible = {}
              /\ EndRun(d, "failed")
              /\ UNCHANGED <<outcome, todo>>
    /\ UNCHANGED <<rowVars, collected, requestVars, faultVars>>

\* commit_turn inserts two rows and updates the session, each in a transaction
\* of its own.  A row that is already there violates the unique (session_id,
\* index): the insert raises and the run fails.
CommitReply(d) ==
    /\ at[d] = "commit_turn"
    /\ \/ /\ Reply(drive[d]) \notin rows
          /\ AddRow(Reply(drive[d]))
          /\ Goto(d, "told")
          /\ UNCHANGED <<run, drive, snap>>
       \/ /\ Reply(drive[d]) \in rows
          /\ EndRun(d, "failed")
          /\ UNCHANGED rows
    /\ UNCHANGED <<session, upload, reports, recordVars, requestVars, faultVars>>

CommitTold(d) ==
    /\ at[d] = "told"
    /\ \/ /\ Told(drive[d]) \notin rows
          /\ AddRow(Told(drive[d]))
          /\ Goto(d, "session")
          /\ UNCHANGED <<run, drive, snap>>
       \/ /\ Told(drive[d]) \in rows
          /\ EndRun(d, "failed")
          /\ UNCHANGED rows
    /\ UNCHANGED <<session, upload, reports, recordVars, requestVars, faultVars>>

CommitSessionSkipped(d) ==
    /\ at[d] = "session"
    /\ Goto(d, "committed")
    /\ UNCHANGED <<rowVars, recordVars, run, drive, snap, requestVars, faultVars>>

CommitSession(d) ==
    /\ at[d] = "session"
    /\ UpdateSession(outcome[drive[d]].session)
    /\ Goto(d, "committed")
    /\ UNCHANGED <<rows, upload, reports, recordVars, run, drive, snap, requestVars, faultVars>>

EndTurn(d) ==
    /\ at[d] = "committed"
    /\ EndRun(d, "succeeded")
    /\ UNCHANGED <<rowVars, recordVars, requestVars, faultVars>>

-------------------------------------------------------------------------------
(***************************************************************************)
(* The evaluation workflow.                                                *)
(***************************************************************************)

\* The rounds whose reply answers a question: the round before asked one.
Scored == {n \in Rounds : Reply(n) \in rows /\ \E m \in ToldRounds("question") : n = m + 1}

\* collect_answers, and score, which touches nothing but its own checkpoint.
CollectAnswers(d) ==
    /\ at[d] = "collect_answers"
    /\ collected' = Scored
    /\ Checkpoint(d, "commit_report")
    /\ UNCHANGED <<rowVars, outcome, run, drive, snap, requestVars, faultVars>>

ReportReads(d) ==
    /\ at[d] = "commit_report"
    /\ snap' = [snap EXCEPT ![d] = session]
    /\ Goto(d, "report")
    /\ UNCHANGED <<rowVars, recordVars, run, drive, requestVars, faultVars>>

AddReport(d) ==
    /\ at[d] = "report"
    /\ UpsertReport(collected)
    /\ Goto(d, "complete")
    /\ UNCHANGED <<session, rows, upload, recordVars, run, drive, snap, requestVars, faultVars>>

CompleteNeedsClosing(d) ==
    /\ at[d] = "complete"
    /\ \/ /\ snap[d].phase = "closing"
          /\ UpdateSession([snap[d] EXCEPT !.phase = "completed"])
          /\ Goto(d, "reported")
          /\ UNCHANGED <<run, drive, snap>>
       \/ /\ snap[d].phase # "closing"
          /\ EndRun(d, "failed")
          /\ UNCHANGED session
    /\ UNCHANGED <<rows, upload, reports, recordVars, requestVars, faultVars>>

CompleteSession(d) ==
    /\ at[d] = "complete"
    /\ \/ /\ Lifecycle!Allows(snap[d].phase, "complete")
          /\ UpdateSession(Advanced(snap[d], "complete"))
          /\ Goto(d, "reported")
          /\ UNCHANGED <<run, drive, snap>>
       \/ /\ ~Lifecycle!Allows(snap[d].phase, "complete")
          /\ EndRun(d, "failed")
          /\ UNCHANGED session
    /\ UNCHANGED <<rows, upload, reports, recordVars, requestVars, faultVars>>

EndReport(d) ==
    /\ at[d] = "reported"
    /\ EndRun(d, "succeeded")
    /\ UNCHANGED <<rowVars, recordVars, requestVars, faultVars>>

-------------------------------------------------------------------------------
(***************************************************************************)
(* Faults.                                                                 *)
(***************************************************************************)

\* The worker dies, or a transient error defers the run: it stays running with
\* the checkpoints it has, and will be driven again.
Crash(d) ==
    /\ at[d] # "free"
    /\ crashes < MaxCrashes
    /\ crashes' = crashes + 1
    /\ Release(d)
    /\ UNCHANGED <<rowVars, recordVars, run, requestVars, errors>>

\* A permanent error, or retries exhausted, between any two writes of a step.
Error(d) ==
    /\ at[d] # "free"
    /\ errors < MaxErrors
    /\ errors' = errors + 1
    /\ EndRun(d, "failed")
    /\ UNCHANGED <<rowVars, recordVars, requestVars, crashes>>

-------------------------------------------------------------------------------

Request(q) ==
    \/ SubmitTurn(q) \/ CountTurns(q) \/ StageUpload(q) \/ StartTurn(q)
    \/ Finish(q) \/ StartEvaluation(q) \/ StartReport(q) \/ LoseRequest(q)

TurnStep(d) ==
    \/ PersistAudio(d) \/ Transcribe(d) \/ ComposeReads(d) \/ Compose(d)
    \/ CommitReply(d) \/ CommitTold(d) \/ CommitSession(d) \/ EndTurn(d)

EvaluationStep(d) ==
    \/ CollectAnswers(d) \/ ReportReads(d) \/ AddReport(d)
    \/ CompleteSession(d) \/ EndReport(d)

Drive(d) == Take(d) \/ TurnStep(d) \/ EvaluationStep(d)

Next ==
    \/ \E q \in Requests : Request(q)
    \/ \E d \in Drivers : Drive(d) \/ Crash(d) \/ Error(d)

Spec == Init /\ [][Next]_vars

\* The engine keeps driving what is running (EveryRunEnds of RedisStreams); the
\* candidate owes nothing.
FairSpec == Spec /\ \A d \in Drivers : WF_vars(Drive(d))

-------------------------------------------------------------------------------
(***************************************************************************)
(* Properties.                                                             *)
(***************************************************************************)

TurnSteps == {"persist_audio", "transcribe", "compose", "commit_turn"}
ReportSteps == {"collect_answers", "commit_report"}
TurnLabels == TurnSteps \cup {"history", "told", "session", "committed"}
ReportLabels == ReportSteps \cup {"report", "complete", "reported"}

Sessions == [phase : Lifecycle!Phases, noted : SUBSET Rounds]

RowTypes ==
    /\ session \in Sessions
    /\ rows \subseteq 0..(2 * MaxTurns - 1)
    /\ upload \in [Rounds -> SUBSET Requests]
    /\ reports \subseteq SUBSET Rounds
RecordTypes ==
    /\ outcome \in [Rounds -> [session : Sessions,
                               kind : {"none", "intake", "question", "closing"}]]
    /\ collected \subseteq Rounds
    /\ todo \in [Keys -> TurnSteps \cup ReportSteps]
    /\ \A k \in Keys : todo[k] \in TurnSteps <=> k # Report
RunTypes == run \in [Keys -> {"none", "running", "succeeded", "failed"}]
DriverTypes ==
    /\ drive \in [Drivers -> Keys]
    /\ at \in [Drivers -> {"free"} \cup TurnLabels \cup ReportLabels]
    /\ \A d \in Drivers : /\ at[d] \in TurnLabels => drive[d] # Report
                          /\ at[d] \in ReportLabels => drive[d] = Report
    /\ snap \in [Drivers -> Sessions]
RequestTypes ==
    /\ asking \in [Requests -> {"idle", "count", "stage", "start", "evaluate", "report"}]
    /\ index \in [Requests -> Nat]
    /\ \A q \in Requests : asking[q] \in {"stage", "start"} => index[q] \in Rounds
    /\ seen \in [Requests -> Sessions]
    /\ \A q \in Requests : asking[q] = "evaluate" => seen[q].phase = "closing"
FaultTypes == crashes \in Nat /\ errors \in Nat

\* The types of the variables.  A worker inside the turn workflow drives a
\* round's run, one inside the evaluation workflow the report's; an accepted
\* index is a round, and only a session read as closing is moved to evaluating.
TypeOK ==
    /\ RowTypes /\ RecordTypes /\ RunTypes
    /\ DriverTypes /\ RequestTypes /\ FaultTypes

\* The turn rows have no gap: the indices are 0 .. m-1 at every moment, whatever
\* requests race and wherever a commit breaks off.  submit_turn's row count and
\* the parity build_history reads both rest on it.
RowsContiguous == \E m \in 0..(2 * MaxTurns) : rows = 0..(m - 1)

\* A run exists only once its bytes are staged: a worker may pick it up before
\* the request that started it has been answered.
BytesBeforeRun == \A n \in Rounds : run[n] # "none" => upload[n] # {}

\* A round whose run succeeded is reflected in the session: no commit, and no
\* Finish, writes the session back from before it.
SucceededRoundIsNoted ==
    \A n \in Rounds : run[n] = "succeeded" => n \in session.noted

\* The report scores every reply to a question there is: nothing is answered
\* after the answers were collected.
ReportIsComplete == \A scored \in reports : scored = Scored

\* The session moves only along the transitions of the phase machine.
FollowsLifecycle == Lifecycle!Spec

\* An evaluation that was started completes the session, unless a run failed for
\* good: after that nothing moves a session out of evaluating.
FinishCompletes == run[Report] = "running" ~> (session.phase = "completed" \/ errors > 0)

\* What the documents say, and the code does not do.

\* commit_turn is entered with nothing of it written: its two turn writes happen
\* exactly once, as its docstring says.
CommitStartsClean ==
    \A d \in Drivers : at[d] = "commit_turn" =>
                          Reply(drive[d]) \notin rows /\ Told(drive[d]) \notin rows

\* A turn whose run failed can be tried again: the next submission is not joined
\* to the failed run.
FailedTurnCanBeRetried ==
    \A n \in Rounds : (run[n] = "failed" /\ session.phase \in OpenPhases) => NextIndex # n

\* A session that spent its turns is no longer open, once nothing is running.
TurnCapCloses ==
    (NextIndex = MaxTurns /\ \A k \in Keys : run[k] # "running")
        => session.phase \notin OpenPhases

===============================================================================
