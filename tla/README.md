# The interviewer, in TLA+

A candidate opens a link, claims it with a passkey and talks; every answer is an
HTTP upload that a background workflow transcribes, composes the next question
for and commits; when the interview closes, a second workflow scores it. These
modules specify the parts of that program whose correctness depends on the order
in which things happen, check them with TLC on small instances and prove their
safety properties and refinements with TLAPS for instances of any size.  They also follow the two
sides of that story: how a candidate gets a seat, and what the page shows them. Paths below are relative
to the repository; `A/` stands for `packages/adapters/src/interviewer_adapters/`,
`C/` for `packages/core/src/interviewer_core/`, `API/` for
`apps/api/src/interviewer_api/`, `W/` for `apps/worker/src/interviewer_worker/`.

Each run is `tlc -config <run>.cfg <module>` with the module `PROJECT.json` names for
it; the proofs are checked with `tlapm <module>.tla`.

## 1. Inventory

| Component | State it keeps | Operations | What makes it correct |
|---|---|---|---|
| Redis Streams engine, `A/workflow/redis_streams.py` | per workflow a stream with one consumer group, a `:delayed` ZSET, a `:dlq` stream; run rows and step records in Postgres | `start`, `cancel`, `status`, `consume_once` (reclaim, promote, read, drive, ack) | no run is lost or driven twice; checkpoints are taken once, in order; a failure is classified, retried under a ceiling, dead-lettered |
| Step template, `A/workflow/base.py`, `A/workflow/sql_step_records.py` | the step records | `execute`: look up, run, checkpoint | a checkpointed step never runs again |
| Inline engine, `A/workflow/inline.py` | the same rows, no queue, no lease | `start` drives to the end in a background task, `cancel` | the same promise, within one process; a double tap never drives twice |
| Worker, `W/__main__.py` | its consumer name, a stop flag | the drain loop over both workflows | keeps draining; one run's error does not end it |
| Turn workflow, `A/workflow/turn_steps.py` | artifacts, the two `Turn` rows of a round, the session row | `persist_audio`, `transcribe`, `compose`, `synthesize`, `commit_turn` | rounds are contiguous, each is reflected in the session once |
| Evaluation workflow, `A/workflow/evaluation_steps.py` | the report, the session row | `collect_answers`, `score`, `commit_report` | one report over every answer; the session completes |
| Session API, `API/routers/session.py` | nothing of its own; reads and writes rows across awaits | `claim`, `submit_turn`, `finish`, `get_run`, `get_state` | a double tap joins; phases only go forward; a link's seats are not overspent |
| Phase machine, `C/domain/phase.py` | `Session.phase` | `advance` | only the drawn transitions |
| Turn pipeline and policies, `C/engine/pipeline.py`, `coverage.py`, `policies.py`, `guardrails.py` | the session's coverage | `run`, `pick_next`, `completion_reason` | the interview ends, within its budget, having asked what it counts |
| Evaluator, `C/engine/evaluator.py` | none | `evaluate`: answers by ref, one model call, parse, weighted mean | it scores the replies the interview went by; a reply of the model is read whole or refused whole |
| Guardrails, `C/engine/guardrails.py` | none | `check_question` on the model's draft | a bad draft is composed once more, then replaced by the authored text |
| Invites and lockout, `API/passkeys.py`, `Invite.claim` in `A/persistence/repositories.py` | seats used; failures and a lock per slug, in memory | `claim`, `record_failure`, `reset`, `retire` | never more sessions than seats, no seat for nothing; a lock keeps new attempts out |
| Admin and jobs, `API/routers/admin.py`, `jobs.py`, `auth.py`, `scripts/seed.py` | accounts, areas, persona versions, invites | `register`, `login`, `publish_persona`, `create_invite`, `retire_invite`, `start_job`, the seed | a session is pinned to a version that exists; a retired link seats nobody |
| LLM decorators, `A/llm/decorators.py` | the limiter's next slot | `complete` under rate limit and retry | nested retries stay bounded; a caller's calls are paced |
| LLM and speech adapters, `A/llm/`, `A/stt/`, `A/tts/` | none | one request each, classified transient or permanent | what is retried is what may succeed |
| Web client, `apps/web/interview.html` | the token, a `sending` flag, takes, a poll with a deadline | claim, record, send, poll, finish | never silently out of step with its session; the interview can be finished |
| Storage, HTTP surface, configuration, registry, logging, migrations, scripts | files, settings | one call each | left to unit tests: I/O or pure glue |

The components meet in four places. The API and the worker share Postgres rows
and never a lock: both read a row, await, and write it back whole. The API hands
a run to the worker through Redis, or drives it itself. Every session of a
process calls the one paced model. The client retries what it believes lost.

What is hard here, and therefore what the properties are about: two workers and
several requests interleave at every await; a process may die between any two
writes; Redis and Postgres are written one after the other, never together; a
lease expires while its holder is still working; an idempotency key joins a run
that may already have failed; a page shows what a session was when it last asked.

## 2. Plan

| # | Modules | Subject | State |
|---|---|---|---|
| 1 | `RedisStreams`, `DurableRun` (abstract), `RedisStreamsProofs` | the queued engine | done |
| 2 | `InterviewSession`, `SessionLifecycle` (abstract), `InterviewSessionProofs` | one session: `submit_turn` and `finish` against the two workflows | done |
| 3 | `TurnPipeline`, `TurnPipelineProofs` | what an interview asks, and that it ends | done |
| 4 | `InlineRuns`, `InlineRunsProofs`, a second refinement of `DurableRun` | the double submission and the inline engine | done |
| 5 | `Evaluation`, extending `TurnPipeline`, and `EvaluationProofs` | the report over the same interview | done |
| 6 | `ProviderCalls`, `ProviderCallsProofs` | limiter, retries and guard nested in the steps | done |
| 7 | `CandidatePage`, `CandidatePageProofs` | the page against the session routes | done |
| 8 | `Admission`, `AdmissionProofs` | links, seats, lockout, jobs, personas | done |

Each has one run over a small instance with every fault the code can meet, or two
where one instance cannot hold all of them. Where a document promises more than the
code keeps, the section says which line to change to see it, and the two cases a
candidate meets without any fault, `RetryRefused` and `StressLoops`, are runs of their
own.

Every invariant and action property of the passing runs is the subject of a theorem.
Left of the plan are the parts section 12 leaves out.

## 3. The engine: `RedisStreams`

**State.** `status` and `records` are the Postgres rows; `stream`, `delivered`,
`pel`, `idle`, `delayed`, `due`, `dlq` the Redis side (the stream is the sequence
of run ids ever added, `delivered` the group's last-delivered id, `pel` its
pending entries, `idle` those past the visibility timeout, `due` the ZSET members
whose score has passed). Each worker has a program counter `pc` and the locals of
`consume_once`: the claimed `batch`, the due members it is `promoting`, the one in
its `hand` between ZREM and XADD, the `entry` it processes and `_drive`'s `step`,
`attempt` and `tries`. `starter` is the API's background task of a run. Three variables
are history and decide nothing: the runs `dropped` from a dying worker's hand, the runs
`retried` through the ZSET, the entries `outlived` in the hands of a live worker.

**Actions.** One per await: `AddRun`, `StartReads`, `Enqueue` are `_start_run` and
`engine.start`; `Claim` … `Read` the three parts of `consume_once`; `Load` …
`Ack` are `_process_entry` and `_drive`. `LoseStart` and `Crash` are deaths,
`LeaseExpires` and `RetryComesDue` the passing of time. A body's outcome is a
choice among `BodySucceeds`, `BodyTransient` (only while an attempt is left) and
`BodyFails`, which also stands for any other exception, among them the one the
select-then-insert of `SqlStepRecordStore.save` may raise. The test hook
`fail_at` is covered by `Crash`.

**Constants.** `LeaseOutlived` says whether a live worker may hold an entry past
the visibility timeout (120 s by default). `MaxTransient` and `MaxCrashes` bound
the faults; nothing else is bounded.

**`DurableRun`** is what the port promises: a run is created once, its steps are
checkpointed in order, it ends once, and succeeds only with every step done. The
mapping counts the leading succeeded records.

### Runs

| Run | Instance | Shows |
|---|---|---|
| `EngineOneWorker` | 1 worker, 2 runs, 2 steps, 2 attempts, 2 retries, 2 crashes | `KeepsPromise`, `AttemptsBounded`, `DeadLetteredOnce` |
| `EngineTwoWorkers` | 2 workers, 2 runs, 1 crash, no retries, no lease outlived | `KeepsPromise` |
| `EngineAnyLoss` | 2 workers, 1 run of 1 step, crash, retry, cancel, outlived leases, fair | `NoRunStranded`, `TwoDrivesHaveACause`, `EveryRunEnds`, `TypeOK` |

The engine does not keep two workers apart, so the question asked of it is when they
can meet. `TwoDrivesHaveACause`, with every fault switched on: over one entry only if its
lease ran out while a live worker held it, over two entries of one run only if the run
went through the ZSET. No crash, no restart, no order of claims, reads and
acknowledgements makes a second driver by itself. `DeadLetteredOnce` counts what the two
writes of a failure can lose: no more letters than processes died.

Two workers are enough for every race here, since each involves a pair; two runs
are enough to interleave entries of different runs in one stream, one claim batch
and one ZSET; two steps are the least with an order and a memoized predecessor;
two attempts the least with a retry and a ceiling. `EngineAnyLoss` has one step: what it
asks is whether a run stays with the queue and comes back to a worker, which the steps
do not tell apart; the other two runs have both steps.
Where an instance leaves a
fault out, or a property is weaker than one would like, it is because the code
does not keep it otherwise. Each can be seen by changing one line:

* `LeaseOutlived = TRUE` in `EngineTwoWorkers.cfg`: two workers drive one run, and
  the slower one overwrites a final verdict (`KeepsPromise`).
* `MaxTransient = 1` there: ZREM's result is ignored, so two workers that read the
  same due member both enqueue the run and drive it (`KeepsPromise`).
* `TwoDrivesHaveACause` without one of its two causes: the same two, shown as two
  workers at one run.
* `DeadLetteredOnce` with `0` for `crashes`: a worker killed after the failed status
  and before its dead-letter XADD loses the entry.
* `AttemptsBounded` without `+ crashes`: a worker killed between the failed step
  record and the failed run makes the redelivery try once more.
* `starter[r] = "lost"` in `NoRunStranded` and `EveryRunEnds`: a background start that
  dies before its XADD leaves the row `running`, though the comment in `deps.spawn`
  says it is already marked failed.
* a cancelled run in `EngineTwoWorkers.cfg`: a drive in flight overwrites the
  cancellation (`KeepsPromise`).
* `KilledWorkersRunIsPickedUp` among the properties of `EngineAnyLoss.cfg`: ZREM comes
  before XADD, so a worker killed in between loses the run, where
  `ARCHITECTURE.md:87` has a killed worker's run picked up by another.

**Fairness** (`FairSpec`): the event loop runs the tasks it spawned, a live worker
keeps calling `consume_once` (`W/__main__.py` loops until told to stop), and time
passes. Nothing forces a dead worker to restart (`docker-compose.yml` gives it no
restart policy), a candidate to submit or anybody to cancel.

### Proofs

`RedisStreamsProofs` proves, from `EngineAssumption` alone,

* `TypeCorrect`: `Spec => []TypeOK`, one lemma per action;
* `NothingStranded`: `Spec => []NoRunStranded`.

`NoRunStranded` is not inductive. Acknowledging an entry is safe because what the
worker did before (deferring the run, or ending it) already carries or settles
it, so the invariant says that an entry about to be acknowledged no longer counts.
The strengthening `IInv` adds `DeadLettersAreTerminal` (a worker that is
dead-lettering has a terminal run: nothing but its run's end leads there) and
`OneInHand` (a worker holds at most one member between ZREM and XADD).  Each
action either leaves the carriers alone, adds one, or is one of the steps that
bring a worker to `ack`; the lemmas `QuietStep` and `AckingStep` treat the two
cases once and the per-action lemmas cite them.

* `TwoDrivesExplained`: `Spec => []TwoDrivesHaveACause`, with no condition at all. `Traced`
  says that the ZSET and what is on its way back from it are retried runs
  (`OnlyRetriedReturn`), that a run never retried has one entry (`OneEntryPerRun`: its
  starter adds one), and that a held entry is pending, not idle and held by one worker
  unless it was outlived (`Leased`), so that no claim takes it.
  `NoCauseNoSecondDrive` draws the conclusion: where neither ever happens,
  `[]ExclusiveDrive`.

Under conditions the code does not guarantee, and which are hypotheses here:

* `AttemptsCeiling`: `Spec /\ []ExclusiveDrive => []AttemptsBounded`, and
  `OneWorkerKeepsCeiling`, where one worker makes the hypothesis idle. A step at its
  ceiling has failed its run or is about to (`SpentEnds`), and a crash in between raises
  the ceiling by the one try it costs.
* `LettersOfTheFailed`: under the same and without cancellation, `DeadLetteredOnce`. A
  failed run has its letter or the one worker that writes it (`Verdict`), or its worker
  died at that point; the runs of the last kind are a finite set that grows by one at a
  crash and never otherwise (`Counted`).
* `RedisKeepsPromise`: under the same, `KeepsPromise`. Every action is a step of
  `DurableRun` or a stutter, because a worker at a step has those before it
  checkpointed and a run that has ended is driven by nobody (`Course`).

`[]ExclusiveDrive` is a hypothesis about the behaviour, not about a constant: the three
hold in every behaviour in which no two workers meet, also one in which leases are
outlived and runs retried. What can make two meet is what `TwoDrivesExplained` says and
nothing else: an outlived lease, or a retried run (two promotions of one ZSET member, or
a crash between the ZADD and the XACK).

## 4. One session: `InterviewSession`

**State.** `session` is the session row: its phase, and instead of the name and
the coverage the set `noted` of rounds they reflect, which is what a lost update
would lose. `rows` are the turn rows by `index`, `upload` the staged bytes of a
round (identified by the request that brought them), `reports` the report row.
`outcome` and `collected` are the checkpoints of `compose` and `collect_answers`,
`todo` a run's first step without one. A worker has the run it drives, a program counter and the session it last
read; a request has a program counter, the index it computed and the session
`require_candidate_session` read.

**Actions.** `SubmitTurn` (the phase check), `CountTurns`, `StageUpload`,
`StartTurn` and `Finish`, `StartEvaluation`, `StartReport` are the two handlers cut
at their awaits. `PersistAudio` … `EndTurn` are the turn workflow, `CollectAnswers`
… `EndReport` the evaluation; every read and every commit is one action, so that a
`Crash` or an `Error` falls between any two writes. `synthesize` and `score`
change nothing but their own checkpoint and are merged away.

**The engine and the model** are abstracted. Of the engine, the module uses what
`RedisStreams` shows: where no lease is outlived and no run retried, one driver at a time
(`TwoDrivesHaveACause`); a run that lost its
driver is driven again (`NoRunStranded`, `EveryRunEnds`), a checkpointed step does
not run again (`KeepsPromise`). Of the pipeline, `Outcomes` keeps the phase
transitions, the intake attempts counted from the history, and the exceptions,
and leaves open which question is asked and when coverage is reached.

**`SessionLifecycle`** is the phase machine, and the abstract specification the
session's phase is checked against (`FollowsLifecycle`).

### Runs

| Run | Instance | Shows |
|---|---|---|
| `SessionRaces` | 2 requests, 1 worker, 3 rounds, 1 crash, 1 permanent error | `RowsContiguous`, `BytesBeforeRun`, `SucceededRoundIsNoted`, `ReportIsComplete`, `TypeOK` |
| `SessionCrashes` | 1 request, 1 worker, 3 rounds, 2 crashes, 1 error, fair | `FollowsLifecycle`, `FinishCompletes` |
| `RetryRefused` | 1 request, 1 round, 1 error | violates `FailedTurnCanBeRetried` |

Two requests make every race between requests, since none involves more; three
rounds are a name, an answer and the closing answer, with a round to spare for an
intake that is asked again; two crashes let a replay be interrupted itself.

`SucceededRoundIsNoted` needs one worker: the rows of round *n* are visible before
its session update, so a second worker can compose round *n + 1* from the session
as it was and overwrite it. `docker-compose.yml` runs one worker; nothing in the
code requires it. `FollowsLifecycle` is false with two concurrent Finish requests
(`Requests = {q1, q2}` in `SessionCrashes.cfg`): `finish` writes back the session it
read before its awaits, so the slower one puts `evaluating` over `completed`.

**Fairness**: workers keep driving what is running; no request is ever forced.
`FinishCompletes` excepts permanent errors: an evaluation that fails for good
leaves the session in `evaluating`, because no code applies the `fail` event.
`commit_report` commits the report and the phase in two transactions; the property
covers a crash between them, after which the replay writes both again.

The staging key is the round's, so a second upload replaces the bytes of a run in
progress: `persist_audio` may describe the first bytes and `transcribe` hear the
second. What is checked is that a run never lacks its bytes.

### Disagreements with the documents

`RetryRefused`: a failed turn leaves the row count as it was, so the next submission
computes the same key and is joined to the failed run, though the page tells the
candidate to try again (`apps/web/interview.html:488`). Two more are definitions of
the module, seen violated by adding them to a session run:

* `CommitStartsClean`: a replayed `commit_turn` meets the row its first attempt wrote,
  where its docstring (`turn_steps.py:241`) rules that out; the unique index fails
  the run for good.
* `TurnCapCloses`: the turn cap refuses turns but never closes the session, where
  `README.md:255` says that SESSION_MAX_TURNS forces closing.

### Proofs

`InterviewSessionProofs` proves, from `SessionAssumption`, with no further condition

* `TypeCorrect`: `Spec => []TypeOK`;
* `NoGap`: `Spec => []RowsContiguous`, for any number of requests, workers and
  rounds and any number of faults;
* `BytesFirst`: `Spec => []BytesBeforeRun`, under the same. `BytesBeforeRun` speaks of
  runs that exist; `Staged` adds the two places from which a run comes into being
  or is taken up: a request about to start one has uploaded (`UploadedFirst`), and a
  worker's run exists (`DrivenExists`).

A row is added in two places, and what makes it the next one lies far from there:
in the count `submit_turn` took, possibly long ago. `Gapless` carries the link: a
round a request has been given, a run that exists for it and a worker inside it
are all *open*, which means that every earlier round has both rows
(`AcceptedRoundsOpen`, `StartedRoundsOpen`, `DrivenRoundsOpen`), and a worker
about to write the interviewer's row has written the reply (`ToldAfterReply`).
Rows are never removed, so an open round stays open; `CountTurns` opens only the
round at half the row count, which by contiguity is the one after the last
complete one.

While the runs of the session are driven one at a time (`OneAtATime`), for any number
of requests, rounds, crashes and errors:

* `NoRoundIsLost`: `Spec /\ []OneAtATime => []SucceededRoundIsNoted`;
* `NothingAnsweredAfter`: `Spec /\ []OneAtATime => []ReportIsComplete`;
* `OneWorkerLosesNothing`: both, with one worker, where the hypothesis says nothing.

`compose` decides what the session will be and `commit_turn` writes it, possibly after a
crash and a replay. `Ordered` says that meanwhile nothing moves: at most one round is
composed and not committed (`Sequential`), the session has not changed since and is
still open, a request that is about to ask for the report has seen every round the
session notes and found the interview closed (`ClosingAsked`), and what was collected
is what there is to score (`Collecting`).

* `PhasesFollowLifecycle`: `Spec /\ []OneAtATime /\ []OneRequest => FollowsLifecycle`, the
  refinement of `SessionLifecycle`. `Current` adds that what is about to be written
  is the session as it is, moved by one event. One request at a time is needed
  because of the two Finish requests above: with two, `Current` is what they violate.

## 5. What an interview asks: `TurnPipeline`

**State.** `persona` is the pinned version (policy, floor = `min_coverage`, budget =
`max_questions`, and a depth per question), `coverage` the session's map, `times`
the history as `times_asked` counts it, `last` the question the next reply answers,
`rounds` the replies committed. Confidences are integers: the code only compares
them. One action is one committed round; what a round's three writes may do to
each other is `InterviewSession`'s subject.

**Actions.** `AskNameAgain` and `RegisterName` are `_run_intake`, `AskNext` and `Close`
are `_run_questioning`; a policy is a set of picks, always of one question, with
Python's tie-breaking. `Accepted` is the session's turn cap. `compose` and `guard`
choose the words of a question and never which question, so they add no state.

| Run | Instance | Shows |
|---|---|---|
| `Policies` (of `MCEvaluation`) | 3 questions, depths 0 and 1, every floor and budget, 3 policies | `CoverageMatchesHistory`, `FollowUpsBounded`, `GuidedInOrder`, `BudgetRespected`, `AdaptiveCloses`, and section 6's |
| `StressLoops` | 2 questions, `stress`, no budget given, whole answers | violates `InterviewCloses` |

Three questions are the least with one before, one at and one after any position;
confidences none, half and whole and floors from 0 to beyond whole put every
comparison on both sides of its boundary. The turn cap of 8 leaves an adaptive
interview room for two intake rounds and every follow-up, which `AdaptiveCloses`
needs. **Fairness** is the candidate's: somebody who keeps replying.

`stress` asks again what was answered best, and only the first question is ever
asked: with two questions no such interview closes (`StressLoops`;
`API/routers/admin.py` says that only a budget above the number of questions does
that). `guided` repeats a question until a reply contains a word of the expected
answer, which ADR 0004 documents; with `Policies = {"guided"}` and `Replies = {0}` in
`StressLoops.cfg` it loops too.

### Proofs

`TurnPipelineProofs` proves, from `PersonaAssumption` (among it, that
`publish_persona` refuses a budget above the number of questions), `PipelineTypes`,
`CoverageIsHistory`, `DepthKept`, `OrderKept` and `BudgetKept`: the types
(`TypeOK`, which the other proofs rest on) and the run's invariants, for any number of
questions, any depths, floors and replies. The invariant `Interview` is their conjunction with `OnTheTable` (the question on the table has
been asked, before the first nothing has). The argument turns on `UnaskedLeft`:
while the completion rule lets the interview go on, fewer questions have been asked
than the budget, hence than there are, so one is left unasked and has reached
nothing. For `adaptive` that one is thin, so the loop finds something and its
fallback, which ignores the depth, is out of reach (`AdaptivePick`); for `guided` it
bounds what is still open, so the next pick is the question on the table or the one
after it (`GuidedPick`). `AdaptiveCloses`, a liveness property, is left to TLC.

## 6. What the report says: `Evaluation`

**State.** It extends `TurnPipeline`: the same interview, and beside it the `history` of
question and reply that the turn rows tell, the `weight` of each question, and the
`report`. **Actions.** `Intake` and `Answer` are the rounds of the pipeline, an answer
appended to the history; once the interview is closed, `Score` collects the answers
(a dict by ref, so the last reply to a question is the one that stays), takes any
list of entries for the model's reply and either refuses it or turns it into scores.

The entries put a score below, within and above the bounds, NaN, an unknown ref and a
malformed entry before the parser, alone and together; the weights include a
question that weighs nothing, a negative weight that the others outweigh and one that
cancels them. What is checked is
that the evaluation reads the replies the interview went by
(`EvaluatesWhatWasCovered`: the coverage in the session row and the answers rebuilt
from the rows are two accounts of the same replies), that every score and, unless a
negative weight counts, the mean are within bounds and a question never asked scores
nothing (`ReportIsSound`), and
that an interview which closed because everything was covered has an answer to
score for every question (`CoveredIsScoredWhole`).

Two remarks. `max(0.0, min(1.0, score))` turns NaN into 1.0, and `Clamp` does too.
`publish_persona` takes a negative weight (`weight: float`, no bound), and
`_weighted_mean` answers 0.0 only where the weights do not sum to more than nothing: a
negative one that is outweighed carries the mean out of 0..1. Take `NoNegativeCounts`
out of `ReportIsSound` to see it. No document gives the mean a range.

### Proofs

`EvaluationProofs` extends `TurnPipelineProofs`, whose types carry over because a step here
is one there or leaves its variables alone. From `PersonaAssumption` and
`EvaluationAssumption`:

* `ScoresWhatWasHeard`: `[]EvaluatesWhatWasCovered`. `Told` relates the two accounts after
  every round: the questions asked are those in the history and the one on the
  table, and the last entry of each has the confidence the coverage has.
* `CoveredIsScored`: `[]CoveredIsScoredWhole`, from `CoveredAtTheEnd` (an interview that
  closed on coverage has not unlearned it).
* `ReportsAreSound`: `[]ReportIsSound`, for every list of entries and any integer
  weights, with the exception the property names. A sum over a set is a fold, hence a recursive function; that it
  is bounded as its terms are is proved by the smallest counterexample among the
  subsets (`WFMin` of `WellFoundedInduction`).

## 7. Runs without a queue: `InlineRuns`

**State.** `status` and `records` as in `RedisStreams`; for each request where `_start_run`
stands (`asking`), what it was answered (`heard`), and the task it may have spawned
(`pc`, `step`, `attempt`); `store`, the repository the process was wired with.
**Actions.** `Submit`, `LookUp`, `AddRun` are `_start_run`; `Find` … `EndRun` are
`InlineWorkflowEngine.start` and `_drive`, a step for every await. `StartDirectly` is a
caller of the port itself, as the contract suite is, so that the engine's own
insert is reached. `Crash` ends the process with all its tasks, `LoseTask` is a
database error that `deps.spawn` logs and drops.

| Run | Instance | Shows |
|---|---|---|
| `InlineRuns` | 2 requests, 3 keys, 2 steps (of 2 attempts and of 1), both repositories, 2 crashes, fair | `OneDrive`, `AttemptsBounded`, `CheckpointIsFinal`, `KeepsPromise`, `EveryRunEnds` |

Of the three keys one is ordinary, one may be cancelled and one is started through
the port; two requests are a double tap. Nothing but the unique key keeps a second
drive away (`OneDrive`). `KeepsPromise` refines `DurableRun` for the runs nobody
cancels: as with the other engine, a drive in flight overwrites a cancellation.
**Fairness**: the event loop resumes its tasks; nobody is made to submit, and nothing
restarts the run of a process that died, which `EveryRunEnds` excepts.

`SecondCallJoins` is in the module and not in the run. It says what `_start_run`'s
docstring says, that a second call with the same key joins the first run; with the
SQL repository the insert that comes second raises the database's `IntegrityError`,
which `_start_run` does not catch, and the request is answered with a server error,
although `A/persistence/in_memory.py:24` says both repositories report it in the same
shape. Adding it to the run shows the race.

### Proofs

`InlineRunsProofs` proves, from `InlineAssumption`, for any number of requests, keys, steps,
attempts and losses:

* `NeverDrivenTwice`: `[]OneDrive`. A task is spawned by whoever inserted the row, so
  before the insert of a submitted run there is none (`Unborn`) and after it nobody
  inserts again; `OneTask` is the inductive form.
* `CheckpointsAreFinal`: `CheckpointIsFinal`, an action property. Where a task may be
  depends on what it has behind it (`CheckpointsInOrder`), so no body is entered, and
  no record written, of a step that has succeeded.
* `InlineKeepsPromise`: `KeepsPromise`, the refinement of `DurableRun`, action by action.
* `AttemptsAreBounded`: `[]AttemptsBounded`. Nothing in the code counts across starts: what is
  spent is bounded by what each start may spend, and the invariant
  (`AttemptsCounted`) says that a run nobody drives has not yet been charged for its
  last start, nor has a task for the steps ahead of it.

## 8. Calls to the providers: `ProviderCalls`

**State.** For each session the workflow `step` and the engine's `attempt` at it, the
`call` under way and where it is in the decorators (`at`, `tries`, `wait`), the
limiter's next slot (`ahead`, one for the process), and the questions `told`. Clocks
are relative to the present, so time needs no bound. **Actions.** `Pace` reads the
slot and goes on at once, or sleeps until it; `Wake` writes the next slot after the
sleep, up to `Lag` ticks late; a request is answered with any status and body, which
the adapter classifies; what follows is a retry of the decorator, a second draft of the guard, the authored
fallback, a retry of the step, or the step's end. The last reply may close the interview,
which composes without a call, or get one more question at which the candidate finishes
(`Closes`).

| Run | Instance | Shows |
|---|---|---|
| `ProviderCalls` | a session of 2 rounds and one that is only scored, voice on, 2 tries in the decorator, 2 attempts a step (1 for `synthesize`), interval 2, fair | `CallsBounded`, `NoQuestionTwice`, `PacedApart`, `EverySessionEnds` |

Two callers are enough to sleep for the same slot; two rounds are a first question
and one that could repeat it; the drafts break each rule of the guard once and the
responses reach each branch of each adapter. **Fairness**: time passes, the event loop
resumes sleepers, and a request is answered or times out (every client is built with
a timeout).

`Paces`, what the docstring of `RateLimitedLLM` says, is false for two callers: each
reads the slot before it sleeps and moves it after, so callers that wait together
are let go together. What does hold is `PacedApart`. The ratio that makes two
questions near duplicates is abstracted to classes of wording, an equivalence that
the real ratio need not be.

### Proofs

`ProviderCallsProofs` proves, from `ProviderAssumption`, for any number of callers,
rounds, tries and attempts, any pace and any answers:

* `CallsAreBounded`: `[]CallsBounded`. `Budget` charges the attempts before this one with a
  whole attempt each, the calls of the guard before this one with all their tries, and
  the present call with the tries so far. `Effect` lists the seven ways a session moves
  on, and every step of the module is shown to be one of them.
* `NothingIsAskedTwice`: `[]NoQuestionTwice`. A draft is compared with what was told when it
  arrives, and what a session was told only grows by its own step.
* `CallsArePaced`: `PacedApart`, an action property. `Pacing` compares two clocks: the time
  since a caller's last request and the time until the limiter's slot are together
  an interval, less what the last sleeper was late.

## 9. The candidate's page: `CandidatePage`

**State.** On the server the seats, the session's phase, the rounds committed, the
status of each run and the take staged for each round; on the page the screen, the
card, the token, where a send stands (`sending`), the takes, the question on display
and the thread. A take is known by the question it was recorded under. **Actions.**
The buttons (`Claim`, `Record`, `Stop`, `Rerecord`, `Send`, `Finish`), the replies the page
waits for, the server's commits, and six kinds of fault: a lost message, an upload the
page gave up and the server receives all the same, at any later time
(`GiveUpUpload`, `StragglerArrives`), a missed polling deadline, a failed run, an expired
token, a reload. A candidate comes by a
link, or from the jobs page with a session already opened. `MaxRounds` is
`session_max_turns`: a round may close the interview or leave it open, the last one that
is allowed too, and what is sent after that is refused.

| Run | Instance | Shows |
|---|---|---|
| `CandidatePage` | 3 rounds, 2 seats, 2 faults, fair | `InStep`, `ShownInOrder`, `RepliesFitTheQuestion`, `EveryInterviewEnds` |

Three rounds are a first, a middle and a last one; two faults let a recovery go
wrong itself, and two seats let an expired candidate come back. **Fairness** is that
of a candidate who goes on: `Record`, `Stop` and `Send` strongly, because `Rerecord`, a
send under way and an expired token disable them again and again; runs end and
replies arrive, which sections 3 and 4 show of the other side. `Stranded` names the
exceptions of `EveryInterviewEnds`: a token that expired or a page that was reloaded
(the way back costs a seat, and there may be none), a failed run (a second try
joins it), a closing turn whose poll ran out (the page never learns that the
interview closed, further sends are refused, and Finish is never on screen), and the turn
limit (a session still open there takes neither a turn nor a Finish). `InStep` excepts
an upload given up that arrives later: it gets the session a round ahead of the page, with
a resend of the same take behind it. `ShownInOrder` and `EveryInterviewEnds` hold with it.

Seen while modelling, none of them a violation of a document: Re-record and the
recorder stay visible during a send, so a take may be recorded for a question not
yet shown, and a microphone may still be open behind the closing card; a lost reply to
a POST and a resend can attach the same take to two rounds; after an expiry and a new
claim the old session's card is still up until something replaces it; the client
turns every 401 into an expired session, the wrong passkey's too, so that text is
never shown; the Enter key claims although the button is disabled.

### Proofs

`CandidatePageProofs` proves, from `PageAssumption`, for interviews of any length, any
seats and any number of faults:

* `PageInStep`: `[]InStep`. An upload arrives behind the page's back only if it gave one
  up (`Stragglers`). Otherwise the page learns what the session is from replies, so the
  invariant says what it knows while it waits for one: the run it polls is the one
  under way or the last one committed (`PolledRun`), and a page without a warning shows
  the session as it is, with no run left that could move it (`Unwarned`).
* `RoundsShownInOrder`: `[]ShownInOrder`. What the thread shows of a session is behind
  the session or, during a send, behind the run that is polled (`Thread`), which the
  session has reached whatever arrived late (`Reached`).
* `RepliesFit`: `[]RepliesFitTheQuestion`. While nothing went wrong, whatever there is to
  send fits the prompt, and what was begun since a send is late and marked so
  (`Fitting`); or the session is at its turn limit and takes nothing more (`Spent`).

## 10. Getting a seat: `Admission`

**State.** The tables (`users`, `areas`, `personas`, `invites`, `sessions`), the process's
lockout (`failures`, `lockedUntil`), the administrator's token, and where each
candidate's request stands with the locals it carries across awaits: the clock it
read first, the link, the persona. **Actions.** The administrator's routes, the
seed's `SeedAdmin`, `SeedArea`, `SeedPersona` beside them, and the candidate's requests
cut at their awaits: the lock is checked, the link looked up and the passkey
compared, the seat taken in one transaction, the persona read, the session inserted
in another. A job mints a link of one seat first and then goes the same way. A
request may be lost after any step, and the API may restart, which forgets the lockout.

| Run | Instance | Shows |
|---|---|---|
| `Admission` | 3 requests, 1 link of 2 seats, 2 persona versions, 2 failures to a lock, 3 ticks, 1 fault | `SeatsBounded`, `NoSeatWasted`, `LockKeepsOut`, `RetiredLinkIsClosed` |

Three requests for two seats is the least that can overspend them, and two failures
the least that count; the clock runs past the end of a lock and of a link.
Deadlock is not checked: when every request is answered and the clock at its
bound, nothing is left to do. No fairness: all four say what may never happen.

Seen while modelling: the failure count survives the end of a lock, so one wrong
passkey locks the link again, where `README.md:201` speaks of five attempts; a slow
failing request reads its clock first and can shorten a lock set meanwhile, and a
success in flight lifts it, so that `LockKeepsOut` says who gets past the check of a
locked link and not how long a lock lasts; `ttl_hours=0` means the default; a seat is spent when
the insert of its session fails, which `NoSeatWasted` excepts as a fault. The other way
to spend one for nothing is in `claim` too: it refuses, after the seat was taken, when the
lookup of the persona finds none. What keeps that branch from being taken is elsewhere, in
the administrator's and the seed's routes, which mint links for published personas only and
delete none; that is why they are modelled beside it. Unique
violations that come between a route's look and its insert surface as server errors
and not as the conflict it answers otherwise. A job's slug is given to nobody before
its seat is taken, so the assertion in `start_job` cannot fail. Nothing in the schema ties
a session to its invite.

### Proofs

`AdmissionProofs` proves, from `AdmissionAssumption` alone, for any number of requests,
links and faults:

* `SeatsAreBounded`: `Spec => []SeatsBounded`;
* `RetiredLinksStayClosed`: `Spec => RetiredLinkIsClosed`;
* `NoSeatIsWasted` and `LocksKeepOut`, below.

`SeatsBounded` compares a counter of the invite row with the number of requests that
hold its seats, so its induction needs to know that a request holds no seat before it
takes one, and that the session it then inserts is for that seat (`OneSeatEach`);
that the link a job mints is new (`MintedOnce`) and its own (`MintsItsOwn`); and that
a row which does not exist yet has seated nobody (`NoneSeated`), so that counting
starts at zero. `IInv` is their conjunction with `Types` and `SeatsBounded`. Adding
one request to a link's holders adds one to a finite set's cardinality; every other
step leaves the holders alone. A retired
link has no open state to be claimed in, and no step opens a link again.

* `NoSeatIsWasted`: `Spec => []NoSeatWasted`. `SeatLeads` follows a seat to its session: its
  request carries the persona of the link it was counted on until the session is
  pinned to it, and a row keeps its persona from the mint on. `PersonasPublished` says
  that links are minted for personas that are there, and `PersonasStay` that they stay, so
  the lookup that could refuse the seated request finds its persona.
* `LocksKeepOut`: `Spec => []LockKeepsOut`. A step leaves a lock alone, lifts it, renews it, or
  brings it down and notes who was past the check (`LockChange`), and nobody comes past
  the check while it holds. The theorem does not say that a lock is not shortened, which
  the code does not keep.

## 11. What is proved and what is only checked

Proved, for every value of the constants that meets the named assumptions, are the
thirty-six theorems listed in `PROJECT.json`, in eight modules. They state every
invariant, every action property and every refinement that a passing run checks. The
hypotheses some of them carry beside `Spec` are the following, each explained in its
section:

| Hypothesis | Theorems | Where it comes from |
|---|---|---|
| `[]ExclusiveDrive` | `AttemptsCeiling`, `LettersOfTheFailed`, `RedisKeepsPromise` | two drives of one run overwrite each other; `TwoDrivesExplained` says what can make two |
| `Cancellable = {}` | `LettersOfTheFailed`, `RedisKeepsPromise` | a drive in flight overwrites a cancellation |
| one worker | `OneWorkerKeepsCeiling`, `OneWorkerLosesNothing` | what `docker-compose.yml` runs |
| `[]OneAtATime` | `NoRoundIsLost`, `NothingAnsweredAfter`, `PhasesFollowLifecycle` | a second worker composes from a session about to be replaced |
| `[]OneRequest` | `PhasesFollowLifecycle` | two Finish requests |

Checked on the instances above only is what the prover cannot reach: liveness under
fairness (`EveryRunEnds` of both engines, `FinishCompletes`, `AdaptiveCloses`,
`EverySessionEnds`, `EveryInterviewEnds`), and with it anything about ENABLED. The
library's induction theorems take an operator as a parameter, which no installed prover
instantiates; where an induction over data was needed, for the sums of the report, the
smallest counterexample serves instead. The two runs that expect a violation are
counterexamples and no theorems.

## 12. What is not modelled

* The HTTP surface (envelopes, wiring), configuration, the registry and logging have no
  behaviour over time; nor have the migrations, the demonstration script, the launcher
  and the documentation check.
* Routes that only read: the landing page, `get_state`, `get_artifact`, the
  administrator's listings.
* Of the seed, the hand-written demo sessions. Its docstring says that a partially
  seeded database is picked up where it was left off; of a demo session only the
  session row is looked for, so one whose turns were cut short stays so.
* In the modelled components: the identity of artifact rows (`persist_audio` adds a new one
  on each replay), the file system under the artifact store, row conversions, the
  wording of prompts and requests, token usage, hashing and token encoding, the
  camera and the playing of replies, signal handling in the worker.
