------------------------ MODULE InterviewSessionProofs ------------------------
(***************************************************************************)
(* Proofs about InterviewSession, for any requests, workers, rounds and    *)
(* any number of crashes and errors: the types, the turn rows and the      *)
(* staged bytes for any interleaving; the rounds the session notes and the *)
(* report scores while its runs are driven one at a time; the phase        *)
(* machine while its requests are served one at a time, too.               *)
(***************************************************************************)
EXTENDS InterviewSession, FiniteSetTheorems, TLAPS

USE DEF rowVars, recordVars, driverVars, requestVars, faultVars
USE DEF UpdateSession, UpsertReport, UpdateRun, Put, TurnCount

-------------------------------------------------------------------------------
(***************************************************************************)
(* The phase machine, and arithmetic on turn indices.                      *)
(***************************************************************************)

\* What advance answers for the events this module raises.
LEMMA Moves ==
    /\ Lifecycle!After("intake", "register_name") = "questioning"
    /\ Lifecycle!After("questioning", "record_answer") = "questioning"
    /\ Lifecycle!After("questioning", "reach_closing") = "closing"
    /\ Lifecycle!After("closing", "start_evaluation") = "evaluating"
    /\ Lifecycle!After("evaluating", "complete") = "completed"
BY DEF Lifecycle!After, Lifecycle!Transitions

\* Only a questioning session records an answer, only an evaluating one completes.
LEMMA Guards ==
    ASSUME NEW p \in Lifecycle!Phases
    PROVE  /\ Lifecycle!Allows(p, "record_answer") => p = "questioning"
           /\ Lifecycle!Allows(p, "complete") => p = "evaluating"
BY DEF Lifecycle!Phases, Lifecycle!Allows, Lifecycle!Transitions

\* A set of turn indices is finite.
LEMMA RowsFinite ==
    ASSUME RowTypes
    PROVE  IsFiniteSet(rows) /\ Cardinality(rows) \in Nat
<1>1. IsFiniteSet(0..(2 * MaxTurns - 1))
  BY SessionAssumption, FS_Interval
<1>2. IsFiniteSet(rows)
  BY <1>1, FS_Subset DEF RowTypes
<1>. QED
  BY <1>2, FS_CardinalityType

\* Halving a count.
LEMMA Halves ==
    ASSUME NEW m \in Nat
    PROVE  m \div 2 \in Nat /\ 2 * (m \div 2) <= m /\ m <= 2 * (m \div 2) + 1
OBVIOUS

\* The rows of a round are within the index range of the table.
LEMMA RowIndices ==
    ASSUME NEW n \in Rounds
    PROVE  /\ n \in Nat /\ n # Report /\ n \in Keys
           /\ Reply(n) \in 0..(2 * MaxTurns - 1)
           /\ Told(n) \in 0..(2 * MaxTurns - 1)
BY SessionAssumption DEF Rounds, Keys, Report, Reply, Told

\* A run that is not the report's is a round's.
LEMMA KeysAreRoundsAndReport == Keys = Rounds \cup {Report} /\ Report \notin Rounds /\ Report \in Keys /\ 0 \in Keys
BY SessionAssumption DEF Rounds, Keys, Report

-------------------------------------------------------------------------------
(***************************************************************************)
(* Types.                                                                  *)
(***************************************************************************)

LEMMA InitTypes == Init => TypeOK
<1>. SUFFICES ASSUME Init PROVE TypeOK
  OBVIOUS
<1>1. FreshSession \in Sessions
  BY DEF FreshSession, Sessions, Lifecycle!Phases
<1>. QED
  BY <1>1, SessionAssumption, KeysAreRoundsAndReport DEF Init, TypeOK, RowTypes, RecordTypes,
     RunTypes, DriverTypes, RequestTypes, FaultTypes, NoOutcome, TurnLabels, TurnSteps, ReportLabels, ReportSteps

LEMMA FreshIsSession == FreshSession \in Sessions
BY DEF FreshSession, Sessions, Lifecycle!Phases

\* A request that ends is idle, with no index and no snapshot.
LEMMA RespondTypes ==
    ASSUME RequestTypes, NEW q \in Requests, Respond(q)
    PROVE  RequestTypes'
BY FreshIsSession DEF RequestTypes, Respond

\* A worker that lets go of a run.
LEMMA ReleaseTypes ==
    ASSUME DriverTypes, NEW d \in Drivers, Release(d)
    PROVE  DriverTypes'
BY FreshIsSession, KeysAreRoundsAndReport DEF DriverTypes, Release, TurnLabels, TurnSteps, ReportLabels, ReportSteps

\* A worker that ends its run.
LEMMA EndRunTypes ==
    ASSUME RunTypes, DriverTypes, NEW d \in Drivers,
           NEW verdict \in {"succeeded", "failed"}, EndRun(d, verdict)
    PROVE  RunTypes' /\ DriverTypes'
BY ReleaseTypes DEF RunTypes, EndRun

\* A worker inside the turn workflow drives a round's run.
LEMMA DrivesRound ==
    ASSUME DriverTypes, NEW d \in Drivers, at[d] \in TurnLabels
    PROVE  drive[d] \in Rounds
BY KeysAreRoundsAndReport DEF DriverTypes

\* A worker that moves on in the turn workflow, or in the evaluation workflow.
LEMMA GotoTypes ==
    ASSUME DriverTypes, NEW d \in Drivers, NEW l,
           \/ at[d] \in TurnLabels /\ l \in TurnLabels
           \/ at[d] \in ReportLabels /\ l \in ReportLabels,
           Goto(d, l), UNCHANGED <<drive, snap>>
    PROVE  DriverTypes'
BY DEF DriverTypes, Goto, TurnLabels, TurnSteps, ReportLabels, ReportSteps

\* A checkpoint moves both the run and its worker on.
LEMMA CheckpointTypes ==
    ASSUME RecordTypes, DriverTypes, NEW d \in Drivers, NEW l,
           \/ at[d] \in TurnLabels /\ l \in TurnSteps
           \/ at[d] \in ReportLabels /\ l \in ReportSteps,
           Checkpoint(d, l), UNCHANGED <<drive, snap>>
    PROVE  /\ DriverTypes'
           /\ todo' \in [Keys -> TurnSteps \cup ReportSteps]
           /\ \A k \in Keys : todo'[k] \in TurnSteps <=> k # Report
<1>1. DriverTypes'
  BY GotoTypes DEF Checkpoint, TurnLabels, TurnSteps, ReportLabels, ReportSteps
<1>2. drive[d] \in Keys /\ (l \in TurnSteps <=> drive[d] # Report)
  BY DEF DriverTypes, TurnLabels, ReportLabels, TurnSteps, ReportSteps
<1>. QED
  BY <1>1, <1>2 DEF Checkpoint, RecordTypes

\* compose's outcome, whatever the phase it starts from.
LEMMA OutcomeTypes ==
    ASSUME NEW s \in Sessions, NEW n \in Rounds, NEW o \in Outcomes(s, n)
    PROVE  o \in [session : Sessions, kind : {"none", "intake", "question", "closing"}]
<1>. DEFINE Shape == [session : Sessions, kind : {"none", "intake", "question", "closing"}]
<1>1. ASSUME NEW p \in Lifecycle!Phases, NEW k \in {"intake", "question", "closing"}
      PROVE  Moved(s, n, p, k) \in Shape
  BY <1>1 DEF Moved, Sessions
<1>2. CASE s.phase = "intake"
  <2>1. o \in IntakeOutcomes(s, n)
    BY <1>2 DEF Outcomes
  <2>2. \/ o = Moved(s, n, "questioning", "question")
        \/ o = Moved(s, n, "intake", "intake")
    BY <1>2, <2>1, Moves DEF IntakeOutcomes
  <2>. QED
    BY <1>1, <2>2 DEF Lifecycle!Phases
<1>3. CASE s.phase # "intake"
  <2>1. Lifecycle!Allows(s.phase, "record_answer") /\ o \in QuestionOutcomes(s, n)
    BY <1>3 DEF Outcomes
  <2>2. s.phase = "questioning"
    BY <2>1, Guards DEF Sessions
  <2>3. \/ o = Moved(s, n, "questioning", "question")
        \/ o = Moved(s, n, "closing", "closing")
    BY <2>1, <2>2, Moves DEF QuestionOutcomes
  <2>. QED
    BY <1>1, <2>3 DEF Lifecycle!Phases
<1>. QED
  BY <1>2, <1>3

LEMMA SubmitTurnTypes ==
    ASSUME TypeOK, NEW q \in Requests, SubmitTurn(q)
    PROVE  TypeOK'
<1>1. RequestTypes'
  BY DEF TypeOK, SubmitTurn, RequestTypes
<1>. QED
  BY <1>1 DEF TypeOK, SubmitTurn, RowTypes, RecordTypes, RunTypes, DriverTypes, FaultTypes

LEMMA CountTurnsTypes ==
    ASSUME TypeOK, NEW q \in Requests, CountTurns(q)
    PROVE  TypeOK'
<1>1. NextIndex \in Nat
  BY RowsFinite, Halves DEF TypeOK, NextIndex
<1>2. CASE Respond(q)
  BY <1>2, RespondTypes DEF TypeOK, CountTurns, RowTypes, RecordTypes, RunTypes, DriverTypes, FaultTypes
<1>3. CASE NextIndex < MaxTurns /\ ~Respond(q)
  <2>1. NextIndex \in Rounds
    BY <1>1, <1>3, SessionAssumption DEF Rounds
  <2>2. RequestTypes'
    BY <1>3, <2>1, <1>1 DEF TypeOK, RequestTypes, CountTurns
  <2>. QED
    BY <2>2 DEF TypeOK, CountTurns, RowTypes, RecordTypes, RunTypes, DriverTypes, FaultTypes
<1>. QED
  BY <1>2, <1>3 DEF CountTurns

LEMMA StageUploadTypes ==
    ASSUME TypeOK, NEW q \in Requests, StageUpload(q)
    PROVE  TypeOK'
<1>1. RowTypes'
  BY DEF TypeOK, StageUpload, RowTypes, RequestTypes
<1>2. RequestTypes'
  BY DEF TypeOK, StageUpload, RequestTypes
<1>. QED
  BY <1>1, <1>2 DEF TypeOK, StageUpload, RecordTypes, RunTypes, DriverTypes, FaultTypes

LEMMA StartTurnTypes ==
    ASSUME TypeOK, NEW q \in Requests, StartTurn(q)
    PROVE  TypeOK'
<1>1. RunTypes'
  BY DEF TypeOK, StartTurn, RunTypes, StartRun
<1>2. RequestTypes'
  BY RespondTypes DEF TypeOK, StartTurn
<1>. QED
  BY <1>1, <1>2 DEF TypeOK, StartTurn, RowTypes, RecordTypes, DriverTypes, FaultTypes

LEMMA FinishTypes ==
    ASSUME TypeOK, NEW q \in Requests, Finish(q)
    PROVE  TypeOK'
<1>1. RequestTypes'
  BY DEF TypeOK, Finish, RequestTypes, RowTypes
<1>. QED
  BY <1>1 DEF TypeOK, Finish, RowTypes, RecordTypes, RunTypes, DriverTypes, FaultTypes

LEMMA StartEvaluationTypes ==
    ASSUME TypeOK, NEW q \in Requests, StartEvaluation(q)
    PROVE  TypeOK'
<1>1. seen[q] \in Sessions /\ seen[q].phase = "closing"
  BY DEF TypeOK, RequestTypes, StartEvaluation
<1>2. Advanced(seen[q], "start_evaluation") \in Sessions
  BY <1>1, Moves DEF Advanced, Sessions, Lifecycle!Phases
<1>3. RowTypes'
  BY <1>2 DEF TypeOK, RowTypes, StartEvaluation
<1>4. RequestTypes'
  BY DEF TypeOK, RequestTypes, StartEvaluation
<1>. QED
  BY <1>3, <1>4 DEF TypeOK, StartEvaluation, RecordTypes, RunTypes, DriverTypes, FaultTypes

LEMMA StartReportTypes ==
    ASSUME TypeOK, NEW q \in Requests, StartReport(q)
    PROVE  TypeOK'
<1>1. RunTypes'
  BY DEF TypeOK, StartReport, RunTypes, StartRun
<1>2. RequestTypes'
  BY RespondTypes DEF TypeOK, StartReport
<1>. QED
  BY <1>1, <1>2 DEF TypeOK, StartReport, RowTypes, RecordTypes, DriverTypes, FaultTypes

LEMMA LoseRequestTypes ==
    ASSUME TypeOK, NEW q \in Requests, LoseRequest(q)
    PROVE  TypeOK'
<1>1. RequestTypes'
  BY RespondTypes DEF TypeOK, LoseRequest
<1>. QED
  BY <1>1 DEF TypeOK, LoseRequest, RowTypes, RecordTypes, RunTypes, DriverTypes, FaultTypes

LEMMA TakeTypes ==
    ASSUME TypeOK, NEW d \in Drivers, Take(d)
    PROVE  TypeOK'
<1>1. DriverTypes'
  BY DEF TypeOK, Take, DriverTypes, RecordTypes, TurnLabels, TurnSteps, ReportLabels, ReportSteps
<1>. QED
  BY <1>1 DEF TypeOK, Take, RowTypes, RecordTypes, RunTypes, RequestTypes, FaultTypes

LEMMA PersistAudioTypes ==
    ASSUME TypeOK, NEW d \in Drivers, PersistAudio(d)
    PROVE  TypeOK'
<1>1. drive[d] \in Rounds
  BY DrivesRound DEF TypeOK, PersistAudio, TurnLabels, TurnSteps
<1>2. DriverTypes' /\ RecordTypes'
  BY <1>1, CheckpointTypes DEF TypeOK, PersistAudio, RecordTypes, RowTypes, TurnLabels, TurnSteps
<1>. QED
  BY <1>2 DEF TypeOK, PersistAudio, RowTypes, RunTypes, RequestTypes, FaultTypes

LEMMA TranscribeTypes ==
    ASSUME TypeOK, NEW d \in Drivers, Transcribe(d)
    PROVE  TypeOK'
<1>1. drive[d] \in Rounds
  BY DrivesRound DEF TypeOK, Transcribe, TurnLabels, TurnSteps
<1>2. DriverTypes' /\ RecordTypes'
  BY <1>1, CheckpointTypes DEF TypeOK, Transcribe, RecordTypes, RowTypes, TurnLabels, TurnSteps
<1>. QED
  BY <1>2 DEF TypeOK, Transcribe, RowTypes, RunTypes, RequestTypes, FaultTypes

LEMMA ComposeReadsTypes ==
    ASSUME TypeOK, NEW d \in Drivers, ComposeReads(d)
    PROVE  TypeOK'
<1>1. DriverTypes'
  BY DEF TypeOK, ComposeReads, DriverTypes, RowTypes, Goto, TurnLabels, TurnSteps, ReportLabels, ReportSteps
<1>. QED
  BY <1>1 DEF TypeOK, ComposeReads, RowTypes, RecordTypes, RunTypes, RequestTypes, FaultTypes

LEMMA ComposeTypes ==
    ASSUME TypeOK, NEW d \in Drivers, Compose(d)
    PROVE  TypeOK'
<1>1. drive[d] \in Rounds
  BY DrivesRound DEF TypeOK, Compose, TurnLabels, TurnSteps
<1>2. CASE EndRun(d, "failed") /\ UNCHANGED <<outcome, todo>>
  <2>1. RunTypes' /\ DriverTypes'
    BY <1>2, EndRunTypes DEF TypeOK
  <2>. QED
    BY <1>2, <2>1 DEF TypeOK, Compose, RowTypes, RecordTypes, RequestTypes, FaultTypes
<1>3. CASE \E o \in Outcomes(snap[d], drive[d]) :
             /\ outcome' = [outcome EXCEPT ![drive[d]] = o]
             /\ Checkpoint(d, "commit_turn")
             /\ UNCHANGED <<run, drive, snap>>
  <2>1. PICK o \in Outcomes(snap[d], drive[d]) :
             /\ outcome' = [outcome EXCEPT ![drive[d]] = o]
             /\ Checkpoint(d, "commit_turn")
             /\ UNCHANGED <<run, drive, snap>>
    BY <1>3
  <2>2. o \in [session : Sessions, kind : {"none", "intake", "question", "closing"}]
    BY <1>1, OutcomeTypes DEF TypeOK, DriverTypes
  <2>3. DriverTypes' /\ RecordTypes'
    BY <1>1, <2>1, <2>2, CheckpointTypes DEF TypeOK, Compose, RecordTypes, TurnLabels, TurnSteps
  <2>. QED
    BY <2>1, <2>3 DEF TypeOK, Compose, RowTypes, RunTypes, RequestTypes, FaultTypes
<1>. QED
  BY <1>2, <1>3 DEF Compose

LEMMA CommitReplyTypes ==
    ASSUME TypeOK, NEW d \in Drivers, CommitReply(d)
    PROVE  TypeOK'
<1>1. drive[d] \in Rounds
  BY DrivesRound DEF TypeOK, CommitReply, TurnLabels, TurnSteps
<1>2. CASE EndRun(d, "failed") /\ UNCHANGED rows
  <2>1. RunTypes' /\ DriverTypes'
    BY <1>2, EndRunTypes DEF TypeOK
  <2>. QED
    BY <1>2, <2>1 DEF TypeOK, CommitReply, RowTypes, RecordTypes, RequestTypes, FaultTypes
<1>3. CASE AddRow(Reply(drive[d])) /\ Goto(d, "told") /\ UNCHANGED <<run, drive, snap>>
  <2>1. RowTypes'
    BY <1>1, <1>3, RowIndices DEF TypeOK, RowTypes, AddRow, CommitReply
  <2>2. DriverTypes'
    BY <1>3, GotoTypes DEF TypeOK, CommitReply, TurnLabels, TurnSteps
  <2>. QED
    BY <1>3, <2>1, <2>2 DEF TypeOK, CommitReply, RecordTypes, RunTypes, RequestTypes, FaultTypes
<1>. QED
  BY <1>2, <1>3 DEF CommitReply

LEMMA CommitToldTypes ==
    ASSUME TypeOK, NEW d \in Drivers, CommitTold(d)
    PROVE  TypeOK'
<1>1. drive[d] \in Rounds
  BY DrivesRound DEF TypeOK, CommitTold, TurnLabels, TurnSteps
<1>2. CASE EndRun(d, "failed") /\ UNCHANGED rows
  <2>1. RunTypes' /\ DriverTypes'
    BY <1>2, EndRunTypes DEF TypeOK
  <2>. QED
    BY <1>2, <2>1 DEF TypeOK, CommitTold, RowTypes, RecordTypes, RequestTypes, FaultTypes
<1>3. CASE AddRow(Told(drive[d])) /\ Goto(d, "session") /\ UNCHANGED <<run, drive, snap>>
  <2>1. RowTypes'
    BY <1>1, <1>3, RowIndices DEF TypeOK, RowTypes, AddRow, CommitTold
  <2>2. DriverTypes'
    BY <1>3, GotoTypes DEF TypeOK, CommitTold, TurnLabels, TurnSteps
  <2>. QED
    BY <1>3, <2>1, <2>2 DEF TypeOK, CommitTold, RecordTypes, RunTypes, RequestTypes, FaultTypes
<1>. QED
  BY <1>2, <1>3 DEF CommitTold

LEMMA CommitSessionTypes ==
    ASSUME TypeOK, NEW d \in Drivers, CommitSession(d)
    PROVE  TypeOK'
<1>1. outcome[drive[d]].session \in Sessions
  BY DrivesRound DEF TypeOK, RecordTypes, CommitSession, TurnLabels, TurnSteps
<1>2. RowTypes'
  BY <1>1 DEF TypeOK, RowTypes, CommitSession
<1>3. DriverTypes'
  BY GotoTypes DEF TypeOK, CommitSession, TurnLabels, TurnSteps
<1>. QED
  BY <1>2, <1>3 DEF TypeOK, CommitSession, RecordTypes, RunTypes, RequestTypes, FaultTypes

LEMMA EndTurnTypes ==
    ASSUME TypeOK, NEW d \in Drivers, EndTurn(d)
    PROVE  TypeOK'
<1>1. RunTypes' /\ DriverTypes'
  BY EndRunTypes DEF TypeOK, EndTurn
<1>. QED
  BY <1>1 DEF TypeOK, EndTurn, RowTypes, RecordTypes, RequestTypes, FaultTypes

LEMMA CollectAnswersTypes ==
    ASSUME TypeOK, NEW d \in Drivers, CollectAnswers(d)
    PROVE  TypeOK'
<1>1. Scored \subseteq Rounds
  BY DEF Scored
<1>2. DriverTypes' /\ RecordTypes'
  BY <1>1, CheckpointTypes DEF TypeOK, CollectAnswers, RecordTypes, ReportLabels, ReportSteps
<1>. QED
  BY <1>2 DEF TypeOK, CollectAnswers, RowTypes, RunTypes, RequestTypes, FaultTypes

LEMMA ReportReadsTypes ==
    ASSUME TypeOK, NEW d \in Drivers, ReportReads(d)
    PROVE  TypeOK'
<1>1. DriverTypes'
  BY DEF TypeOK, ReportReads, DriverTypes, RowTypes, Goto, TurnLabels, TurnSteps, ReportLabels, ReportSteps
<1>. QED
  BY <1>1 DEF TypeOK, ReportReads, RowTypes, RecordTypes, RunTypes, RequestTypes, FaultTypes

LEMMA AddReportTypes ==
    ASSUME TypeOK, NEW d \in Drivers, AddReport(d)
    PROVE  TypeOK'
<1>1. RowTypes'
  BY DEF TypeOK, AddReport, RowTypes, RecordTypes
<1>2. DriverTypes'
  BY GotoTypes DEF TypeOK, AddReport, ReportLabels, ReportSteps
<1>. QED
  BY <1>1, <1>2 DEF TypeOK, AddReport, RecordTypes, RunTypes, RequestTypes, FaultTypes

LEMMA CompleteSessionTypes ==
    ASSUME TypeOK, NEW d \in Drivers, CompleteSession(d)
    PROVE  TypeOK'
<1>1. CASE EndRun(d, "failed") /\ UNCHANGED session
  <2>1. RunTypes' /\ DriverTypes'
    BY <1>1, EndRunTypes DEF TypeOK
  <2>. QED
    BY <1>1, <2>1 DEF TypeOK, CompleteSession, RowTypes, RecordTypes, RequestTypes, FaultTypes
<1>2. CASE /\ Lifecycle!Allows(snap[d].phase, "complete")
           /\ session' = Advanced(snap[d], "complete")
           /\ Goto(d, "reported")
           /\ UNCHANGED <<run, drive, snap>>
  <2>1. snap[d] \in Sessions /\ snap[d].phase \in Lifecycle!Phases
    BY DEF TypeOK, DriverTypes, Sessions
  <2>2. snap[d].phase = "evaluating"
    BY <1>2, <2>1, Guards
  <2>3. Advanced(snap[d], "complete") \in Sessions
    BY <2>1, <2>2, Moves DEF Advanced, Sessions, Lifecycle!Phases
  <2>4. DriverTypes'
    BY <1>2, GotoTypes DEF TypeOK, CompleteSession, ReportLabels, ReportSteps
  <2>. QED
    BY <1>2, <2>3, <2>4 DEF TypeOK, CompleteSession, RowTypes, RecordTypes, RunTypes,
       RequestTypes, FaultTypes
<1>. QED
  BY <1>1, <1>2 DEF CompleteSession

LEMMA EndReportTypes ==
    ASSUME TypeOK, NEW d \in Drivers, EndReport(d)
    PROVE  TypeOK'
<1>1. RunTypes' /\ DriverTypes'
  BY EndRunTypes DEF TypeOK, EndReport
<1>. QED
  BY <1>1 DEF TypeOK, EndReport, RowTypes, RecordTypes, RequestTypes, FaultTypes

LEMMA CrashTypes ==
    ASSUME TypeOK, NEW d \in Drivers, Crash(d)
    PROVE  TypeOK'
<1>1. DriverTypes'
  BY ReleaseTypes DEF TypeOK, Crash
<1>2. FaultTypes'
  BY DEF TypeOK, Crash, FaultTypes
<1>. QED
  BY <1>1, <1>2 DEF TypeOK, Crash, RowTypes, RecordTypes, RunTypes, RequestTypes

LEMMA ErrorTypes ==
    ASSUME TypeOK, NEW d \in Drivers, Error(d)
    PROVE  TypeOK'
<1>1. RunTypes' /\ DriverTypes'
  BY EndRunTypes DEF TypeOK, Error
<1>2. FaultTypes'
  BY DEF TypeOK, Error, FaultTypes
<1>. QED
  BY <1>1, <1>2 DEF TypeOK, Error, RowTypes, RecordTypes, RequestTypes

LEMMA TypeStep == TypeOK /\ [Next]_vars => TypeOK'
<1>. SUFFICES ASSUME TypeOK, [Next]_vars PROVE TypeOK'
  OBVIOUS
<1>1. CASE UNCHANGED vars
  BY <1>1 DEF vars, TypeOK, RowTypes, RecordTypes, RunTypes, DriverTypes, RequestTypes, FaultTypes
<1>2. ASSUME NEW q \in Requests, Request(q) PROVE TypeOK'
  BY <1>2, SubmitTurnTypes, CountTurnsTypes, StageUploadTypes, StartTurnTypes, FinishTypes, StartEvaluationTypes, StartReportTypes, LoseRequestTypes
     DEF Request
<1>3. ASSUME NEW d \in Drivers, Drive(d) PROVE TypeOK'
  BY <1>3, TakeTypes, PersistAudioTypes, TranscribeTypes, ComposeReadsTypes, ComposeTypes, CommitReplyTypes, CommitToldTypes, CommitSessionTypes, EndTurnTypes, CollectAnswersTypes, ReportReadsTypes, AddReportTypes, CompleteSessionTypes, EndReportTypes
     DEF Drive, TurnStep, EvaluationStep
<1>4. ASSUME NEW d \in Drivers, Crash(d) \/ Error(d) PROVE TypeOK'
  BY <1>4, CrashTypes, ErrorTypes
<1>. QED
  BY <1>1, <1>2, <1>3, <1>4 DEF Next

\* Every variable keeps its type, for every value of the constants.
THEOREM TypeCorrect == Spec => []TypeOK
BY InitTypes, TypeStep, PTL DEF Spec

-------------------------------------------------------------------------------
(***************************************************************************)
(* No gap.  RowsContiguous is not inductive: a commit inserts the rows of  *)
(* an index computed long before.  What makes it safe is that every row    *)
(* before the round was there when the index was computed, and rows are    *)
(* never deleted; so the invariant carries that fact along the round's way *)
(* from the request to the run and from the run to its worker.             *)
(***************************************************************************)

\* Every row before the round is there.
RoundOpen(n) == 0..(2 * n - 1) \subseteq rows

AcceptedRoundsOpen == \A q \in Requests : asking[q] \in {"stage", "start"} => RoundOpen(index[q])
StartedRoundsOpen == \A n \in Rounds : run[n] # "none" => RoundOpen(n)
DrivenRoundsOpen == \A d \in Drivers : at[d] \in TurnLabels => RoundOpen(drive[d])
ToldAfterReply == \A d \in Drivers : at[d] = "told" => Reply(drive[d]) \in rows

Gapless ==
    /\ RowsContiguous
    /\ AcceptedRoundsOpen
    /\ StartedRoundsOpen
    /\ DrivenRoundsOpen
    /\ ToldAfterReply

\* The index submit_turn computes is a round whose predecessors are complete.
LEMMA NextRoundIsOpen ==
    ASSUME RowsContiguous
    PROVE  NextIndex \in Nat /\ RoundOpen(NextIndex)
<1>1. PICK m \in 0..(2 * MaxTurns) : rows = 0..(m - 1)
  BY DEF RowsContiguous
<1>2. m \in Nat
  BY <1>1, SessionAssumption
<1>3. Cardinality(rows) = m
  BY <1>1, <1>2, FS_Interval
<1>4. NextIndex \in Nat /\ 2 * NextIndex <= m
  BY <1>2, <1>3, Halves DEF NextIndex
<1>. QED
  BY <1>1, <1>2, <1>4 DEF RoundOpen

\* Adding the row after the last one leaves no gap.
LEMMA NextRowKeepsContiguous ==
    ASSUME RowsContiguous, NEW i \in 0..(2 * MaxTurns - 1),
           0..(i - 1) \subseteq rows, i \notin rows, AddRow(i)
    PROVE  RowsContiguous'
<1>1. PICK m \in 0..(2 * MaxTurns) : rows = 0..(m - 1)
  BY DEF RowsContiguous
<1>2. MaxTurns \in Nat /\ m \in Nat /\ i \in Nat
  BY SessionAssumption
<1>3. m <= i
  BY <1>1, <1>2
<1>4. m >= i
  <2>1. SUFFICES ASSUME m < i PROVE FALSE
    BY <1>2
  <2>2. m \in 0..(i - 1) /\ m \notin rows
    BY <1>1, <1>2, <2>1
  <2>. QED
    BY <2>2
<1>5. rows' = 0..((i + 1) - 1) /\ i + 1 \in 0..(2 * MaxTurns)
  BY <1>1, <1>2, <1>3, <1>4 DEF AddRow
<1>. QED
  BY <1>5 DEF RowsContiguous

\* Rows are never deleted, so an open round stays open.
LEMMA OpenStaysOpen ==
    ASSUME rows \subseteq rows', NEW n, RoundOpen(n)
    PROVE  0..(2 * n - 1) \subseteq rows'
BY DEF RoundOpen

LEMMA InitGapless == Init => Gapless
<1>. SUFFICES ASSUME Init PROVE Gapless
  OBVIOUS
<1>1. RowsContiguous
  <2>1. 0 \in 0..(2 * MaxTurns) /\ rows = 0..(0 - 1)
    BY SessionAssumption DEF Init
  <2>. QED
    BY <2>1 DEF RowsContiguous
<1>2. AcceptedRoundsOpen
  BY DEF Init, AcceptedRoundsOpen
<1>3. StartedRoundsOpen
  BY KeysAreRoundsAndReport DEF Init, StartedRoundsOpen
<1>4. DrivenRoundsOpen /\ ToldAfterReply
  BY DEF Init, DrivenRoundsOpen, ToldAfterReply, TurnLabels, TurnSteps
<1>. QED
  BY <1>1, <1>2, <1>3, <1>4 DEF Gapless

\* The four parts that follow a round, one by one: each is kept by a step that
\* deletes no row and moves its own part only as the step below says.
LEMMA RequestsKept ==
    ASSUME RequestTypes, AcceptedRoundsOpen, rows \subseteq rows', UNCHANGED <<asking, index>>
    PROVE  AcceptedRoundsOpen'
BY OpenStaysOpen DEF AcceptedRoundsOpen, RoundOpen

LEMMA RunsKept ==
    ASSUME StartedRoundsOpen, rows \subseteq rows', UNCHANGED run
    PROVE  StartedRoundsOpen'
BY OpenStaysOpen DEF StartedRoundsOpen, RoundOpen

LEMMA DriversKept ==
    ASSUME DrivenRoundsOpen, ToldAfterReply, rows \subseteq rows', UNCHANGED <<at, drive>>
    PROVE  DrivenRoundsOpen' /\ ToldAfterReply'
BY OpenStaysOpen DEF DrivenRoundsOpen, ToldAfterReply, RoundOpen, Reply

LEMMA RowsKept ==
    ASSUME RowsContiguous, UNCHANGED rows
    PROVE  RowsContiguous' /\ rows \subseteq rows'
BY DEF RowsContiguous

\* A request that ends has no index; a worker that lets go drives nothing.
LEMMA RespondKeeps ==
    ASSUME RequestTypes, AcceptedRoundsOpen, UNCHANGED rows, NEW q \in Requests, Respond(q)
    PROVE  AcceptedRoundsOpen'
BY DEF RequestTypes, AcceptedRoundsOpen, RoundOpen, Respond

LEMMA ReleaseKeeps ==
    ASSUME DriverTypes, DrivenRoundsOpen, ToldAfterReply, UNCHANGED rows,
           NEW d \in Drivers, Release(d)
    PROVE  DrivenRoundsOpen' /\ ToldAfterReply'
BY DEF DriverTypes, DrivenRoundsOpen, ToldAfterReply, RoundOpen, Reply, Release, TurnLabels, TurnSteps

\* Only a round that is driven, hence open, gets a verdict.
LEMMA EndRunKeeps ==
    ASSUME TypeOK, Gapless, UNCHANGED rows, NEW d \in Drivers, at[d] # "free",
           NEW verdict, EndRun(d, verdict)
    PROVE  StartedRoundsOpen' /\ DrivenRoundsOpen' /\ ToldAfterReply'
<1>1. DrivenRoundsOpen' /\ ToldAfterReply'
  BY ReleaseKeeps DEF TypeOK, Gapless, EndRun
<1>2. drive[d] = Report \/ RoundOpen(drive[d])
  BY DEF TypeOK, DriverTypes, Gapless, DrivenRoundsOpen
<1>3. StartedRoundsOpen'
  BY <1>2, KeysAreRoundsAndReport DEF TypeOK, RunTypes, Gapless, StartedRoundsOpen, RoundOpen, EndRun
<1>. QED
  BY <1>1, <1>3

\* A worker that moves on in the workflow it is in, anywhere but to "told".
LEMMA GotoKeeps ==
    ASSUME DriverTypes, DrivenRoundsOpen, ToldAfterReply, rows \subseteq rows',
           NEW d \in Drivers, NEW l, Goto(d, l), l # "told", UNCHANGED drive,
           l \in TurnLabels => at[d] \in TurnLabels
    PROVE  DrivenRoundsOpen' /\ ToldAfterReply'
<1>1. DrivenRoundsOpen'
  BY DEF DriverTypes, DrivenRoundsOpen, RoundOpen, Goto
<1>2. ToldAfterReply'
  BY DEF DriverTypes, ToldAfterReply, Reply, Goto
<1>. QED
  BY <1>1, <1>2

LEMMA SubmitTurnKeeps ==
    ASSUME TypeOK, Gapless, NEW q \in Requests, SubmitTurn(q)
    PROVE  Gapless'
<1>1. AcceptedRoundsOpen'
  BY DEF TypeOK, RequestTypes, Gapless, AcceptedRoundsOpen, RoundOpen, SubmitTurn
<1>. QED
  BY <1>1, RowsKept, RunsKept, DriversKept DEF Gapless, SubmitTurn

LEMMA CountTurnsKeeps ==
    ASSUME TypeOK, Gapless, NEW q \in Requests, CountTurns(q)
    PROVE  Gapless'
<1>1. AcceptedRoundsOpen'
  <2>1. CASE Respond(q)
    BY <2>1, RespondKeeps DEF TypeOK, Gapless, CountTurns
  <2>2. CASE ~Respond(q)
    BY <2>2, NextRoundIsOpen DEF TypeOK, RequestTypes, Gapless, AcceptedRoundsOpen, RoundOpen, CountTurns
  <2>. QED
    BY <2>1, <2>2
<1>. QED
  BY <1>1, RowsKept, RunsKept, DriversKept DEF Gapless, CountTurns

LEMMA StageUploadKeeps ==
    ASSUME TypeOK, Gapless, NEW q \in Requests, StageUpload(q)
    PROVE  Gapless'
<1>1. AcceptedRoundsOpen'
  BY DEF TypeOK, RequestTypes, Gapless, AcceptedRoundsOpen, RoundOpen, StageUpload
<1>. QED
  BY <1>1, RowsKept, RunsKept, DriversKept DEF Gapless, StageUpload

LEMMA StartTurnKeeps ==
    ASSUME TypeOK, Gapless, NEW q \in Requests, StartTurn(q)
    PROVE  Gapless'
<1>1. AcceptedRoundsOpen'
  BY RespondKeeps DEF TypeOK, Gapless, StartTurn
<1>2. index[q] \in Rounds /\ RoundOpen(index[q])
  BY DEF TypeOK, RequestTypes, Gapless, AcceptedRoundsOpen, StartTurn
<1>3. StartedRoundsOpen'
  BY <1>2, KeysAreRoundsAndReport
     DEF TypeOK, RunTypes, Gapless, StartedRoundsOpen, RoundOpen, StartTurn, StartRun
<1>. QED
  BY <1>1, <1>3, RowsKept, DriversKept DEF Gapless, StartTurn

LEMMA FinishKeeps ==
    ASSUME TypeOK, Gapless, NEW q \in Requests, Finish(q)
    PROVE  Gapless'
<1>1. AcceptedRoundsOpen'
  BY DEF TypeOK, RequestTypes, Gapless, AcceptedRoundsOpen, RoundOpen, Finish
<1>. QED
  BY <1>1, RowsKept, RunsKept, DriversKept DEF Gapless, Finish

LEMMA StartEvaluationKeeps ==
    ASSUME TypeOK, Gapless, NEW q \in Requests, StartEvaluation(q)
    PROVE  Gapless'
<1>1. AcceptedRoundsOpen'
  BY DEF TypeOK, RequestTypes, Gapless, AcceptedRoundsOpen, RoundOpen, StartEvaluation
<1>. QED
  BY <1>1, RowsKept, RunsKept, DriversKept DEF Gapless, StartEvaluation

LEMMA StartReportKeeps ==
    ASSUME TypeOK, Gapless, NEW q \in Requests, StartReport(q)
    PROVE  Gapless'
<1>1. AcceptedRoundsOpen'
  BY RespondKeeps DEF TypeOK, Gapless, StartReport
<1>2. StartedRoundsOpen'
  BY KeysAreRoundsAndReport
     DEF TypeOK, RunTypes, Gapless, StartedRoundsOpen, RoundOpen, StartReport, StartRun
<1>. QED
  BY <1>1, <1>2, RowsKept, DriversKept DEF Gapless, StartReport

LEMMA LoseRequestKeeps ==
    ASSUME TypeOK, Gapless, NEW q \in Requests, LoseRequest(q)
    PROVE  Gapless'
<1>1. AcceptedRoundsOpen'
  BY RespondKeeps DEF TypeOK, Gapless, LoseRequest
<1>. QED
  BY <1>1, RowsKept, RunsKept, DriversKept DEF Gapless, LoseRequest

LEMMA TakeKeeps ==
    ASSUME TypeOK, Gapless, NEW d \in Drivers, Take(d)
    PROVE  Gapless'
<1>1. PICK k \in Keys : /\ run[k] = "running"
                       /\ drive' = [drive EXCEPT ![d] = k]
                       /\ at' = [at EXCEPT ![d] = todo[k]]
  BY DEF Take
<1>2. todo[k] \in TurnLabels => RoundOpen(k)
  BY <1>1, KeysAreRoundsAndReport
     DEF TypeOK, RecordTypes, Gapless, StartedRoundsOpen, TurnLabels, TurnSteps, ReportSteps
<1>3. todo[k] # "told"
  BY DEF TypeOK, RecordTypes, TurnSteps, ReportSteps
<1>4. DrivenRoundsOpen'
  BY <1>1, <1>2 DEF TypeOK, DriverTypes, Gapless, DrivenRoundsOpen, RoundOpen, Take
<1>5. ToldAfterReply'
  BY <1>1, <1>3 DEF TypeOK, DriverTypes, Gapless, ToldAfterReply, Reply, Take
<1>. QED
  BY <1>4, <1>5, RowsKept, RunsKept, RequestsKept DEF TypeOK, Gapless, Take

LEMMA PersistAudioKeeps ==
    ASSUME TypeOK, Gapless, NEW d \in Drivers, PersistAudio(d)
    PROVE  Gapless'
<1>1. DrivenRoundsOpen' /\ ToldAfterReply'
  BY RowsKept, GotoKeeps DEF TypeOK, Gapless, PersistAudio, Checkpoint, TurnLabels, TurnSteps, ReportLabels, ReportSteps
<1>. QED
  BY <1>1, RowsKept, RunsKept, RequestsKept DEF TypeOK, Gapless, PersistAudio

LEMMA TranscribeKeeps ==
    ASSUME TypeOK, Gapless, NEW d \in Drivers, Transcribe(d)
    PROVE  Gapless'
<1>1. DrivenRoundsOpen' /\ ToldAfterReply'
  BY RowsKept, GotoKeeps DEF TypeOK, Gapless, Transcribe, Checkpoint, TurnLabels, TurnSteps, ReportLabels, ReportSteps
<1>. QED
  BY <1>1, RowsKept, RunsKept, RequestsKept DEF TypeOK, Gapless, Transcribe

LEMMA ComposeReadsKeeps ==
    ASSUME TypeOK, Gapless, NEW d \in Drivers, ComposeReads(d)
    PROVE  Gapless'
<1>1. DrivenRoundsOpen' /\ ToldAfterReply'
  BY RowsKept, GotoKeeps DEF TypeOK, Gapless, ComposeReads, TurnLabels, TurnSteps, ReportLabels, ReportSteps
<1>. QED
  BY <1>1, RowsKept, RunsKept, RequestsKept DEF TypeOK, Gapless, ComposeReads

LEMMA ComposeKeeps ==
    ASSUME TypeOK, Gapless, NEW d \in Drivers, Compose(d)
    PROVE  Gapless'
<1>1. CASE EndRun(d, "failed")
  <2>1. StartedRoundsOpen' /\ DrivenRoundsOpen' /\ ToldAfterReply'
    BY <1>1, EndRunKeeps DEF Compose
  <2>. QED
    BY <2>1, RowsKept, RequestsKept DEF TypeOK, Gapless, Compose
<1>2. CASE Checkpoint(d, "commit_turn") /\ UNCHANGED <<run, drive, snap>>
  <2>1. DrivenRoundsOpen' /\ ToldAfterReply'
    BY <1>2, RowsKept, GotoKeeps DEF TypeOK, Gapless, Compose, Checkpoint, TurnLabels, TurnSteps
  <2>. QED
    BY <1>2, <2>1, RowsKept, RunsKept, RequestsKept DEF TypeOK, Gapless, Compose
<1>. QED
  BY <1>1, <1>2 DEF Compose

LEMMA CommitReplyKeeps ==
    ASSUME TypeOK, Gapless, NEW d \in Drivers, CommitReply(d)
    PROVE  Gapless'
<1>1. drive[d] \in Rounds /\ RoundOpen(drive[d])
  BY DrivesRound DEF TypeOK, Gapless, DrivenRoundsOpen, CommitReply, TurnLabels, TurnSteps
<1>2. CASE EndRun(d, "failed") /\ UNCHANGED rows
  <2>1. StartedRoundsOpen' /\ DrivenRoundsOpen' /\ ToldAfterReply'
    BY <1>2, EndRunKeeps DEF CommitReply
  <2>. QED
    BY <1>2, <2>1, RowsKept, RequestsKept DEF TypeOK, Gapless, CommitReply
<1>3. CASE /\ Reply(drive[d]) \notin rows
           /\ AddRow(Reply(drive[d]))
           /\ Goto(d, "told")
           /\ UNCHANGED <<run, drive, snap>>
  <2>1. rows \subseteq rows' /\ Reply(drive[d]) \in rows'
    BY <1>3 DEF AddRow
  <2>2. RowsContiguous'
    BY <1>1, <1>3, RowIndices, NextRowKeepsContiguous DEF Gapless, RoundOpen, Reply
  <2>3. DrivenRoundsOpen'
    BY <1>1, <1>3, <2>1
       DEF TypeOK, DriverTypes, Gapless, DrivenRoundsOpen, RoundOpen, Goto
  <2>4. ToldAfterReply'
    BY <1>3, <2>1 DEF TypeOK, DriverTypes, Gapless, ToldAfterReply, Reply, Goto
  <2>. QED
    BY <1>3, <2>1, <2>2, <2>3, <2>4, RunsKept, RequestsKept DEF TypeOK, Gapless, CommitReply
<1>. QED
  BY <1>2, <1>3 DEF CommitReply

LEMMA CommitToldKeeps ==
    ASSUME TypeOK, Gapless, NEW d \in Drivers, CommitTold(d)
    PROVE  Gapless'
<1>1. /\ drive[d] \in Rounds
      /\ RoundOpen(drive[d])
      /\ Reply(drive[d]) \in rows
  BY DrivesRound DEF TypeOK, Gapless, DrivenRoundsOpen, ToldAfterReply, CommitTold, TurnLabels, TurnSteps
<1>2. CASE EndRun(d, "failed") /\ UNCHANGED rows
  <2>1. StartedRoundsOpen' /\ DrivenRoundsOpen' /\ ToldAfterReply'
    BY <1>2, EndRunKeeps DEF CommitTold
  <2>. QED
    BY <1>2, <2>1, RowsKept, RequestsKept DEF TypeOK, Gapless, CommitTold
<1>3. CASE /\ Told(drive[d]) \notin rows
           /\ AddRow(Told(drive[d]))
           /\ Goto(d, "session")
           /\ UNCHANGED <<run, drive, snap>>
  <2>1. rows \subseteq rows'
    BY <1>3 DEF AddRow
  <2>2. 0..(Told(drive[d]) - 1) \subseteq rows
    BY <1>1, RowIndices DEF RoundOpen, Reply, Told
  <2>3. RowsContiguous'
    BY <1>1, <1>3, <2>2, RowIndices, NextRowKeepsContiguous DEF Gapless
  <2>4. DrivenRoundsOpen' /\ ToldAfterReply'
    BY <1>3, <2>1, GotoKeeps DEF TypeOK, Gapless, CommitTold, TurnLabels, TurnSteps
  <2>. QED
    BY <1>3, <2>1, <2>3, <2>4, RunsKept, RequestsKept DEF TypeOK, Gapless, CommitTold
<1>. QED
  BY <1>2, <1>3 DEF CommitTold

LEMMA CommitSessionKeeps ==
    ASSUME TypeOK, Gapless, NEW d \in Drivers, CommitSession(d)
    PROVE  Gapless'
<1>1. DrivenRoundsOpen' /\ ToldAfterReply'
  BY RowsKept, GotoKeeps DEF TypeOK, Gapless, CommitSession, TurnLabels, TurnSteps, ReportLabels, ReportSteps
<1>. QED
  BY <1>1, RowsKept, RunsKept, RequestsKept DEF TypeOK, Gapless, CommitSession

LEMMA EndTurnKeeps ==
    ASSUME TypeOK, Gapless, NEW d \in Drivers, EndTurn(d)
    PROVE  Gapless'
<1>1. StartedRoundsOpen' /\ DrivenRoundsOpen' /\ ToldAfterReply'
  BY EndRunKeeps DEF EndTurn
<1>. QED
  BY <1>1, RowsKept, RequestsKept DEF TypeOK, Gapless, EndTurn

LEMMA CollectAnswersKeeps ==
    ASSUME TypeOK, Gapless, NEW d \in Drivers, CollectAnswers(d)
    PROVE  Gapless'
<1>1. DrivenRoundsOpen' /\ ToldAfterReply'
  BY RowsKept, GotoKeeps DEF TypeOK, Gapless, CollectAnswers, Checkpoint, TurnLabels, TurnSteps, ReportLabels, ReportSteps
<1>. QED
  BY <1>1, RowsKept, RunsKept, RequestsKept DEF TypeOK, Gapless, CollectAnswers

LEMMA ReportReadsKeeps ==
    ASSUME TypeOK, Gapless, NEW d \in Drivers, ReportReads(d)
    PROVE  Gapless'
<1>1. DrivenRoundsOpen' /\ ToldAfterReply'
  BY RowsKept, GotoKeeps DEF TypeOK, Gapless, ReportReads, TurnLabels, TurnSteps, ReportLabels, ReportSteps
<1>. QED
  BY <1>1, RowsKept, RunsKept, RequestsKept DEF TypeOK, Gapless, ReportReads

LEMMA AddReportKeeps ==
    ASSUME TypeOK, Gapless, NEW d \in Drivers, AddReport(d)
    PROVE  Gapless'
<1>1. DrivenRoundsOpen' /\ ToldAfterReply'
  BY RowsKept, GotoKeeps DEF TypeOK, Gapless, AddReport, TurnLabels, TurnSteps, ReportLabels, ReportSteps
<1>. QED
  BY <1>1, RowsKept, RunsKept, RequestsKept DEF TypeOK, Gapless, AddReport

LEMMA CompleteSessionKeeps ==
    ASSUME TypeOK, Gapless, NEW d \in Drivers, CompleteSession(d)
    PROVE  Gapless'
<1>1. CASE EndRun(d, "failed")
  <2>1. StartedRoundsOpen' /\ DrivenRoundsOpen' /\ ToldAfterReply'
    BY <1>1, EndRunKeeps DEF CompleteSession
  <2>. QED
    BY <2>1, RowsKept, RequestsKept DEF TypeOK, Gapless, CompleteSession
<1>2. CASE Goto(d, "reported") /\ UNCHANGED <<run, drive, snap>>
  <2>1. DrivenRoundsOpen' /\ ToldAfterReply'
    BY <1>2, RowsKept, GotoKeeps DEF TypeOK, Gapless, CompleteSession, TurnLabels, TurnSteps
  <2>. QED
    BY <1>2, <2>1, RowsKept, RunsKept, RequestsKept DEF TypeOK, Gapless, CompleteSession
<1>. QED
  BY <1>1, <1>2 DEF CompleteSession

LEMMA EndReportKeeps ==
    ASSUME TypeOK, Gapless, NEW d \in Drivers, EndReport(d)
    PROVE  Gapless'
<1>1. StartedRoundsOpen' /\ DrivenRoundsOpen' /\ ToldAfterReply'
  BY EndRunKeeps DEF EndReport
<1>. QED
  BY <1>1, RowsKept, RequestsKept DEF TypeOK, Gapless, EndReport

LEMMA CrashKeeps ==
    ASSUME TypeOK, Gapless, NEW d \in Drivers, Crash(d)
    PROVE  Gapless'
<1>1. DrivenRoundsOpen' /\ ToldAfterReply'
  BY ReleaseKeeps DEF TypeOK, Gapless, Crash
<1>. QED
  BY <1>1, RowsKept, RunsKept, RequestsKept DEF TypeOK, Gapless, Crash

LEMMA ErrorKeeps ==
    ASSUME TypeOK, Gapless, NEW d \in Drivers, Error(d)
    PROVE  Gapless'
<1>1. StartedRoundsOpen' /\ DrivenRoundsOpen' /\ ToldAfterReply'
  BY EndRunKeeps DEF Error
<1>. QED
  BY <1>1, RowsKept, RequestsKept DEF TypeOK, Gapless, Error

LEMMA GaplessStep == TypeOK /\ Gapless /\ [Next]_vars => Gapless'
<1>. SUFFICES ASSUME TypeOK, Gapless, [Next]_vars PROVE Gapless'
  OBVIOUS
<1>1. CASE UNCHANGED vars
  BY <1>1, RowsKept, RunsKept, RequestsKept, DriversKept DEF vars, TypeOK, Gapless
<1>2. ASSUME NEW q \in Requests, Request(q) PROVE Gapless'
  BY <1>2, SubmitTurnKeeps, CountTurnsKeeps, StageUploadKeeps,
     StartTurnKeeps, FinishKeeps, StartEvaluationKeeps,
     StartReportKeeps, LoseRequestKeeps
     DEF Request
<1>3. ASSUME NEW d \in Drivers, Drive(d) PROVE Gapless'
  BY <1>3, TakeKeeps, PersistAudioKeeps, TranscribeKeeps, ComposeReadsKeeps,
     ComposeKeeps, CommitReplyKeeps, CommitToldKeeps,
     CommitSessionKeeps, EndTurnKeeps, CollectAnswersKeeps,
     ReportReadsKeeps, AddReportKeeps, CompleteSessionKeeps,
     EndReportKeeps
     DEF Drive, TurnStep, EvaluationStep
<1>4. ASSUME NEW d \in Drivers, Crash(d) \/ Error(d) PROVE Gapless'
  BY <1>4, CrashKeeps, ErrorKeeps
<1>. QED
  BY <1>1, <1>2, <1>3, <1>4 DEF Next

\* The turn rows of a session never have a gap, whatever requests race, however
\* many workers drive and wherever a commit breaks off.
THEOREM NoGap == Spec => []RowsContiguous
<1>1. TypeOK /\ Gapless /\ [Next]_vars => TypeOK' /\ Gapless'
  BY TypeStep, GaplessStep
<1>2. Gapless => RowsContiguous
  BY DEF Gapless
<1>. QED
  BY <1>1, <1>2, InitTypes, InitGapless, PTL DEF Spec

-------------------------------------------------------------------------------
(***************************************************************************)
(* The bytes of a round are staged before its run exists.  What carries it *)
(* is that a request asks for the run only after its upload, that bytes    *)
(* are replaced and never removed, and that a worker ends only runs there  *)
(* are.                                                                    *)
(***************************************************************************)

UploadedFirst == \A q \in Requests : asking[q] = "start" => upload[index[q]] # {}
DrivenExists == \A d \in Drivers : at[d] # "free" => run[drive[d]] # "none"

Staged == BytesBeforeRun /\ UploadedFirst /\ DrivenExists

LEMMA InitStaged == Init => Staged
BY KeysAreRoundsAndReport DEF Init, Staged, BytesBeforeRun, UploadedFirst, DrivenExists

\* A request that stages nothing and starts nothing.
LEMMA QuietRequest ==
    ASSUME Staged, UNCHANGED <<upload, run, driverVars>>,
           \A q \in Requests : asking'[q] = "start" => /\ asking[q] = "start"
                                                      /\ index'[q] = index[q]
    PROVE  Staged'
BY DEF Staged, BytesBeforeRun, UploadedFirst, DrivenExists

LEMMA RequestStages == ASSUME TypeOK, Staged, NEW q \in Requests, Request(q) PROVE Staged'
<1>. USE DEF Staged
<1>1. CASE SubmitTurn(q) \/ CountTurns(q)
  BY <1>1, QuietRequest DEF SubmitTurn, CountTurns, Respond, TypeOK, RequestTypes
<1>2. CASE Finish(q) \/ StartEvaluation(q) \/ LoseRequest(q)
  BY <1>2, QuietRequest DEF Finish, StartEvaluation, LoseRequest, Respond, TypeOK, RequestTypes
<1>3. CASE StageUpload(q)
  <2>1. index[q] \in Rounds
    BY <1>3 DEF StageUpload, TypeOK, RequestTypes
  <2>2. /\ upload'[index[q]] # {}
        /\ \A n \in Rounds : upload[n] # {} => upload'[n] # {}
    BY <1>3, <2>1 DEF StageUpload, TypeOK, RowTypes
  <2>3. \A r \in Requests : asking'[r] = "start" => r = q \/ asking[r] = "start"
    BY <1>3 DEF StageUpload, TypeOK, RequestTypes
  <2>4. \A r \in Requests : asking[r] = "start" => index[r] \in Rounds
    BY DEF TypeOK, RequestTypes
  <2>5. UNCHANGED <<run, at, drive, index>>
    BY <1>3 DEF StageUpload
  <2>. QED
    BY <2>2, <2>3, <2>4, <2>5 DEF BytesBeforeRun, UploadedFirst, DrivenExists
<1>4. ASSUME StartTurn(q) \/ StartReport(q) PROVE Staged'
  <2>1. PICK k \in Keys : /\ StartRun(k)
                          /\ k \in Rounds => upload[k] # {}
    <3>1. CASE StartTurn(q)
      BY <3>1, RowIndices DEF StartTurn, UploadedFirst, TypeOK, RequestTypes
    <3>2. CASE StartReport(q)
      BY <3>2, KeysAreRoundsAndReport DEF StartReport
    <3>. QED
      BY <1>4, <3>1, <3>2
  <2>2. \A j \in Keys : run'[j] = IF j = k /\ run[j] = "none" THEN "running" ELSE run[j]
    BY <2>1 DEF StartRun, TypeOK, RunTypes
  <2>3. UNCHANGED <<upload, at, drive>> /\ Respond(q)
    BY <1>4 DEF StartTurn, StartReport
  <2>4. BytesBeforeRun'
    BY <2>1, <2>2, <2>3, RowIndices DEF BytesBeforeRun
  <2>5. UploadedFirst'
    BY <2>3 DEF UploadedFirst, Respond, TypeOK, RequestTypes
  <2>6. DrivenExists'
    BY <2>2, <2>3 DEF DrivenExists, TypeOK, DriverTypes
  <2>. QED
    BY <2>4, <2>5, <2>6
<1>. QED
  BY <1>1, <1>2, <1>3, <1>4 DEF Request

\* A worker moves on within the run it drives, or lets go of it.
LEMMA WorkerMoves ==
    ASSUME Staged, UNCHANGED <<upload, run, asking, index>>,
           \A d \in Drivers : at'[d] # "free" => at[d] # "free" /\ drive'[d] = drive[d]
    PROVE  Staged'
BY DEF Staged, BytesBeforeRun, UploadedFirst, DrivenExists

\* A worker ends the run it drives.
LEMMA WorkerEnds ==
    ASSUME TypeOK, Staged, UNCHANGED <<upload, asking, index>>,
           NEW d \in Drivers, at[d] # "free",
           NEW verdict \in {"succeeded", "failed"}, EndRun(d, verdict)
    PROVE  Staged'
<1>1. \A k \in Keys : run'[k] # "none" <=> run[k] # "none"
  BY DEF EndRun, TypeOK, RunTypes, DriverTypes, Staged, DrivenExists
<1>2. \A e \in Drivers : at'[e] # "free" => at[e] # "free" /\ drive'[e] = drive[e]
  BY DEF EndRun, Release, TypeOK, DriverTypes
<1>. QED
  BY <1>1, <1>2, RowIndices DEF Staged, BytesBeforeRun, UploadedFirst, DrivenExists, TypeOK, DriverTypes

LEMMA DriveStages == ASSUME TypeOK, Staged, NEW d \in Drivers, Drive(d) PROVE Staged'
<1>1. CASE Take(d)
  <2>1. PICK k \in Keys : /\ run[k] = "running"
                          /\ drive' = [drive EXCEPT ![d] = k]
                          /\ at' = [at EXCEPT ![d] = todo[k]]
    BY <1>1 DEF Take
  <2>2. UNCHANGED <<upload, run, asking, index>>
    BY <1>1 DEF Take
  <2>. QED
    BY <2>1, <2>2 DEF Staged, BytesBeforeRun, UploadedFirst, DrivenExists, TypeOK, DriverTypes
<1>2. CASE PersistAudio(d) \/ Transcribe(d) \/ ComposeReads(d)
  BY <1>2, WorkerMoves DEF PersistAudio, Transcribe, ComposeReads, Checkpoint, Goto, TypeOK, DriverTypes
<1>3. CASE Compose(d)
  <2>1. CASE EndRun(d, "failed")
    BY <1>3, <2>1, WorkerEnds DEF Compose
  <2>2. CASE Checkpoint(d, "commit_turn") /\ UNCHANGED <<run, drive>>
    BY <1>3, <2>2, WorkerMoves DEF Compose, Checkpoint, Goto, TypeOK, DriverTypes
  <2>. QED
    BY <1>3, <2>1, <2>2 DEF Compose
<1>4. CASE CommitReply(d)
  <2>1. CASE EndRun(d, "failed")
    BY <1>4, <2>1, WorkerEnds DEF CommitReply
  <2>2. CASE Goto(d, "told") /\ UNCHANGED <<run, drive>>
    BY <1>4, <2>2, WorkerMoves DEF CommitReply, Goto, TypeOK, DriverTypes
  <2>. QED
    BY <1>4, <2>1, <2>2 DEF CommitReply
<1>5. CASE CommitTold(d)
  <2>1. CASE EndRun(d, "failed")
    BY <1>5, <2>1, WorkerEnds DEF CommitTold
  <2>2. CASE Goto(d, "session") /\ UNCHANGED <<run, drive>>
    BY <1>5, <2>2, WorkerMoves DEF CommitTold, Goto, TypeOK, DriverTypes
  <2>. QED
    BY <1>5, <2>1, <2>2 DEF CommitTold
<1>6. CASE CommitSession(d) \/ CollectAnswers(d) \/ ReportReads(d) \/ AddReport(d)
  BY <1>6, WorkerMoves
     DEF CommitSession, CollectAnswers, ReportReads, AddReport, Checkpoint, Goto, TypeOK, DriverTypes
<1>7. CASE CompleteSession(d)
  <2>1. CASE EndRun(d, "failed")
    BY <1>7, <2>1, WorkerEnds DEF CompleteSession
  <2>2. CASE Goto(d, "reported") /\ UNCHANGED <<run, drive>>
    BY <1>7, <2>2, WorkerMoves DEF CompleteSession, Goto, TypeOK, DriverTypes
  <2>. QED
    BY <1>7, <2>1, <2>2 DEF CompleteSession
<1>8. CASE EndTurn(d) \/ EndReport(d)
  BY <1>8, WorkerEnds DEF EndTurn, EndReport
<1>. QED
  BY <1>1, <1>2, <1>3, <1>4, <1>5, <1>6, <1>7, <1>8 DEF Drive, TurnStep, EvaluationStep

LEMMA StagedStep == TypeOK /\ Staged /\ [Next]_vars => Staged'
<1>. SUFFICES ASSUME TypeOK, Staged, [Next]_vars PROVE Staged'
  OBVIOUS
<1>1. CASE UNCHANGED vars
  BY <1>1 DEF vars, Staged, BytesBeforeRun, UploadedFirst, DrivenExists
<1>2. ASSUME NEW d \in Drivers, Crash(d) PROVE Staged'
  BY <1>2, WorkerMoves DEF Crash, Release, TypeOK, DriverTypes
<1>3. ASSUME NEW d \in Drivers, Error(d) PROVE Staged'
  BY <1>3, WorkerEnds DEF Error
<1>. QED
  BY <1>1, <1>2, <1>3, RequestStages, DriveStages DEF Next

\* No run exists before its bytes (submit_turn saves the upload before it adds
\* the run row), for any number of requests racing over a round and of workers.
THEOREM BytesFirst == Spec => []BytesBeforeRun
<1>1. TypeOK /\ Staged /\ [Next]_vars => TypeOK' /\ Staged'
  BY TypeStep, StagedStep
<1>2. Staged => BytesBeforeRun
  BY DEF Staged
<1>. QED
  BY <1>1, <1>2, InitTypes, InitStaged, PTL DEF Spec

-------------------------------------------------------------------------------
(***************************************************************************)
(* One run at a time.  A commit writes the session its compose read, so    *)
(* what must not happen is a write of another run in between.  While the   *)
(* runs of a session are driven one at a time nothing does: at most one    *)
(* round is composed and uncommitted, it holds the session as it is, and   *)
(* an open session is one no report has been asked of.                     *)
(***************************************************************************)

OneAtATime == \A d, e \in Drivers : at[d] # "free" /\ at[e] # "free" => d = e

SessionOpen == session.phase \in OpenPhases

\* A round that is composed and not committed; one whose commit is under way.
Pending(n) == todo[n] = "commit_turn" /\ Reply(n) \notin rows
Committing(n) == \E d \in Drivers : at[d] \in {"told", "session"} /\ drive[d] = n

Composed ==
    /\ \A n \in Rounds : todo[n] = "commit_turn" => run[n] # "none"
    /\ \A d \in Drivers : at[d] \in {"commit_turn", "told", "session", "committed"}
                              => todo[drive[d]] = "commit_turn"

Sequential ==
    /\ \A d \in Drivers : at[d] = "history" /\ snap[d].phase \in OpenPhases => snap[d] = session
    /\ \A n \in Rounds : Pending(n) \/ Committing(n) =>
          SessionOpen /\ outcome[n].session.noted = session.noted \cup {n}
    /\ \A d \in Drivers : at[d] \in {"told", "session"} => \A n \in Rounds : ~Pending(n)

Noting ==
    /\ SucceededRoundIsNoted
    /\ \A d \in Drivers : at[d] = "committed" => drive[d] \in session.noted

ClosingAsked ==
    /\ \A q \in Requests : asking[q] = "evaluate" => ~SessionOpen /\ seen[q].noted = session.noted
    /\ \A q \in Requests : asking[q] = "report" => ~SessionOpen
    /\ run[Report] # "none" => ~SessionOpen

ReportRead == \A d \in Drivers : at[d] \in {"report", "complete"} => snap[d].noted = session.noted

Collecting ==
    /\ todo[Report] = "commit_report" => run[Report] # "none" /\ collected = Scored
    /\ \A d \in Drivers : at[d] \in {"commit_report", "report", "complete", "reported"}
                              => todo[Report] = "commit_report"
    /\ reports # {} => run[Report] # "none"
    /\ ReportIsComplete

Ordered == Composed /\ Sequential /\ Noting /\ ClosingAsked /\ ReportRead /\ Collecting

LEMMA InitOrdered == Init => Ordered
BY KeysAreRoundsAndReport DEF Init, Ordered, Composed, Sequential, Noting, SucceededRoundIsNoted, ClosingAsked,
   ReportRead, Collecting, ReportIsComplete, Pending, Committing

\* What compose makes of a session: it was open, and one round more is noted.
LEMMA OutcomeNotes ==
    ASSUME NEW s \in Sessions, NEW n \in Rounds, NEW o \in Outcomes(s, n)
    PROVE  s.phase \in OpenPhases /\ o.session.noted = s.noted \cup {n}
<1>1. \A p, k : Moved(s, n, p, k).session.noted = s.noted \cup {n}
  BY DEF Moved
<1>2. CASE s.phase = "intake"
  <2>1. o \in IntakeOutcomes(s, n)
    BY <1>2 DEF Outcomes
  <2>2. \E p, k : o = Moved(s, n, p, k)
    BY <2>1 DEF IntakeOutcomes
  <2>. QED
    BY <1>1, <1>2, <2>2 DEF OpenPhases
<1>3. CASE s.phase # "intake"
  <2>1. Lifecycle!Allows(s.phase, "record_answer") /\ o \in QuestionOutcomes(s, n)
    BY <1>3 DEF Outcomes
  <2>2. s.phase = "questioning"
    BY <2>1, Guards DEF Sessions
  <2>3. \E p, k : o = Moved(s, n, p, k)
    BY <2>1 DEF QuestionOutcomes
  <2>. QED
    BY <1>1, <2>2, <2>3 DEF OpenPhases
<1>. QED
  BY <1>2, <1>3

\* Two rounds cannot both wait for their commit: the later one started when the rows of
\* the earlier one were there.
LEMMA OnePending ==
    ASSUME TypeOK, Gapless, Composed, NEW m \in Rounds, NEW n \in Rounds, Pending(m), Pending(n)
    PROVE  m = n
<1>1. RoundOpen(m) /\ RoundOpen(n)
  BY DEF Gapless, StartedRoundsOpen, Composed, Pending
<1>2. m \in Nat /\ n \in Nat
  BY RowIndices
<1>3. ~(2 * m \in 0..(2 * n - 1)) /\ ~(2 * n \in 0..(2 * m - 1))
  BY <1>1 DEF RoundOpen, Pending, Reply
<1>. QED
  BY <1>2, <1>3

LEMMA ScoredKept ==
    ASSUME UNCHANGED <<rows, outcome>>
    PROVE  Scored' = Scored
BY DEF Scored, ToldRounds, Reply, Told

\* A request that reads and writes no more than its own variables.
LEMMA QuietOrdered ==
    ASSUME TypeOK, Ordered, NEW q \in Requests, SubmitTurn(q) \/ CountTurns(q) \/ StageUpload(q) \/ LoseRequest(q)
    PROVE  Ordered'
<1>1. UNCHANGED <<session, rows, reports, recordVars, run, driverVars>>
  BY DEF SubmitTurn, CountTurns, StageUpload, LoseRequest
<1>2. \A r \in Requests : asking'[r] \in {"evaluate", "report"} => asking'[r] = asking[r] /\ seen'[r] = seen[r]
  BY DEF SubmitTurn, CountTurns, StageUpload, LoseRequest, Respond, TypeOK, RequestTypes
<1>3. Composed' /\ Sequential' /\ Noting' /\ ReportRead'
  BY <1>1 DEF Ordered, Composed, Sequential, Noting, SucceededRoundIsNoted, ReportRead, Pending, Committing,
     SessionOpen, Reply
<1>4. ClosingAsked'
  BY <1>1, <1>2 DEF Ordered, ClosingAsked, SessionOpen
<1>5. Collecting'
  BY <1>1, ScoredKept DEF Ordered, Collecting, ReportIsComplete
<1>. QED
  BY <1>3, <1>4, <1>5 DEF Ordered

LEMMA FinishOrdered ==
    ASSUME TypeOK, Ordered, NEW q \in Requests, Finish(q)
    PROVE  Ordered'
<1>1. UNCHANGED <<session, rows, reports, recordVars, run, driverVars>>
  BY DEF Finish
<1>2. ~SessionOpen
  BY DEF Finish, SessionOpen, FinishPhases, OpenPhases
<1>3. Composed' /\ Sequential' /\ Noting' /\ ReportRead'
  BY <1>1 DEF Ordered, Composed, Sequential, Noting, SucceededRoundIsNoted, ReportRead, Pending, Committing,
     SessionOpen, Reply
<1>4. ClosingAsked'
  <2>1. \A r \in Requests : seen'[r] = IF r = q THEN session ELSE seen[r]
    BY DEF Finish, TypeOK, RequestTypes
  <2>2. \A r \in Requests : r # q => asking'[r] = asking[r]
    BY DEF Finish, TypeOK, RequestTypes
  <2>. QED
    BY <1>1, <1>2, <2>1, <2>2 DEF Ordered, ClosingAsked, SessionOpen
<1>5. Collecting'
  BY <1>1, ScoredKept DEF Ordered, Collecting, ReportIsComplete
<1>. QED
  BY <1>3, <1>4, <1>5 DEF Ordered

LEMMA StartEvaluationOrdered ==
    ASSUME TypeOK, TypeOK', Ordered, NEW q \in Requests, StartEvaluation(q)
    PROVE  Ordered'
<1>1. UNCHANGED <<rows, reports, recordVars, run, driverVars, seen>>
  BY DEF StartEvaluation
<1>2. ~SessionOpen /\ seen[q].noted = session.noted
  BY DEF StartEvaluation, Ordered, ClosingAsked
<1>3. session'.phase = "evaluating" /\ session'.noted = session.noted
  <2>1. seen[q] \in Sessions /\ seen[q].phase = "closing"
    BY DEF StartEvaluation, TypeOK, RequestTypes
  <2>2. session' = [seen[q] EXCEPT !.phase = "evaluating"]
    BY <2>1, Moves DEF StartEvaluation, Advanced
  <2>. QED
    BY <1>2, <2>1, <2>2 DEF Sessions
<1>4. ~SessionOpen'
  BY <1>3 DEF SessionOpen, OpenPhases
<1>5. Composed' /\ Noting' /\ ReportRead'
  BY <1>1, <1>3 DEF Ordered, Composed, Noting, SucceededRoundIsNoted, ReportRead
<1>6. Sequential'
  <2>1. \A d \in Drivers : at[d] = "history" => snap[d].phase \notin OpenPhases
    BY <1>2 DEF Ordered, Sequential, SessionOpen
  <2>2. \A n \in Rounds : ~Pending(n) /\ ~Committing(n)
    BY <1>2 DEF Ordered, Sequential
  <2>. QED
    BY <1>1, <2>1, <2>2 DEF Sequential, Pending, Committing, Reply
<1>7. ClosingAsked'
  <2>1. \A r \in Requests : asking'[r] = "evaluate" => asking[r] = "evaluate"
    BY DEF StartEvaluation, TypeOK, RequestTypes
  <2>. QED
    BY <1>1, <1>3, <1>4, <2>1 DEF Ordered, ClosingAsked
<1>8. Collecting'
  BY <1>1, ScoredKept DEF Ordered, Collecting, ReportIsComplete
<1>. QED
  BY <1>5, <1>6, <1>7, <1>8 DEF Ordered

\* A run asked for, a round's by its request or the report's by a closed session.
LEMMA StartOrdered ==
    ASSUME TypeOK, Ordered, NEW q \in Requests, StartTurn(q) \/ StartReport(q)
    PROVE  Ordered'
<1>1. UNCHANGED <<session, rows, reports, recordVars, driverVars>> /\ Respond(q)
  BY DEF StartTurn, StartReport
<1>2. PICK k \in Keys : StartRun(k) /\ (k = Report => ~SessionOpen)
  <2>1. CASE StartTurn(q)
    BY <2>1, RowIndices DEF StartTurn, TypeOK, RequestTypes
  <2>2. CASE StartReport(q)
    BY <2>2, KeysAreRoundsAndReport DEF StartReport, Ordered, ClosingAsked
  <2>. QED
    BY <2>1, <2>2
<1>3. \A j \in Keys : /\ run[j] # "none" => run'[j] = run[j]
                      /\ run'[j] # run[j] => j = k /\ run'[j] = "running"
  BY <1>2 DEF StartRun, TypeOK, RunTypes
<1>4. Composed'
  BY <1>1, <1>3, KeysAreRoundsAndReport DEF Ordered, Composed
<1>5. Sequential' /\ ReportRead'
  BY <1>1 DEF Ordered, Sequential, ReportRead, Pending, Committing, SessionOpen, Reply
<1>6. Noting'
  BY <1>1, <1>3, KeysAreRoundsAndReport DEF Ordered, Noting, SucceededRoundIsNoted
<1>7. ClosingAsked'
  <2>1. \A r \in Requests : asking'[r] \in {"evaluate", "report"} => asking'[r] = asking[r] /\ seen'[r] = seen[r]
    BY <1>1 DEF Respond, TypeOK, RequestTypes
  <2>2. run'[Report] # "none" => ~SessionOpen
    BY <1>2, <1>3, KeysAreRoundsAndReport DEF Ordered, ClosingAsked
  <2>. QED
    BY <1>1, <2>1, <2>2 DEF Ordered, ClosingAsked, SessionOpen
<1>8. Collecting'
  BY <1>1, <1>3, ScoredKept, KeysAreRoundsAndReport DEF Ordered, Collecting, ReportIsComplete
<1>. QED
  BY <1>4, <1>5, <1>6, <1>7, <1>8 DEF Ordered

\* While a worker drives, no other does.
LEMMA Alone ==
    ASSUME TypeOK, OneAtATime, NEW d \in Drivers, at[d] # "free"
    PROVE  \A e \in Drivers : e # d => at[e] = "free"
BY DEF OneAtATime

LEMMA TakeOrdered ==
    ASSUME TypeOK, Ordered, OneAtATime', NEW d \in Drivers, Take(d)
    PROVE  Ordered'
<1>1. PICK k \in Keys : /\ drive' = [drive EXCEPT ![d] = k]
                        /\ at' = [at EXCEPT ![d] = todo[k]]
  BY DEF Take
<1>2. UNCHANGED <<rowVars, recordVars, run, snap, requestVars>> /\ at[d] = "free"
  BY DEF Take
<1>3. /\ at'[d] = todo[k] /\ drive'[d] = k /\ todo[k] \in TurnSteps \cup ReportSteps
      /\ \A e \in Drivers : e # d => at'[e] = at[e] /\ drive'[e] = drive[e]
      /\ k = Report <=> todo[k] \in ReportSteps
  BY <1>1 DEF TypeOK, DriverTypes, RecordTypes, TurnSteps, ReportSteps
<1>4. Composed'
  BY <1>2, <1>3 DEF Ordered, Composed, TurnSteps, ReportSteps
<1>5. Sequential'
  BY <1>2, <1>3 DEF Ordered, Sequential, Pending, Committing, SessionOpen, Reply, TurnSteps, ReportSteps
<1>6. Noting' /\ ClosingAsked' /\ ReportRead'
  BY <1>2, <1>3 DEF Ordered, Noting, SucceededRoundIsNoted, ClosingAsked, SessionOpen, ReportRead,
     TurnSteps, ReportSteps
<1>7. Collecting'
  BY <1>2, <1>3, ScoredKept DEF Ordered, Collecting, ReportIsComplete, TurnSteps, ReportSteps
<1>. QED
  BY <1>4, <1>5, <1>6, <1>7 DEF Ordered

\* A worker that lets go of its run, with a verdict or without: a round that succeeded is
\* one the session notes.
LEMMA LetGoOrdered ==
    ASSUME TypeOK, DrivenExists, Ordered, NEW d \in Drivers, at[d] # "free",
           UNCHANGED <<rowVars, recordVars, requestVars>>, Release(d),
           \/ UNCHANGED run
           \/ \E verdict \in {"succeeded", "failed"} :
                 /\ run' = [run EXCEPT ![drive[d]] = verdict]
                 /\ verdict = "succeeded" /\ drive[d] \in Rounds => drive[d] \in session.noted
    PROVE  Ordered'
<1>1. \A e \in Drivers : /\ at'[e] # "free" => /\ at'[e] = at[e] /\ drive'[e] = drive[e]
                                                /\ snap'[e] = snap[e]
                         /\ at'[e] \in {"free", at[e]}
  BY DEF Release, TypeOK, DriverTypes
<1>2. /\ \A k \in Keys : run'[k] # "none" <=> run[k] # "none"
      /\ \A n \in Rounds : run'[n] = "succeeded" => run[n] = "succeeded" \/ n \in session.noted
  BY RowIndices DEF DrivenExists, TypeOK, RunTypes, DriverTypes
<1>3. Composed'
  BY <1>1, <1>2, RowIndices DEF Ordered, Composed
<1>4. Sequential'
  BY <1>1 DEF Ordered, Sequential, Pending, Committing, SessionOpen, Reply
<1>5. Noting' /\ ClosingAsked' /\ ReportRead'
  BY <1>1, <1>2, KeysAreRoundsAndReport
     DEF Ordered, Noting, SucceededRoundIsNoted, ClosingAsked, SessionOpen, ReportRead
<1>6. Collecting'
  BY <1>1, <1>2, ScoredKept, KeysAreRoundsAndReport DEF Ordered, Collecting, ReportIsComplete
<1>. QED
  BY <1>3, <1>4, <1>5, <1>6 DEF Ordered

LEMMA EndsOrdered ==
    ASSUME TypeOK, DrivenExists, Ordered, NEW d \in Drivers,
           \/ Crash(d) \/ Error(d) \/ EndTurn(d) \/ EndReport(d)
           \/ /\ Compose(d) \/ CommitReply(d) \/ CommitTold(d) \/ CompleteSession(d)
              /\ EndRun(d, "failed") /\ UNCHANGED <<session, rows, outcome, todo>>
    PROVE  Ordered'
<1>1. at[d] # "free" /\ UNCHANGED <<rowVars, recordVars, requestVars>> /\ Release(d)
  BY DEF Crash, Error, EndTurn, EndReport, Compose, CommitReply, CommitTold, CompleteSession, EndRun
<1>2. \/ UNCHANGED run
      \/ \E verdict \in {"succeeded", "failed"} :
            /\ run' = [run EXCEPT ![drive[d]] = verdict]
            /\ verdict = "succeeded" /\ drive[d] \in Rounds => drive[d] \in session.noted
  <2>1. CASE Crash(d)
    BY <2>1 DEF Crash
  <2>2. CASE EndTurn(d)
    BY <2>2 DEF EndTurn, EndRun, Ordered, Noting
  <2>3. CASE EndReport(d)
    <3>1. drive[d] \notin Rounds
      BY <2>3, KeysAreRoundsAndReport DEF EndReport, TypeOK, DriverTypes, ReportLabels
    <3>. QED
      BY <2>3, <3>1 DEF EndReport, EndRun
  <2>4. CASE EndRun(d, "failed")
    BY <2>4 DEF EndRun
  <2>. QED
    BY <2>1, <2>2, <2>3, <2>4 DEF Error
<1>. QED
  BY <1>1, <1>2, LetGoOrdered

\* A step of a turn before its commit: nothing but a checkpoint and a read of the session.
LEMMA EarlyOrdered ==
    ASSUME TypeOK, OneAtATime, Ordered, NEW d \in Drivers, PersistAudio(d) \/ Transcribe(d) \/ ComposeReads(d)
    PROVE  Ordered'
<1>1. /\ UNCHANGED <<rowVars, outcome, collected, run, drive, requestVars>>
      /\ drive[d] \in Rounds /\ drive[d] \in Keys /\ drive[d] # Report
  BY DrivesRound, RowIndices DEF PersistAudio, Transcribe, ComposeReads, TypeOK, TurnLabels, TurnSteps
<1>2. /\ \A e \in Drivers : e # d => at'[e] = at[e] /\ snap'[e] = snap[e]
      /\ at'[d] \in {"transcribe", "compose", "history"}
      /\ at'[d] = "history" => snap'[d] = session
  BY DEF PersistAudio, Transcribe, ComposeReads, Checkpoint, Goto, TypeOK, DriverTypes
<1>3. \A k \in Keys : todo'[k] # todo[k] => todo'[k] \in {"transcribe", "compose"}
  <2>1. CASE ComposeReads(d)
    BY <2>1 DEF ComposeReads
  <2>2. ASSUME NEW l \in {"transcribe", "compose"}, Checkpoint(d, l)
        PROVE  \A k \in Keys : todo'[k] # todo[k] => todo'[k] \in {"transcribe", "compose"}
    BY <1>1, <2>2 DEF Checkpoint, TypeOK, RecordTypes
  <2>. QED
    BY <2>1, <2>2 DEF PersistAudio, Transcribe
<1>4. \A e \in Drivers : e # d => at[e] = "free"
  BY Alone DEF PersistAudio, Transcribe, ComposeReads
<1>5. Composed'
  BY <1>1, <1>2, <1>3, <1>4, RowIndices DEF Ordered, Composed
<1>6. Sequential'
  <2>1. \A n \in Rounds : (Pending(n)' => Pending(n)) /\ ~Committing(n)'
    BY <1>1, <1>2, <1>3, <1>4, RowIndices DEF Pending, Committing, Reply
  <2>. QED
    BY <1>1, <1>2, <1>4, <2>1 DEF Ordered, Sequential, SessionOpen
<1>7. Noting' /\ ClosingAsked' /\ ReportRead'
  BY <1>1, <1>2, <1>4 DEF Ordered, Noting, SucceededRoundIsNoted, ClosingAsked, SessionOpen, ReportRead
<1>8. Collecting'
  BY <1>1, <1>2, <1>3, <1>4, ScoredKept, KeysAreRoundsAndReport DEF Ordered, Collecting, ReportIsComplete
<1>. QED
  BY <1>5, <1>6, <1>7, <1>8 DEF Ordered

\* An open session has no report, and none on its way: Collecting says nothing yet.
LEMMA OpenCollects ==
    ASSUME Ordered, SessionOpen, UNCHANGED reports, run'[Report] = run[Report], todo'[Report] = todo[Report],
           NEW d \in Drivers, at'[d] \in {"commit_turn", "told", "session", "committed"},
           \A e \in Drivers : e # d => at'[e] = "free"
    PROVE  Collecting'
<1>1. run[Report] = "none" /\ reports = {} /\ todo[Report] # "commit_report"
  BY DEF Ordered, ClosingAsked, Collecting
<1>. QED
  BY <1>1 DEF Collecting, ReportIsComplete

\* compose is checkpointed: it noted its round in the session as it is.
LEMMA ComposeOrdered ==
    ASSUME TypeOK, DrivenExists, OneAtATime, Ordered, NEW d \in Drivers, Compose(d)
    PROVE  Ordered'
<1>1. CASE EndRun(d, "failed") /\ UNCHANGED <<outcome, todo>>
  BY <1>1, EndsOrdered DEF Compose
<1>2. CASE \E o \in Outcomes(snap[d], drive[d]) : /\ outcome' = [outcome EXCEPT ![drive[d]] = o]
                                                  /\ Checkpoint(d, "commit_turn")
                                                  /\ UNCHANGED <<run, drive, snap>>
  <2>1. PICK o \in Outcomes(snap[d], drive[d]) : /\ outcome' = [outcome EXCEPT ![drive[d]] = o]
                                                 /\ Checkpoint(d, "commit_turn")
                                                 /\ UNCHANGED <<run, drive, snap>>
    BY <1>2
  <2>2. PICK n \in Rounds : n = drive[d]
    BY DrivesRound DEF Compose, TypeOK, TurnLabels, TurnSteps
  <2>3. /\ at[d] = "history" /\ snap[d] \in Sessions /\ n \in Keys /\ n # Report /\ run[n] # "none"
        /\ UNCHANGED <<rowVars, collected, requestVars>>
    BY <2>2, RowIndices DEF Compose, TypeOK, DriverTypes, DrivenExists
  <2>4. snap[d].phase \in OpenPhases /\ o.session.noted = snap[d].noted \cup {n}
    BY <2>2, <2>3, OutcomeNotes
  <2>5. SessionOpen /\ o.session.noted = session.noted \cup {n}
    BY <2>3, <2>4 DEF Ordered, Sequential, SessionOpen
  <2>6. /\ \A k \in Keys : todo'[k] = IF k = n THEN "commit_turn" ELSE todo[k]
        /\ \A m \in Rounds : outcome'[m] = IF m = n THEN o ELSE outcome[m]
        /\ at'[d] = "commit_turn" /\ \A e \in Drivers : e # d => at'[e] = "free"
    BY <2>1, <2>2, <2>3, Alone DEF Checkpoint, Goto, TypeOK, DriverTypes, RecordTypes
  <2>7. Composed'
    BY <2>1, <2>2, <2>3, <2>6, RowIndices DEF Ordered, Composed
  <2>8. Sequential'
    <3>1. \A m \in Rounds : (Pending(m)' => m = n \/ Pending(m)) /\ ~Committing(m)'
      BY <2>3, <2>6, RowIndices DEF Pending, Committing, Reply
    <3>. QED
      BY <2>3, <2>5, <2>6, <3>1 DEF Ordered, Sequential, SessionOpen
  <2>9. Noting' /\ ClosingAsked' /\ ReportRead'
    BY <2>1, <2>3, <2>6 DEF Ordered, Noting, SucceededRoundIsNoted, ClosingAsked, SessionOpen, ReportRead
  <2>10. Collecting'
    BY <2>1, <2>3, <2>5, <2>6, OpenCollects, KeysAreRoundsAndReport
  <2>. QED
    BY <2>7, <2>8, <2>9, <2>10 DEF Ordered
<1>. QED
  BY <1>1, <1>2 DEF Compose


\* The reply is inserted: it was pending, and its commit is now under way.
LEMMA CommitReplyOrdered ==
    ASSUME TypeOK, Gapless, DrivenExists, OneAtATime, Ordered, NEW d \in Drivers, CommitReply(d)
    PROVE  Ordered'
<1>1. CASE EndRun(d, "failed") /\ UNCHANGED rows
  BY <1>1, EndsOrdered DEF CommitReply
<1>2. CASE /\ Reply(drive[d]) \notin rows /\ AddRow(Reply(drive[d]))
           /\ Goto(d, "told") /\ UNCHANGED <<run, drive, snap>>
  <2>1. PICK n \in Rounds : n = drive[d]
    BY DrivesRound DEF CommitReply, TypeOK, TurnLabels, TurnSteps
  <2>2. /\ at[d] = "commit_turn" /\ UNCHANGED <<session, reports, recordVars, requestVars, run, drive, snap>>
        /\ rows' = rows \cup {Reply(n)} /\ todo[n] = "commit_turn"
    BY <1>2, <2>1 DEF CommitReply, AddRow, Ordered, Composed
  <2>3. Pending(n) /\ \A m \in Rounds : Pending(m) => m = n
    <3>1. Pending(n)
      BY <1>2, <2>1, <2>2 DEF Pending
    <3>. QED
      BY <3>1, OnePending DEF Ordered
  <2>4. SessionOpen /\ outcome[n].session.noted = session.noted \cup {n}
    BY <2>3 DEF Ordered, Sequential
  <2>5. at'[d] = "told" /\ \A e \in Drivers : e # d => at'[e] = "free"
    BY <1>2, <2>2, Alone DEF Goto, TypeOK, DriverTypes
  <2>6. Composed' /\ Noting' /\ ClosingAsked' /\ ReportRead'
    BY <2>1, <2>2, <2>5
       DEF Ordered, Composed, Noting, SucceededRoundIsNoted, ClosingAsked, SessionOpen, ReportRead
  <2>7. Sequential'
    <3>1. \A m \in Rounds : ~Pending(m)' /\ (Committing(m)' => m = n)
      BY <2>1, <2>2, <2>3, <2>5 DEF Pending, Committing, Reply
    <3>. QED
      BY <2>2, <2>4, <2>5, <3>1 DEF Ordered, Sequential, SessionOpen
  <2>8. Collecting'
    BY <2>2, <2>4, <2>5, OpenCollects
  <2>. QED
    BY <2>6, <2>7, <2>8 DEF Ordered
<1>. QED
  BY <1>1, <1>2 DEF CommitReply

\* The interviewer's row follows the reply.
LEMMA CommitToldOrdered ==
    ASSUME TypeOK, DrivenExists, OneAtATime, Ordered, NEW d \in Drivers, CommitTold(d)
    PROVE  Ordered'
<1>1. CASE EndRun(d, "failed") /\ UNCHANGED rows
  BY <1>1, EndsOrdered DEF CommitTold
<1>2. CASE /\ AddRow(Told(drive[d])) /\ Goto(d, "session") /\ UNCHANGED <<run, drive, snap>>
  <2>1. PICK n \in Rounds : n = drive[d]
    BY DrivesRound DEF CommitTold, TypeOK, TurnLabels, TurnSteps
  <2>2. /\ at[d] = "told" /\ UNCHANGED <<session, reports, recordVars, requestVars, run, drive, snap>>
        /\ rows \subseteq rows' /\ Committing(n)
    BY <1>2, <2>1 DEF CommitTold, AddRow, Committing
  <2>3. SessionOpen /\ \A m \in Rounds : ~Pending(m)
    BY <2>2 DEF Ordered, Sequential
  <2>4. at'[d] = "session" /\ \A e \in Drivers : e # d => at'[e] = "free"
    BY <1>2, <2>2, Alone DEF Goto, TypeOK, DriverTypes
  <2>5. Composed' /\ Noting' /\ ClosingAsked' /\ ReportRead'
    BY <2>2, <2>4
       DEF Ordered, Composed, Noting, SucceededRoundIsNoted, ClosingAsked, SessionOpen, ReportRead
  <2>6. Sequential'
    <3>1. \A m \in Rounds : ~Pending(m)' /\ (Committing(m)' => Committing(m))
      BY <2>1, <2>2, <2>3, <2>4 DEF Pending, Committing, Reply
    <3>. QED
      BY <2>2, <2>4, <3>1 DEF Ordered, Sequential, SessionOpen
  <2>7. Collecting'
    BY <2>2, <2>3, <2>4, OpenCollects
  <2>. QED
    BY <2>5, <2>6, <2>7 DEF Ordered
<1>. QED
  BY <1>1, <1>2 DEF CommitTold

\* The session is written: the rounds noted are those it had and the round's own, and no
\* other round waits for its commit.
LEMMA CommitSessionOrdered ==
    ASSUME TypeOK, OneAtATime, Ordered, NEW d \in Drivers, CommitSession(d)
    PROVE  Ordered'
<1>1. PICK n \in Rounds : n = drive[d]
  BY DrivesRound DEF CommitSession, TypeOK, TurnLabels, TurnSteps
<1>2. /\ at[d] = "session" /\ Committing(n) /\ session' = outcome[n].session
      /\ UNCHANGED <<rows, reports, recordVars, requestVars, run, drive, snap>>
  BY <1>1 DEF CommitSession, Committing
<1>3. /\ SessionOpen /\ session'.noted = session.noted \cup {n}
      /\ \A m \in Rounds : ~Pending(m)
  BY <1>2 DEF Ordered, Sequential
<1>4. at'[d] = "committed" /\ \A e \in Drivers : e # d => at'[e] = "free"
  BY <1>2, Alone DEF CommitSession, Goto, TypeOK, DriverTypes
<1>5. Composed' /\ ReportRead'
  BY <1>2, <1>4 DEF Ordered, Composed, ReportRead
<1>6. Noting'
  BY <1>1, <1>2, <1>3, <1>4 DEF Ordered, Noting, SucceededRoundIsNoted
<1>7. ClosingAsked'
  BY <1>2, <1>3 DEF Ordered, ClosingAsked
<1>8. Sequential'
  <2>1. \A m \in Rounds : ~Pending(m)' /\ ~Committing(m)'
    BY <1>2, <1>3, <1>4 DEF Pending, Committing, Reply
  <2>. QED
    BY <1>4, <2>1 DEF Sequential
<1>9. Collecting'
  BY <1>2, <1>3, <1>4, OpenCollects
<1>. QED
  BY <1>5, <1>6, <1>7, <1>8, <1>9 DEF Ordered

\* Inside the evaluation workflow the report's run exists and the session is closed.
LEMMA Evaluating ==
    ASSUME TypeOK, DrivenExists, OneAtATime, Ordered, NEW d \in Drivers, at[d] \in ReportLabels
    PROVE  /\ drive[d] = Report /\ run[Report] # "none" /\ ~SessionOpen
           /\ \A e \in Drivers : e # d => at[e] = "free"
           /\ \A n \in Rounds : ~Pending(n) /\ ~Committing(n)
<1>1. drive[d] = Report /\ at[d] # "free"
  BY DEF TypeOK, DriverTypes, ReportLabels, ReportSteps
<1>2. run[Report] # "none" /\ ~SessionOpen
  BY <1>1 DEF DrivenExists, Ordered, ClosingAsked
<1>. QED
  BY <1>1, <1>2, Alone DEF Ordered, Sequential

LEMMA CollectAnswersOrdered ==
    ASSUME TypeOK, DrivenExists, OneAtATime, Ordered, NEW d \in Drivers, CollectAnswers(d)
    PROVE  Ordered'
<1>1. /\ drive[d] = Report /\ run[Report] # "none"
      /\ \A e \in Drivers : e # d => at[e] = "free"
      /\ \A n \in Rounds : ~Pending(n) /\ ~Committing(n)
  BY Evaluating DEF CollectAnswers, ReportLabels, ReportSteps
<1>2. UNCHANGED <<rowVars, outcome, run, drive, snap, requestVars>> /\ collected' = Scored
  BY DEF CollectAnswers
<1>3. /\ at'[d] = "commit_report" /\ \A e \in Drivers : e # d => at'[e] = "free"
      /\ \A k \in Keys : todo'[k] = IF k = Report THEN "commit_report" ELSE todo[k]
  BY <1>1 DEF CollectAnswers, Checkpoint, Goto, TypeOK, DriverTypes, RecordTypes
<1>4. \A n \in Rounds : ~Pending(n)' /\ ~Committing(n)'
  BY <1>1, <1>2, <1>3, RowIndices DEF Pending, Committing, Reply
<1>5. Composed' /\ Sequential'
  BY <1>2, <1>3, <1>4, RowIndices DEF Ordered, Composed, Sequential
<1>6. Noting' /\ ClosingAsked' /\ ReportRead'
  BY <1>2, <1>3 DEF Ordered, Noting, SucceededRoundIsNoted, ClosingAsked, SessionOpen, ReportRead
<1>7. Collecting'
  BY <1>1, <1>2, <1>3, ScoredKept, KeysAreRoundsAndReport DEF Ordered, Collecting, ReportIsComplete
<1>. QED
  BY <1>5, <1>6, <1>7 DEF Ordered

LEMMA ReportReadsOrdered ==
    ASSUME TypeOK, DrivenExists, OneAtATime, Ordered, NEW d \in Drivers, ReportReads(d)
    PROVE  Ordered'
<1>1. /\ \A e \in Drivers : e # d => at[e] = "free"
      /\ \A n \in Rounds : ~Pending(n) /\ ~Committing(n)
  BY Evaluating DEF ReportReads, ReportLabels, ReportSteps
<1>2. at[d] = "commit_report" /\ UNCHANGED <<rowVars, recordVars, run, drive, requestVars>>
  BY DEF ReportReads
<1>3. /\ at'[d] = "report" /\ snap'[d] = session
      /\ \A e \in Drivers : e # d => at'[e] = "free"
  BY <1>1 DEF ReportReads, Goto, TypeOK, DriverTypes
<1>4. \A n \in Rounds : ~Pending(n)' /\ ~Committing(n)'
  BY <1>1, <1>2, <1>3 DEF Pending, Committing, Reply
<1>5. Composed' /\ Sequential'
  BY <1>2, <1>3, <1>4 DEF Ordered, Composed, Sequential
<1>6. Noting' /\ ClosingAsked' /\ ReportRead'
  BY <1>2, <1>3 DEF Ordered, Noting, SucceededRoundIsNoted, ClosingAsked, SessionOpen, ReportRead
<1>7. Collecting'
  BY <1>2, <1>3, ScoredKept DEF Ordered, Collecting, ReportIsComplete
<1>. QED
  BY <1>5, <1>6, <1>7 DEF Ordered

LEMMA AddReportOrdered ==
    ASSUME TypeOK, DrivenExists, OneAtATime, Ordered, NEW d \in Drivers, AddReport(d)
    PROVE  Ordered'
<1>1. /\ run[Report] # "none"
      /\ \A e \in Drivers : e # d => at[e] = "free"
      /\ \A n \in Rounds : ~Pending(n) /\ ~Committing(n)
  BY Evaluating DEF AddReport, ReportLabels, ReportSteps
<1>2. /\ at[d] = "report" /\ reports' = {collected}
      /\ UNCHANGED <<session, rows, recordVars, run, drive, snap, requestVars>>
  BY DEF AddReport
<1>3. at'[d] = "complete" /\ \A e \in Drivers : e # d => at'[e] = "free"
  BY <1>1 DEF AddReport, Goto, TypeOK, DriverTypes
<1>4. \A n \in Rounds : ~Pending(n)' /\ ~Committing(n)'
  BY <1>1, <1>2, <1>3 DEF Pending, Committing, Reply
<1>5. Composed' /\ Sequential'
  BY <1>2, <1>3, <1>4 DEF Ordered, Composed, Sequential
<1>6. Noting' /\ ClosingAsked' /\ ReportRead'
  BY <1>2, <1>3 DEF Ordered, Noting, SucceededRoundIsNoted, ClosingAsked, SessionOpen, ReportRead
<1>7. Collecting'
  BY <1>1, <1>2, <1>3, ScoredKept DEF Ordered, Collecting, ReportIsComplete
<1>. QED
  BY <1>5, <1>6, <1>7 DEF Ordered

LEMMA CompleteSessionOrdered ==
    ASSUME TypeOK, DrivenExists, OneAtATime, Ordered, NEW d \in Drivers, CompleteSession(d)
    PROVE  Ordered'
<1>1. CASE EndRun(d, "failed") /\ UNCHANGED session
  BY <1>1, EndsOrdered DEF CompleteSession
<1>2. CASE /\ Lifecycle!Allows(snap[d].phase, "complete")
           /\ session' = Advanced(snap[d], "complete")
           /\ Goto(d, "reported") /\ UNCHANGED <<run, drive, snap>>
  <2>1. /\ \A e \in Drivers : e # d => at[e] = "free"
        /\ \A n \in Rounds : ~Pending(n) /\ ~Committing(n)
    BY Evaluating DEF CompleteSession, ReportLabels, ReportSteps
  <2>2. /\ at[d] = "complete" /\ snap[d].noted = session.noted
        /\ UNCHANGED <<rows, reports, recordVars, requestVars, run, drive, snap>>
    BY <1>2 DEF CompleteSession, Ordered, ReportRead
  <2>3. session'.phase = "completed" /\ session'.noted = session.noted
    <3>1. PICK s \in Sessions : s = snap[d]
      BY DEF TypeOK, DriverTypes
    <3>2. s.phase = "evaluating"
      BY <1>2, <3>1, Guards DEF Sessions
    <3>3. session' = [s EXCEPT !.phase = "completed"]
      BY <1>2, <3>1, <3>2, Moves DEF Advanced
    <3>. QED
      BY <2>2, <3>1, <3>3 DEF Sessions
  <2>4. ~SessionOpen'
    BY <2>3 DEF SessionOpen, OpenPhases
  <2>5. at'[d] = "reported" /\ \A e \in Drivers : e # d => at'[e] = "free"
    BY <1>2, <2>1, <2>2 DEF Goto, TypeOK, DriverTypes
  <2>6. \A n \in Rounds : ~Pending(n)' /\ ~Committing(n)'
    BY <2>1, <2>2, <2>5 DEF Pending, Committing, Reply
  <2>7. Composed' /\ Sequential'
    BY <2>2, <2>5, <2>6 DEF Ordered, Composed, Sequential
  <2>8. Noting' /\ ClosingAsked' /\ ReportRead'
    BY <2>2, <2>3, <2>4, <2>5 DEF Ordered, Noting, SucceededRoundIsNoted, ClosingAsked, ReportRead
  <2>9. Collecting'
    BY <2>2, <2>5, ScoredKept DEF Ordered, Collecting, ReportIsComplete
  <2>. QED
    BY <2>7, <2>8, <2>9 DEF Ordered
<1>. QED
  BY <1>1, <1>2 DEF CompleteSession

LEMMA OrderedStep ==
    TypeOK /\ TypeOK' /\ Gapless /\ Staged /\ OneAtATime /\ OneAtATime' /\ Ordered /\ [Next]_vars => Ordered'
<1>. SUFFICES ASSUME TypeOK, TypeOK', Gapless, DrivenExists, OneAtATime, OneAtATime', Ordered, [Next]_vars
              PROVE  Ordered'
  BY DEF Staged
<1>1. CASE UNCHANGED vars
  <2>1. UNCHANGED <<rowVars, recordVars, run, driverVars, requestVars>>
    BY <1>1 DEF vars
  <2>2. Composed' /\ Sequential' /\ Noting' /\ ClosingAsked' /\ ReportRead'
    BY <2>1 DEF Ordered, Composed, Sequential, Noting, SucceededRoundIsNoted, ClosingAsked, ReportRead,
       Pending, Committing, SessionOpen, Reply
  <2>3. Collecting'
    BY <2>1, ScoredKept DEF Ordered, Collecting, ReportIsComplete
  <2>. QED
    BY <2>2, <2>3 DEF Ordered
<1>2. ASSUME NEW q \in Requests, Request(q) PROVE Ordered'
  BY <1>2, QuietOrdered, FinishOrdered, StartEvaluationOrdered, StartOrdered DEF Request
<1>3. ASSUME NEW d \in Drivers, Drive(d) PROVE Ordered'
  BY <1>3, TakeOrdered, EarlyOrdered, ComposeOrdered, CommitReplyOrdered, CommitToldOrdered, CommitSessionOrdered,
     EndsOrdered, CollectAnswersOrdered, ReportReadsOrdered, AddReportOrdered, CompleteSessionOrdered
     DEF Drive, TurnStep, EvaluationStep
<1>4. ASSUME NEW d \in Drivers, Crash(d) \/ Error(d) PROVE Ordered'
  BY <1>4, EndsOrdered
<1>. QED
  BY <1>1, <1>2, <1>3, <1>4 DEF Next

LEMMA OrderedAlways == Spec /\ []OneAtATime => []Ordered
<1>1. TypeOK /\ Gapless /\ Staged /\ OneAtATime /\ OneAtATime' /\ Ordered /\ [Next]_vars
         => TypeOK' /\ Gapless' /\ Staged' /\ Ordered'
  BY TypeStep, GaplessStep, StagedStep, OrderedStep
<1>. QED
  BY <1>1, InitTypes, InitGapless, InitStaged, InitOrdered, PTL DEF Spec

\* A round whose run succeeded stays reflected in the session (commit_turn writes the
\* session its compose read, _ensure_evaluation_run the one the request read), whatever
\* requests race and wherever workers are lost, as long as the runs of the session are
\* driven one at a time.
THEOREM NoRoundIsLost == Spec /\ []OneAtATime => []SucceededRoundIsNoted
<1>1. Ordered => SucceededRoundIsNoted
  BY DEF Ordered, Noting
<1>. QED
  BY <1>1, OrderedAlways, PTL

\* The report scores every reply to a question there is (collect_answers reads the turns
\* once, and its checkpoint is what is scored), under the same condition: a session that
\* is asked for its report takes no turn any more.
THEOREM NothingAnsweredAfter == Spec /\ []OneAtATime => []ReportIsComplete
<1>1. Ordered => ReportIsComplete
  BY DEF Ordered, Collecting
<1>. QED
  BY <1>1, OrderedAlways, PTL

\* docker-compose.yml runs one worker, and a worker drives one run at a time.
THEOREM OneWorkerLosesNothing ==
    ASSUME NEW w, Drivers = {w}
    PROVE  Spec => [](SucceededRoundIsNoted /\ ReportIsComplete)
<1>1. OneAtATime
  BY DEF OneAtATime
<1>2. Spec => []OneAtATime
  BY <1>1, PTL
<1>. QED
  BY <1>2, NoRoundIsLost, NothingAnsweredAfter, PTL

-------------------------------------------------------------------------------
(***************************************************************************)
(* The phase machine.  Every write of the session puts back a session that *)
(* was read before; that the phase then moves along the machine takes that *)
(* nobody wrote in between, so at most one request is under way as well.   *)
(***************************************************************************)

OneRequest == \A p, q \in Requests : asking[p] # "idle" /\ asking[q] # "idle" => p = q

PhaseStep(p, r) ==
    p = r \/ \E event \in Lifecycle!Events : Lifecycle!Allows(p, event) /\ r = Lifecycle!After(p, event)

Evaluated == session.phase \in {"evaluating", "completed"}

\* What is about to be written is the session as it is, moved by one event.
Current ==
    /\ \A q \in Requests : asking[q] = "evaluate" => seen[q] = session
    /\ \A q \in Requests : asking[q] = "report" => Evaluated
    /\ run[Report] # "none" => Evaluated
    /\ \A d \in Drivers : at[d] \in {"report", "complete"} => snap[d] = session
    /\ \A n \in Rounds : Pending(n) \/ Committing(n) => PhaseStep(session.phase, outcome[n].session.phase)

LEMMA InitCurrent == Init => Current
BY KeysAreRoundsAndReport DEF Init, Current, Pending, Committing

\* The moves of the machine this module makes.
LEMMA PhaseSteps ==
    /\ PhaseStep("intake", "intake") /\ PhaseStep("intake", "questioning")
    /\ PhaseStep("questioning", "questioning") /\ PhaseStep("questioning", "closing")
    /\ PhaseStep("closing", "evaluating") /\ PhaseStep("evaluating", "completed")
BY DEF PhaseStep, Lifecycle!Events, Lifecycle!Allows, Lifecycle!After, Lifecycle!Transitions

LEMMA OutcomeMoves ==
    ASSUME NEW s \in Sessions, NEW n \in Rounds, NEW o \in Outcomes(s, n)
    PROVE  PhaseStep(s.phase, o.session.phase)
<1>1. \A p, k : Moved(s, n, p, k).session.phase = p
  BY DEF Moved
<1>2. CASE s.phase = "intake"
  <2>1. o \in IntakeOutcomes(s, n)
    BY <1>2 DEF Outcomes
  <2>2. \/ o = Moved(s, n, "questioning", "question")
        \/ o = Moved(s, n, "intake", "intake")
    BY <1>2, <2>1, Moves DEF IntakeOutcomes
  <2>. QED
    BY <1>1, <1>2, <2>2, PhaseSteps
<1>3. CASE s.phase # "intake"
  <2>1. Lifecycle!Allows(s.phase, "record_answer") /\ o \in QuestionOutcomes(s, n)
    BY <1>3 DEF Outcomes
  <2>2. s.phase = "questioning"
    BY <2>1, Guards DEF Sessions
  <2>3. \/ o = Moved(s, n, "questioning", "question")
        \/ o = Moved(s, n, "closing", "closing")
    BY <2>1, <2>2, Moves DEF QuestionOutcomes
  <2>. QED
    BY <1>1, <2>2, <2>3, PhaseSteps
<1>. QED
  BY <1>2, <1>3

\* The three writes of the session.
LEMMA SessionWrites ==
    ASSUME [Next]_vars, session' # session
    PROVE  \/ \E q \in Requests : StartEvaluation(q)
           \/ \E d \in Drivers : CommitSession(d) \/ CompleteSession(d)
BY DEF Next, vars, Request, Drive, TurnStep, EvaluationStep, SubmitTurn, CountTurns, StageUpload, StartTurn, Finish,
   StartReport, LoseRequest, Take, PersistAudio, Transcribe, ComposeReads, Compose, CommitReply, CommitTold,
   EndTurn, CollectAnswers, ReportReads, AddReport, EndReport, Crash, Error

\* start_evaluation is written over the session that was read as closing.
LEMMA EvaluationWrites ==
    ASSUME TypeOK, Current, NEW q \in Requests, StartEvaluation(q)
    PROVE  session.phase = "closing" /\ session'.phase = "evaluating"
<1>1. PICK s \in Sessions : s = seen[q] /\ s.phase = "closing"
  BY DEF StartEvaluation, TypeOK, RequestTypes
<1>2. session = s /\ session' = [s EXCEPT !.phase = "evaluating"]
  BY <1>1, Moves DEF StartEvaluation, Current, Advanced
<1>. QED
  BY <1>1, <1>2 DEF Sessions

LEMMA CompletionWrites ==
    ASSUME TypeOK, Current, NEW d \in Drivers, CompleteSession(d), session' # session
    PROVE  session.phase = "evaluating" /\ session'.phase = "completed"
<1>1. PICK s \in Sessions : s = snap[d]
  BY DEF TypeOK, DriverTypes
<1>2. session = s /\ Lifecycle!Allows(s.phase, "complete") /\ session' = Advanced(s, "complete")
  BY <1>1 DEF CompleteSession, Current
<1>3. s.phase = "evaluating"
  BY <1>1, <1>2, Guards DEF Sessions
<1>4. session' = [s EXCEPT !.phase = "completed"]
  BY <1>2, <1>3, Moves DEF Advanced
<1>. QED
  BY <1>2, <1>3, <1>4 DEF Sessions

\* Whatever writes the session moves it by one event.
LEMMA CurrentMoves ==
    ASSUME TypeOK, Current, [Next]_vars
    PROVE  PhaseStep(session.phase, session'.phase)
<1>1. CASE session' = session
  BY <1>1 DEF PhaseStep
<1>2. ASSUME NEW q \in Requests, StartEvaluation(q)
      PROVE  PhaseStep(session.phase, session'.phase)
  BY <1>2, EvaluationWrites, PhaseSteps
<1>3. ASSUME NEW d \in Drivers, CommitSession(d)
      PROVE  PhaseStep(session.phase, session'.phase)
  <2>1. PICK n \in Rounds : n = drive[d]
    BY <1>3, DrivesRound DEF CommitSession, TypeOK, TurnLabels, TurnSteps
  <2>. QED
    BY <1>3, <2>1 DEF CommitSession, Current, Committing
<1>4. ASSUME NEW d \in Drivers, CompleteSession(d), session' # session
      PROVE  PhaseStep(session.phase, session'.phase)
  BY <1>4, CompletionWrites, PhaseSteps
<1>. QED
  BY <1>1, <1>2, <1>3, <1>4, SessionWrites

\* A step of a request that leaves the session alone.
LEMMA RequestCurrent ==
    ASSUME TypeOK, Current, NEW q \in Requests, Request(q), ~StartEvaluation(q)
    PROVE  Current'
<1>1. UNCHANGED <<session, rows, recordVars, driverVars>>
  BY DEF Request, SubmitTurn, CountTurns, StageUpload, StartTurn, Finish, StartReport, LoseRequest
<1>2. \A r \in Requests :
         /\ asking'[r] = "evaluate" => \/ asking[r] = "evaluate" /\ seen'[r] = seen[r]
                                       \/ seen'[r] = session
         /\ asking'[r] = "report" => asking[r] = "report" \/ Evaluated
  <2>1. CASE SubmitTurn(q) \/ CountTurns(q) \/ StageUpload(q) \/ StartTurn(q) \/ StartReport(q) \/ LoseRequest(q)
    BY <2>1 DEF SubmitTurn, CountTurns, StageUpload, StartTurn, StartReport, LoseRequest, Respond, TypeOK, RequestTypes
  <2>2. CASE Finish(q)
    BY <2>2 DEF Finish, FinishPhases, Evaluated, TypeOK, RequestTypes
  <2>. QED
    BY <2>1, <2>2 DEF Request
<1>3. run'[Report] # "none" => run[Report] # "none" \/ Evaluated
  <2>1. CASE StartReport(q)
    BY <2>1 DEF StartReport, Current
  <2>2. CASE StartTurn(q)
    <3>1. index[q] # Report
      BY <2>2, RowIndices DEF StartTurn, TypeOK, RequestTypes
    <3>. QED
      BY <2>2, <3>1, KeysAreRoundsAndReport DEF StartTurn, StartRun, TypeOK, RunTypes
  <2>3. CASE UNCHANGED run
    BY <2>3
  <2>. QED
    BY <2>1, <2>2, <2>3 DEF Request, SubmitTurn, CountTurns, StageUpload, Finish, LoseRequest
<1>. QED
  BY <1>1, <1>2, <1>3 DEF Current, Evaluated, Pending, Committing, Reply

LEMMA StartEvaluationCurrent ==
    ASSUME TypeOK, OneRequest, Ordered, Current, NEW q \in Requests, StartEvaluation(q)
    PROVE  Current'
<1>1. session.phase = "closing" /\ session'.phase = "evaluating"
  BY EvaluationWrites
<1>2. UNCHANGED <<rows, recordVars, run, driverVars, seen>>
  BY DEF StartEvaluation
<1>3. \A r \in Requests : asking'[r] # "evaluate"
  BY DEF StartEvaluation, OneRequest, TypeOK, RequestTypes
<1>4. run[Report] = "none"
  BY <1>1 DEF Current, Evaluated
<1>5. \A d \in Drivers : at[d] \notin {"report", "complete"}
  <2>1. todo[Report] # "commit_report"
    BY <1>4 DEF Ordered, Collecting
  <2>. QED
    BY <2>1 DEF Ordered, Collecting
<1>6. \A n \in Rounds : ~Pending(n) /\ ~Committing(n)
  BY <1>1 DEF Ordered, Sequential, SessionOpen, OpenPhases
<1>. QED
  BY <1>1, <1>2, <1>3, <1>4, <1>5, <1>6 DEF Current, Evaluated, Pending, Committing, Reply

LEMMA CommitSessionCurrent ==
    ASSUME TypeOK, OneAtATime, Ordered, Current, NEW d \in Drivers, CommitSession(d)
    PROVE  Current'
<1>1. PICK n \in Rounds : n = drive[d]
  BY DrivesRound DEF CommitSession, TypeOK, TurnLabels, TurnSteps
<1>2. at[d] = "session" /\ Committing(n) /\ UNCHANGED <<rows, recordVars, requestVars, run, drive, snap>>
  BY <1>1 DEF CommitSession, Committing
<1>3. SessionOpen /\ \A m \in Rounds : ~Pending(m)
  BY <1>2 DEF Ordered, Sequential
<1>4. at'[d] = "committed" /\ \A e \in Drivers : e # d => at'[e] = "free"
  BY <1>2, Alone DEF CommitSession, Goto, TypeOK, DriverTypes
<1>5. run[Report] = "none" /\ \A q \in Requests : asking[q] \notin {"evaluate", "report"}
  BY <1>3 DEF Ordered, ClosingAsked
<1>6. \A m \in Rounds : ~Pending(m)' /\ ~Committing(m)'
  BY <1>2, <1>3, <1>4 DEF Pending, Committing, Reply
<1>. QED
  BY <1>2, <1>4, <1>5, <1>6 DEF Current

\* A step of a worker that leaves the session alone, and records no outcome.
LEMMA WorkerCurrent ==
    ASSUME TypeOK, Current, UNCHANGED <<session, outcome, requestVars>>, rows \subseteq rows',
           run'[Report] # "none" => run[Report] # "none",
           \A d \in Drivers : at'[d] \in {"report", "complete"} => snap'[d] = session,
           \A n \in Rounds : Pending(n)' \/ Committing(n)' => Pending(n) \/ Committing(n)
    PROVE  Current'
BY DEF Current, Evaluated

\* Nothing becomes pending, and no commit begins, but by compose and by the reply's insert.
LEMMA NothingNewPending ==
    ASSUME TypeOK, rows \subseteq rows',
           \A n \in Rounds : todo'[n] = "commit_turn" => todo[n] = "commit_turn",
           \A d \in Drivers : at'[d] \in {"told", "session"} =>
                                 at[d] \in {"told", "session"} /\ drive'[d] = drive[d]
    PROVE  \A n \in Rounds : Pending(n)' \/ Committing(n)' => Pending(n) \/ Committing(n)
BY DEF Pending, Committing, Reply

LEMMA ReleaseCurrent ==
    ASSUME TypeOK, DrivenExists, Current, NEW d \in Drivers, at[d] # "free",
           UNCHANGED <<session, rows, outcome, todo, requestVars>>,
           Release(d), UNCHANGED run \/ \E verdict : run' = [run EXCEPT ![drive[d]] = verdict]
    PROVE  Current'
<1>1. run'[Report] # "none" => run[Report] # "none"
  BY KeysAreRoundsAndReport DEF DrivenExists, TypeOK, RunTypes, DriverTypes
<1>2. \A e \in Drivers : at'[e] # "free" => at'[e] = at[e] /\ drive'[e] = drive[e] /\ snap'[e] = snap[e]
  BY DEF Release, TypeOK, DriverTypes
<1>3. \A n \in Rounds : Pending(n)' \/ Committing(n)' => Pending(n) \/ Committing(n)
  BY <1>2, NothingNewPending
<1>. QED
  BY <1>1, <1>2, <1>3, WorkerCurrent DEF Current

LEMMA EndsCurrent ==
    ASSUME TypeOK, DrivenExists, Current, NEW d \in Drivers,
           \/ Crash(d) \/ Error(d) \/ EndTurn(d) \/ EndReport(d)
           \/ /\ Compose(d) \/ CommitReply(d) \/ CommitTold(d) \/ CompleteSession(d)
              /\ EndRun(d, "failed") /\ UNCHANGED <<session, rows, outcome, todo>>
    PROVE  Current'
<1>1. at[d] # "free" /\ UNCHANGED <<session, rows, outcome, todo, requestVars>> /\ Release(d)
  BY DEF Crash, Error, EndTurn, EndReport, Compose, CommitReply, CommitTold, CompleteSession, EndRun
<1>2. UNCHANGED run \/ \E verdict : run' = [run EXCEPT ![drive[d]] = verdict]
  BY DEF Crash, Error, EndTurn, EndReport, EndRun
<1>. QED
  BY <1>1, <1>2, ReleaseCurrent

LEMMA TakeCurrent ==
    ASSUME TypeOK, Current, NEW d \in Drivers, Take(d)
    PROVE  Current'
<1>1. PICK k \in Keys : drive' = [drive EXCEPT ![d] = k] /\ at' = [at EXCEPT ![d] = todo[k]]
  BY DEF Take
<1>2. UNCHANGED <<rowVars, recordVars, run, snap, requestVars>> /\ at[d] = "free"
  BY DEF Take
<1>3. /\ at'[d] \in TurnSteps \cup ReportSteps
      /\ \A e \in Drivers : e # d => at'[e] = at[e] /\ drive'[e] = drive[e]
  BY <1>1 DEF TypeOK, DriverTypes, RecordTypes
<1>4. \A e \in Drivers : at'[e] \in {"told", "session", "report", "complete"} => at'[e] = at[e] /\ drive'[e] = drive[e]
  BY <1>3 DEF TurnSteps, ReportSteps
<1>5. \A n \in Rounds : Pending(n)' \/ Committing(n)' => Pending(n) \/ Committing(n)
  BY <1>2, <1>4, NothingNewPending
<1>. QED
  BY <1>2, <1>4, <1>5, WorkerCurrent DEF Current

LEMMA MovesOnCurrent ==
    ASSUME TypeOK, Current, NEW d \in Drivers,
           \/ PersistAudio(d) \/ Transcribe(d) \/ ComposeReads(d)
           \/ CollectAnswers(d) \/ ReportReads(d) \/ AddReport(d)
    PROVE  Current'
<1>1. UNCHANGED <<session, rows, outcome, run, drive, requestVars>>
  BY DEF PersistAudio, Transcribe, ComposeReads, CollectAnswers, ReportReads, AddReport
<1>2. /\ at'[d] \in {"transcribe", "compose", "history", "commit_report", "report", "complete"}
      /\ \A e \in Drivers : e # d => at'[e] = at[e] /\ snap'[e] = snap[e]
      /\ at'[d] = "report" => snap'[d] = session
      /\ at'[d] = "complete" => at[d] = "report" /\ snap'[d] = snap[d]
  BY DEF PersistAudio, Transcribe, ComposeReads, CollectAnswers, ReportReads, AddReport, Checkpoint, Goto,
     TypeOK, DriverTypes
<1>3. \A n \in Rounds : todo'[n] = "commit_turn" => todo[n] = "commit_turn"
  <2>1. CASE ComposeReads(d) \/ ReportReads(d) \/ AddReport(d)
    BY <2>1 DEF ComposeReads, ReportReads, AddReport
  <2>2. ASSUME NEW l \in {"transcribe", "compose", "commit_report"}, Checkpoint(d, l)
        PROVE  \A n \in Rounds : todo'[n] = "commit_turn" => todo[n] = "commit_turn"
    BY <2>2, RowIndices DEF Checkpoint, TypeOK, RecordTypes, DriverTypes
  <2>. QED
    BY <2>1, <2>2 DEF PersistAudio, Transcribe, CollectAnswers
<1>4. \A n \in Rounds : Pending(n)' \/ Committing(n)' => Pending(n) \/ Committing(n)
  BY <1>1, <1>2, <1>3, NothingNewPending
<1>5. \A e \in Drivers : at'[e] \in {"report", "complete"} => snap'[e] = session
  BY <1>2 DEF Current
<1>. QED
  BY <1>1, <1>4, <1>5, WorkerCurrent

LEMMA ComposeCurrent ==
    ASSUME TypeOK, DrivenExists, OneAtATime, Ordered, Current, NEW d \in Drivers, Compose(d)
    PROVE  Current'
<1>1. CASE EndRun(d, "failed") /\ UNCHANGED <<outcome, todo>>
  BY <1>1, EndsCurrent DEF Compose
<1>2. CASE \E o \in Outcomes(snap[d], drive[d]) : /\ outcome' = [outcome EXCEPT ![drive[d]] = o]
                                                  /\ Checkpoint(d, "commit_turn")
                                                  /\ UNCHANGED <<run, drive, snap>>
  <2>1. PICK o \in Outcomes(snap[d], drive[d]) : /\ outcome' = [outcome EXCEPT ![drive[d]] = o]
                                                 /\ Checkpoint(d, "commit_turn")
                                                 /\ UNCHANGED <<run, drive, snap>>
    BY <1>2
  <2>2. PICK n \in Rounds : n = drive[d]
    BY DrivesRound DEF Compose, TypeOK, TurnLabels, TurnSteps
  <2>3. at[d] = "history" /\ snap[d] \in Sessions /\ UNCHANGED <<rowVars, requestVars>>
    BY DEF Compose, TypeOK, DriverTypes
  <2>4. snap[d] = session /\ PhaseStep(session.phase, o.session.phase)
    BY <2>2, <2>3, OutcomeNotes, OutcomeMoves DEF Ordered, Sequential
  <2>5. /\ \A m \in Rounds : todo'[m] = IF m = n THEN "commit_turn" ELSE todo[m]
        /\ \A m \in Rounds : outcome'[m] = IF m = n THEN o ELSE outcome[m]
        /\ at'[d] = "commit_turn" /\ \A e \in Drivers : e # d => at'[e] = "free"
    BY <2>1, <2>2, <2>3, Alone, RowIndices DEF Checkpoint, Goto, TypeOK, DriverTypes, RecordTypes
  <2>6. \A m \in Rounds : (Pending(m)' => m = n \/ Pending(m)) /\ ~Committing(m)'
    BY <2>3, <2>5 DEF Pending, Committing, Reply
  <2>. QED
    BY <2>1, <2>3, <2>4, <2>5, <2>6 DEF Current, Evaluated
<1>. QED
  BY <1>1, <1>2 DEF Compose

LEMMA CommitRowsCurrent ==
    ASSUME TypeOK, DrivenExists, Ordered, Current, NEW d \in Drivers, CommitReply(d) \/ CommitTold(d)
    PROVE  Current'
<1>1. CASE EndRun(d, "failed") /\ UNCHANGED rows
  BY <1>1, EndsCurrent DEF CommitReply, CommitTold
<1>2. CASE ~(EndRun(d, "failed") /\ UNCHANGED rows)
  <2>1. PICK n \in Rounds : n = drive[d]
    BY DrivesRound DEF CommitReply, CommitTold, TypeOK, TurnLabels, TurnSteps
  <2>2. /\ UNCHANGED <<session, recordVars, requestVars, run, drive, snap>> /\ rows \subseteq rows'
        /\ at'[d] \in {"told", "session"} /\ \A e \in Drivers : e # d => at'[e] = at[e]
    BY <1>2 DEF CommitReply, CommitTold, AddRow, Goto, TypeOK, DriverTypes
  <2>3. Pending(n) \/ Committing(n)
    BY <1>2, <2>1 DEF CommitReply, CommitTold, Ordered, Composed, Pending, Committing
  <2>4. \A m \in Rounds : Pending(m)' \/ Committing(m)' => Pending(m) \/ Committing(m)
    <3>1. \A m \in Rounds : Pending(m)' => Pending(m)
      BY <2>2 DEF Pending, Reply
    <3>2. \A m \in Rounds : Committing(m)' => m = n \/ Committing(m)
      BY <2>1, <2>2 DEF Committing
    <3>. QED
      BY <2>3, <3>1, <3>2
  <2>. QED
    BY <2>2, <2>4, WorkerCurrent DEF Current
<1>. QED
  BY <1>1, <1>2

LEMMA CompleteSessionCurrent ==
    ASSUME TypeOK, DrivenExists, OneAtATime, Ordered, Current, NEW d \in Drivers, CompleteSession(d)
    PROVE  Current'
<1>1. CASE EndRun(d, "failed") /\ UNCHANGED session
  BY <1>1, EndsCurrent DEF CompleteSession
<1>2. CASE Goto(d, "reported") /\ UNCHANGED <<run, drive, snap>>
  <2>1. /\ \A e \in Drivers : e # d => at[e] = "free"
        /\ \A n \in Rounds : ~Pending(n) /\ ~Committing(n)
        /\ run[Report] # "none"
    BY Evaluating DEF CompleteSession, ReportLabels, ReportSteps
  <2>2. UNCHANGED <<rows, recordVars, requestVars, run, drive, snap>>
    BY <1>2 DEF CompleteSession
  <2>3. at'[d] = "reported" /\ \A e \in Drivers : e # d => at'[e] = "free"
    BY <1>2, <2>1 DEF CompleteSession, Goto, TypeOK, DriverTypes
  <2>4. Evaluated /\ Evaluated'
    BY <2>1, CompletionWrites DEF Current, Evaluated
  <2>5. \A q \in Requests : asking[q] # "evaluate"
    BY <2>4 DEF Current, Evaluated, TypeOK, RequestTypes
  <2>6. \A n \in Rounds : ~Pending(n)' /\ ~Committing(n)'
    BY <2>1, <2>2, <2>3 DEF Pending, Committing, Reply
  <2>. QED
    BY <2>2, <2>3, <2>4, <2>5, <2>6 DEF Current
<1>. QED
  BY <1>1, <1>2 DEF CompleteSession

LEMMA CurrentStep ==
    TypeOK /\ Staged /\ OneAtATime /\ OneRequest /\ Ordered /\ Current /\ [Next]_vars => Current'
<1>. SUFFICES ASSUME TypeOK, DrivenExists, OneAtATime, OneRequest, Ordered, Current, [Next]_vars
              PROVE  Current'
  BY DEF Staged
<1>1. CASE UNCHANGED vars
  BY <1>1 DEF vars, Current, Evaluated, Pending, Committing, Reply
<1>2. ASSUME NEW q \in Requests, Request(q) PROVE Current'
  BY <1>2, RequestCurrent, StartEvaluationCurrent
<1>3. ASSUME NEW d \in Drivers, Drive(d) PROVE Current'
  BY <1>3, TakeCurrent, MovesOnCurrent, ComposeCurrent, CommitRowsCurrent, CommitSessionCurrent, EndsCurrent,
     CompleteSessionCurrent
     DEF Drive, TurnStep, EvaluationStep
<1>4. ASSUME NEW d \in Drivers, Crash(d) \/ Error(d) PROVE Current'
  BY <1>4, EndsCurrent
<1>. QED
  BY <1>1, <1>2, <1>3, <1>4 DEF Next

\* The session moves only along the phase machine of domain/phase.py (advance), whatever
\* faults fall between the reads and the writes of commit_turn, commit_report and
\* _ensure_evaluation_run, as long as one request and one run at a time are under way:
\* with two Finish requests the slower one writes `evaluating` over `completed`.
THEOREM PhasesFollowLifecycle == Spec /\ []OneAtATime /\ []OneRequest => FollowsLifecycle
<1>1. Init => Lifecycle!Init
  BY DEF Init, Lifecycle!Init, FreshSession
<1>2. TypeOK /\ Current /\ [Next]_vars => [Lifecycle!Next]_(session.phase)
  <2>. SUFFICES ASSUME TypeOK, Current, [Next]_vars PROVE [Lifecycle!Next]_(session.phase)
    OBVIOUS
  <2>1. PhaseStep(session.phase, session'.phase)
    BY CurrentMoves
  <2>. QED
    BY <2>1 DEF PhaseStep, Lifecycle!Next, Lifecycle!Advance
<1>3. TypeOK /\ Staged /\ OneAtATime /\ OneRequest /\ Ordered /\ Current /\ [Next]_vars
         => TypeOK' /\ Staged' /\ Current'
  BY TypeStep, StagedStep, CurrentStep
<1>. QED
  BY <1>1, <1>2, <1>3, InitTypes, InitStaged, InitCurrent, OrderedAlways, PTL
     DEF Spec, FollowsLifecycle, Lifecycle!Spec

===============================================================================
