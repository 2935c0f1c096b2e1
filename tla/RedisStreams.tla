----------------------------- MODULE RedisStreams -----------------------------
(***************************************************************************)
(* The Redis Streams workflow engine, for one workflow: the stream and its *)
(* consumer group, the delayed-retry ZSET, the dead-letter stream, the run *)
(* rows and step records in Postgres, the API task that enqueues a run and *)
(* the worker processes that loop over consume_once.                       *)
(*                                                                         *)
(* Every await on Redis or Postgres is a step of its own, so the workers   *)
(* interleave between any two of them, and a crash can fall there too.     *)
(* Clocks are abstracted to the two facts they decide: whether an entry    *)
(* has been idle past the visibility timeout, whether a delayed retry has  *)
(* come due.                                                               *)
(***************************************************************************)
EXTENDS Naturals, Sequences, FiniteSets

CONSTANTS
    Runs,            \* the runs of this workflow
    Workers,         \* the worker processes draining it
    NumSteps,        \* its steps are 1..NumSteps, in order
    MaxAttempts,     \* step |-> max_attempts
    ClaimCount,      \* the count argument of XAUTOCLAIM
    Cancellable,     \* the runs somebody may cancel
    LeaseOutlived,   \* may a live worker hold an entry past the visibility timeout?
    MaxTransient,    \* bound: transient errors that get a retry
    MaxCrashes       \* bound: deaths of a worker or of an enqueueing task

ASSUME EngineAssumption ==
    /\ NumSteps \in Nat
    /\ MaxAttempts \in [1..NumSteps -> Nat \ {0}]
    /\ ClaimCount \in Nat \ {0}
    /\ Cancellable \subseteq Runs
    /\ LeaseOutlived \in BOOLEAN
    /\ MaxTransient \in Nat
    /\ MaxCrashes \in Nat

VARIABLES
    status,      \* workflow_runs.status, "none" before the row exists
    records,     \* workflow_step_records: run |-> step |-> status and attempts
    starter,     \* the API's background task running engine.start for a run
    stream,      \* the stream: entry i carries the run stream[i]
    delivered,   \* the group's last-delivered id; later entries are ">"
    pel,         \* the group's pending entries list
    idle,        \* the pending entries idle past the visibility timeout
    delayed,     \* the members of the ZSET
    due,         \* those whose score has passed
    dlq,         \* how many dead-letter entries each run has
    pc,          \* where a worker stands in consume_once
    batch,       \* the claimed entries it still has to process
    promoting,   \* the due members it read and has yet to promote
    hand,        \* a member it took off the ZSET and has not yet re-added
    entry,       \* the entry it is processing, 0 for none
    resume,      \* where _process_entry returns to
    step,        \* the step _drive is at
    attempt,     \* _drive's attempt
    tries,       \* execute's attempts
    transients,  \* how many transient errors were retried
    crashes,     \* how many processes have died
    dropped,     \* history: runs a dying worker held in its hand
    retried,     \* history: runs that were put on the ZSET
    outlived     \* history: entries whose lease ran out in a live worker's hands

dbVars      == <<status, records>>
queueVars   == <<stream, delivered, pel, idle, delayed, due, dlq>>
loopVars    == <<batch, promoting, hand>>
driveVars   == <<step, attempt, tries>>
historyVars == <<dropped, retried, outlived>>
faultVars   == <<transients, crashes, historyVars>>
workerVars  == <<pc, loopVars, entry, resume, driveVars>>
vars == <<dbVars, starter, queueVars, workerVars, faultVars>>

Steps    == 1..NumSteps
Terminal == {"succeeded", "failed"}
NoRecord == [status |-> "absent", attempts |-> 0]
Entries  == 1..Len(stream)

\* The run a worker is driving: the one its current entry names.
RunOf(w) == stream[entry[w]]
RecordOf(w) == records[RunOf(w)][step[w]]

\* A step with a succeeded record is skipped, its stored output reused.
NeverMemoized(w) == FALSE
Memoized(w) == RecordOf(w).status = "succeeded"

\* Another attempt is left for a transient error.
RetryAllowedOnceMore(w) == attempt[w] <= MaxAttempts[step[w]]
RetryAllowed(w) == attempt[w] < MaxAttempts[step[w]]

Goto(w, label) == pc' = [pc EXCEPT ![w] = label]

\* _drive's local variables die with its frame.
ForgetDrive(w) ==
    /\ step' = [step EXCEPT ![w] = 1]
    /\ attempt' = [attempt EXCEPT ![w] = 0]
    /\ tries' = [tries EXCEPT ![w] = 0]

Init ==
    /\ status = [r \in Runs |-> "none"]
    /\ records = [r \in Runs |-> [s \in Steps |-> NoRecord]]
    /\ starter = [r \in Runs |-> "idle"]
    /\ stream = <<>>
    /\ delivered = 0
    /\ pel = {}
    /\ idle = {}
    /\ delayed = {}
    /\ due = {}
    /\ dlq = [r \in Runs |-> 0]
    /\ pc = [w \in Workers |-> "idle"]
    /\ batch = [w \in Workers |-> {}]
    /\ promoting = [w \in Workers |-> {}]
    /\ hand = [w \in Workers |-> {}]
    /\ entry = [w \in Workers |-> 0]
    /\ resume = [w \in Workers |-> "idle"]
    /\ step = [w \in Workers |-> 1]
    /\ attempt = [w \in Workers |-> 0]
    /\ tries = [w \in Workers |-> 0]
    /\ transients = 0
    /\ crashes = 0
    /\ dropped = {}
    /\ retried = {}
    /\ outlived = {}

-------------------------------------------------------------------------------
(***************************************************************************)
(* The API: _start_run adds the row and spawns engine.start, which reads   *)
(* the row again and enqueues the run unless it is terminal.               *)
(***************************************************************************)

AddRun(r) ==
    /\ status[r] = "none"
    /\ status' = [status EXCEPT ![r] = "running"]
    /\ starter' = [starter EXCEPT ![r] = "spawned"]
    /\ UNCHANGED <<records, queueVars, workerVars, faultVars>>

StartReads(r) ==
    /\ starter[r] = "spawned"
    /\ starter' = [starter EXCEPT ![r] = IF status[r] \in Terminal THEN "done" ELSE "enqueue"]
    /\ UNCHANGED <<dbVars, queueVars, workerVars, faultVars>>

EnqueueTwice(r) ==
    /\ starter[r] = "enqueue"
    /\ stream' = stream \o <<r, r>>
    /\ starter' = [starter EXCEPT ![r] = "done"]
    /\ UNCHANGED <<dbVars, delivered, pel, idle, delayed, due, dlq, workerVars, faultVars>>

Enqueue(r) ==
    /\ starter[r] = "enqueue"
    /\ stream' = Append(stream, r)
    /\ starter' = [starter EXCEPT ![r] = "done"]
    /\ UNCHANGED <<dbVars, delivered, pel, idle, delayed, due, dlq, workerVars, faultVars>>

\* The background task dies before its XADD: the API process stops, or a call
\* of engine.start raises and spawn logs the exception and drops it.
LoseStart(r) ==
    /\ starter[r] \in {"spawned", "enqueue"}
    /\ crashes < MaxCrashes
    /\ crashes' = crashes + 1
    /\ starter' = [starter EXCEPT ![r] = "lost"]
    /\ UNCHANGED <<dbVars, queueVars, workerVars, transients, historyVars>>

Cancel(r) ==
    /\ r \in Cancellable
    /\ status[r] # "none"
    /\ status' = [status EXCEPT ![r] = "failed"]
    /\ UNCHANGED <<records, starter, queueVars, workerVars, faultVars>>

-------------------------------------------------------------------------------
(***************************************************************************)
(* consume_once: claim stale leases and process them, promote due retries, *)
(* read and process one new entry.                                         *)
(***************************************************************************)

\* XAUTOCLAIM scans from 0-0: the lowest idle entries, at most ClaimCount of
\* them, are delivered to this worker and their idle clocks restart.
ClaimableNever(S) == S = {}
Claimable(S) ==
    /\ Cardinality(S) <= ClaimCount
    /\ S # idle => Cardinality(S) = ClaimCount
    /\ \A e \in S, f \in idle \ S : e < f

Claim(w) ==
    /\ pc[w] = "idle"
    /\ \E S \in SUBSET idle :
          /\ Claimable(S)
          /\ batch' = [batch EXCEPT ![w] = S]
          /\ idle' = idle \ S
    /\ Goto(w, "reclaim")
    /\ UNCHANGED <<dbVars, starter, stream, delivered, pel, delayed, due, dlq,
                   promoting, hand, entry, resume, driveVars, faultVars>>

TakeClaimed(w) ==
    /\ pc[w] = "reclaim"
    /\ \E e \in batch[w] :
          /\ \A f \in batch[w] : e <= f
          /\ entry' = [entry EXCEPT ![w] = e]
          /\ batch' = [batch EXCEPT ![w] = @ \ {e}]
    /\ resume' = [resume EXCEPT ![w] = "reclaim"]
    /\ Goto(w, "load")
    /\ UNCHANGED <<dbVars, starter, queueVars, promoting, hand, driveVars, faultVars>>

ScanDelayed(w) ==
    /\ pc[w] = "reclaim"
    /\ batch[w] = {}
    /\ promoting' = [promoting EXCEPT ![w] = due]
    /\ Goto(w, "promote")
    /\ UNCHANGED <<dbVars, starter, queueVars, batch, hand, entry, resume, driveVars, faultVars>>

\* ZREM: the member leaves the ZSET, whatever its score is by now, and if
\* another worker has removed it already the call is silently a no-op.
PromoteRemove(w) ==
    /\ pc[w] = "promote"
    /\ hand[w] = {}
    /\ \E r \in promoting[w] :
          /\ promoting' = [promoting EXCEPT ![w] = @ \ {r}]
          /\ hand' = [hand EXCEPT ![w] = {r}]
          /\ delayed' = delayed \ {r}
          /\ due' = due \ {r}
    /\ UNCHANGED <<dbVars, starter, stream, delivered, pel, idle, dlq,
                   pc, batch, entry, resume, driveVars, faultVars>>

PromoteAdd(w) ==
    /\ pc[w] = "promote"
    /\ \E r \in hand[w] : stream' = Append(stream, r)
    /\ hand' = [hand EXCEPT ![w] = {}]
    /\ UNCHANGED <<dbVars, starter, delivered, pel, idle, delayed, due, dlq,
                   pc, batch, promoting, entry, resume, driveVars, faultVars>>

\* XREADGROUP ">": the next undelivered entry, or nothing once block_ms is up.
Read(w) ==
    /\ pc[w] = "promote"
    /\ promoting[w] = {}
    /\ hand[w] = {}
    /\ \/ /\ delivered < Len(stream)
          /\ delivered' = delivered + 1
          /\ pel' = pel \cup {delivered + 1}
          /\ entry' = [entry EXCEPT ![w] = delivered + 1]
          /\ resume' = [resume EXCEPT ![w] = "idle"]
          /\ Goto(w, "load")
       \/ /\ delivered = Len(stream)
          /\ Goto(w, "idle")
          /\ UNCHANGED <<delivered, pel, entry, resume>>
    /\ UNCHANGED <<dbVars, starter, stream, idle, delayed, due, dlq,
                   loopVars, driveVars, faultVars>>

-------------------------------------------------------------------------------
(***************************************************************************)
(* _process_entry and _drive.                                              *)
(***************************************************************************)

Load(w) ==
    /\ pc[w] = "load"
    /\ \/ /\ status[RunOf(w)] \in Terminal
          /\ Goto(w, "ack")
       \/ /\ status[RunOf(w)] = "running"
          /\ Goto(w, "step")
    /\ UNCHANGED <<dbVars, starter, queueVars, loopVars, entry, resume, driveVars, faultVars>>

\* The head of _drive's loop: skip a memoized step, number the attempt of
\* another.
CheckStep(w) ==
    /\ pc[w] = "step"
    /\ step[w] <= NumSteps
    /\ \/ /\ Memoized(w)
          /\ step' = [step EXCEPT ![w] = @ + 1]
          /\ UNCHANGED <<pc, attempt>>
       \/ /\ ~Memoized(w)
          /\ attempt' = [attempt EXCEPT ![w] = RecordOf(w).attempts + 1]
          /\ Goto(w, "execute")
          /\ UNCHANGED step
    /\ UNCHANGED <<dbVars, starter, queueVars, loopVars, entry, resume, tries, faultVars>>

\* BaseStep.execute reads the record once more before it runs the body.
Execute(w) ==
    /\ pc[w] = "execute"
    /\ \/ /\ Memoized(w)
          /\ step' = [step EXCEPT ![w] = @ + 1]
          /\ Goto(w, "step")
          /\ UNCHANGED tries
       \/ /\ ~Memoized(w)
          /\ tries' = [tries EXCEPT ![w] = RecordOf(w).attempts + 1]
          /\ Goto(w, "body")
          /\ UNCHANGED step
    /\ UNCHANGED <<dbVars, starter, queueVars, loopVars, entry, resume, attempt, faultVars>>

SaveRecordUnlessDone(w, outcome, n) ==
    IF outcome = "succeeded" THEN UNCHANGED records
    ELSE records' = [records EXCEPT ![RunOf(w)][step[w]] = [status |-> outcome, attempts |-> n]]
SaveRecordRetrying(w, outcome, n) ==
    records' = [records EXCEPT ![RunOf(w)][step[w]] =
                   [status |-> IF outcome = "pending" THEN "retrying" ELSE outcome,
                    attempts |-> n]]
SaveRecord(w, outcome, n) ==
    records' = [records EXCEPT ![RunOf(w)][step[w]] = [status |-> outcome, attempts |-> n]]

BodySucceeds(w) ==
    /\ pc[w] = "body"
    /\ SaveRecord(w, "succeeded", tries[w])
    /\ step' = [step EXCEPT ![w] = @ + 1]
    /\ Goto(w, "step")
    /\ UNCHANGED <<status, starter, queueVars, loopVars, entry, resume, attempt, tries, faultVars>>

BodyTransient(w) ==
    /\ pc[w] = "body"
    /\ transients < MaxTransient
    /\ RetryAllowed(w)
    /\ transients' = transients + 1
    /\ SaveRecord(w, "pending", attempt[w])
    /\ Goto(w, "defer")
    /\ UNCHANGED <<status, starter, queueVars, loopVars, entry, resume, driveVars, crashes, historyVars>>

\* A permanent error, a transient one at the last attempt, or any other
\* exception of the body or of saving its record.
BodyFails(w) ==
    /\ pc[w] = "body"
    /\ SaveRecord(w, "failed", attempt[w])
    /\ Goto(w, "failrun")
    /\ UNCHANGED <<status, starter, queueVars, loopVars, entry, resume, driveVars, faultVars>>

DeferUnscheduled(w) ==
    /\ pc[w] = "defer"
    /\ Goto(w, "ack")
    /\ UNCHANGED <<dbVars, starter, queueVars, loopVars, entry, resume, driveVars, faultVars>>

\* ZADD: one member per run, a second ZADD replaces its score.
Defer(w) ==
    /\ pc[w] = "defer"
    /\ delayed' = delayed \cup {RunOf(w)}
    /\ due' = due \ {RunOf(w)}
    /\ retried' = retried \cup {RunOf(w)}
    /\ Goto(w, "ack")
    /\ UNCHANGED <<dbVars, starter, stream, delivered, pel, idle, dlq, loopVars, entry, resume,
                   driveVars, transients, crashes, dropped, outlived>>

FailRun(w) ==
    /\ pc[w] = "failrun"
    /\ status' = [status EXCEPT ![RunOf(w)] = "failed"]
    /\ Goto(w, "dlq")
    /\ UNCHANGED <<records, starter, queueVars, loopVars, entry, resume, driveVars, faultVars>>

DeadLetterNothing(w) ==
    /\ pc[w] = "dlq"
    /\ Goto(w, "ack")
    /\ UNCHANGED <<dbVars, starter, queueVars, loopVars, entry, resume, driveVars, faultVars>>

DeadLetter(w) ==
    /\ pc[w] = "dlq"
    /\ dlq' = [dlq EXCEPT ![RunOf(w)] = @ + 1]
    /\ Goto(w, "ack")
    /\ UNCHANGED <<dbVars, starter, stream, delivered, pel, idle, delayed, due,
                   loopVars, entry, resume, driveVars, faultVars>>

SucceedRun(w) ==
    /\ pc[w] = "step"
    /\ step[w] > NumSteps
    /\ status' = [status EXCEPT ![RunOf(w)] = "succeeded"]
    /\ Goto(w, "ack")
    /\ UNCHANGED <<records, starter, queueVars, loopVars, entry, resume, driveVars, faultVars>>

Ack(w) ==
    /\ pc[w] = "ack"
    /\ pel' = pel \ {entry[w]}
    /\ idle' = idle \ {entry[w]}
    /\ entry' = [entry EXCEPT ![w] = 0]
    /\ resume' = [resume EXCEPT ![w] = "idle"]
    /\ Goto(w, resume[w])
    /\ ForgetDrive(w)
    /\ UNCHANGED <<dbVars, starter, stream, delivered, delayed, due, dlq, loopVars, faultVars>>

-------------------------------------------------------------------------------
(***************************************************************************)
(* Time, death and restart.                                                *)
(***************************************************************************)

Held(w) == batch[w] \cup {entry[w]}

\* The visibility timeout of a pending entry runs out.
LeaseExpires(e) ==
    /\ e \in pel \ idle
    /\ LeaseOutlived \/ \A w \in Workers : e \notin Held(w)
    /\ idle' = idle \cup {e}
    /\ outlived' = outlived \cup {f \in {e} : \E w \in Workers : f \in Held(w)}
    /\ UNCHANGED <<dbVars, starter, stream, delivered, pel, delayed, due, dlq, workerVars,
                   transients, crashes, dropped, retried>>

RetryComesDue(r) ==
    /\ r \in delayed \ due
    /\ due' = due \cup {r}
    /\ UNCHANGED <<dbVars, starter, stream, delivered, pel, idle, delayed, dlq, workerVars, faultVars>>

\* A kill, or an exception outside a step's body: either ends the process.
Crash(w) ==
    /\ pc[w] # "down"
    /\ crashes < MaxCrashes
    /\ crashes' = crashes + 1
    /\ dropped' = dropped \cup hand[w]
    /\ Goto(w, "down")
    /\ batch' = [batch EXCEPT ![w] = {}]
    /\ promoting' = [promoting EXCEPT ![w] = {}]
    /\ hand' = [hand EXCEPT ![w] = {}]
    /\ entry' = [entry EXCEPT ![w] = 0]
    /\ resume' = [resume EXCEPT ![w] = "idle"]
    /\ ForgetDrive(w)
    /\ UNCHANGED <<dbVars, starter, queueVars, transients, retried, outlived>>

Restart(w) ==
    /\ pc[w] = "down"
    /\ Goto(w, "idle")
    /\ UNCHANGED <<dbVars, starter, queueVars, loopVars, entry, resume, driveVars, faultVars>>

-------------------------------------------------------------------------------

Start(r) == AddRun(r) \/ StartReads(r) \/ Enqueue(r)

\* One turn of the drain loop; each disjunct is one await of it.
ConsumeOnce(w) ==
    \/ Claim(w) \/ TakeClaimed(w) \/ ScanDelayed(w)
    \/ PromoteRemove(w) \/ PromoteAdd(w) \/ Read(w)
    \/ Load(w) \/ CheckStep(w) \/ Execute(w)
    \/ BodySucceeds(w) \/ BodyTransient(w) \/ BodyFails(w)
    \/ Defer(w) \/ FailRun(w) \/ DeadLetter(w) \/ SucceedRun(w) \/ Ack(w)

Next ==
    \/ \E r \in Runs : Start(r) \/ LoseStart(r) \/ Cancel(r) \/ RetryComesDue(r)
    \/ \E w \in Workers : ConsumeOnce(w) \/ Crash(w) \/ Restart(w)
    \/ \E e \in pel : LeaseExpires(e)

Spec == Init /\ [][Next]_vars

\* The API's event loop runs the tasks it spawned, a live worker keeps
\* looping, and time passes.  Nobody has to crash, to restart what crashed, to
\* cancel, or to submit a run in the first place.
Fairness ==
    /\ \A r \in Runs : WF_vars(StartReads(r) \/ Enqueue(r)) /\ WF_vars(RetryComesDue(r))
    /\ \A w \in Workers : WF_vars(ConsumeOnce(w))
    /\ WF_vars(\E e \in pel : LeaseExpires(e))

FairSpec == Spec /\ Fairness

-------------------------------------------------------------------------------
(***************************************************************************)
(* Properties.                                                             *)
(***************************************************************************)

Labels == {"idle", "reclaim", "promote", "load", "step", "execute", "body",
           "defer", "failrun", "dlq", "ack", "down"}
Processing == {"load", "step", "execute", "body", "defer", "failrun", "dlq", "ack"}
Driving == {"step", "execute", "body", "failrun"}

DbTypes ==
    /\ status \in [Runs -> {"none", "running", "succeeded", "failed"}]
    /\ records \in [Runs -> [Steps -> [status : {"absent", "pending", "succeeded", "failed"},
                                       attempts : Nat]]]
    /\ starter \in [Runs -> {"idle", "spawned", "enqueue", "done", "lost"}]
QueueTypes ==
    /\ stream \in Seq(Runs)
    /\ delivered \in 0..Len(stream)
    /\ pel \subseteq 1..delivered
    /\ idle \subseteq pel
    /\ delayed \subseteq Runs
    /\ due \subseteq delayed
    /\ dlq \in [Runs -> Nat]
WorkerTypes ==
    /\ pc \in [Workers -> Labels]
    /\ batch \in [Workers -> SUBSET (1..delivered)]
    /\ promoting \in [Workers -> SUBSET Runs]
    /\ hand \in [Workers -> SUBSET Runs]
    /\ entry \in [Workers -> 0..delivered]
    /\ resume \in [Workers -> {"idle", "reclaim"}]
    /\ \A w \in Workers : pc[w] \in Processing => entry[w] # 0
DriveTypes ==
    /\ step \in [Workers -> 1..(NumSteps + 1)]
    /\ attempt \in [Workers -> Nat]
    /\ tries \in [Workers -> Nat]
    /\ \A w \in Workers : pc[w] \in {"execute", "body", "defer", "failrun"} => step[w] \in Steps
FaultTypes ==
    /\ transients \in Nat
    /\ crashes \in Nat
    /\ dropped \subseteq Runs
    /\ retried \subseteq Runs
    /\ outlived \subseteq Nat

\* The types of the variables; the ids a worker or the group holds are ids of
\* entries already delivered, and only a pending entry can be idle.
TypeOK == DbTypes /\ QueueTypes /\ WorkerTypes /\ DriveTypes /\ FaultTypes

\* Something will still bring the run to a worker: its starter, an entry not
\* yet delivered or still pending, the ZSET, or a worker promoting it.  An entry
\* that a worker is about to acknowledge no longer counts.
BeingAcked(e) == \E w \in Workers : pc[w] = "ack" /\ entry[w] = e
Carried(r) ==
    \/ starter[r] \in {"spawned", "enqueue"}
    \/ \E e \in Entries : stream[e] = r /\ (e > delivered \/ (e \in pel /\ ~BeingAcked(e)))
    \/ r \in delayed
    \/ \E w \in Workers : r \in hand[w]

\* No run is stranded: at every moment, whatever workers crash, whatever leases
\* are outlived and however often an entry is delivered, a running run is still
\* carried by something, except in the two windows where the code really loses
\* it: engine.start dying before its XADD, and a worker dying between the ZREM
\* and the XADD of _promote_due_delayed.
NoRunStranded ==
    \A r \in Runs : status[r] = "running" => \/ Carried(r)
                                             \/ starter[r] = "lost"
                                             \/ r \in dropped

\* What ARCHITECTURE says without the exceptions: a killed worker's run is
\* picked up by another consumer rather than stuck running forever.
KilledWorkersRunIsPickedUp ==
    \A r \in Runs : (status[r] = "running" /\ starter[r] # "lost") => Carried(r)

\* No two workers drive the same run at once: each would pay for the step bodies
\* the other is paying for, and overwrite its record and its verdict.
ExclusiveDrive ==
    \A v, w \in Workers :
        (v # w /\ pc[v] \in Driving /\ pc[w] \in Driving) => RunOf(v) # RunOf(w)

\* Two drives of one run meet in two ways only, whoever dies, cancels or is slow: the
\* run went through the ZSET, from which it may be promoted more than once, or the
\* workers share one entry, whose lease ran out while one of them was at work.
TwoDrivesHaveACause ==
    \A v, w \in Workers :
        (v # w /\ pc[v] \in Driving /\ pc[w] \in Driving /\ RunOf(v) = RunOf(w)) =>
            IF entry[v] = entry[w] THEN entry[v] \in outlived ELSE RunOf(v) \in retried

\* A step's attempts number is within its ceiling, one more for each crash: a
\* crash between the failed record and the failed run makes the engine try again.
AttemptsBounded ==
    \A r \in Runs, s \in Steps : records[r][s].attempts <= MaxAttempts[s] + crashes

\* Nothing will touch the run again.
Settled(r) ==
    /\ status[r] \in Terminal
    /\ starter[r] \in {"done", "lost"}
    /\ r \notin delayed
    /\ \A e \in Entries : stream[e] = r => e <= delivered /\ e \notin pel
    /\ \A w \in Workers : r \notin hand[w] /\ (pc[w] \in Processing => RunOf(w) # r)

\* Only a failed run lands in the dead-letter stream, and once, however often it is
\* delivered; and no more failed runs are missing there than processes have died: a
\* crash after the failed status loses the entry of the run it interrupts, no other.
WithoutLetter == {r \in Runs : Settled(r) /\ status[r] = "failed" /\ dlq[r] = 0}
DeadLetteredOnce ==
    /\ \A r \in Runs : dlq[r] = 0 \/ (dlq[r] = 1 /\ status[r] = "failed")
    /\ Cardinality(WithoutLetter) <= crashes

\* A run that began ends, or is one of those the two windows lose, as long as
\* some worker survives.
EveryRunEnds ==
    \A r \in Runs : status[r] = "running" ~> \/ status[r] \in Terminal
                                             \/ starter[r] = "lost"
                                             \/ r \in dropped

\* The engine implements the promise of the port.
Checkpointed(r) ==
    Cardinality({s \in Steps : \A t \in 1..s : records[r][t].status = "succeeded"})
Port == INSTANCE DurableRun WITH done <- [r \in Runs |-> Checkpointed(r)]
KeepsPromise == Port!Spec

===============================================================================
