-------------------------- MODULE RedisStreamsProofs --------------------------
(***************************************************************************)
(* Proofs about RedisStreams, for any runs, workers, number of steps,      *)
(* attempt ceilings and any number of crashes: what holds whatever leases  *)
(* are outlived, then what one driver at a time gives, and where there is  *)
(* only one.                                                               *)
(***************************************************************************)
EXTENDS RedisStreams, FiniteSetTheorems, TLAPS

USE DEF dbVars, queueVars, workerVars, loopVars, driveVars, historyVars, faultVars

Located == {"execute", "body", "defer", "failrun"}   \* the labels at a step

\* The entry a worker processes is one of the stream's, and names a run.
LEMMA EntryNamesRun ==
    ASSUME QueueTypes, WorkerTypes, NEW w \in Workers, pc[w] \in Processing
    PROVE  entry[w] \in Entries /\ RunOf(w) \in Runs
BY DEF QueueTypes, WorkerTypes, Entries, RunOf

\* An XADD adds one entry at the end and keeps the others.
LEMMA AppendKeepsEntries ==
    ASSUME NEW q \in Seq(Runs), NEW r \in Runs
    PROVE  /\ Append(q, r) \in Seq(Runs)
           /\ Len(Append(q, r)) = Len(q) + 1
           /\ Len(q) \in Nat
           /\ Append(q, r)[Len(q) + 1] = r
           /\ \A i \in 1..Len(q) : Append(q, r)[i] = q[i]
OBVIOUS

\* Saving a record of the right shape keeps the types of the database.
LEMMA SaveKeepsTypes ==
    ASSUME DbTypes, NEW w \in Workers, RunOf(w) \in Runs, step[w] \in Steps,
           NEW outcome \in {"pending", "succeeded", "failed"}, NEW n \in Nat,
           SaveRecord(w, outcome, n), UNCHANGED <<status, starter>>
    PROVE  DbTypes'
BY DEF DbTypes, SaveRecord

\* A worker that moves on without touching the drain loop's variables.
LEMMA GotoKeepsWorker ==
    ASSUME WorkerTypes, NEW w \in Workers, NEW l \in Labels, Goto(w, l),
           l \in Processing => entry[w] # 0,
           UNCHANGED <<delivered, batch, promoting, hand, entry, resume>>
    PROVE  WorkerTypes'
BY DEF WorkerTypes, Goto

\* A worker that moves on without touching _drive's variables.
LEMMA GotoKeepsDrive ==
    ASSUME DriveTypes, NEW w \in Workers, NEW l, Goto(w, l), pc \in [Workers -> Labels],
           l \in Located => step[w] \in Steps,
           UNCHANGED <<step, attempt, tries>>
    PROVE  DriveTypes'
BY DEF DriveTypes, Goto, Located

LEMMA InitTypes == Init => TypeOK
BY EngineAssumption DEF Init, TypeOK, DbTypes, QueueTypes, WorkerTypes, DriveTypes,
   FaultTypes, Steps, NoRecord, Labels, Processing

\* The attempts of the record a worker looks at is a number.
LEMMA RecordTypes ==
    ASSUME DbTypes, QueueTypes, WorkerTypes, NEW w \in Workers,
           pc[w] \in Processing, step[w] \in Steps
    PROVE  RecordOf(w).attempts \in Nat
BY EntryNamesRun DEF DbTypes, RecordOf

LEMMA AddRunTypes ==
    ASSUME TypeOK, NEW r \in Runs, AddRun(r) PROVE TypeOK'
<1>1. DbTypes /\ QueueTypes /\ WorkerTypes /\ DriveTypes /\ FaultTypes
  BY DEF TypeOK
<1>2. UNCHANGED <<stream, delivered, pel, idle, delayed, due, dlq, pc, batch, promoting, hand,
            entry, resume, step, attempt, tries, transients, crashes, dropped, retried, outlived>>
  BY DEF AddRun
<1>3. QueueTypes' /\ WorkerTypes' /\ DriveTypes' /\ FaultTypes'
  BY <1>1, <1>2 DEF QueueTypes, WorkerTypes, DriveTypes, FaultTypes
<1>4. /\ status' = [status EXCEPT ![r] = "running"]
      /\ starter' = [starter EXCEPT ![r] = "spawned"]
      /\ UNCHANGED records
  BY DEF AddRun
<1>5. DbTypes'
  BY <1>1, <1>4 DEF DbTypes
<1> QED
  BY <1>3, <1>5 DEF TypeOK

LEMMA StartReadsTypes ==
    ASSUME TypeOK, NEW r \in Runs, StartReads(r) PROVE TypeOK'
<1>1. DbTypes /\ QueueTypes /\ WorkerTypes /\ DriveTypes /\ FaultTypes
  BY DEF TypeOK
<1>2. UNCHANGED <<stream, delivered, pel, idle, delayed, due, dlq, pc, batch, promoting, hand,
            entry, resume, step, attempt, tries, transients, crashes, dropped, retried, outlived>>
  BY DEF StartReads
<1>3. QueueTypes' /\ WorkerTypes' /\ DriveTypes' /\ FaultTypes'
  BY <1>1, <1>2 DEF QueueTypes, WorkerTypes, DriveTypes, FaultTypes
<1>4. /\ starter' = [starter EXCEPT ![r] = "done"] \/ starter' = [starter EXCEPT ![r] = "enqueue"]
      /\ UNCHANGED <<status, records>>
  BY DEF StartReads
<1>5. DbTypes'
  BY <1>1, <1>4 DEF DbTypes
<1> QED
  BY <1>3, <1>5 DEF TypeOK

LEMMA EnqueueTypes ==
    ASSUME TypeOK, NEW r \in Runs, Enqueue(r) PROVE TypeOK'
<1>1. DbTypes /\ QueueTypes /\ WorkerTypes /\ DriveTypes /\ FaultTypes
  BY DEF TypeOK
<1>2. UNCHANGED <<pc, batch, promoting, hand, entry, resume, delivered, step, attempt, tries,
            transients, crashes, dropped, retried, outlived>>
  BY DEF Enqueue
<1>3. WorkerTypes' /\ DriveTypes' /\ FaultTypes'
  BY <1>1, <1>2 DEF WorkerTypes, DriveTypes, FaultTypes
<1>4. /\ starter' = [starter EXCEPT ![r] = "done"]
      /\ UNCHANGED <<status, records>>
  BY DEF Enqueue
<1>5. DbTypes'
  BY <1>1, <1>4 DEF DbTypes
<1>6. /\ stream' = Append(stream, r)
      /\ UNCHANGED <<delivered, pel, idle, delayed, due, dlq>>
  BY DEF Enqueue
<1>7. QueueTypes'
  BY <1>1, <1>6, AppendKeepsEntries DEF QueueTypes
<1> QED
  BY <1>3, <1>5, <1>7 DEF TypeOK

LEMMA LoseStartTypes ==
    ASSUME TypeOK, NEW r \in Runs, LoseStart(r) PROVE TypeOK'
<1>1. DbTypes /\ QueueTypes /\ WorkerTypes /\ DriveTypes /\ FaultTypes
  BY DEF TypeOK
<1>2. UNCHANGED <<stream, delivered, pel, idle, delayed, due, dlq, pc, batch, promoting, hand,
            entry, resume, step, attempt, tries>>
  BY DEF LoseStart
<1>3. QueueTypes' /\ WorkerTypes' /\ DriveTypes'
  BY <1>1, <1>2 DEF QueueTypes, WorkerTypes, DriveTypes
<1>4. /\ starter' = [starter EXCEPT ![r] = "lost"]
      /\ UNCHANGED <<status, records>>
  BY DEF LoseStart
<1>5. DbTypes'
  BY <1>1, <1>4 DEF DbTypes
<1>6. /\ crashes' = crashes + 1
      /\ UNCHANGED <<transients, dropped, retried, outlived>>
  BY DEF LoseStart
<1>7. FaultTypes'
  BY <1>1, <1>6 DEF FaultTypes
<1> QED
  BY <1>3, <1>5, <1>7 DEF TypeOK

LEMMA CancelTypes ==
    ASSUME TypeOK, NEW r \in Runs, Cancel(r) PROVE TypeOK'
<1>1. DbTypes /\ QueueTypes /\ WorkerTypes /\ DriveTypes /\ FaultTypes
  BY DEF TypeOK
<1>2. UNCHANGED <<stream, delivered, pel, idle, delayed, due, dlq, pc, batch, promoting, hand,
            entry, resume, step, attempt, tries, transients, crashes, dropped, retried, outlived>>
  BY DEF Cancel
<1>3. QueueTypes' /\ WorkerTypes' /\ DriveTypes' /\ FaultTypes'
  BY <1>1, <1>2 DEF QueueTypes, WorkerTypes, DriveTypes, FaultTypes
<1>4. /\ status' = [status EXCEPT ![r] = "failed"]
      /\ UNCHANGED <<records, starter>>
  BY DEF Cancel
<1>5. DbTypes'
  BY <1>1, <1>4 DEF DbTypes
<1> QED
  BY <1>3, <1>5 DEF TypeOK

LEMMA RetryComesDueTypes ==
    ASSUME TypeOK, NEW r \in Runs, RetryComesDue(r) PROVE TypeOK'
<1>1. DbTypes /\ QueueTypes /\ WorkerTypes /\ DriveTypes /\ FaultTypes
  BY DEF TypeOK
<1>2. UNCHANGED <<status, records, starter, pc, batch, promoting, hand, entry, resume, delivered,
            step, attempt, tries, transients, crashes, dropped, retried, outlived>>
  BY DEF RetryComesDue
<1>3. DbTypes' /\ WorkerTypes' /\ DriveTypes' /\ FaultTypes'
  BY <1>1, <1>2 DEF DbTypes, WorkerTypes, DriveTypes, FaultTypes
<1>4. /\ r \in delayed /\ due' = due \cup {r}
      /\ UNCHANGED <<stream, delivered, pel, idle, delayed, dlq>>
  BY DEF RetryComesDue
<1>5. QueueTypes'
  BY <1>1, <1>4 DEF QueueTypes
<1> QED
  BY <1>3, <1>5 DEF TypeOK

LEMMA LeaseExpiresTypes ==
    ASSUME TypeOK, NEW e \in pel, LeaseExpires(e) PROVE TypeOK'
<1>1. DbTypes /\ QueueTypes /\ WorkerTypes /\ DriveTypes /\ FaultTypes
  BY DEF TypeOK
<1>2. UNCHANGED <<status, records, starter, pc, batch, promoting, hand, entry, resume, delivered,
            step, attempt, tries, transients, crashes, dropped, retried>>
  BY DEF LeaseExpires
<1>3. DbTypes' /\ WorkerTypes' /\ DriveTypes'
  BY <1>1, <1>2 DEF DbTypes, WorkerTypes, DriveTypes
<1>4. /\ idle' = idle \cup {e}
      /\ UNCHANGED <<stream, delivered, pel, delayed, due, dlq>>
  BY DEF LeaseExpires
<1>5. QueueTypes'
  BY <1>1, <1>4 DEF QueueTypes
<1>6. pel \subseteq Nat /\ outlived' \subseteq outlived \cup {e}
  BY <1>1 DEF LeaseExpires, QueueTypes
<1>7. FaultTypes'
  BY <1>1, <1>2, <1>6 DEF FaultTypes
<1> QED
  BY <1>3, <1>5, <1>7 DEF TypeOK

LEMMA ClaimTypes ==
    ASSUME TypeOK, NEW w \in Workers, Claim(w) PROVE TypeOK'
<1>1. DbTypes /\ QueueTypes /\ WorkerTypes /\ DriveTypes /\ FaultTypes
  BY DEF TypeOK
<1>2. UNCHANGED <<status, records, starter, transients, crashes, dropped, retried, outlived>>
  BY DEF Claim
<1>3. DbTypes' /\ FaultTypes'
  BY <1>1, <1>2 DEF DbTypes, FaultTypes
<1>4. /\ \E S \in SUBSET idle : idle' = idle \ S
      /\ UNCHANGED <<stream, delivered, pel, delayed, due, dlq>>
  BY DEF Claim, Goto
<1>5. QueueTypes'
  BY <1>1, <1>4 DEF QueueTypes
<1>6. /\ \E S \in SUBSET idle : batch' = [batch EXCEPT ![w] = S]
      /\ pc' = [pc EXCEPT ![w] = "reclaim"]
      /\ UNCHANGED <<delivered, promoting, hand, entry, resume>>
  BY DEF Claim, Goto
<1>7. WorkerTypes'
  BY <1>1, <1>6 DEF WorkerTypes, QueueTypes, Labels, Processing
<1>8. /\ Goto(w, "reclaim")
      /\ UNCHANGED <<step, attempt, tries>>
  BY DEF Claim, Goto
<1>9. DriveTypes'
  BY <1>1, <1>8, GotoKeepsDrive DEF Located, WorkerTypes
<1> QED
  BY <1>3, <1>5, <1>7, <1>9 DEF TypeOK

LEMMA TakeClaimedTypes ==
    ASSUME TypeOK, NEW w \in Workers, TakeClaimed(w) PROVE TypeOK'
<1>1. DbTypes /\ QueueTypes /\ WorkerTypes /\ DriveTypes /\ FaultTypes
  BY DEF TypeOK
<1>2. UNCHANGED <<status, records, starter, stream, delivered, pel, idle, delayed, due, dlq,
            transients, crashes, dropped, retried, outlived>>
  BY DEF TakeClaimed
<1>3. DbTypes' /\ QueueTypes' /\ FaultTypes'
  BY <1>1, <1>2 DEF DbTypes, QueueTypes, FaultTypes
<1>4. /\ \E e \in batch[w] : entry' = [entry EXCEPT ![w] = e] /\ batch' = [batch EXCEPT ![w] = @
            \ {e}]
      /\ resume' = [resume EXCEPT ![w] = "reclaim"]
      /\ pc' = [pc EXCEPT ![w] = "load"]
      /\ UNCHANGED <<delivered, promoting, hand>>
  BY DEF TakeClaimed, Goto
<1>5. WorkerTypes'
  BY <1>1, <1>4 DEF WorkerTypes, QueueTypes, Labels, Processing
<1>6. /\ Goto(w, "load")
      /\ UNCHANGED <<step, attempt, tries>>
  BY DEF TakeClaimed, Goto
<1>7. DriveTypes'
  BY <1>1, <1>6, GotoKeepsDrive DEF Located, WorkerTypes
<1> QED
  BY <1>3, <1>5, <1>7 DEF TypeOK

LEMMA ScanDelayedTypes ==
    ASSUME TypeOK, NEW w \in Workers, ScanDelayed(w) PROVE TypeOK'
<1>1. DbTypes /\ QueueTypes /\ WorkerTypes /\ DriveTypes /\ FaultTypes
  BY DEF TypeOK
<1>2. UNCHANGED <<status, records, starter, stream, delivered, pel, idle, delayed, due, dlq,
            transients, crashes, dropped, retried, outlived>>
  BY DEF ScanDelayed
<1>3. DbTypes' /\ QueueTypes' /\ FaultTypes'
  BY <1>1, <1>2 DEF DbTypes, QueueTypes, FaultTypes
<1>4. /\ promoting' = [promoting EXCEPT ![w] = due]
      /\ pc' = [pc EXCEPT ![w] = "promote"]
      /\ UNCHANGED <<delivered, batch, hand, entry, resume>>
  BY DEF ScanDelayed, Goto
<1>5. WorkerTypes'
  BY <1>1, <1>4 DEF WorkerTypes, QueueTypes, Labels, Processing
<1>6. /\ Goto(w, "promote")
      /\ UNCHANGED <<step, attempt, tries>>
  BY DEF ScanDelayed, Goto
<1>7. DriveTypes'
  BY <1>1, <1>6, GotoKeepsDrive DEF Located, WorkerTypes
<1> QED
  BY <1>3, <1>5, <1>7 DEF TypeOK

LEMMA PromoteRemoveTypes ==
    ASSUME TypeOK, NEW w \in Workers, PromoteRemove(w) PROVE TypeOK'
<1>1. DbTypes /\ QueueTypes /\ WorkerTypes /\ DriveTypes /\ FaultTypes
  BY DEF TypeOK
<1>2. UNCHANGED <<status, records, starter, pc, step, attempt, tries, transients, crashes,
            dropped, retried, outlived>>
  BY DEF PromoteRemove
<1>3. DbTypes' /\ DriveTypes' /\ FaultTypes'
  BY <1>1, <1>2 DEF DbTypes, DriveTypes, FaultTypes
<1>4. /\ \E r \in promoting[w] : delayed' = delayed \ {r} /\ due' = due \ {r}
      /\ UNCHANGED <<stream, delivered, pel, idle, dlq>>
  BY DEF PromoteRemove
<1>5. QueueTypes'
  BY <1>1, <1>4 DEF QueueTypes
<1>6. /\ \E r \in promoting[w] : promoting' = [promoting EXCEPT ![w] = @ \ {r}] /\ hand' = [hand
            EXCEPT ![w] = {r}]
      /\ UNCHANGED <<delivered, pc, batch, entry, resume>>
  BY DEF PromoteRemove
<1>7. WorkerTypes'
  BY <1>1, <1>6 DEF WorkerTypes
<1> QED
  BY <1>3, <1>5, <1>7 DEF TypeOK

LEMMA PromoteAddTypes ==
    ASSUME TypeOK, NEW w \in Workers, PromoteAdd(w) PROVE TypeOK'
<1>1. DbTypes /\ QueueTypes /\ WorkerTypes /\ DriveTypes /\ FaultTypes
  BY DEF TypeOK
<1>2. UNCHANGED <<status, records, starter, pc, step, attempt, tries, transients, crashes,
            dropped, retried, outlived>>
  BY DEF PromoteAdd
<1>3. DbTypes' /\ DriveTypes' /\ FaultTypes'
  BY <1>1, <1>2 DEF DbTypes, DriveTypes, FaultTypes
<1>4. /\ \E r \in hand[w] : stream' = Append(stream, r)
      /\ UNCHANGED <<delivered, pel, idle, delayed, due, dlq>>
  BY DEF PromoteAdd
<1>5. QueueTypes'
  BY <1>1, <1>4, AppendKeepsEntries DEF QueueTypes, WorkerTypes
<1>6. /\ hand' = [hand EXCEPT ![w] = {}]
      /\ UNCHANGED <<delivered, pc, batch, promoting, entry, resume>>
  BY DEF PromoteAdd
<1>7. WorkerTypes'
  BY <1>1, <1>6 DEF WorkerTypes
<1> QED
  BY <1>3, <1>5, <1>7 DEF TypeOK

LEMMA ReadTypes ==
    ASSUME TypeOK, NEW w \in Workers, Read(w) PROVE TypeOK'
<1>1. DbTypes /\ QueueTypes /\ WorkerTypes /\ DriveTypes /\ FaultTypes
  BY DEF TypeOK
<1>2. UNCHANGED <<status, records, starter, transients, crashes, dropped, retried, outlived>>
  BY DEF Read
<1>3. DbTypes' /\ FaultTypes'
  BY <1>1, <1>2 DEF DbTypes, FaultTypes
<1>4. UNCHANGED <<stream, idle, delayed, due, dlq, batch, promoting, hand>>
  BY DEF Read
<1>5. QueueTypes'
  <2>1. CASE delivered < Len(stream)
    <3>1. delivered' = delivered + 1 /\ pel' = pel \cup {delivered + 1}
      BY <2>1 DEF Read
    <3>2. delivered' \in 0..Len(stream) /\ pel' \subseteq 1..delivered'
      BY <1>1, <2>1, <3>1 DEF QueueTypes
    <3> QED
      BY <1>1, <1>4, <3>1, <3>2 DEF QueueTypes
  <2>2. CASE delivered = Len(stream)
    <3>1. UNCHANGED <<delivered, pel>>
      BY <2>2 DEF Read
    <3> QED
      BY <1>1, <1>4, <3>1 DEF QueueTypes
  <2> QED
    BY <1>1, <2>1, <2>2 DEF QueueTypes
<1>6. WorkerTypes'
  <2>1. CASE delivered < Len(stream)
    <3>1. /\ delivered' = delivered + 1
          /\ entry' = [entry EXCEPT ![w] = delivered + 1]
          /\ resume' = [resume EXCEPT ![w] = "idle"]
          /\ pc' = [pc EXCEPT ![w] = "load"]
      BY <2>1 DEF Read, Goto
    <3>2. /\ entry' \in [Workers -> 0..delivered']
          /\ batch' \in [Workers -> SUBSET (1..delivered')]
      BY <1>1, <1>4, <3>1 DEF WorkerTypes, QueueTypes
    <3>3. \A v \in Workers : pc'[v] \in Processing => entry'[v] # 0
      BY <1>1, <3>1 DEF WorkerTypes, QueueTypes, Processing
    <3> QED
      BY <1>1, <1>4, <3>1, <3>2, <3>3 DEF WorkerTypes, Labels
  <2>2. CASE delivered = Len(stream)
    <3>1. Goto(w, "idle") /\ UNCHANGED <<delivered, entry, resume>>
      BY <2>2 DEF Read
    <3> QED
      BY <1>1, <1>4, <3>1, GotoKeepsWorker DEF Labels, Processing
  <2> QED
    BY <1>1, <2>1, <2>2 DEF QueueTypes
<1>7. /\ Goto(w, "load") \/ Goto(w, "idle")
      /\ UNCHANGED <<step, attempt, tries>>
  BY DEF Read
<1>8. DriveTypes'
  BY <1>1, <1>7, GotoKeepsDrive DEF Located, WorkerTypes
<1> QED
  BY <1>3, <1>5, <1>6, <1>8 DEF TypeOK

LEMMA LoadTypes ==
    ASSUME TypeOK, NEW w \in Workers, Load(w) PROVE TypeOK'
<1>1. DbTypes /\ QueueTypes /\ WorkerTypes /\ DriveTypes /\ FaultTypes
  BY DEF TypeOK
<1>2. UNCHANGED <<status, records, starter, stream, delivered, pel, idle, delayed, due, dlq,
            transients, crashes, dropped, retried, outlived>>
  BY DEF Load
<1>3. DbTypes' /\ QueueTypes' /\ FaultTypes'
  BY <1>1, <1>2 DEF DbTypes, QueueTypes, FaultTypes
<1>4. /\ Goto(w, "ack") \/ Goto(w, "step")
      /\ pc[w] = "load"
      /\ UNCHANGED <<delivered, batch, promoting, hand, entry, resume>>
  BY DEF Load
<1>5. WorkerTypes'
  BY <1>1, <1>4, GotoKeepsWorker DEF Labels, WorkerTypes, Processing
<1>6. /\ Goto(w, "ack") \/ Goto(w, "step")
      /\ UNCHANGED <<step, attempt, tries>>
  BY DEF Load
<1>7. DriveTypes'
  BY <1>1, <1>6, GotoKeepsDrive DEF Located, WorkerTypes
<1> QED
  BY <1>3, <1>5, <1>7 DEF TypeOK

LEMMA CheckStepTypes ==
    ASSUME TypeOK, NEW w \in Workers, CheckStep(w) PROVE TypeOK'
<1>1. DbTypes /\ QueueTypes /\ WorkerTypes /\ DriveTypes /\ FaultTypes
  BY DEF TypeOK
<1>2. UNCHANGED <<status, records, starter, stream, delivered, pel, idle, delayed, due, dlq,
            transients, crashes, dropped, retried, outlived>>
  BY DEF CheckStep
<1>3. DbTypes' /\ QueueTypes' /\ FaultTypes'
  BY <1>1, <1>2 DEF DbTypes, QueueTypes, FaultTypes
<1>4. /\ Goto(w, "execute") \/ UNCHANGED pc
      /\ pc[w] = "step"
      /\ UNCHANGED <<delivered, batch, promoting, hand, entry, resume>>
  BY DEF CheckStep
<1>5. WorkerTypes'
  BY <1>1, <1>4, GotoKeepsWorker DEF Labels, WorkerTypes, Processing
<1>6. DriveTypes'
  <2>1. pc[w] = "step" /\ step[w] \in Steps /\ UNCHANGED tries
    BY <1>1, EngineAssumption DEF CheckStep, DriveTypes, Steps
  <2>2. CASE Memoized(w)
    <3>1. step' = [step EXCEPT ![w] = @ + 1] /\ UNCHANGED attempt /\ UNCHANGED pc
      BY <2>2 DEF CheckStep
    <3>2. step' \in [Workers -> 1..(NumSteps + 1)]
      BY <1>1, <2>1, <3>1, EngineAssumption DEF DriveTypes, Steps
    <3>3. \A v \in Workers : pc'[v] \in Located => v # w /\ pc'[v] = pc[v] /\ step'[v] = step[v]
      BY <1>1, <2>1, <3>1 DEF Located, DriveTypes, WorkerTypes, Goto
    <3> QED
      BY <1>1, <2>1, <3>1, <3>2, <3>3 DEF DriveTypes, Located
  <2>3. CASE ~Memoized(w)
    <3>1. attempt' = [attempt EXCEPT ![w] = RecordOf(w).attempts + 1] /\ UNCHANGED step /\
                Goto(w, "execute")
      BY <2>3 DEF CheckStep
    <3>2. RecordOf(w).attempts \in Nat
      BY <1>1, <2>1, RecordTypes DEF Processing
    <3> QED
      BY <1>1, <2>1, <3>1, <3>2 DEF DriveTypes, WorkerTypes, Goto
  <2> QED
    BY <2>2, <2>3
<1> QED
  BY <1>3, <1>5, <1>6 DEF TypeOK

LEMMA ExecuteTypes ==
    ASSUME TypeOK, NEW w \in Workers, Execute(w) PROVE TypeOK'
<1>1. DbTypes /\ QueueTypes /\ WorkerTypes /\ DriveTypes /\ FaultTypes
  BY DEF TypeOK
<1>2. UNCHANGED <<status, records, starter, stream, delivered, pel, idle, delayed, due, dlq,
            transients, crashes, dropped, retried, outlived>>
  BY DEF Execute
<1>3. DbTypes' /\ QueueTypes' /\ FaultTypes'
  BY <1>1, <1>2 DEF DbTypes, QueueTypes, FaultTypes
<1>4. /\ Goto(w, "step") \/ Goto(w, "body")
      /\ pc[w] = "execute"
      /\ UNCHANGED <<delivered, batch, promoting, hand, entry, resume>>
  BY DEF Execute
<1>5. WorkerTypes'
  BY <1>1, <1>4, GotoKeepsWorker DEF Labels, WorkerTypes, Processing
<1>6. DriveTypes'
  <2>1. pc[w] = "execute" /\ step[w] \in Steps /\ UNCHANGED attempt
    BY <1>1, EngineAssumption DEF Execute, DriveTypes, Steps
  <2>2. CASE Memoized(w)
    <3>1. step' = [step EXCEPT ![w] = @ + 1] /\ UNCHANGED tries /\ Goto(w, "step")
      BY <2>2 DEF Execute
    <3>2. step' \in [Workers -> 1..(NumSteps + 1)]
      BY <1>1, <2>1, <3>1, EngineAssumption DEF DriveTypes, Steps
    <3>3. \A v \in Workers : pc'[v] \in Located => v # w /\ pc'[v] = pc[v] /\ step'[v] = step[v]
      BY <1>1, <2>1, <3>1 DEF Located, DriveTypes, WorkerTypes, Goto
    <3> QED
      BY <1>1, <2>1, <3>1, <3>2, <3>3 DEF DriveTypes, Located
  <2>3. CASE ~Memoized(w)
    <3>1. tries' = [tries EXCEPT ![w] = RecordOf(w).attempts + 1] /\ UNCHANGED step /\ Goto(w,
                "body")
      BY <2>3 DEF Execute
    <3>2. RecordOf(w).attempts \in Nat
      BY <1>1, <2>1, RecordTypes DEF Processing
    <3> QED
      BY <1>1, <2>1, <3>1, <3>2 DEF DriveTypes, WorkerTypes, Goto
  <2> QED
    BY <2>2, <2>3
<1> QED
  BY <1>3, <1>5, <1>6 DEF TypeOK

LEMMA BodySucceedsTypes ==
    ASSUME TypeOK, NEW w \in Workers, BodySucceeds(w) PROVE TypeOK'
<1>1. DbTypes /\ QueueTypes /\ WorkerTypes /\ DriveTypes /\ FaultTypes
  BY DEF TypeOK
<1>2. UNCHANGED <<stream, delivered, pel, idle, delayed, due, dlq, transients, crashes,
            dropped, retried, outlived>>
  BY DEF BodySucceeds
<1>3. QueueTypes' /\ FaultTypes'
  BY <1>1, <1>2 DEF QueueTypes, FaultTypes
<1>4. DbTypes'
  <2>1. pc[w] = "body" /\ SaveRecord(w, "succeeded", tries[w]) /\ UNCHANGED <<status, starter>>
    BY DEF BodySucceeds
  <2>2. step[w] \in Steps /\ tries[w] \in Nat
    BY <1>1, <2>1 DEF DriveTypes
  <2> QED
    BY <1>1, <2>1, <2>2, EntryNamesRun, SaveKeepsTypes DEF Processing
<1>5. /\ Goto(w, "step")
      /\ pc[w] = "body"
      /\ UNCHANGED <<delivered, batch, promoting, hand, entry, resume>>
  BY DEF BodySucceeds, Goto
<1>6. WorkerTypes'
  BY <1>1, <1>5, GotoKeepsWorker DEF Labels, WorkerTypes, Processing
<1>7. /\ pc[w] = "body"
      /\ step' = [step EXCEPT ![w] = @ + 1]
      /\ pc' = [pc EXCEPT ![w] = "step"]
      /\ UNCHANGED <<attempt, tries>>
  BY DEF BodySucceeds, Goto
<1>8. DriveTypes'
  BY <1>1, <1>7, EngineAssumption DEF DriveTypes, WorkerTypes, Steps
<1> QED
  BY <1>3, <1>4, <1>6, <1>8 DEF TypeOK

LEMMA BodyTransientTypes ==
    ASSUME TypeOK, NEW w \in Workers, BodyTransient(w) PROVE TypeOK'
<1>1. DbTypes /\ QueueTypes /\ WorkerTypes /\ DriveTypes /\ FaultTypes
  BY DEF TypeOK
<1>2. UNCHANGED <<stream, delivered, pel, idle, delayed, due, dlq>>
  BY DEF BodyTransient
<1>3. QueueTypes'
  BY <1>1, <1>2 DEF QueueTypes
<1>4. /\ transients' = transients + 1
      /\ UNCHANGED <<crashes, dropped, retried, outlived>>
  BY DEF BodyTransient
<1>5. FaultTypes'
  BY <1>1, <1>4 DEF FaultTypes
<1>6. DbTypes'
  <2>1. pc[w] = "body" /\ SaveRecord(w, "pending", attempt[w]) /\ UNCHANGED <<status, starter>>
    BY DEF BodyTransient
  <2>2. step[w] \in Steps /\ attempt[w] \in Nat
    BY <1>1, <2>1 DEF DriveTypes
  <2> QED
    BY <1>1, <2>1, <2>2, EntryNamesRun, SaveKeepsTypes DEF Processing
<1>7. /\ Goto(w, "defer")
      /\ pc[w] = "body"
      /\ UNCHANGED <<delivered, batch, promoting, hand, entry, resume>>
  BY DEF BodyTransient
<1>8. WorkerTypes'
  BY <1>1, <1>7, GotoKeepsWorker DEF Labels, WorkerTypes, Processing
<1>9. /\ Goto(w, "defer")
      /\ pc[w] = "body"
      /\ UNCHANGED <<step, attempt, tries>>
  BY DEF BodyTransient
<1>10. DriveTypes'
  BY <1>1, <1>9, GotoKeepsDrive DEF DriveTypes, Located, WorkerTypes
<1> QED
  BY <1>3, <1>5, <1>6, <1>8, <1>10 DEF TypeOK

LEMMA BodyFailsTypes ==
    ASSUME TypeOK, NEW w \in Workers, BodyFails(w) PROVE TypeOK'
<1>1. DbTypes /\ QueueTypes /\ WorkerTypes /\ DriveTypes /\ FaultTypes
  BY DEF TypeOK
<1>2. UNCHANGED <<stream, delivered, pel, idle, delayed, due, dlq, transients, crashes,
            dropped, retried, outlived>>
  BY DEF BodyFails
<1>3. QueueTypes' /\ FaultTypes'
  BY <1>1, <1>2 DEF QueueTypes, FaultTypes
<1>4. DbTypes'
  <2>1. pc[w] = "body" /\ SaveRecord(w, "failed", attempt[w]) /\ UNCHANGED <<status, starter>>
    BY DEF BodyFails
  <2>2. step[w] \in Steps /\ attempt[w] \in Nat
    BY <1>1, <2>1 DEF DriveTypes
  <2> QED
    BY <1>1, <2>1, <2>2, EntryNamesRun, SaveKeepsTypes DEF Processing
<1>5. /\ Goto(w, "failrun")
      /\ pc[w] = "body"
      /\ UNCHANGED <<delivered, batch, promoting, hand, entry, resume>>
  BY DEF BodyFails
<1>6. WorkerTypes'
  BY <1>1, <1>5, GotoKeepsWorker DEF Labels, WorkerTypes, Processing
<1>7. /\ Goto(w, "failrun")
      /\ pc[w] = "body"
      /\ UNCHANGED <<step, attempt, tries>>
  BY DEF BodyFails
<1>8. DriveTypes'
  BY <1>1, <1>7, GotoKeepsDrive DEF DriveTypes, Located, WorkerTypes
<1> QED
  BY <1>3, <1>4, <1>6, <1>8 DEF TypeOK

LEMMA DeferTypes ==
    ASSUME TypeOK, NEW w \in Workers, Defer(w) PROVE TypeOK'
<1>1. DbTypes /\ QueueTypes /\ WorkerTypes /\ DriveTypes /\ FaultTypes
  BY DEF TypeOK
<1>2. /\ pc[w] = "defer" /\ retried' = retried \cup {RunOf(w)}
      /\ UNCHANGED <<status, records, starter, transients, crashes, dropped, outlived>>
  BY DEF Defer
<1>3. DbTypes' /\ FaultTypes'
  BY <1>1, <1>2, EntryNamesRun DEF DbTypes, FaultTypes, Processing
<1>4. QueueTypes'
  <2>1. pc[w] = "defer" /\ delayed' = delayed \cup {RunOf(w)} /\ due' = due \ {RunOf(w)} /\
              UNCHANGED <<stream, delivered, pel, idle, dlq>>
    BY DEF Defer
  <2> QED
    BY <1>1, <2>1, EntryNamesRun DEF Processing, QueueTypes
<1>5. /\ Goto(w, "ack")
      /\ pc[w] = "defer"
      /\ UNCHANGED <<delivered, batch, promoting, hand, entry, resume>>
  BY DEF Defer
<1>6. WorkerTypes'
  BY <1>1, <1>5, GotoKeepsWorker DEF Labels, WorkerTypes, Processing
<1>7. /\ Goto(w, "ack")
      /\ pc[w] = "defer"
      /\ UNCHANGED <<step, attempt, tries>>
  BY DEF Defer
<1>8. DriveTypes'
  BY <1>1, <1>7, GotoKeepsDrive DEF DriveTypes, Located, WorkerTypes
<1> QED
  BY <1>3, <1>4, <1>6, <1>8 DEF TypeOK

LEMMA FailRunTypes ==
    ASSUME TypeOK, NEW w \in Workers, FailRun(w) PROVE TypeOK'
<1>1. DbTypes /\ QueueTypes /\ WorkerTypes /\ DriveTypes /\ FaultTypes
  BY DEF TypeOK
<1>2. UNCHANGED <<stream, delivered, pel, idle, delayed, due, dlq, transients, crashes,
            dropped, retried, outlived>>
  BY DEF FailRun
<1>3. QueueTypes' /\ FaultTypes'
  BY <1>1, <1>2 DEF QueueTypes, FaultTypes
<1>4. DbTypes'
  <2>1. pc[w] = "failrun" /\ status' = [status EXCEPT ![RunOf(w)] = "failed"] /\ UNCHANGED
              <<records, starter>>
    BY DEF FailRun
  <2> QED
    BY <1>1, <2>1, EntryNamesRun DEF Processing, DbTypes
<1>5. /\ Goto(w, "dlq")
      /\ pc[w] = "failrun"
      /\ UNCHANGED <<delivered, batch, promoting, hand, entry, resume>>
  BY DEF FailRun
<1>6. WorkerTypes'
  BY <1>1, <1>5, GotoKeepsWorker DEF Labels, WorkerTypes, Processing
<1>7. /\ Goto(w, "dlq")
      /\ pc[w] = "failrun"
      /\ UNCHANGED <<step, attempt, tries>>
  BY DEF FailRun
<1>8. DriveTypes'
  BY <1>1, <1>7, GotoKeepsDrive DEF DriveTypes, Located, WorkerTypes
<1> QED
  BY <1>3, <1>4, <1>6, <1>8 DEF TypeOK

LEMMA DeadLetterTypes ==
    ASSUME TypeOK, NEW w \in Workers, DeadLetter(w) PROVE TypeOK'
<1>1. DbTypes /\ QueueTypes /\ WorkerTypes /\ DriveTypes /\ FaultTypes
  BY DEF TypeOK
<1>2. UNCHANGED <<status, records, starter, transients, crashes, dropped, retried, outlived>>
  BY DEF DeadLetter
<1>3. DbTypes' /\ FaultTypes'
  BY <1>1, <1>2 DEF DbTypes, FaultTypes
<1>4. QueueTypes'
  <2>1. pc[w] = "dlq" /\ dlq' = [dlq EXCEPT ![RunOf(w)] = @ + 1] /\ UNCHANGED <<stream,
              delivered, pel, idle, delayed, due>>
    BY DEF DeadLetter
  <2> QED
    BY <1>1, <2>1, EntryNamesRun DEF Processing, QueueTypes
<1>5. /\ Goto(w, "ack")
      /\ pc[w] = "dlq"
      /\ UNCHANGED <<delivered, batch, promoting, hand, entry, resume>>
  BY DEF DeadLetter
<1>6. WorkerTypes'
  BY <1>1, <1>5, GotoKeepsWorker DEF Labels, WorkerTypes, Processing
<1>7. /\ Goto(w, "ack")
      /\ pc[w] = "dlq"
      /\ UNCHANGED <<step, attempt, tries>>
  BY DEF DeadLetter
<1>8. DriveTypes'
  BY <1>1, <1>7, GotoKeepsDrive DEF DriveTypes, Located, WorkerTypes
<1> QED
  BY <1>3, <1>4, <1>6, <1>8 DEF TypeOK

LEMMA SucceedRunTypes ==
    ASSUME TypeOK, NEW w \in Workers, SucceedRun(w) PROVE TypeOK'
<1>1. DbTypes /\ QueueTypes /\ WorkerTypes /\ DriveTypes /\ FaultTypes
  BY DEF TypeOK
<1>2. UNCHANGED <<stream, delivered, pel, idle, delayed, due, dlq, transients, crashes,
            dropped, retried, outlived>>
  BY DEF SucceedRun
<1>3. QueueTypes' /\ FaultTypes'
  BY <1>1, <1>2 DEF QueueTypes, FaultTypes
<1>4. DbTypes'
  <2>1. pc[w] = "step" /\ status' = [status EXCEPT ![RunOf(w)] = "succeeded"] /\ UNCHANGED
              <<records, starter>>
    BY DEF SucceedRun
  <2> QED
    BY <1>1, <2>1, EntryNamesRun DEF Processing, DbTypes
<1>5. /\ Goto(w, "ack")
      /\ pc[w] = "step"
      /\ UNCHANGED <<delivered, batch, promoting, hand, entry, resume>>
  BY DEF SucceedRun
<1>6. WorkerTypes'
  BY <1>1, <1>5, GotoKeepsWorker DEF Labels, WorkerTypes, Processing
<1>7. /\ Goto(w, "ack")
      /\ pc[w] = "step"
      /\ UNCHANGED <<step, attempt, tries>>
  BY DEF SucceedRun
<1>8. DriveTypes'
  BY <1>1, <1>7, GotoKeepsDrive DEF DriveTypes, Located, WorkerTypes
<1> QED
  BY <1>3, <1>4, <1>6, <1>8 DEF TypeOK

LEMMA AckTypes ==
    ASSUME TypeOK, NEW w \in Workers, Ack(w) PROVE TypeOK'
<1>1. DbTypes /\ QueueTypes /\ WorkerTypes /\ DriveTypes /\ FaultTypes
  BY DEF TypeOK
<1>2. UNCHANGED <<status, records, starter, transients, crashes, dropped, retried, outlived>>
  BY DEF Ack
<1>3. DbTypes' /\ FaultTypes'
  BY <1>1, <1>2 DEF DbTypes, FaultTypes
<1>4. /\ pel' = pel \ {entry[w]} /\ idle' = idle \ {entry[w]}
      /\ UNCHANGED <<stream, delivered, delayed, due, dlq>>
  BY DEF Ack
<1>5. QueueTypes'
  BY <1>1, <1>4 DEF QueueTypes
<1>6. WorkerTypes'
  <2>1. resume[w] \in {"idle", "reclaim"}
    BY <1>1 DEF WorkerTypes
  <2>2. /\ entry' = [entry EXCEPT ![w] = 0]
        /\ resume' = [resume EXCEPT ![w] = "idle"]
        /\ pc' = [pc EXCEPT ![w] = resume[w]]
        /\ UNCHANGED <<delivered, batch, promoting, hand>>
    BY DEF Ack, Goto
  <2>3. pc' \in [Workers -> Labels] /\ entry' \in [Workers -> 0..delivered]
    BY <1>1, <2>1, <2>2 DEF WorkerTypes, QueueTypes, Labels
  <2>4. \A v \in Workers : pc'[v] \in Processing => entry'[v] # 0
    BY <1>1, <2>1, <2>2 DEF WorkerTypes, Processing
  <2> QED
    BY <1>1, <2>2, <2>3, <2>4 DEF WorkerTypes
<1>7. DriveTypes'
  <2>1. resume[w] \in {"idle", "reclaim"} /\ pc \in [Workers -> Labels]
    BY <1>1 DEF WorkerTypes
  <2>2. pc' = [pc EXCEPT ![w] = resume[w]] /\ ForgetDrive(w)
    BY DEF Ack, Goto
  <2>3. \A v \in Workers : pc'[v] \in Located => v # w /\ pc'[v] = pc[v]
    BY <2>1, <2>2 DEF Located
  <2> QED
    BY <1>1, <2>2, <2>3, EngineAssumption DEF DriveTypes, ForgetDrive, Located
<1> QED
  BY <1>3, <1>5, <1>6, <1>7 DEF TypeOK

LEMMA CrashTypes ==
    ASSUME TypeOK, NEW w \in Workers, Crash(w) PROVE TypeOK'
<1>1. DbTypes /\ QueueTypes /\ WorkerTypes /\ DriveTypes /\ FaultTypes
  BY DEF TypeOK
<1>2. UNCHANGED <<status, records, starter, stream, delivered, pel, idle, delayed, due, dlq>>
  BY DEF Crash
<1>3. DbTypes' /\ QueueTypes'
  BY <1>1, <1>2 DEF DbTypes, QueueTypes
<1>4. /\ crashes' = crashes + 1 /\ dropped' = dropped \cup hand[w]
      /\ UNCHANGED <<transients, retried, outlived>>
  BY DEF Crash, Goto
<1>5. FaultTypes'
  BY <1>1, <1>4 DEF FaultTypes, WorkerTypes
<1>6. /\ pc' = [pc EXCEPT ![w] = "down"]
      /\ batch' = [batch EXCEPT ![w] = {}]
      /\ promoting' = [promoting EXCEPT ![w] = {}]
      /\ hand' = [hand EXCEPT ![w] = {}]
      /\ entry' = [entry EXCEPT ![w] = 0]
      /\ resume' = [resume EXCEPT ![w] = "idle"]
      /\ UNCHANGED delivered
  BY DEF Crash, Goto
<1>7. WorkerTypes'
  BY <1>1, <1>6 DEF WorkerTypes, QueueTypes, Labels, Processing
<1>8. /\ pc' = [pc EXCEPT ![w] = "down"]
      /\ ForgetDrive(w)
  BY DEF Crash, Goto
<1>9. DriveTypes'
  BY <1>1, <1>8, EngineAssumption DEF DriveTypes, WorkerTypes, ForgetDrive
<1> QED
  BY <1>3, <1>5, <1>7, <1>9 DEF TypeOK

LEMMA RestartTypes ==
    ASSUME TypeOK, NEW w \in Workers, Restart(w) PROVE TypeOK'
<1>1. DbTypes /\ QueueTypes /\ WorkerTypes /\ DriveTypes /\ FaultTypes
  BY DEF TypeOK
<1>2. UNCHANGED <<status, records, starter, stream, delivered, pel, idle, delayed, due, dlq,
            transients, crashes, dropped, retried, outlived>>
  BY DEF Restart
<1>3. DbTypes' /\ QueueTypes' /\ FaultTypes'
  BY <1>1, <1>2 DEF DbTypes, QueueTypes, FaultTypes
<1>4. /\ Goto(w, "idle")
      /\ UNCHANGED <<delivered, batch, promoting, hand, entry, resume>>
  BY DEF Restart
<1>5. WorkerTypes'
  BY <1>1, <1>4, GotoKeepsWorker DEF Labels, Processing
<1>6. /\ Goto(w, "idle")
      /\ UNCHANGED <<step, attempt, tries>>
  BY DEF Restart
<1>7. DriveTypes'
  BY <1>1, <1>6, GotoKeepsDrive DEF Located, WorkerTypes
<1> QED
  BY <1>3, <1>5, <1>7 DEF TypeOK

LEMMA TypeStep ==
    ASSUME TypeOK, [Next]_vars PROVE TypeOK'
<1>1. CASE Next
  BY <1>1, AddRunTypes, StartReadsTypes, EnqueueTypes, LoseStartTypes, CancelTypes,
     RetryComesDueTypes, LeaseExpiresTypes, ClaimTypes, TakeClaimedTypes, ScanDelayedTypes,
                 PromoteRemoveTypes, PromoteAddTypes, ReadTypes, LoadTypes, CheckStepTypes,
                             ExecuteTypes, BodySucceedsTypes, BodyTransientTypes,
                                         BodyFailsTypes, DeferTypes, FailRunTypes,
                                                     DeadLetterTypes, SucceedRunTypes,
                                                                 AckTypes, CrashTypes,
                                                                             RestartTypes
  DEF Next, Start, ConsumeOnce
<1>2. CASE UNCHANGED vars
  BY <1>2 DEF vars, TypeOK, DbTypes, QueueTypes, WorkerTypes, DriveTypes, FaultTypes
<1> QED
  BY <1>1, <1>2

\* The engine keeps its types: every id a worker holds is one delivered, and only
\* a pending entry can be idle (xreadgroup, xautoclaim and xack in consume_once).
THEOREM TypeCorrect == Spec => []TypeOK
<1>1. TypeOK /\ [Next]_vars => TypeOK'
  BY TypeStep
<1> QED
  BY InitTypes, <1>1, PTL DEF Spec

-------------------------------------------------------------------------------
(***************************************************************************)
(* NoRunStranded.  It is not inductive by itself: the run a worker is      *)
(* about to acknowledge after dead-lettering it must be terminal, and a    *)
(* worker promotes one member at a time.                                   *)
(***************************************************************************)

DeadLettersAreTerminal == \A w \in Workers : pc[w] = "dlq" => status[RunOf(w)] \in Terminal
OneInHand == \A w \in Workers : \A r, q \in hand[w] : r = q
IInv == TypeOK /\ DeadLettersAreTerminal /\ OneInHand /\ NoRunStranded

\* Whatever may count against the run r has not grown, and whatever carries it
\* is still there: r stays carried.
LEMMA CarriedFrame ==
    ASSUME NEW r, Carried(r),
           UNCHANGED <<starter, stream, delivered, pel, delayed, hand>>,
           \A e \in Entries : stream[e] = r /\ BeingAcked(e)' => BeingAcked(e)
    PROVE  Carried(r)'
BY DEF Carried, Entries

\* A worker that moves to another label than "ack", keeping its entry, starts
\* no acknowledgement.
LEMMA NoNewAck ==
    ASSUME WorkerTypes, NEW w \in Workers, NEW l, l # "ack", Goto(w, l),
           \A v \in Workers : v # w => entry'[v] = entry[v]
    PROVE  \A e : BeingAcked(e)' => BeingAcked(e)
BY DEF WorkerTypes, BeingAcked, Goto

\* A worker that moves to "ack" starts only the acknowledgement of its entry.
LEMMA OneNewAck ==
    ASSUME WorkerTypes, NEW w \in Workers, Goto(w, "ack"), UNCHANGED entry
    PROVE  \A e : BeingAcked(e)' => BeingAcked(e) \/ e = entry[w]
BY DEF WorkerTypes, BeingAcked, Goto

\* Only AddRun makes a run running.
LEMMA RunningBefore ==
    ASSUME DbTypes, QueueTypes, WorkerTypes, NEW r \in Runs, status'[r] = "running",
           \/ UNCHANGED status
           \/ \E q \in Runs, t \in Terminal : status' = [status EXCEPT ![q] = t]
    PROVE  status[r] = "running"
BY DEF DbTypes, Terminal

LEMMA InitIInv == Init => IInv
<1> SUFFICES ASSUME Init PROVE IInv
  OBVIOUS
<1>1. TypeOK
  BY InitTypes
<1>2. DeadLettersAreTerminal /\ OneInHand /\ NoRunStranded
  BY DEF Init, DeadLettersAreTerminal, OneInHand, NoRunStranded
<1> QED
  BY <1>1, <1>2 DEF IInv

\* The status of a run changes only to a terminal one.
StatusOnlyEnds ==
    \/ UNCHANGED status
    \/ \E q \in Runs, t \in Terminal : status' = [status EXCEPT ![q] = t]

\* A step that touches no carrier and starts no acknowledgement.
LEMMA QuietStep ==
    ASSUME IInv, StatusOnlyEnds,
           UNCHANGED <<starter, stream, delivered, pel, delayed, hand, dropped>>,
           \A e \in Entries : BeingAcked(e)' => BeingAcked(e)
    PROVE  OneInHand' /\ NoRunStranded'
<1>1. OneInHand'
  BY DEF IInv, OneInHand
<1>2. ASSUME NEW r \in Runs, status'[r] = "running", starter'[r] # "lost", r \notin dropped'
      PROVE  Carried(r)'
  <2>1. status[r] = "running"
    BY <1>2, RunningBefore DEF IInv, TypeOK, StatusOnlyEnds
  <2>2. Carried(r)
    BY <1>2, <2>1 DEF IInv, NoRunStranded
  <2> QED
    BY <2>2, CarriedFrame
<1> QED
  BY <1>1, <1>2 DEF NoRunStranded

\* A worker that goes to acknowledge its entry: the entry's run has ended, or it
\* is in the ZSET.
LEMMA AckingStep ==
    ASSUME IInv, StatusOnlyEnds, NEW w \in Workers, pc[w] \in Processing, Goto(w, "ack"),
           UNCHANGED <<starter, stream, delivered, pel, entry, hand, dropped>>,
           delayed \subseteq delayed',
           status'[RunOf(w)] \in Terminal \/ RunOf(w) \in delayed'
    PROVE  OneInHand' /\ NoRunStranded'
<1>1. OneInHand'
  BY DEF IInv, OneInHand
<1>2. ASSUME NEW r \in Runs, status'[r] = "running", starter'[r] # "lost", r \notin dropped'
      PROVE  Carried(r)'
  <2>1. status[r] = "running"
    BY <1>2, RunningBefore DEF IInv, TypeOK, StatusOnlyEnds
  <2>2. Carried(r)
    BY <1>2, <2>1 DEF IInv, NoRunStranded
  <2>3. CASE r = RunOf(w)
    BY <1>2, <2>3 DEF Carried, Terminal
  <2>4. CASE r # RunOf(w)
    <3>1. \A e : BeingAcked(e)' => BeingAcked(e) \/ e = entry[w]
      BY OneNewAck DEF IInv, TypeOK
    <3>2. \A e \in Entries : stream[e] = r /\ BeingAcked(e)' => BeingAcked(e)
      BY <2>4, <3>1 DEF RunOf
    <3> QED
      BY <2>2, <3>2 DEF Carried, Entries
  <2> QED
    BY <2>3, <2>4
<1> QED
  BY <1>1, <1>2 DEF NoRunStranded

\* Dead-lettering stays confined to runs that have ended.
LEMMA LettersKept ==
    ASSUME TypeOK, DeadLettersAreTerminal,
           \A r \in Runs : status[r] \in Terminal => status'[r] \in Terminal,
           \A e \in Entries : stream'[e] = stream[e],
           \A w \in Workers : pc'[w] = "dlq" => pc[w] = "dlq" /\ entry'[w] = entry[w]
    PROVE  DeadLettersAreTerminal'
<1> SUFFICES ASSUME NEW w \in Workers, pc'[w] = "dlq"
             PROVE  status'[RunOf(w)'] \in Terminal
  BY DEF DeadLettersAreTerminal
<1>1. entry[w] \in Entries /\ RunOf(w) \in Runs
  BY EntryNamesRun DEF TypeOK, Processing
<1>2. RunOf(w)' = RunOf(w)
  BY <1>1 DEF RunOf
<1> QED
  BY <1>1, <1>2 DEF DeadLettersAreTerminal

LEMMA EndedStaysEnded ==
    ASSUME DbTypes, StatusOnlyEnds
    PROVE  \A r \in Runs : status[r] \in Terminal => status'[r] \in Terminal
BY DEF DbTypes, StatusOnlyEnds, Terminal

LEMMA RetryComesDueKeeps ==
    ASSUME IInv, NEW r \in Runs, RetryComesDue(r)
    PROVE  DeadLettersAreTerminal' /\ OneInHand' /\ NoRunStranded'
<1>1. /\ UNCHANGED status
      /\ UNCHANGED <<starter, stream, delivered, pel, delayed, pc, entry, hand, dropped>>
  BY DEF RetryComesDue
<1>2. StatusOnlyEnds
  BY <1>1 DEF StatusOnlyEnds, Terminal
<1> QED
  BY <1>1, <1>2, QuietStep, LettersKept, EndedStaysEnded DEF IInv, TypeOK, BeingAcked

LEMMA LeaseExpiresKeeps ==
    ASSUME IInv, NEW e \in pel, LeaseExpires(e)
    PROVE  DeadLettersAreTerminal' /\ OneInHand' /\ NoRunStranded'
<1>1. /\ UNCHANGED status
      /\ UNCHANGED <<starter, stream, delivered, pel, delayed, pc, entry, hand, dropped>>
  BY DEF LeaseExpires
<1>2. StatusOnlyEnds
  BY <1>1 DEF StatusOnlyEnds, Terminal
<1> QED
  BY <1>1, <1>2, QuietStep, LettersKept, EndedStaysEnded DEF IInv, TypeOK, BeingAcked

LEMMA CancelKeeps ==
    ASSUME IInv, NEW r \in Runs, Cancel(r)
    PROVE  DeadLettersAreTerminal' /\ OneInHand' /\ NoRunStranded'
<1>1. /\ status' = [status EXCEPT ![r] = "failed"]
      /\ UNCHANGED <<starter, stream, delivered, pel, delayed, pc, entry, hand, dropped>>
  BY DEF Cancel
<1>2. StatusOnlyEnds
  BY <1>1 DEF StatusOnlyEnds, Terminal
<1> QED
  BY <1>1, <1>2, QuietStep, LettersKept, EndedStaysEnded DEF IInv, TypeOK, BeingAcked

LEMMA ClaimKeeps ==
    ASSUME IInv, NEW w \in Workers, Claim(w)
    PROVE  DeadLettersAreTerminal' /\ OneInHand' /\ NoRunStranded'
<1>1. /\ Goto(w, "reclaim")
      /\ UNCHANGED status
      /\ UNCHANGED <<starter, stream, delivered, pel, delayed, hand, dropped>>
      /\ UNCHANGED entry
  BY DEF Claim
<1>2. \A e : BeingAcked(e)' => BeingAcked(e)
  BY <1>1, NoNewAck DEF IInv, TypeOK
<1>3. StatusOnlyEnds
  BY <1>1 DEF StatusOnlyEnds, Terminal
<1>4. \A v \in Workers : pc'[v] = "dlq" => pc[v] = "dlq" /\ entry'[v] = entry[v]
  BY <1>1 DEF IInv, TypeOK, WorkerTypes, Goto
<1> QED
  BY <1>1, <1>2, <1>3, <1>4, QuietStep, LettersKept, EndedStaysEnded DEF IInv, TypeOK

LEMMA TakeClaimedKeeps ==
    ASSUME IInv, NEW w \in Workers, TakeClaimed(w)
    PROVE  DeadLettersAreTerminal' /\ OneInHand' /\ NoRunStranded'
<1>1. /\ Goto(w, "load")
      /\ UNCHANGED status
      /\ UNCHANGED <<starter, stream, delivered, pel, delayed, hand, dropped>>
      /\ \A v \in Workers : v # w => entry'[v] = entry[v]
  BY DEF TakeClaimed, IInv, TypeOK, WorkerTypes
<1>2. \A e : BeingAcked(e)' => BeingAcked(e)
  BY <1>1, NoNewAck DEF IInv, TypeOK
<1>3. StatusOnlyEnds
  BY <1>1 DEF StatusOnlyEnds, Terminal
<1>4. \A v \in Workers : pc'[v] = "dlq" => pc[v] = "dlq" /\ entry'[v] = entry[v]
  BY <1>1 DEF IInv, TypeOK, WorkerTypes, Goto
<1> QED
  BY <1>1, <1>2, <1>3, <1>4, QuietStep, LettersKept, EndedStaysEnded DEF IInv, TypeOK

LEMMA ScanDelayedKeeps ==
    ASSUME IInv, NEW w \in Workers, ScanDelayed(w)
    PROVE  DeadLettersAreTerminal' /\ OneInHand' /\ NoRunStranded'
<1>1. /\ Goto(w, "promote")
      /\ UNCHANGED status
      /\ UNCHANGED <<starter, stream, delivered, pel, delayed, hand, dropped>>
      /\ UNCHANGED entry
  BY DEF ScanDelayed
<1>2. \A e : BeingAcked(e)' => BeingAcked(e)
  BY <1>1, NoNewAck DEF IInv, TypeOK
<1>3. StatusOnlyEnds
  BY <1>1 DEF StatusOnlyEnds, Terminal
<1>4. \A v \in Workers : pc'[v] = "dlq" => pc[v] = "dlq" /\ entry'[v] = entry[v]
  BY <1>1 DEF IInv, TypeOK, WorkerTypes, Goto
<1> QED
  BY <1>1, <1>2, <1>3, <1>4, QuietStep, LettersKept, EndedStaysEnded DEF IInv, TypeOK

LEMMA CheckStepKeeps ==
    ASSUME IInv, NEW w \in Workers, CheckStep(w)
    PROVE  DeadLettersAreTerminal' /\ OneInHand' /\ NoRunStranded'
<1>1. /\ Goto(w, "execute") \/ UNCHANGED pc
      /\ UNCHANGED status
      /\ UNCHANGED <<starter, stream, delivered, pel, delayed, hand, dropped>>
      /\ UNCHANGED entry
  BY DEF CheckStep
<1>2. \A e : BeingAcked(e)' => BeingAcked(e)
  BY <1>1, NoNewAck DEF IInv, TypeOK, BeingAcked
<1>3. StatusOnlyEnds
  BY <1>1 DEF StatusOnlyEnds, Terminal
<1>4. \A v \in Workers : pc'[v] = "dlq" => pc[v] = "dlq" /\ entry'[v] = entry[v]
  BY <1>1 DEF IInv, TypeOK, WorkerTypes, Goto
<1> QED
  BY <1>1, <1>2, <1>3, <1>4, QuietStep, LettersKept, EndedStaysEnded DEF IInv, TypeOK

LEMMA ExecuteKeeps ==
    ASSUME IInv, NEW w \in Workers, Execute(w)
    PROVE  DeadLettersAreTerminal' /\ OneInHand' /\ NoRunStranded'
<1>1. /\ Goto(w, "step") \/ Goto(w, "body")
      /\ UNCHANGED status
      /\ UNCHANGED <<starter, stream, delivered, pel, delayed, hand, dropped>>
      /\ UNCHANGED entry
  BY DEF Execute
<1>2. \A e : BeingAcked(e)' => BeingAcked(e)
  BY <1>1, NoNewAck DEF IInv, TypeOK
<1>3. StatusOnlyEnds
  BY <1>1 DEF StatusOnlyEnds, Terminal
<1>4. \A v \in Workers : pc'[v] = "dlq" => pc[v] = "dlq" /\ entry'[v] = entry[v]
  BY <1>1 DEF IInv, TypeOK, WorkerTypes, Goto
<1> QED
  BY <1>1, <1>2, <1>3, <1>4, QuietStep, LettersKept, EndedStaysEnded DEF IInv, TypeOK

LEMMA BodySucceedsKeeps ==
    ASSUME IInv, NEW w \in Workers, BodySucceeds(w)
    PROVE  DeadLettersAreTerminal' /\ OneInHand' /\ NoRunStranded'
<1>1. /\ Goto(w, "step")
      /\ UNCHANGED status
      /\ UNCHANGED <<starter, stream, delivered, pel, delayed, hand, dropped>>
      /\ UNCHANGED entry
  BY DEF BodySucceeds
<1>2. \A e : BeingAcked(e)' => BeingAcked(e)
  BY <1>1, NoNewAck DEF IInv, TypeOK
<1>3. StatusOnlyEnds
  BY <1>1 DEF StatusOnlyEnds, Terminal
<1>4. \A v \in Workers : pc'[v] = "dlq" => pc[v] = "dlq" /\ entry'[v] = entry[v]
  BY <1>1 DEF IInv, TypeOK, WorkerTypes, Goto
<1> QED
  BY <1>1, <1>2, <1>3, <1>4, QuietStep, LettersKept, EndedStaysEnded DEF IInv, TypeOK

LEMMA BodyTransientKeeps ==
    ASSUME IInv, NEW w \in Workers, BodyTransient(w)
    PROVE  DeadLettersAreTerminal' /\ OneInHand' /\ NoRunStranded'
<1>1. /\ Goto(w, "defer")
      /\ UNCHANGED status
      /\ UNCHANGED <<starter, stream, delivered, pel, delayed, hand, dropped>>
      /\ UNCHANGED entry
  BY DEF BodyTransient
<1>2. \A e : BeingAcked(e)' => BeingAcked(e)
  BY <1>1, NoNewAck DEF IInv, TypeOK
<1>3. StatusOnlyEnds
  BY <1>1 DEF StatusOnlyEnds, Terminal
<1>4. \A v \in Workers : pc'[v] = "dlq" => pc[v] = "dlq" /\ entry'[v] = entry[v]
  BY <1>1 DEF IInv, TypeOK, WorkerTypes, Goto
<1> QED
  BY <1>1, <1>2, <1>3, <1>4, QuietStep, LettersKept, EndedStaysEnded DEF IInv, TypeOK

LEMMA BodyFailsKeeps ==
    ASSUME IInv, NEW w \in Workers, BodyFails(w)
    PROVE  DeadLettersAreTerminal' /\ OneInHand' /\ NoRunStranded'
<1>1. /\ Goto(w, "failrun")
      /\ UNCHANGED status
      /\ UNCHANGED <<starter, stream, delivered, pel, delayed, hand, dropped>>
      /\ UNCHANGED entry
  BY DEF BodyFails
<1>2. \A e : BeingAcked(e)' => BeingAcked(e)
  BY <1>1, NoNewAck DEF IInv, TypeOK
<1>3. StatusOnlyEnds
  BY <1>1 DEF StatusOnlyEnds, Terminal
<1>4. \A v \in Workers : pc'[v] = "dlq" => pc[v] = "dlq" /\ entry'[v] = entry[v]
  BY <1>1 DEF IInv, TypeOK, WorkerTypes, Goto
<1> QED
  BY <1>1, <1>2, <1>3, <1>4, QuietStep, LettersKept, EndedStaysEnded DEF IInv, TypeOK

LEMMA RestartKeeps ==
    ASSUME IInv, NEW w \in Workers, Restart(w)
    PROVE  DeadLettersAreTerminal' /\ OneInHand' /\ NoRunStranded'
<1>1. /\ Goto(w, "idle")
      /\ UNCHANGED status
      /\ UNCHANGED <<starter, stream, delivered, pel, delayed, hand, dropped>>
      /\ UNCHANGED entry
  BY DEF Restart
<1>2. \A e : BeingAcked(e)' => BeingAcked(e)
  BY <1>1, NoNewAck DEF IInv, TypeOK
<1>3. StatusOnlyEnds
  BY <1>1 DEF StatusOnlyEnds, Terminal
<1>4. \A v \in Workers : pc'[v] = "dlq" => pc[v] = "dlq" /\ entry'[v] = entry[v]
  BY <1>1 DEF IInv, TypeOK, WorkerTypes, Goto
<1> QED
  BY <1>1, <1>2, <1>3, <1>4, QuietStep, LettersKept, EndedStaysEnded DEF IInv, TypeOK

LEMMA FailRunKeeps ==
    ASSUME IInv, NEW w \in Workers, FailRun(w)
    PROVE  DeadLettersAreTerminal' /\ OneInHand' /\ NoRunStranded'
<1>1. /\ pc[w] = "failrun" /\ Goto(w, "dlq")
      /\ status' = [status EXCEPT ![RunOf(w)] = "failed"]
      /\ UNCHANGED <<starter, stream, delivered, pel, delayed, entry, hand, dropped>>
  BY DEF FailRun
<1>2. RunOf(w) \in Runs /\ RunOf(w)' = RunOf(w)
  BY <1>1, EntryNamesRun DEF IInv, TypeOK, Processing, RunOf
<1>3. StatusOnlyEnds
  BY <1>1, <1>2 DEF StatusOnlyEnds, Terminal
<1>4. \A e : BeingAcked(e)' => BeingAcked(e)
  BY <1>1, NoNewAck DEF IInv, TypeOK
<1>5. ASSUME NEW v \in Workers, pc'[v] = "dlq" PROVE status'[RunOf(v)'] \in Terminal
  <2>1. CASE v = w
    BY <1>1, <1>2, <2>1 DEF IInv, TypeOK, DbTypes, Terminal
  <2>2. CASE v # w
    <3>1. pc[v] = "dlq" /\ RunOf(v)' = RunOf(v)
      BY <1>1, <1>5, <2>2 DEF IInv, TypeOK, WorkerTypes, Goto, RunOf
    <3>2. RunOf(v) \in Runs
      BY <3>1, EntryNamesRun DEF IInv, TypeOK, Processing
    <3> QED
      BY <1>3, <3>1, <3>2, EndedStaysEnded DEF IInv, TypeOK, DeadLettersAreTerminal
  <2> QED
    BY <2>1, <2>2
<1> QED
  BY <1>1, <1>3, <1>4, <1>5, QuietStep DEF DeadLettersAreTerminal

LEMMA DeferKeeps ==
    ASSUME IInv, NEW w \in Workers, Defer(w)
    PROVE  DeadLettersAreTerminal' /\ OneInHand' /\ NoRunStranded'
<1>1. /\ pc[w] = "defer" /\ Goto(w, "ack")
      /\ delayed' = delayed \cup {RunOf(w)} /\ UNCHANGED status
      /\ UNCHANGED <<starter, stream, delivered, pel, entry, hand, dropped>>
  BY DEF Defer
<1>2. RunOf(w) \in Runs
  BY <1>1, EntryNamesRun DEF IInv, TypeOK, Processing
<1>3. StatusOnlyEnds /\ delayed \subseteq delayed'
  BY <1>1, <1>2 DEF StatusOnlyEnds, Terminal
<1>4. RunOf(w) \in delayed'
  BY <1>1
<1>5. \A v \in Workers : pc'[v] = "dlq" => pc[v] = "dlq" /\ entry'[v] = entry[v]
  BY <1>1 DEF IInv, TypeOK, WorkerTypes, Goto
<1> QED
  BY <1>1, <1>3, <1>4, <1>5, AckingStep, LettersKept, EndedStaysEnded
  DEF IInv, TypeOK, Processing

LEMMA DeadLetterKeeps ==
    ASSUME IInv, NEW w \in Workers, DeadLetter(w)
    PROVE  DeadLettersAreTerminal' /\ OneInHand' /\ NoRunStranded'
<1>1. /\ pc[w] = "dlq" /\ Goto(w, "ack")
      /\ UNCHANGED <<status, delayed>>
      /\ UNCHANGED <<starter, stream, delivered, pel, entry, hand, dropped>>
  BY DEF DeadLetter
<1>2. RunOf(w) \in Runs
  BY <1>1, EntryNamesRun DEF IInv, TypeOK, Processing
<1>3. StatusOnlyEnds /\ delayed \subseteq delayed'
  BY <1>1, <1>2 DEF StatusOnlyEnds, Terminal
<1>4. status'[RunOf(w)] \in Terminal
  BY <1>1 DEF IInv, DeadLettersAreTerminal
<1>5. \A v \in Workers : pc'[v] = "dlq" => pc[v] = "dlq" /\ entry'[v] = entry[v]
  BY <1>1 DEF IInv, TypeOK, WorkerTypes, Goto
<1> QED
  BY <1>1, <1>3, <1>4, <1>5, AckingStep, LettersKept, EndedStaysEnded
  DEF IInv, TypeOK, Processing

LEMMA SucceedRunKeeps ==
    ASSUME IInv, NEW w \in Workers, SucceedRun(w)
    PROVE  DeadLettersAreTerminal' /\ OneInHand' /\ NoRunStranded'
<1>1. /\ pc[w] = "step" /\ Goto(w, "ack")
      /\ status' = [status EXCEPT ![RunOf(w)] = "succeeded"] /\ UNCHANGED delayed
      /\ UNCHANGED <<starter, stream, delivered, pel, entry, hand, dropped>>
  BY DEF SucceedRun
<1>2. RunOf(w) \in Runs
  BY <1>1, EntryNamesRun DEF IInv, TypeOK, Processing
<1>3. StatusOnlyEnds /\ delayed \subseteq delayed'
  BY <1>1, <1>2 DEF StatusOnlyEnds, Terminal
<1>4. status'[RunOf(w)] \in Terminal
  BY <1>1, <1>2 DEF IInv, TypeOK, DbTypes, Terminal
<1>5. \A v \in Workers : pc'[v] = "dlq" => pc[v] = "dlq" /\ entry'[v] = entry[v]
  BY <1>1 DEF IInv, TypeOK, WorkerTypes, Goto
<1> QED
  BY <1>1, <1>3, <1>4, <1>5, AckingStep, LettersKept, EndedStaysEnded
  DEF IInv, TypeOK, Processing

LEMMA LoadKeeps ==
    ASSUME IInv, NEW w \in Workers, Load(w)
    PROVE  DeadLettersAreTerminal' /\ OneInHand' /\ NoRunStranded'
<1>1. /\ pc[w] = "load"
      /\ UNCHANGED <<status, starter, stream, delivered, pel, delayed, entry, hand, dropped>>
      /\ Goto(w, "step") \/ (Goto(w, "ack") /\ status[RunOf(w)] \in Terminal)
  BY DEF Load
<1>2. StatusOnlyEnds
  BY <1>1 DEF StatusOnlyEnds
<1>3. \A v \in Workers : pc'[v] = "dlq" => pc[v] = "dlq" /\ entry'[v] = entry[v]
  BY <1>1 DEF IInv, TypeOK, WorkerTypes, Goto
<1>4. DeadLettersAreTerminal'
  BY <1>1, <1>2, <1>3, LettersKept, EndedStaysEnded DEF IInv, TypeOK
<1>5. CASE Goto(w, "step")
  BY <1>1, <1>2, <1>4, <1>5, NoNewAck, QuietStep DEF IInv, TypeOK
<1>6. CASE Goto(w, "ack") /\ status[RunOf(w)] \in Terminal
  BY <1>1, <1>2, <1>4, <1>6, AckingStep DEF IInv, Processing
<1> QED
  BY <1>1, <1>5, <1>6

LEMMA AddRunKeeps ==
    ASSUME IInv, NEW r \in Runs, AddRun(r)
    PROVE  DeadLettersAreTerminal' /\ OneInHand' /\ NoRunStranded'
<1>1. /\ status[r] = "none" /\ status' = [status EXCEPT ![r] = "running"]
      /\ starter' = [starter EXCEPT ![r] = "spawned"]
      /\ UNCHANGED <<stream, delivered, pel, delayed, pc, entry, hand, dropped>>
  BY DEF AddRun
<1>a. DeadLettersAreTerminal' /\ OneInHand'
  BY <1>1, LettersKept DEF IInv, TypeOK, DbTypes, Terminal, OneInHand
<1> SUFFICES ASSUME NEW q \in Runs, status'[q] = "running", starter'[q] # "lost", q \notin
            dropped'
             PROVE  Carried(q)'
  BY <1>a DEF NoRunStranded
<1>2. CASE q = r
  BY <1>1, <1>2 DEF IInv, TypeOK, DbTypes, Carried
<1>3. CASE q # r
  <2>1. status[q] = "running" /\ starter'[q] = starter[q]
    BY <1>1, <1>3 DEF IInv, TypeOK, DbTypes
  <2>2. Carried(q)
    BY <1>1, <2>1 DEF IInv, NoRunStranded
  <2> QED
    BY <1>1, <2>1, <2>2 DEF Carried, Entries, BeingAcked
<1> QED
  BY <1>2, <1>3

LEMMA StartReadsKeeps ==
    ASSUME IInv, NEW r \in Runs, StartReads(r)
    PROVE  DeadLettersAreTerminal' /\ OneInHand' /\ NoRunStranded'
<1>1. /\ starter[r] = "spawned"
      /\ starter' = [starter EXCEPT ![r] = IF status[r] \in Terminal THEN "done" ELSE "enqueue"]
      /\ UNCHANGED <<status, stream, delivered, pel, delayed, pc, entry, hand, dropped>>
  BY DEF StartReads
<1>a. DeadLettersAreTerminal' /\ OneInHand'
  BY <1>1, LettersKept DEF IInv, TypeOK, OneInHand
<1> SUFFICES ASSUME NEW q \in Runs, status'[q] = "running", starter'[q] # "lost", q \notin
            dropped'
             PROVE  Carried(q)'
  BY <1>a DEF NoRunStranded
<1>2. starter[q] # "lost"
  BY <1>1 DEF IInv, TypeOK, DbTypes
<1>3. Carried(q)
  BY <1>1, <1>2 DEF IInv, NoRunStranded
<1>4. CASE q = r
  BY <1>1, <1>4 DEF IInv, TypeOK, DbTypes, Carried, Terminal
<1>5. CASE q # r
  BY <1>1, <1>3, <1>5 DEF IInv, TypeOK, DbTypes, Carried, Entries, BeingAcked
<1> QED
  BY <1>4, <1>5

LEMMA EnqueueKeeps ==
    ASSUME IInv, NEW r \in Runs, Enqueue(r)
    PROVE  DeadLettersAreTerminal' /\ OneInHand' /\ NoRunStranded'
<1>1. /\ starter[r] = "enqueue" /\ starter' = [starter EXCEPT ![r] = "done"]
      /\ stream' = Append(stream, r)
      /\ UNCHANGED <<status, delivered, pel, delayed, pc, entry, hand, dropped>>
  BY DEF Enqueue
<1>2. /\ Len(stream') = Len(stream) + 1 /\ Len(stream) \in Nat
      /\ stream'[Len(stream) + 1] = r
      /\ \A e \in Entries : stream'[e] = stream[e]
  BY <1>1, AppendKeepsEntries DEF IInv, TypeOK, QueueTypes, Entries
<1>a. DeadLettersAreTerminal' /\ OneInHand'
  BY <1>1, <1>2, LettersKept DEF IInv, TypeOK, OneInHand
<1> SUFFICES ASSUME NEW q \in Runs, status'[q] = "running", starter'[q] # "lost", q \notin
            dropped'
             PROVE  Carried(q)'
  BY <1>a DEF NoRunStranded
<1>3. CASE q = r
  <2>1. Len(stream') \in Entries' /\ Len(stream') > delivered'
    BY <1>1, <1>2 DEF IInv, TypeOK, QueueTypes, Entries
  <2> QED
    BY <1>2, <1>3, <2>1 DEF Carried
<1>4. CASE q # r
  <2>1. starter[q] # "lost" /\ starter'[q] = starter[q]
    BY <1>1, <1>4 DEF IInv, TypeOK, DbTypes
  <2>2. Carried(q)
    BY <1>1, <2>1 DEF IInv, NoRunStranded
  <2> QED
    BY <1>1, <1>2, <2>1, <2>2 DEF Carried, Entries, BeingAcked
<1> QED
  BY <1>3, <1>4

LEMMA LoseStartKeeps ==
    ASSUME IInv, NEW r \in Runs, LoseStart(r)
    PROVE  DeadLettersAreTerminal' /\ OneInHand' /\ NoRunStranded'
<1>1. /\ starter' = [starter EXCEPT ![r] = "lost"]
      /\ UNCHANGED <<status, stream, delivered, pel, delayed, pc, entry, hand, dropped>>
  BY DEF LoseStart
<1>a. DeadLettersAreTerminal' /\ OneInHand'
  BY <1>1, LettersKept DEF IInv, TypeOK, OneInHand
<1> SUFFICES ASSUME NEW q \in Runs, status'[q] = "running", starter'[q] # "lost", q \notin
            dropped'
             PROVE  Carried(q)'
  BY <1>a DEF NoRunStranded
<1>2. q # r /\ starter'[q] = starter[q]
  BY <1>1 DEF IInv, TypeOK, DbTypes
<1>3. Carried(q)
  BY <1>1, <1>2 DEF IInv, NoRunStranded
<1> QED
  BY <1>1, <1>2, <1>3 DEF Carried, Entries, BeingAcked

LEMMA PromoteRemoveKeeps ==
    ASSUME IInv, NEW w \in Workers, PromoteRemove(w)
    PROVE  DeadLettersAreTerminal' /\ OneInHand' /\ NoRunStranded'
<1>1. /\ hand[w] = {}
      /\ \E r \in promoting[w] : hand' = [hand EXCEPT ![w] = {r}] /\ delayed' = delayed \ {r}
      /\ UNCHANGED <<status, starter, stream, delivered, pel, pc, entry, dropped>>
  BY DEF PromoteRemove
<1>2. PICK r \in promoting[w] : hand' = [hand EXCEPT ![w] = {r}] /\ delayed' = delayed \ {r}
  BY <1>1
<1>a. DeadLettersAreTerminal' /\ OneInHand'
  BY <1>1, <1>2, LettersKept DEF IInv, TypeOK, WorkerTypes, OneInHand
<1> SUFFICES ASSUME NEW q \in Runs, status'[q] = "running", starter'[q] # "lost", q \notin
            dropped'
             PROVE  Carried(q)'
  BY <1>a DEF NoRunStranded
<1>3. Carried(q)
  BY <1>1 DEF IInv, NoRunStranded
<1>4. \A v \in Workers : hand[v] \subseteq hand'[v]
  BY <1>1, <1>2 DEF IInv, TypeOK, WorkerTypes
<1>5. r \in hand'[w]
  BY <1>2 DEF IInv, TypeOK, WorkerTypes
<1> QED
  BY <1>1, <1>2, <1>3, <1>4, <1>5 DEF Carried, Entries, BeingAcked

LEMMA PromoteAddKeeps ==
    ASSUME IInv, NEW w \in Workers, PromoteAdd(w)
    PROVE  DeadLettersAreTerminal' /\ OneInHand' /\ NoRunStranded'
<1>1. /\ \E r \in hand[w] : stream' = Append(stream, r)
      /\ hand' = [hand EXCEPT ![w] = {}]
      /\ UNCHANGED <<status, starter, delivered, pel, delayed, pc, entry, dropped>>
  BY DEF PromoteAdd
<1>2. PICK r \in hand[w] : stream' = Append(stream, r)
  BY <1>1
<1>3. r \in Runs /\ hand[w] = {r}
  BY DEF IInv, TypeOK, WorkerTypes, OneInHand
<1>4. /\ Len(stream') = Len(stream) + 1 /\ Len(stream) \in Nat
      /\ stream'[Len(stream) + 1] = r
      /\ \A e \in Entries : stream'[e] = stream[e]
  BY <1>2, <1>3, AppendKeepsEntries DEF IInv, TypeOK, QueueTypes, Entries
<1>a. DeadLettersAreTerminal' /\ OneInHand'
  BY <1>1, <1>4, LettersKept DEF IInv, TypeOK, WorkerTypes, OneInHand
<1> SUFFICES ASSUME NEW q \in Runs, status'[q] = "running", starter'[q] # "lost", q \notin
            dropped'
             PROVE  Carried(q)'
  BY <1>a DEF NoRunStranded
<1>5. Carried(q)
  BY <1>1 DEF IInv, NoRunStranded
<1>6. CASE q = r
  <2>1. Len(stream') \in Entries' /\ Len(stream') > delivered'
    BY <1>1, <1>4 DEF IInv, TypeOK, QueueTypes, Entries
  <2> QED
    BY <1>4, <1>6, <2>1 DEF Carried
<1>7. CASE q # r
  <2>1. \A v \in Workers : q \in hand[v] => q \in hand'[v]
    BY <1>1, <1>3, <1>7 DEF IInv, TypeOK, WorkerTypes
  <2> QED
    BY <1>1, <1>4, <1>5, <2>1 DEF Carried, Entries, BeingAcked
<1> QED
  BY <1>6, <1>7

LEMMA ReadKeeps ==
    ASSUME IInv, NEW w \in Workers, Read(w)
    PROVE  DeadLettersAreTerminal' /\ OneInHand' /\ NoRunStranded'
<1>1. /\ pc[w] = "promote"
      /\ Goto(w, "load") \/ Goto(w, "idle")
      /\ \A v \in Workers : v # w => entry'[v] = entry[v]
      /\ \/ delivered < Len(stream) /\ delivered' = delivered + 1 /\ pel' = pel \cup {delivered +
                  1}
         \/ UNCHANGED <<delivered, pel>>
      /\ UNCHANGED <<status, starter, stream, delayed, hand, dropped>>
  BY DEF Read, IInv, TypeOK, WorkerTypes
<1>2. \A v \in Workers : pc'[v] = "dlq" => pc[v] = "dlq" /\ entry'[v] = entry[v]
  BY <1>1 DEF IInv, TypeOK, WorkerTypes, Goto
<1>a. DeadLettersAreTerminal' /\ OneInHand'
  BY <1>1, <1>2, LettersKept DEF IInv, TypeOK, OneInHand
<1> SUFFICES ASSUME NEW q \in Runs, status'[q] = "running", starter'[q] # "lost", q \notin
            dropped'
             PROVE  Carried(q)'
  BY <1>a DEF NoRunStranded
<1>3. Carried(q)
  BY <1>1 DEF IInv, NoRunStranded
<1>4. \A e : BeingAcked(e)' => BeingAcked(e)
  BY <1>1, NoNewAck DEF IInv, TypeOK
<1>5. \A e \in Entries : e > delivered => ~BeingAcked(e)
  BY DEF IInv, TypeOK, WorkerTypes, QueueTypes, BeingAcked, Entries
<1>6. \A e \in Entries : e > delivered => e > delivered' \/ e \in pel'
  BY <1>1 DEF IInv, TypeOK, QueueTypes, Entries
<1>7. ASSUME NEW e \in Entries, e > delivered \/ (e \in pel /\ ~BeingAcked(e))
      PROVE  e > delivered' \/ (e \in pel' /\ ~BeingAcked(e)')
  BY <1>1, <1>4, <1>5, <1>6, <1>7
<1>8. Entries' = Entries
  BY <1>1 DEF Entries
<1> QED
  BY <1>1, <1>3, <1>7, <1>8 DEF Carried

LEMMA AckKeeps ==
    ASSUME IInv, NEW w \in Workers, Ack(w)
    PROVE  DeadLettersAreTerminal' /\ OneInHand' /\ NoRunStranded'
<1>1. /\ pc[w] = "ack" /\ Goto(w, resume[w])
      /\ entry' = [entry EXCEPT ![w] = 0]
      /\ pel' = pel \ {entry[w]}
      /\ UNCHANGED <<status, starter, stream, delivered, delayed, hand, dropped>>
  BY DEF Ack
<1>2. resume[w] \in {"idle", "reclaim"}
  BY DEF IInv, TypeOK, WorkerTypes
<1>3. \A v \in Workers : pc'[v] = "dlq" => pc[v] = "dlq" /\ entry'[v] = entry[v]
  BY <1>1, <1>2 DEF IInv, TypeOK, WorkerTypes, Goto
<1>a. DeadLettersAreTerminal' /\ OneInHand'
  BY <1>1, <1>3, LettersKept DEF IInv, TypeOK, OneInHand
<1> SUFFICES ASSUME NEW q \in Runs, status'[q] = "running", starter'[q] # "lost", q \notin
            dropped'
             PROVE  Carried(q)'
  BY <1>a DEF NoRunStranded
<1>4. Carried(q)
  BY <1>1 DEF IInv, NoRunStranded
<1>5. BeingAcked(entry[w])
  BY <1>1 DEF BeingAcked
<1>6. \A e : BeingAcked(e)' => BeingAcked(e)
  BY <1>1, <1>2, NoNewAck DEF IInv, TypeOK, WorkerTypes
<1> QED
  BY <1>1, <1>4, <1>5, <1>6 DEF Carried, Entries

LEMMA CrashKeeps ==
    ASSUME IInv, NEW w \in Workers, Crash(w)
    PROVE  DeadLettersAreTerminal' /\ OneInHand' /\ NoRunStranded'
<1>1. /\ Goto(w, "down")
      /\ entry' = [entry EXCEPT ![w] = 0]
      /\ hand' = [hand EXCEPT ![w] = {}]
      /\ dropped' = dropped \cup hand[w]
      /\ UNCHANGED <<status, starter, stream, delivered, pel, delayed>>
  BY DEF Crash
<1>2. \A v \in Workers : pc'[v] = "dlq" => pc[v] = "dlq" /\ entry'[v] = entry[v]
  BY <1>1 DEF IInv, TypeOK, WorkerTypes, Goto
<1>a. DeadLettersAreTerminal' /\ OneInHand'
  BY <1>1, <1>2, LettersKept DEF IInv, TypeOK, WorkerTypes, OneInHand
<1> SUFFICES ASSUME NEW q \in Runs, status'[q] = "running", starter'[q] # "lost", q \notin
            dropped'
             PROVE  Carried(q)'
  BY <1>a DEF NoRunStranded
<1>3. Carried(q) /\ q \notin hand[w]
  BY <1>1 DEF IInv, NoRunStranded
<1>4. \A e : BeingAcked(e)' => BeingAcked(e)
  BY <1>1, NoNewAck DEF IInv, TypeOK, WorkerTypes
<1>5. \A v \in Workers : q \in hand[v] => q \in hand'[v]
  BY <1>1, <1>3 DEF IInv, TypeOK, WorkerTypes
<1> QED
  BY <1>1, <1>3, <1>4, <1>5 DEF Carried, Entries

\* No run is stranded, whatever crashes, expires or is delivered twice, outside
\* the two windows NoRunStranded names (redis_streams.py: start, consume_once,
\* _promote_due_delayed, _process_entry and _drive).
THEOREM NothingStranded == Spec => []NoRunStranded
<1>1. IInv /\ [Next]_vars => IInv'
  <2> SUFFICES ASSUME IInv, [Next]_vars PROVE IInv'
    OBVIOUS
  <2>1. TypeOK'
    BY TypeStep DEF IInv
  <2>2. CASE Next
    <3>1. DeadLettersAreTerminal' /\ OneInHand' /\ NoRunStranded'
      BY <2>2, AddRunKeeps, StartReadsKeeps, EnqueueKeeps, LoseStartKeeps, CancelKeeps,
         RetryComesDueKeeps, LeaseExpiresKeeps, ClaimKeeps, TakeClaimedKeeps, ScanDelayedKeeps,
                     PromoteRemoveKeeps, PromoteAddKeeps, ReadKeeps, LoadKeeps, CheckStepKeeps,
                                 ExecuteKeeps, BodySucceedsKeeps, BodyTransientKeeps,
                                             BodyFailsKeeps, DeferKeeps, FailRunKeeps,
                                                         DeadLetterKeeps, SucceedRunKeeps,
                                                                     AckKeeps, CrashKeeps,
                                                                                 RestartKeeps
      DEF Next, Start, ConsumeOnce
    <3> QED
      BY <2>1, <3>1 DEF IInv
  <2>3. CASE UNCHANGED vars
    BY <2>1, <2>3 DEF vars, IInv, DeadLettersAreTerminal, OneInHand, NoRunStranded, Carried,
       Entries, BeingAcked, RunOf
  <2> QED
    BY <2>2, <2>3
<1>2. IInv => NoRunStranded
  BY DEF IInv
<1> QED
  BY InitIInv, <1>1, <1>2, PTL DEF Spec

-------------------------------------------------------------------------------
(***************************************************************************)
(* TwoDrivesHaveACause: but for the runs that went through the ZSET a run  *)
(* has one entry, and but for the outlived ones an entry has one holder.   *)
(***************************************************************************)

\* A run is in the ZSET, or on its way back from it, because it was retried.
OnlyRetriedReturn ==
    /\ delayed \subseteq retried
    /\ \A w \in Workers : promoting[w] \subseteq retried /\ hand[w] \subseteq retried

OneEntryPerRun ==
    /\ \A r \in Runs : status[r] = "none" => starter[r] = "idle"
    /\ \A r \in retried : starter[r] = "done"
    /\ \A e \in Entries : starter[stream[e]] = "done"
    /\ \A e, f \in Entries : stream[e] = stream[f] => e = f \/ stream[e] \in retried

\* What a worker holds is pending and not idle, and nobody else holds it, unless it was
\* outlived.
Leased ==
    /\ \A w \in Workers : /\ pc[w] \notin Processing => entry[w] = 0
                          /\ entry[w] \notin batch[w]
                          /\ Held(w) \ ({0} \cup outlived) \subseteq pel \ idle
    /\ \A v, w \in Workers : v # w => Held(v) \cap Held(w) \subseteq {0} \cup outlived

Traced == TypeOK /\ OnlyRetriedReturn /\ OneEntryPerRun /\ Leased

LEMMA InitTraced == Init => Traced
BY InitTypes DEF Init, Traced, OnlyRetriedReturn, OneEntryPerRun, Leased, Held, Entries

LEMMA NextOnlyRetried ==
    ASSUME TypeOK, OnlyRetriedReturn, [Next]_vars PROVE OnlyRetriedReturn'
<1>t. promoting \in [Workers -> SUBSET Runs] /\ hand \in [Workers -> SUBSET Runs] /\ due \subseteq delayed
    BY DEF TypeOK, WorkerTypes, QueueTypes
<1>1. CASE \/ \E r \in Runs : Start(r) \/ LoseStart(r) \/ Cancel(r) \/ RetryComesDue(r)
           \/ \E e \in pel : LeaseExpires(e)
           \/ UNCHANGED vars
    BY <1>1 DEF Start, AddRun, StartReads, Enqueue, LoseStart, Cancel, RetryComesDue, LeaseExpires, vars,
       OnlyRetriedReturn
<1>2. ASSUME NEW w \in Workers,
             \/ Claim(w) \/ TakeClaimed(w) \/ Read(w) \/ Load(w) \/ CheckStep(w) \/ Execute(w)
             \/ BodySucceeds(w) \/ BodyTransient(w) \/ BodyFails(w)
             \/ FailRun(w) \/ DeadLetter(w) \/ SucceedRun(w) \/ Ack(w) \/ Restart(w)
      PROVE  OnlyRetriedReturn'
    <2>1. UNCHANGED <<delayed, retried, promoting, hand>>
        BY Zenon, <1>2 DEF Claim, TakeClaimed, Read, Load, CheckStep, Execute, BodySucceeds, BodyTransient,
           BodyFails, FailRun, DeadLetter, SucceedRun, Ack, Restart
    <2> QED
        BY <2>1 DEF OnlyRetriedReturn
<1>3. ASSUME NEW w \in Workers, ScanDelayed(w) \/ PromoteRemove(w) PROVE OnlyRetriedReturn'
    BY <1>t, <1>3 DEF ScanDelayed, PromoteRemove, OnlyRetriedReturn
<1>4. ASSUME NEW w \in Workers, PromoteAdd(w) \/ Crash(w) PROVE OnlyRetriedReturn'
    BY <1>t, <1>4 DEF PromoteAdd, Crash, OnlyRetriedReturn
<1>5. ASSUME NEW w \in Workers, Defer(w) PROVE OnlyRetriedReturn'
    BY <1>t, <1>5 DEF Defer, OnlyRetriedReturn
<1> QED
    BY <1>1, <1>2, <1>3, <1>4, <1>5 DEF Next, ConsumeOnce

\* An XADD of a run that has no entry yet, or was retried before.
LEMMA OneMoreEntry ==
    ASSUME Traced, NEW r \in Runs, stream' = Append(stream, r), UNCHANGED <<status, retried>>,
           \A e \in Entries : stream[e] = r => r \in retried,
           starter' = [starter EXCEPT ![r] = "done"], starter[r] # "idle"
    PROVE  OneEntryPerRun'
<1>t. /\ stream \in Seq(Runs) /\ \A e \in Entries : stream[e] \in Runs
      /\ starter \in [Runs -> {"idle", "spawned", "enqueue", "done", "lost"}] /\ retried \subseteq Runs
    BY DEF Traced, TypeOK, QueueTypes, DbTypes, FaultTypes, Entries
<1> DEFINE n == Len(stream)
<1>1. /\ Entries = 1..n /\ Entries' = 1..(n + 1) /\ n \in Nat
      /\ stream'[n + 1] = r
      /\ \A e \in 1..n : stream'[e] = stream[e]
    BY <1>t, AppendKeepsEntries DEF Entries
<1> HIDE DEF n
<1>2. \A e \in Entries' : e \in 1..n \/ e = n + 1
    BY <1>1
<1>3. \A q \in Runs : starter[q] = "done" \/ q = r => starter'[q] = "done"
    BY <1>t
<1>4. /\ \A e \in Entries' : starter'[stream'[e]] = "done"
      /\ \A q \in retried' : starter'[q] = "done"
    <2>1. \A e \in 1..n : stream[e] \in Runs /\ starter[stream[e]] = "done"
        BY <1>t, <1>1 DEF Traced, OneEntryPerRun
    <2>2. ASSUME NEW e \in Entries' PROVE starter'[stream'[e]] = "done"
        BY <1>1, <1>2, <1>3, <2>1
    <2>3. \A q \in retried : starter'[q] = "done"
        BY <1>t, <1>3 DEF Traced, OneEntryPerRun
    <2> QED
        BY <2>2, <2>3
<1>5. \A e, f \in 1..n : stream[e] = stream[f] => e = f \/ stream[e] \in retried
    BY <1>1 DEF Traced, OneEntryPerRun
<1>6. \A e \in 1..n : stream[e] = r => r \in retried
    BY <1>1
<1>7. ASSUME NEW e \in Entries', NEW f \in Entries', stream'[e] = stream'[f], e # f
      PROVE  stream'[e] \in retried'
    <2>1. CASE e \in 1..n /\ f \in 1..n
        BY <1>1, <1>5, <1>7, <2>1
    <2>2. CASE e = n + 1 \/ f = n + 1
        <3>1. stream'[e] = r /\ (e \in 1..n \/ f \in 1..n)
            BY <1>1, <1>2, <1>7, <2>2
        <3>2. r \in retried
            BY <1>1, <1>6, <1>7, <3>1
        <3> QED
            BY <3>1, <3>2
    <2> QED
        BY <1>2, <2>1, <2>2
<1>8. \A q \in Runs : status'[q] = "none" => starter'[q] = "idle"
    BY <1>t DEF Traced, OneEntryPerRun
<1> QED
    BY <1>4, <1>7, <1>8 DEF OneEntryPerRun

\* Only AddRun, the XADDs and Defer touch what OneEntryPerRun is about.
LEMMA NextOneEntry ==
    ASSUME Traced, [Next]_vars PROVE OneEntryPerRun'
<1>t. /\ stream \in Seq(Runs) /\ \A e \in Entries : stream[e] \in Runs
      /\ starter \in [Runs -> {"idle", "spawned", "enqueue", "done", "lost"}]
      /\ DbTypes /\ retried \subseteq Runs
    BY DEF Traced, TypeOK, QueueTypes, DbTypes, FaultTypes, Entries
<1>1. ASSUME NEW r \in Runs, Enqueue(r) PROVE OneEntryPerRun'
    <2>1. /\ stream' = Append(stream, r) /\ starter' = [starter EXCEPT ![r] = "done"]
          /\ starter[r] = "enqueue" /\ UNCHANGED <<status, retried>>
        BY <1>1 DEF Enqueue
    <2>2. \A e \in Entries : stream[e] # r
        BY <2>1 DEF Traced, OneEntryPerRun
    <2> QED
        BY <2>1, <2>2, OneMoreEntry
<1>2. ASSUME NEW r \in Runs, AddRun(r) PROVE OneEntryPerRun'
    <2>1. r \notin retried /\ \A e \in Entries : stream[e] # r
        BY <1>2 DEF AddRun, Traced, OneEntryPerRun
    <2> QED
        BY <1>t, <1>2, <2>1 DEF AddRun, Traced, OneEntryPerRun, Entries, DbTypes
<1>3. ASSUME NEW r \in Runs, StartReads(r) \/ LoseStart(r) PROVE OneEntryPerRun'
    <2>1. r \notin retried /\ \A e \in Entries : stream[e] # r
        BY <1>3 DEF StartReads, LoseStart, Traced, OneEntryPerRun
    <2> QED
        BY <1>t, <1>3, <2>1 DEF StartReads, LoseStart, Traced, OneEntryPerRun, Entries, DbTypes
<1>4. ASSUME UNCHANGED <<stream, starter, retried>>, StatusOnlyEnds PROVE OneEntryPerRun'
    <2>1. \A r \in Runs : status'[r] = "none" => status[r] = "none"
        BY <1>t, <1>4 DEF StatusOnlyEnds, Terminal, DbTypes
    <2> QED
        BY <1>4, <2>1 DEF Traced, OneEntryPerRun, Entries
<1>5. ASSUME NEW r \in Runs, Cancel(r) \/ RetryComesDue(r) PROVE OneEntryPerRun'
    BY <1>4, <1>5 DEF Cancel, RetryComesDue, StatusOnlyEnds, Terminal
<1>6. CASE \E e \in pel : LeaseExpires(e)
    BY <1>4, <1>6 DEF LeaseExpires, StatusOnlyEnds
<1>7. ASSUME NEW w \in Workers, ConsumeOnce(w) \/ Crash(w) \/ Restart(w),
             ~PromoteAdd(w), ~FailRun(w), ~SucceedRun(w), ~Defer(w)
      PROVE OneEntryPerRun'
    <2>1. UNCHANGED <<stream, starter, status, retried>>
        BY Zenon, <1>7 DEF ConsumeOnce, Claim, TakeClaimed, ScanDelayed, PromoteRemove, Read, Load, CheckStep,
            Execute, BodySucceeds, BodyTransient, BodyFails, DeadLetter, Ack, Crash, Restart
    <2> QED
        BY <1>4, <2>1 DEF StatusOnlyEnds
<1>8. ASSUME NEW w \in Workers, FailRun(w) \/ SucceedRun(w) PROVE OneEntryPerRun'
    <2>1. RunOf(w) \in Runs
        BY <1>8, EntryNamesRun DEF Traced, TypeOK, FailRun, SucceedRun, Processing
    <2> QED
        BY <1>4, <1>8, <2>1 DEF FailRun, SucceedRun, StatusOnlyEnds, Terminal
<1>9. ASSUME NEW w \in Workers, PromoteAdd(w) PROVE OneEntryPerRun'
    <2>1. PICK r \in hand[w] : stream' = Append(stream, r)
        BY <1>9 DEF PromoteAdd
    <2>2. r \in retried /\ r \in Runs /\ starter[r] = "done" /\ UNCHANGED <<status, starter, retried>>
        BY <1>t, <1>9 DEF PromoteAdd, Traced, OnlyRetriedReturn, OneEntryPerRun
    <2>3. starter' = [starter EXCEPT ![r] = "done"]
        BY <1>t, <2>2
    <2> QED
        BY <2>1, <2>2, <2>3, OneMoreEntry
<1>10. ASSUME NEW w \in Workers, Defer(w) PROVE OneEntryPerRun'
    <2>1. entry[w] \in Entries /\ RunOf(w) = stream[entry[w]]
        BY <1>10, EntryNamesRun DEF Traced, TypeOK, Defer, Processing, RunOf
    <2>2. retried' = retried \cup {RunOf(w)} /\ UNCHANGED <<stream, starter, status>>
        BY <1>10 DEF Defer
    <2> QED
        BY <2>1, <2>2 DEF Traced, OneEntryPerRun, Entries
<1>11. CASE UNCHANGED vars
    BY <1>4, <1>11 DEF vars, StatusOnlyEnds
<1> QED
    BY <1>1, <1>2, <1>3, <1>5, <1>6, <1>7, <1>8, <1>9, <1>10, <1>11 DEF Next, Start

\* A worker that keeps to what it holds, or lets go of it; what it lets go of need not
\* stay pending.
LEMMA LeasesKept ==
    ASSUME Leased, idle' \subseteq idle, UNCHANGED outlived, NEW w \in Workers,
           \A v \in Workers : v # w => pc'[v] = pc[v] /\ entry'[v] = entry[v] /\ batch'[v] = batch[v],
           pel \ Held(w) \subseteq pel', Held(w)' \ {0} \subseteq Held(w),
           \A e \in Held(w)' \ {0} : e \in pel => e \in pel',
           pc'[w] \notin Processing => entry'[w] = 0, entry'[w] \notin batch'[w]
    PROVE  Leased'
<1>1. \A v \in Workers : v # w => Held(v)' = Held(v)
    BY DEF Held
<1>2. \A v \in Workers : v # w => Held(v) \ ({0} \cup outlived) \subseteq pel' \ idle'
    BY DEF Leased
<1>3. \A v \in Workers : v # w => Held(v)' \cap Held(w)' \subseteq {0} \cup outlived
    BY <1>1 DEF Leased
<1>4. \A v \in Workers : Held(v)' \ ({0} \cup outlived) \subseteq pel' \ idle'
    BY <1>1, <1>2 DEF Leased
<1> QED
    BY <1>1, <1>3, <1>4 DEF Leased

LEMMA NextLeased ==
    ASSUME Traced, [Next]_vars PROVE Leased'
<1>t. /\ TypeOK /\ Leased
      /\ pc \in [Workers -> Labels] /\ entry \in [Workers -> 0..delivered]
      /\ batch \in [Workers -> SUBSET (1..delivered)]
      /\ pel \subseteq 1..delivered /\ idle \subseteq pel /\ delivered \in Nat
      /\ \A w \in Workers : pc[w] \in Processing => entry[w] # 0
    BY DEF Traced, TypeOK, WorkerTypes, QueueTypes
<1>1. ASSUME NEW w \in Workers, Claim(w) PROVE Leased'
    <2>1. PICK S \in SUBSET idle : batch' = [batch EXCEPT ![w] = S] /\ idle' = idle \ S
        BY <1>1 DEF Claim
    <2>2. /\ pc' = [pc EXCEPT ![w] = "reclaim"] /\ UNCHANGED <<entry, pel, outlived>>
          /\ entry[w] = 0 /\ 0 \notin S
        BY <1>t, <1>1 DEF Claim, Goto, Leased, Processing
    <2>3. \A v \in Workers : Held(v)' = IF v = w THEN S \cup {0} ELSE Held(v)
        BY <1>t, <2>1, <2>2 DEF Held
    <2>4. \A v \in Workers : Held(v) \cap S \subseteq outlived
        BY <1>t, <2>2 DEF Leased
    <2>5. \A v \in Workers : Held(v)' \ ({0} \cup outlived') \subseteq pel' \ idle'
        BY <1>t, <2>1, <2>2, <2>3, <2>4 DEF Leased
    <2>6. \A v, u \in Workers : v # u => Held(v)' \cap Held(u)' \subseteq {0} \cup outlived'
        BY <1>t, <2>2, <2>3, <2>4 DEF Leased
    <2>7. \A v \in Workers : (pc'[v] \notin Processing => entry'[v] = 0) /\ entry'[v] \notin batch'[v]
        BY <1>t, <2>1, <2>2 DEF Leased
    <2> QED
        BY <2>5, <2>6, <2>7 DEF Leased
<1>2. ASSUME NEW w \in Workers, TakeClaimed(w) PROVE Leased'
    <2>1. PICK e \in batch[w] : /\ entry' = [entry EXCEPT ![w] = e]
                                /\ batch' = [batch EXCEPT ![w] = @ \ {e}]
        BY <1>2 DEF TakeClaimed
    <2>2. pc' = [pc EXCEPT ![w] = "load"] /\ UNCHANGED <<pel, idle, outlived>>
        BY <1>2 DEF TakeClaimed, Goto
    <2>3. Held(w)' \ {0} \subseteq Held(w)
        BY <1>t, <2>1 DEF Held
    <2> QED
        BY <1>t, <2>1, <2>2, <2>3, LeasesKept DEF Processing
<1>3. ASSUME NEW w \in Workers, Read(w), delivered < Len(stream) PROVE Leased'
    <2>1. /\ pel' = pel \cup {delivered + 1} /\ UNCHANGED <<batch, idle, outlived>>
          /\ entry' = [entry EXCEPT ![w] = delivered + 1]
          /\ pc' = [pc EXCEPT ![w] = "load"]
        BY <1>t, <1>3 DEF Read, Goto
    <2>2. delivered + 1 \notin pel /\ delivered + 1 \notin idle /\ delivered + 1 # 0
          /\ \A v \in Workers : delivered + 1 \notin Held(v) /\ delivered + 1 \notin batch[v]
        BY <1>t DEF Held
    <2>3. \A v \in Workers : Held(v)' = IF v = w THEN batch[w] \cup {delivered + 1} ELSE Held(v)
        BY <1>t, <2>1 DEF Held
    <2>4. batch[w] \subseteq Held(w) /\ 0 \notin batch[w]
        BY <1>t DEF Held
    <2>5. \A v \in Workers : Held(v)' \ ({0} \cup outlived') \subseteq pel' \ idle'
        BY <2>1, <2>2, <2>3, <2>4, <1>t DEF Leased
    <2>6. \A v, u \in Workers : v # u => Held(v)' \cap Held(u)' \subseteq {0} \cup outlived'
        BY <1>t, <2>1, <2>2, <2>3, <2>4 DEF Leased
    <2>7. \A v \in Workers : (pc'[v] \notin Processing => entry'[v] = 0) /\ entry'[v] \notin batch'[v]
        BY <1>t, <2>1, <2>2 DEF Leased, Processing
    <2> QED
        BY <2>5, <2>6, <2>7 DEF Leased
<1>4. ASSUME NEW w \in Workers, Ack(w) PROVE Leased'
    <2>1. /\ pel' = pel \ {entry[w]} /\ idle' = idle \ {entry[w]} /\ UNCHANGED <<batch, outlived>>
          /\ entry' = [entry EXCEPT ![w] = 0] /\ pc' = [pc EXCEPT ![w] = resume[w]]
        BY <1>4 DEF Ack, Goto
    <2>2. entry[w] # 0 /\ entry[w] \notin batch[w] /\ 0 \notin batch[w]
        BY <1>t, <1>4 DEF Ack, Processing, Leased
    <2>3. Held(w)' = batch[w] \cup {0} /\ Held(w) = batch[w] \cup {entry[w]}
        BY <1>t, <2>1 DEF Held
    <2>4. \A e \in Held(w)' \ {0} : e \in pel => e \in pel'
        BY <2>1, <2>2, <2>3
    <2>5. pel \ Held(w) \subseteq pel' /\ Held(w)' \ {0} \subseteq Held(w) /\ idle' \subseteq idle
        BY <2>1, <2>3
    <2>6. entry'[w] = 0 /\ entry'[w] \notin batch'[w]
        BY <1>t, <2>1, <2>2
    <2>7. \A v \in Workers : v # w => pc'[v] = pc[v] /\ entry'[v] = entry[v] /\ batch'[v] = batch[v]
        BY <1>t, <2>1
    <2> QED
        BY <1>t, <2>1, <2>4, <2>5, <2>6, <2>7, LeasesKept
<1>5. ASSUME NEW w \in Workers, Crash(w) PROVE Leased'
    <2>1. /\ entry' = [entry EXCEPT ![w] = 0] /\ batch' = [batch EXCEPT ![w] = {}]
          /\ pc' = [pc EXCEPT ![w] = "down"] /\ UNCHANGED <<pel, idle, outlived>>
        BY <1>5 DEF Crash, Goto
    <2>2. Held(w)' = {0}
        BY <1>t, <2>1 DEF Held
    <2> QED
        BY <1>t, <2>1, <2>2, LeasesKept
<1>6. ASSUME NEW e \in pel, LeaseExpires(e) PROVE Leased'
    <2>1. /\ idle' = idle \cup {e} /\ outlived \subseteq outlived'
          /\ (\E w \in Workers : e \in Held(w)) => e \in outlived'
        BY <1>6 DEF LeaseExpires
    <2>2. UNCHANGED <<pel, entry, batch, pc>> /\ \A w \in Workers : Held(w)' = Held(w)
        BY <1>6 DEF LeaseExpires, Held
    <2>3. \A w \in Workers : Held(w)' \ ({0} \cup outlived') \subseteq pel' \ idle'
        BY <1>t, <2>1, <2>2 DEF Leased
    <2>4. \A v, w \in Workers : v # w => Held(v)' \cap Held(w)' \subseteq {0} \cup outlived'
        BY <1>t, <2>1, <2>2 DEF Leased
    <2> QED
        BY <1>t, <2>2, <2>3, <2>4 DEF Leased
<1>7. ASSUME NEW w \in Workers, NEW l, pc' = [pc EXCEPT ![w] = l],
             l \notin Processing => pc[w] \notin Processing,
             UNCHANGED <<pel, idle, entry, batch, outlived>>
      PROVE Leased'
    <2>1. \A v \in Workers : Held(v)' = Held(v)
        BY <1>7 DEF Held
    <2>2. \A v \in Workers : pc'[v] \notin Processing => entry[v] = 0
        BY <1>t, <1>7 DEF Leased
    <2> QED
        BY <1>t, <1>7, <2>1, <2>2 DEF Leased
<1>8. ASSUME NEW w \in Workers, ScanDelayed(w) \/ Restart(w) \/ (Read(w) /\ ~(delivered < Len(stream)))
      PROVE Leased'
    BY <1>7, <1>8 DEF ScanDelayed, Restart, Read, Goto, Processing
<1>9. ASSUME NEW w \in Workers, NEW l \in Processing, Goto(w, l),
             UNCHANGED <<pel, idle, entry, batch, outlived>>
      PROVE Leased'
    BY <1>7, <1>9 DEF Goto
<1>10. ASSUME NEW w \in Workers,
              Load(w) \/ BodySucceeds(w) \/ BodyTransient(w) \/ BodyFails(w)
                \/ Defer(w) \/ FailRun(w) \/ DeadLetter(w) \/ SucceedRun(w)
       PROVE Leased'
    BY <1>9, <1>10 DEF Load, BodySucceeds, BodyTransient, BodyFails, Defer, FailRun, DeadLetter,
       SucceedRun, Processing
<1>11. ASSUME UNCHANGED <<pc, pel, idle, entry, batch, outlived>> PROVE Leased'
    BY <1>t, <1>11 DEF Leased, Held
<1>12. ASSUME NEW w \in Workers, CheckStep(w) \/ Execute(w) \/ PromoteRemove(w) \/ PromoteAdd(w)
       PROVE Leased'
    BY <1>9, <1>11, <1>12 DEF CheckStep, Execute, PromoteRemove, PromoteAdd, Processing
<1>13. CASE \/ \E r \in Runs : Start(r) \/ LoseStart(r) \/ Cancel(r) \/ RetryComesDue(r)
            \/ UNCHANGED vars
    BY <1>11, <1>13 DEF Start, AddRun, StartReads, Enqueue, LoseStart, Cancel, RetryComesDue, vars
<1> QED
    BY <1>1, <1>2, <1>3, <1>4, <1>5, <1>6, <1>8, <1>10, <1>12, <1>13 DEF Next, ConsumeOnce

\* Two workers at one entry share an outlived lease; at two entries of one run, a retry.
LEMMA TracedHasACause == Traced => TwoDrivesHaveACause
<1> SUFFICES ASSUME Traced, NEW v \in Workers, NEW w \in Workers, v # w,
                    pc[v] \in Driving, pc[w] \in Driving, RunOf(v) = RunOf(w)
             PROVE  IF entry[v] = entry[w] THEN entry[v] \in outlived ELSE RunOf(v) \in retried
    BY DEF TwoDrivesHaveACause
<1>1. entry[v] \in Entries /\ entry[w] \in Entries /\ entry[v] # 0
    BY EntryNamesRun DEF Traced, TypeOK, WorkerTypes, Driving, Processing
<1>2. CASE entry[v] = entry[w]
    BY <1>1, <1>2 DEF Traced, Leased, Held
<1>3. CASE entry[v] # entry[w]
    BY <1>1, <1>3 DEF Traced, OneEntryPerRun, RunOf
<1> QED
    BY <1>2, <1>3

\* Two workers drive one run only over an entry whose lease ran out while one of them
\* was at work, or after the run went through the ZSET: for any number of workers,
\* whoever dies, is cancelled or is slow (consume_once, _promote_due_delayed and
\* _process_entry in redis_streams.py).
THEOREM TwoDrivesExplained == Spec => []TwoDrivesHaveACause
<1>1. Traced /\ [Next]_vars => Traced'
    BY TypeStep, NextOnlyRetried, NextOneEntry, NextLeased DEF Traced
<1> QED
    BY InitTraced, <1>1, TracedHasACause, PTL DEF Spec

\* So where neither ever happened, nobody else drives the run one drives.
COROLLARY NoCauseNoSecondDrive ==
    Spec /\ [](retried = {} /\ outlived = {}) => []ExclusiveDrive
<1>1. TwoDrivesHaveACause /\ retried = {} /\ outlived = {} => ExclusiveDrive
    BY DEF TwoDrivesHaveACause, ExclusiveDrive
<1> QED
    BY <1>1, TwoDrivesExplained, PTL

-------------------------------------------------------------------------------
(***************************************************************************)
(* What exclusive drives make of attempts and dead letters.  A worker is   *)
(* at a run while it drives it or has its dead letter to write; only then  *)
(* can it change anything that the two properties speak of.                *)
(***************************************************************************)

Active == Driving \cup {"dlq"}

\* The numbers a worker goes by are those of the record it is about to write.
Numbered(w) ==
    /\ pc[w] \in {"execute", "body"} => attempt[w] = RecordOf(w).attempts + 1
    /\ pc[w] = "body" => tries[w] = RecordOf(w).attempts + 1 /\ ~Memoized(w)
    /\ pc[w] \in Driving => status[RunOf(w)] # "none"

\* A step at its ceiling that has not succeeded has failed its run, or is about to.
Spent(r, s) ==
    /\ records[r][s].status # "succeeded"
    /\ records[r][s].attempts >= MaxAttempts[s] + crashes
SpentEnds(r) ==
    \A s \in Steps : Spent(r, s) =>
        /\ status[r] \in Terminal \/ \E w \in Workers : pc[w] = "failrun" /\ RunOf(w) = r
        /\ \A w \in Workers : pc[w] \in Driving /\ RunOf(w) = r => pc[w] = "failrun"

Ceiling ==
    /\ \A w \in Workers : Numbered(w)
    /\ \A r \in Runs : SpentEnds(r)
    /\ AttemptsBounded

\* What a step of a worker that is at no run, or of none, leaves as it is.
Aside ==
    /\ UNCHANGED <<records, dlq>>
    /\ \A w \in Workers : pc[w] \in Active \/ pc'[w] \in Active =>
          /\ UNCHANGED <<pc[w], entry[w], step[w], attempt[w], tries[w]>>
          /\ RunOf(w)' = RunOf(w)

\* Entries are added, never changed.
LEMMA StreamGrows ==
    ASSUME TypeOK, [Next]_vars
    PROVE  /\ \A e \in Entries : e \in Entries' /\ stream'[e] = stream[e]
           /\ \A w \in Workers : pc[w] \in Processing /\ entry'[w] = entry[w] => RunOf(w)' = RunOf(w)
<1>t. stream \in Seq(Runs) /\ \A w \in Workers : hand[w] \subseteq Runs
    BY DEF TypeOK, QueueTypes, WorkerTypes
<1>1. UNCHANGED stream \/ \E r \in Runs : stream' = Append(stream, r)
    <2>1. ASSUME NEW r \in Runs, Start(r) \/ LoseStart(r) \/ Cancel(r) \/ RetryComesDue(r)
          PROVE  UNCHANGED stream \/ stream' = Append(stream, r)
        BY <2>1 DEF Start, AddRun, StartReads, Enqueue, LoseStart, Cancel, RetryComesDue
    <2>2. ASSUME NEW w \in Workers, ConsumeOnce(w) \/ Crash(w) \/ Restart(w), ~PromoteAdd(w)
          PROVE  UNCHANGED stream
        BY Zenon, <2>2 DEF ConsumeOnce, Claim, TakeClaimed, ScanDelayed, PromoteRemove, Read, Load,
           CheckStep, Execute, BodySucceeds, BodyTransient, BodyFails, Defer, FailRun, DeadLetter,
           SucceedRun, Ack, Crash, Restart
    <2>3. ASSUME NEW w \in Workers, PromoteAdd(w) PROVE \E r \in Runs : stream' = Append(stream, r)
        BY <1>t, <2>3 DEF PromoteAdd
    <2>4. ASSUME NEW e \in pel, LeaseExpires(e) PROVE UNCHANGED stream
        BY <2>4 DEF LeaseExpires
    <2>5. CASE UNCHANGED vars
        BY <2>5 DEF vars
    <2> QED
        BY <2>1, <2>2, <2>3, <2>4, <2>5 DEF Next
<1>2. \A e \in Entries : e \in Entries' /\ stream'[e] = stream[e]
    <2>1. CASE UNCHANGED stream
        BY <2>1 DEF Entries
    <2>2. ASSUME NEW r \in Runs, stream' = Append(stream, r)
          PROVE \A e \in Entries : e \in Entries' /\ stream'[e] = stream[e]
        <3>1. /\ Len(stream) \in Nat /\ Len(stream') = Len(stream) + 1
              /\ \A i \in 1..Len(stream) : stream'[i] = stream[i]
            BY <1>t, <2>2, AppendKeepsEntries
        <3> QED
            BY <3>1 DEF Entries
    <2> QED
        BY <1>1, <2>1, <2>2
<1>3. \A w \in Workers : pc[w] \in Processing => entry[w] \in Entries
    BY EntryNamesRun DEF TypeOK
<1> QED
    BY <1>2, <1>3 DEF RunOf

\* Everything but the drive itself happens aside of it.
LEMMA AsideSteps ==
    ASSUME TypeOK, [Next]_vars, NEW w \in Workers,
           \/ Claim(w) \/ TakeClaimed(w) \/ ScanDelayed(w) \/ PromoteRemove(w) \/ PromoteAdd(w)
           \/ Read(w) \/ Defer(w) \/ Ack(w) \/ Restart(w)
    PROVE  Aside /\ UNCHANGED <<status, crashes>>
<1>t. /\ pc \in [Workers -> Labels] /\ entry \in [Workers -> 0..delivered]
      /\ step \in [Workers -> 1..(NumSteps + 1)] /\ attempt \in [Workers -> Nat]
      /\ tries \in [Workers -> Nat] /\ resume \in [Workers -> {"idle", "reclaim"}]
    BY DEF TypeOK, WorkerTypes, DriveTypes
<1>1. /\ pc[w] \notin Active /\ pc'[w] \notin Active /\ UNCHANGED <<records, status, dlq, crashes>>
      /\ \A v \in Workers : v # w => UNCHANGED <<pc[v], entry[v], step[v], attempt[v], tries[v]>>
    <2>1. CASE Claim(w) \/ TakeClaimed(w) \/ ScanDelayed(w) \/ Restart(w)
        BY <1>t, <2>1 DEF Claim, TakeClaimed, ScanDelayed, Restart, Goto, Active, Driving
    <2>2. CASE PromoteRemove(w) \/ PromoteAdd(w) \/ Read(w)
        BY <1>t, <2>2 DEF PromoteRemove, PromoteAdd, Read, Goto, Active, Driving
    <2>3. CASE Defer(w) \/ Ack(w)
        BY <1>t, <2>3 DEF Defer, Ack, ForgetDrive, Goto, Active, Driving
    <2> QED
        BY <2>1, <2>2, <2>3
<1>2. \A v \in Workers : pc[v] \in Active /\ entry'[v] = entry[v] => RunOf(v)' = RunOf(v)
    BY StreamGrows DEF Active, Driving, Processing
<1> QED
    BY <1>1, <1>2 DEF Aside

LEMMA AsideOfAll ==
    ASSUME TypeOK, [Next]_vars,
           \/ \E r \in Runs : Start(r) \/ LoseStart(r) \/ Cancel(r) \/ RetryComesDue(r)
           \/ \E e \in pel : LeaseExpires(e)
           \/ UNCHANGED vars
    PROVE  Aside
<1>1. UNCHANGED <<records, dlq, pc, entry, step, attempt, tries>>
    BY DEF Start, AddRun, StartReads, Enqueue, LoseStart, Cancel, RetryComesDue, LeaseExpires, vars
<1>2. \A v \in Workers : pc[v] \in Active => RunOf(v)' = RunOf(v)
    BY <1>1, StreamGrows DEF Active, Driving, Processing
<1> QED
    BY <1>1, <1>2 DEF Aside

\* A step of a drive: nobody else moves, and no other run's records change.
LEMMA DriveSteps ==
    ASSUME TypeOK, [Next]_vars, NEW w \in Workers,
           \/ Load(w) \/ CheckStep(w) \/ Execute(w) \/ BodySucceeds(w) \/ BodyTransient(w)
           \/ BodyFails(w) \/ FailRun(w) \/ DeadLetter(w) \/ SucceedRun(w) \/ Crash(w)
    PROVE  /\ \A v \in Workers : v # w => UNCHANGED <<pc[v], entry[v], step[v], attempt[v], tries[v]>>
           /\ \A v \in Workers : v # w /\ pc[v] \in Active => RunOf(v)' = RunOf(v)
           /\ \A r \in Runs : (pc[w] \in Driving => RunOf(w) # r) => records'[r] = records[r]
           /\ ~Crash(w) => /\ pc[w] \in Processing /\ RunOf(w) \in Runs
                           /\ RunOf(w)' = RunOf(w) /\ UNCHANGED <<crashes, entry>>
<1>t. /\ pc \in [Workers -> Labels] /\ entry \in [Workers -> 0..delivered]
      /\ step \in [Workers -> 1..(NumSteps + 1)] /\ attempt \in [Workers -> Nat]
      /\ tries \in [Workers -> Nat]
    BY DEF TypeOK, WorkerTypes, DriveTypes
<1>1. \A v \in Workers : v # w => UNCHANGED <<pc[v], entry[v], step[v], attempt[v], tries[v]>>
    <2>1. CASE Load(w) \/ CheckStep(w) \/ Execute(w) \/ BodySucceeds(w) \/ BodyTransient(w)
        BY <1>t, <2>1 DEF Load, CheckStep, Execute, BodySucceeds, BodyTransient, Goto
    <2>2. CASE BodyFails(w) \/ FailRun(w) \/ DeadLetter(w) \/ SucceedRun(w) \/ Crash(w)
        BY <1>t, <2>2 DEF BodyFails, FailRun, DeadLetter, SucceedRun, Crash, ForgetDrive, Goto
    <2> QED
        BY <2>1, <2>2
<1>2. \A v \in Workers : pc[v] \in Active /\ entry'[v] = entry[v] => RunOf(v)' = RunOf(v)
    BY StreamGrows DEF Active, Driving, Processing
<1>3. \A r \in Runs : (pc[w] \in Driving => RunOf(w) # r) => records'[r] = records[r]
    <2>1. CASE Load(w) \/ CheckStep(w) \/ Execute(w) \/ FailRun(w) \/ DeadLetter(w) \/ SucceedRun(w)
               \/ Crash(w)
        <3>1. records' = records
            BY <2>1 DEF Load, CheckStep, Execute, FailRun, DeadLetter, SucceedRun, Crash
        <3> QED
            BY <3>1
    <2>2. CASE BodySucceeds(w) \/ BodyTransient(w) \/ BodyFails(w)
        BY <2>2 DEF BodySucceeds, BodyTransient, BodyFails, SaveRecord, Driving, TypeOK, DbTypes
    <2> QED
        BY <2>1, <2>2
<1>4. ~Crash(w) => pc[w] \in Processing /\ UNCHANGED <<crashes, entry>>
    BY DEF Load, CheckStep, Execute, BodySucceeds, BodyTransient, BodyFails, FailRun, DeadLetter,
       SucceedRun, Processing
<1>5. ~Crash(w) => RunOf(w) \in Runs /\ RunOf(w)' = RunOf(w)
    BY <1>4, EntryNamesRun, StreamGrows DEF TypeOK
<1> QED
    BY <1>1, <1>2, <1>3, <1>4, <1>5

LEMMA InitCeiling == Init => Ceiling
BY EngineAssumption DEF Init, Ceiling, Numbered, SpentEnds, Spent, AttemptsBounded, Driving, NoRecord, Steps

LEMMA CountsTyped ==
    ASSUME TypeOK
    PROVE  /\ crashes \in Nat /\ \A s \in Steps : MaxAttempts[s] \in Nat
           /\ \A r \in Runs, s \in Steps : records[r][s].attempts \in Nat
           /\ \A w \in Workers : attempt[w] \in Nat /\ tries[w] \in Nat
           /\ \A w \in Workers : pc[w] \in Processing => RunOf(w) \in Runs
           /\ \A w \in Workers : pc[w] \in Located => step[w] \in Steps
BY EngineAssumption, EntryNamesRun DEF TypeOK, FaultTypes, DbTypes, DriveTypes, Steps, Located

LEMMA AsideCeiling ==
    ASSUME TypeOK, TypeOK', Ceiling, Aside, crashes' >= crashes,
           \A r \in Runs : /\ status[r] \in Terminal => status'[r] \in Terminal
                           /\ status[r] # "none" => status'[r] # "none"
    PROVE  Ceiling'
<1>1. ASSUME NEW w \in Workers PROVE Numbered(w)'
    <2> SUFFICES ASSUME pc'[w] \in Driving PROVE Numbered(w)'
        BY DEF Numbered, Driving
    <2>1. /\ pc[w] = pc'[w] /\ UNCHANGED <<step[w], attempt[w], tries[w], records>>
          /\ RunOf(w)' = RunOf(w) /\ RunOf(w) \in Runs
        BY CountsTyped DEF Aside, Active, Driving, Processing
    <2>2. RecordOf(w)' = RecordOf(w)
        BY <2>1 DEF RecordOf
    <2> QED
        BY <2>1, <2>2 DEF Numbered, Ceiling, Memoized
<1>2. ASSUME NEW r \in Runs PROVE SpentEnds(r)'
    <2> SUFFICES ASSUME NEW s \in Steps, Spent(r, s)'
                 PROVE  /\ (status[r] \in Terminal \/ \E w \in Workers : pc[w] = "failrun" /\ RunOf(w) = r)'
                        /\ (\A w \in Workers : pc[w] \in Driving /\ RunOf(w) = r => pc[w] = "failrun")'
        BY DEF SpentEnds
    <2>1. Spent(r, s)
        BY CountsTyped DEF Spent, Aside, TypeOK, FaultTypes
    <2> QED
        BY <2>1 DEF Ceiling, SpentEnds, Aside, Active, Driving
<1>3. AttemptsBounded'
    BY CountsTyped DEF Ceiling, AttemptsBounded, Aside, TypeOK, FaultTypes
<1> QED
    BY <1>1, <1>2, <1>3 DEF Ceiling

\* What the drive of one run means for the numbers of the other runs.
LEMMA OthersKeepCeiling ==
    ASSUME TypeOK, TypeOK', Ceiling, ExclusiveDrive, [Next]_vars, NEW w \in Workers,
           \/ Load(w) \/ CheckStep(w) \/ Execute(w) \/ BodySucceeds(w) \/ BodyTransient(w)
           \/ BodyFails(w) \/ FailRun(w) \/ DeadLetter(w) \/ SucceedRun(w)
    PROVE  /\ \A v \in Workers : v # w => Numbered(v)'
           /\ \A r \in Runs : r # RunOf(w) => SpentEnds(r)'
           /\ UNCHANGED RunOf(w)
<1>d. /\ \A v \in Workers : v # w => UNCHANGED <<pc[v], entry[v], step[v], attempt[v], tries[v]>>
      /\ \A v \in Workers : v # w /\ pc[v] \in Active => RunOf(v)' = RunOf(v)
      /\ \A r \in Runs : (pc[w] \in Driving => RunOf(w) # r) => records'[r] = records[r]
      /\ RunOf(w) \in Runs /\ RunOf(w)' = RunOf(w) /\ UNCHANGED crashes
    <2>1. ~Crash(w)
        BY DEF Load, CheckStep, Execute, BodySucceeds, BodyTransient, BodyFails, FailRun, DeadLetter,
           SucceedRun, Crash, Goto, TypeOK, WorkerTypes
    <2> QED
        BY <2>1, DriveSteps
<1>s. \A r \in Runs : /\ status[r] # "none" => status'[r] # "none"
                      /\ r # RunOf(w) => status'[r] = status[r]
    BY DEF Load, CheckStep, Execute, BodySucceeds, BodyTransient, BodyFails, FailRun, DeadLetter,
       SucceedRun, TypeOK, DbTypes
<1>1. ASSUME NEW v \in Workers, v # w PROVE Numbered(v)'
    <2> SUFFICES ASSUME pc'[v] \in Driving PROVE Numbered(v)'
        BY DEF Numbered, Driving
    <2>1. pc[v] \in Driving /\ RunOf(v)' = RunOf(v) /\ RunOf(v) \in Runs
        BY <1>1, <1>d, CountsTyped DEF Active, Driving, Processing
    <2>2. records'[RunOf(v)] = records[RunOf(v)]
        BY <1>1, <1>d, <2>1 DEF ExclusiveDrive
    <2>3. RecordOf(v)' = RecordOf(v)
        BY <1>1, <1>d, <2>1, <2>2 DEF RecordOf
    <2> QED
        BY <1>1, <1>d, <1>s, <2>1, <2>3 DEF Numbered, Ceiling, Memoized
<1>2. ASSUME NEW r \in Runs, r # RunOf(w) PROVE SpentEnds(r)'
    BY <1>2, <1>d, <1>s DEF SpentEnds, Spent, Ceiling, Active, Driving
<1> QED
    BY <1>1, <1>2, <1>d

\* A worker that drives and is not failing the run has no step at its ceiling.
LEMMA DrivingIsUnspent ==
    ASSUME TypeOK, Ceiling, NEW w \in Workers, pc[w] \in {"step", "execute", "body"}, NEW s \in Steps
    PROVE  ~Spent(RunOf(w), s)
BY CountsTyped DEF Ceiling, SpentEnds, Driving, Processing

\* Only the body's outcome is saved.
LEMMA SavesOne ==
    ASSUME TypeOK, NEW w \in Workers, pc[w] = "body", NEW outcome, NEW n, SaveRecord(w, outcome, n)
    PROVE  \A r \in Runs, s \in Steps :
              records'[r][s] = IF r = RunOf(w) /\ s = step[w]
                               THEN [status |-> outcome, attempts |-> n] ELSE records[r][s]
<1>1. RunOf(w) \in Runs /\ step[w] \in Steps
    BY CountsTyped DEF Processing, Located
<1>2. records' = [records EXCEPT ![RunOf(w)] =
                     [records[RunOf(w)] EXCEPT ![step[w]] = [status |-> outcome, attempts |-> n]]]
    BY DEF SaveRecord
<1> QED
    BY <1>1, <1>2 DEF TypeOK, DbTypes

LEMMA SavedWithinBound ==
    ASSUME TypeOK, Ceiling, NEW w \in Workers, pc[w] = "body"
    PROVE  /\ attempt[w] <= MaxAttempts[step[w]] + crashes
           /\ tries[w] <= MaxAttempts[step[w]] + crashes
<1>1. RunOf(w) \in Runs /\ step[w] \in Steps /\ ~Spent(RunOf(w), step[w]) /\ Numbered(w)
    BY CountsTyped, DrivingIsUnspent DEF Processing, Located, Ceiling
<1>2. RecordOf(w).attempts < MaxAttempts[step[w]] + crashes
    BY <1>1, CountsTyped DEF Numbered, Spent, Memoized, RecordOf
<1> QED
    BY <1>1, <1>2, CountsTyped DEF Numbered, RecordOf

LEMMA BodyCeiling ==
    ASSUME TypeOK, TypeOK', Ceiling, ExclusiveDrive, [Next]_vars, NEW w \in Workers,
           BodySucceeds(w) \/ BodyTransient(w) \/ BodyFails(w)
    PROVE  Numbered(w)' /\ SpentEnds(RunOf(w))' /\ AttemptsBounded'
<1>d. /\ \A v \in Workers : v # w => UNCHANGED <<pc[v], entry[v]>>
      /\ \A v \in Workers : v # w /\ pc[v] \in Active => RunOf(v)' = RunOf(v)
      /\ RunOf(w) \in Runs /\ RunOf(w)' = RunOf(w) /\ UNCHANGED crashes
    <2>1. ~Crash(w)
        BY DEF BodySucceeds, BodyTransient, BodyFails, Crash, Goto, TypeOK, WorkerTypes
    <2> QED
        BY <2>1, DriveSteps
<1>p. pc[w] = "body" /\ step[w] \in Steps
      /\ pc'[w] \in {"step", "defer", "failrun"} /\ UNCHANGED <<status, crashes>>
    BY CountsTyped DEF BodySucceeds, BodyTransient, BodyFails, Goto, TypeOK, WorkerTypes, Located
<1>1. PICK outcome, n : /\ SaveRecord(w, outcome, n)
                        /\ n <= MaxAttempts[step[w]] + crashes
                        /\ \/ outcome = "succeeded" \/ n < MaxAttempts[step[w]]
                           \/ pc'[w] = "failrun"
                        /\ n \in Nat
    <2>1. CASE BodySucceeds(w)
        BY <1>p, <2>1, SavedWithinBound, CountsTyped DEF BodySucceeds
    <2>2. CASE BodyTransient(w)
        <3>1. SaveRecord(w, "pending", attempt[w]) /\ attempt[w] < MaxAttempts[step[w]]
            BY <2>2 DEF BodyTransient, RetryAllowed
        <3> QED
            BY <1>p, <3>1, SavedWithinBound, CountsTyped
    <2>3. CASE BodyFails(w)
        <3>1. SaveRecord(w, "failed", attempt[w]) /\ pc'[w] = "failrun"
            BY <2>3 DEF BodyFails, Goto, TypeOK, WorkerTypes
        <3> QED
            BY <1>p, <3>1, SavedWithinBound, CountsTyped
    <2> QED
        BY <2>1, <2>2, <2>3
<1>2. \A r \in Runs, s \in Steps :
          records'[r][s] = IF r = RunOf(w) /\ s = step[w]
                           THEN [status |-> outcome, attempts |-> n] ELSE records[r][s]
    BY <1>p, <1>1, SavesOne
<1>3. AttemptsBounded'
    BY <1>1, <1>2, <1>d DEF AttemptsBounded, Ceiling
<1>4. Numbered(w)'
    BY <1>p, <1>d DEF Numbered, Ceiling, Driving
<1>5. SpentEnds(RunOf(w))'
    <2>1. ASSUME NEW s \in Steps, Spent(RunOf(w), s)' PROVE pc'[w] = "failrun"
        <3>1. ~Spent(RunOf(w), s)
            BY <1>p, DrivingIsUnspent
        <3>2. CASE s # step[w]
            BY <1>2, <1>d, <2>1, <3>1, <3>2 DEF Spent
        <3>3. CASE s = step[w]
            <4>1. records'[RunOf(w)][s] = [status |-> outcome, attempts |-> n]
                BY <1>2, <1>d, <3>3
            <4> QED
                BY <1>1, <1>d, <2>1, <3>3, <4>1, CountsTyped DEF Spent
        <3> QED
            BY <3>2, <3>3
    <2>2. \A v \in Workers : v # w /\ pc'[v] \in Driving => RunOf(v)' # RunOf(w)
        BY <1>p, <1>d DEF ExclusiveDrive, Driving, Active
    <2> QED
        BY <1>d, <2>1, <2>2 DEF SpentEnds
<1> QED
    BY <1>3, <1>4, <1>5

\* The other steps of a drive save nothing.
LEMMA SilentCeiling ==
    ASSUME TypeOK, TypeOK', Ceiling, ExclusiveDrive, ExclusiveDrive', [Next]_vars, NEW w \in Workers,
           Load(w) \/ CheckStep(w) \/ Execute(w) \/ FailRun(w) \/ DeadLetter(w) \/ SucceedRun(w)
    PROVE  Numbered(w)' /\ SpentEnds(RunOf(w))' /\ AttemptsBounded'
<1>d. /\ \A v \in Workers : v # w => UNCHANGED <<pc[v], entry[v]>>
      /\ \A v \in Workers : v # w /\ pc[v] \in Active => RunOf(v)' = RunOf(v)
      /\ RunOf(w) \in Runs /\ RunOf(w)' = RunOf(w) /\ UNCHANGED crashes
    <2>1. ~Crash(w)
        BY DEF Load, CheckStep, Execute, FailRun, DeadLetter, SucceedRun, Crash, Goto, TypeOK, WorkerTypes
    <2> QED
        BY <2>1, DriveSteps
<1>r. UNCHANGED records /\ pc \in [Workers -> Labels] /\ step \in [Workers -> 1..(NumSteps + 1)]
      /\ attempt \in [Workers -> Nat] /\ tries \in [Workers -> Nat]
    BY DEF Load, CheckStep, Execute, FailRun, DeadLetter, SucceedRun, TypeOK, WorkerTypes, DriveTypes
<1>1. AttemptsBounded'
    BY <1>d, <1>r DEF AttemptsBounded, Ceiling
<1>2. \A s \in Steps : Spent(RunOf(w), s)' <=> Spent(RunOf(w), s)
    BY <1>d, <1>r DEF Spent
<1>3. Numbered(w)'
    <2>1. CASE Load(w) \/ FailRun(w) \/ DeadLetter(w) \/ SucceedRun(w)
        BY <1>d, <1>r, <2>1 DEF Load, FailRun, DeadLetter, SucceedRun, Goto, Numbered, Driving
    <2>2. CASE CheckStep(w)
        <3>1. status'[RunOf(w)] # "none" /\ pc[w] = "step"
            BY <2>2 DEF CheckStep, Ceiling, Numbered, Driving
        <3>2. CASE Memoized(w)
            BY <1>d, <2>2, <3>1, <3>2 DEF CheckStep, Numbered
        <3>3. CASE ~Memoized(w)
            <4>1. /\ attempt'[w] = RecordOf(w).attempts + 1 /\ pc'[w] = "execute"
                  /\ RecordOf(w)' = RecordOf(w)
                BY <1>d, <1>r, <2>2, <3>3 DEF CheckStep, Goto, RecordOf
            <4> QED
                BY <1>d, <3>1, <4>1 DEF Numbered
        <3> QED
            BY <3>2, <3>3
    <2>3. CASE Execute(w)
        <3>1. /\ status'[RunOf(w)] # "none" /\ pc[w] = "execute" /\ attempt' = attempt
              /\ attempt[w] = RecordOf(w).attempts + 1
            BY <2>3 DEF Execute, Ceiling, Numbered, Driving
        <3>2. CASE Memoized(w)
            BY <1>d, <1>r, <2>3, <3>1, <3>2 DEF Execute, Goto, Numbered
        <3>3. CASE ~Memoized(w)
            <4>1. /\ tries'[w] = RecordOf(w).attempts + 1 /\ pc'[w] = "body"
                  /\ RecordOf(w)' = RecordOf(w)
                BY <1>d, <1>r, <2>3, <3>3 DEF Execute, Goto, RecordOf
            <4> QED
                BY <1>d, <3>1, <3>3, <4>1 DEF Numbered, Memoized
        <3> QED
            BY <3>2, <3>3
    <2> QED
        BY <2>1, <2>2, <2>3
<1>4. SpentEnds(RunOf(w))'
    <2> SUFFICES ASSUME NEW s \in Steps, Spent(RunOf(w), s)
                 PROVE  /\ \/ status'[RunOf(w)] \in Terminal
                           \/ \E v \in Workers : pc'[v] = "failrun" /\ RunOf(v)' = RunOf(w)
                        /\ \A v \in Workers : pc'[v] \in Driving /\ RunOf(v)' = RunOf(w)
                                                 => pc'[v] = "failrun"
        BY <1>d, <1>2 DEF SpentEnds
    <2>1. /\ status[RunOf(w)] \in Terminal \/ \E v \in Workers : pc[v] = "failrun" /\ RunOf(v) = RunOf(w)
          /\ \A v \in Workers : pc[v] \in Driving /\ RunOf(v) = RunOf(w) => pc[v] = "failrun"
        BY <1>d DEF Ceiling, SpentEnds
    <2>2. ~CheckStep(w) /\ ~Execute(w) /\ ~SucceedRun(w)
        BY <2>1 DEF CheckStep, Execute, SucceedRun, Driving
    <2>3. CASE FailRun(w)
        <3>1. status'[RunOf(w)] \in Terminal /\ pc'[w] = "dlq" /\ pc[w] = "failrun"
            BY <1>d, <1>r, <2>3 DEF FailRun, Goto, Terminal, TypeOK, DbTypes
        <3>2. \A v \in Workers : v # w /\ pc'[v] \in Driving => RunOf(v)' # RunOf(w)
            BY <1>d, <3>1 DEF ExclusiveDrive, Driving, Active
        <3> QED
            BY <3>1, <3>2 DEF Driving
    <2>4. CASE DeadLetter(w)
        <3>1. status' = status /\ pc'[w] = "ack" /\ pc[w] = "dlq"
            BY <1>r, <2>4 DEF DeadLetter, Goto
        <3> QED
            BY <1>d, <2>1, <3>1 DEF Driving, Active
    <2>5. CASE Load(w)
        <3>1. /\ status' = status /\ pc[w] = "load"
              /\ \/ pc'[w] = "ack" /\ status[RunOf(w)] \in Terminal
                 \/ pc'[w] = "step" /\ status[RunOf(w)] \notin Terminal
            BY <1>r, <2>5 DEF Load, Goto, Terminal
        <3>2. ASSUME pc'[w] = "step" PROVE FALSE
            <4>1. PICK v \in Workers : pc[v] = "failrun" /\ RunOf(v) = RunOf(w)
                BY <2>1, <3>1, <3>2
            <4>2. v # w /\ pc'[v] = "failrun" /\ RunOf(v)' = RunOf(w)'
                BY <1>d, <3>1, <4>1 DEF Active, Driving
            <4> QED
                BY <3>2, <4>2 DEF ExclusiveDrive, Driving
        <3> QED
            BY <1>d, <2>1, <3>1, <3>2 DEF Driving, Active
    <2> QED
        BY <2>2, <2>3, <2>4, <2>5
<1> QED
    BY <1>1, <1>3, <1>4

LEMMA CrashCeiling ==
    ASSUME TypeOK, TypeOK', Ceiling, [Next]_vars, NEW w \in Workers, Crash(w)
    PROVE  Ceiling'
<1>d. /\ \A v \in Workers : v # w => UNCHANGED <<pc[v], entry[v], step[v], attempt[v], tries[v]>>
      /\ \A v \in Workers : v # w /\ pc[v] \in Active => RunOf(v)' = RunOf(v)
    BY DriveSteps
<1>r. UNCHANGED <<records, status>> /\ crashes' = crashes + 1 /\ pc'[w] = "down"
    BY DEF Crash, Goto, TypeOK, WorkerTypes
<1>1. ASSUME NEW v \in Workers PROVE Numbered(v)'
    <2> SUFFICES ASSUME pc'[v] \in Driving PROVE Numbered(v)'
        BY DEF Numbered, Driving
    <2>1. v # w /\ pc[v] \in Driving /\ RunOf(v)' = RunOf(v) /\ UNCHANGED <<pc[v], step[v], attempt[v], tries[v]>>
        BY <1>d, <1>r DEF Driving, Active
    <2>2. RecordOf(v)' = RecordOf(v)
        BY <1>r, <2>1 DEF RecordOf
    <2> QED
        BY <1>r, <2>1, <2>2 DEF Numbered, Ceiling, Memoized
<1>2. \A r \in Runs, s \in Steps : ~Spent(r, s)'
    BY <1>r, CountsTyped DEF Spent, Ceiling, AttemptsBounded
<1>3. AttemptsBounded'
    BY <1>r, CountsTyped DEF Ceiling, AttemptsBounded
<1> QED
    BY <1>1, <1>2, <1>3 DEF Ceiling, SpentEnds

\* The driver and the others, its run and the others.
LEMMA OneAndOthers ==
    ASSUME NEW w \in Workers
    PROVE  /\ Numbered(w)' /\ (\A v \in Workers : v # w => Numbered(v)')
                => \A v \in Workers : Numbered(v)'
           /\ SpentEnds(RunOf(w))' /\ (\A r \in Runs : r # RunOf(w) => SpentEnds(r)') /\ UNCHANGED RunOf(w)
                => \A r \in Runs : SpentEnds(r)'
BY DEF Numbered, Memoized, RecordOf, RunOf, SpentEnds, Spent

LEMMA NextCeiling ==
    ASSUME TypeOK, TypeOK', Ceiling, ExclusiveDrive, ExclusiveDrive', [Next]_vars
    PROVE  Ceiling'
<1>t. status \in [Runs -> {"none", "running", "succeeded", "failed"}] /\ crashes \in Nat
    BY DEF TypeOK, DbTypes, FaultTypes
<1>1. CASE \/ \E r \in Runs : Start(r) \/ LoseStart(r) \/ Cancel(r) \/ RetryComesDue(r)
           \/ \E e \in pel : LeaseExpires(e)
           \/ UNCHANGED vars
    <2>1. Aside
        BY <1>1, AsideOfAll
    <2>2. /\ crashes' >= crashes
          /\ \A r \in Runs : /\ status[r] \in Terminal => status'[r] \in Terminal
                             /\ status[r] # "none" => status'[r] # "none"
        BY <1>1, <1>t DEF Start, AddRun, StartReads, Enqueue, LoseStart, Cancel, RetryComesDue,
           LeaseExpires, vars, Terminal
    <2> QED
        BY <2>1, <2>2, AsideCeiling
<1>2. ASSUME NEW w \in Workers,
             \/ Claim(w) \/ TakeClaimed(w) \/ ScanDelayed(w) \/ PromoteRemove(w) \/ PromoteAdd(w)
             \/ Read(w) \/ Defer(w) \/ Ack(w) \/ Restart(w)
      PROVE  Ceiling'
    <2>1. Aside /\ UNCHANGED <<status, crashes>>
        BY <1>2, AsideSteps
    <2> QED
        BY <1>t, <2>1, AsideCeiling
<1>3. ASSUME NEW w \in Workers, BodySucceeds(w) \/ BodyTransient(w) \/ BodyFails(w)
      PROVE  Ceiling'
    <2>1. Numbered(w)' /\ SpentEnds(RunOf(w))' /\ AttemptsBounded'
        BY <1>3, BodyCeiling
    <2>2. /\ \A v \in Workers : v # w => Numbered(v)'
          /\ (\A r \in Runs : r # RunOf(w) => SpentEnds(r)') /\ UNCHANGED RunOf(w)
        BY <1>3, OthersKeepCeiling
    <2> QED
        BY <2>1, <2>2, OneAndOthers DEF Ceiling
<1>4. ASSUME NEW w \in Workers,
             Load(w) \/ CheckStep(w) \/ Execute(w) \/ FailRun(w) \/ DeadLetter(w) \/ SucceedRun(w)
      PROVE  Ceiling'
    <2>1. Numbered(w)' /\ SpentEnds(RunOf(w))' /\ AttemptsBounded'
        BY <1>4, SilentCeiling
    <2>2. /\ \A v \in Workers : v # w => Numbered(v)'
          /\ (\A r \in Runs : r # RunOf(w) => SpentEnds(r)') /\ UNCHANGED RunOf(w)
        BY <1>4, OthersKeepCeiling
    <2> QED
        BY <2>1, <2>2, OneAndOthers DEF Ceiling
<1> QED
    BY <1>1, <1>2, <1>3, <1>4, CrashCeiling DEF Next, ConsumeOnce

\* Wherever no two workers drive a run at once, a step has its ceiling of attempts and
\* one more for each crash, however often the run's entry is delivered (_drive and
\* _handle_transient_failure in redis_streams.py).
THEOREM AttemptsCeiling == Spec /\ []ExclusiveDrive => []AttemptsBounded
<1>1. TypeOK /\ Ceiling /\ ExclusiveDrive /\ ExclusiveDrive' /\ [Next]_vars => Ceiling'
    BY TypeStep, NextCeiling
<1>2. Ceiling => AttemptsBounded
    BY DEF Ceiling
<1> QED
    BY InitCeiling, TypeCorrect, <1>1, <1>2, PTL DEF Spec

\* One worker is never two: with a single one nothing else has to be assumed.
THEOREM OneWorkerKeepsCeiling ==
    ASSUME NEW w, Workers = {w}
    PROVE  Spec => []AttemptsBounded
<1>1. ExclusiveDrive
    BY DEF ExclusiveDrive
<1> QED
    BY <1>1, AttemptsCeiling, PTL

-------------------------------------------------------------------------------
(***************************************************************************)
(* Dead letters, while nobody cancels a run.  The failed runs that have    *)
(* no letter and no worker to write one are those of the workers that died *)
(* between the two writes: no more of them than of crashes.                *)
(***************************************************************************)

WritesLetter(w, r) == pc[w] = "dlq" /\ RunOf(w) = r

\* A run that has ended is driven by nobody; a letter, or one worker that writes it, is
\* for a failed run, and there is one of the two at most.
Verdict(r) ==
    /\ status[r] \in Terminal => \A w \in Workers : ~(pc[w] \in Driving /\ RunOf(w) = r)
    /\ status[r] # "failed" => dlq[r] = 0 /\ \A w \in Workers : ~WritesLetter(w, r)
    /\ dlq[r] \in {0, 1}
    /\ dlq[r] = 1 => \A w \in Workers : ~WritesLetter(w, r)
    /\ \A v, w \in Workers : WritesLetter(v, r) /\ WritesLetter(w, r) => v = w

Unlettered ==
    {r \in Runs : status[r] = "failed" /\ dlq[r] = 0 /\ \A w \in Workers : ~WritesLetter(w, r)}

Counted == IsFiniteSet(Unlettered) /\ Cardinality(Unlettered) <= crashes

Letters == (\A r \in Runs : Verdict(r)) /\ Counted

LEMMA InitLetters == Init => Letters
<1> SUFFICES ASSUME Init PROVE Letters
    OBVIOUS
<1>1. \A r \in Runs : Verdict(r)
    BY DEF Init, Verdict, WritesLetter, Terminal, Driving
<1>2. Unlettered = {}
    BY DEF Init, Unlettered
<1> QED
    BY <1>1, <1>2, FS_EmptySet DEF Letters, Counted, Init

\* The runs without a letter are counted as long as a step adds none, or one at a crash.
LEMMA CountedKept ==
    ASSUME TypeOK, Counted, crashes' \in Nat, crashes <= crashes', Unlettered' \subseteq Unlettered
    PROVE  Counted'
<1>1. IsFiniteSet(Unlettered') /\ Cardinality(Unlettered') <= Cardinality(Unlettered)
    BY FS_Subset DEF Counted
<1>2. Cardinality(Unlettered') \in Nat /\ Cardinality(Unlettered) \in Nat
    BY <1>1, FS_CardinalityType DEF Counted
<1> QED
    BY <1>1, <1>2 DEF Counted, TypeOK, FaultTypes

LEMMA CountedByCrash ==
    ASSUME TypeOK, Counted, crashes' = crashes + 1, NEW r, Unlettered' \subseteq Unlettered \cup {r}
    PROVE  Counted'
<1> DEFINE U == Unlettered \cup {r}
<1>1. IsFiniteSet(U) /\ Cardinality(U) <= Cardinality(Unlettered) + 1
    <2>1. IsFiniteSet(Unlettered)
        BY DEF Counted
    <2>2. Cardinality(Unlettered) \in Nat
        BY <2>1, FS_CardinalityType
    <2>3. /\ IsFiniteSet(U)
          /\ Cardinality(U) = Cardinality(Unlettered) \/ Cardinality(U) = Cardinality(Unlettered) + 1
        BY <2>1, FS_AddElement, Zenon
    <2> QED
        BY <2>2, <2>3
<1> HIDE DEF U
<1>2. IsFiniteSet(Unlettered') /\ Cardinality(Unlettered') <= Cardinality(U)
    BY <1>1, FS_Subset DEF U
<1>3. Cardinality(Unlettered') \in Nat /\ Cardinality(Unlettered) \in Nat /\ Cardinality(U) \in Nat
    BY <1>1, <1>2, FS_CardinalityType DEF Counted
<1> QED
    BY <1>1, <1>2, <1>3 DEF Counted, TypeOK, FaultTypes

LEMMA AsideLetters ==
    ASSUME TypeOK, Letters, Aside, crashes' \in Nat, crashes <= crashes',
           \A r \in Runs : status'[r] # status[r] => status[r] = "none" /\ status'[r] = "running"
    PROVE  Letters'
<1>1. ASSUME NEW r \in Runs, NEW w \in Workers
      PROVE  /\ (pc'[w] \in Driving /\ RunOf(w)' = r) <=> (pc[w] \in Driving /\ RunOf(w) = r)
             /\ WritesLetter(w, r)' <=> WritesLetter(w, r)
    BY DEF Aside, Active, Driving, WritesLetter
<1>2. dlq' = dlq
    BY DEF Aside
<1>3. ASSUME NEW r \in Runs PROVE Verdict(r)'
    <2>1. Verdict(r)
        BY DEF Letters
    <2> QED
        BY <1>1, <1>2, <2>1 DEF Verdict, Terminal
<1>4. Unlettered' \subseteq Unlettered
    BY <1>1, <1>2 DEF Unlettered
<1> QED
    BY <1>3, <1>4, CountedKept DEF Letters

\* The worker's step is about its own run: what it leaves of another's.
LEMMA DriveLetters ==
    ASSUME TypeOK, TypeOK', Letters, ExclusiveDrive, [Next]_vars, NEW w \in Workers,
           \/ Load(w) \/ CheckStep(w) \/ Execute(w) \/ BodySucceeds(w) \/ BodyTransient(w)
           \/ BodyFails(w) \/ FailRun(w) \/ DeadLetter(w) \/ SucceedRun(w)
    PROVE  Letters'
<1>d. /\ \A v \in Workers : v # w => UNCHANGED <<pc[v], entry[v]>>
      /\ \A v \in Workers : v # w /\ pc[v] \in Active => RunOf(v)' = RunOf(v)
      /\ RunOf(w) \in Runs /\ RunOf(w)' = RunOf(w) /\ crashes' = crashes
    <2>1. ~Crash(w)
        BY DEF Load, CheckStep, Execute, BodySucceeds, BodyTransient, BodyFails, FailRun, DeadLetter,
           SucceedRun, Crash, Goto, TypeOK, WorkerTypes
    <2> QED
        BY <2>1, DriveSteps
<1>t. /\ pc \in [Workers -> Labels] /\ dlq \in [Runs -> Nat]
      /\ status \in [Runs -> {"none", "running", "succeeded", "failed"}]
    BY DEF TypeOK, WorkerTypes, QueueTypes, DbTypes
<1>o. ASSUME NEW v \in Workers, v # w, NEW r \in Runs
      PROVE  /\ (pc'[v] \in Driving /\ RunOf(v)' = r) <=> (pc[v] \in Driving /\ RunOf(v) = r)
             /\ WritesLetter(v, r)' <=> WritesLetter(v, r)
    BY <1>d, <1>o DEF Active, Driving, WritesLetter
<1>r. ASSUME NEW r \in Runs PROVE Verdict(r)' /\ (r \in Unlettered' => r \in Unlettered)
    <2>v. Verdict(r)
        BY DEF Letters
    <2>o. \A v \in Workers : v # w =>
              /\ (pc'[v] \in Driving /\ RunOf(v)' = r) <=> (pc[v] \in Driving /\ RunOf(v) = r)
              /\ WritesLetter(v, r)' <=> WritesLetter(v, r)
        BY <1>o
    <2>w. /\ WritesLetter(w, r) <=> pc[w] = "dlq" /\ RunOf(w) = r
          /\ WritesLetter(w, r)' <=> pc'[w] = "dlq" /\ RunOf(w) = r
        BY <1>d DEF WritesLetter
    <2>1. CASE r # RunOf(w)
        <3>1. status'[r] = status[r] /\ dlq'[r] = dlq[r]
            BY <1>t, <2>1 DEF Load, CheckStep, Execute, BodySucceeds, BodyTransient, BodyFails, FailRun,
               DeadLetter, SucceedRun
        <3> QED
            BY <1>d, <2>o, <2>v, <2>w, <2>1, <3>1 DEF Verdict, Unlettered
    <2>2. CASE r = RunOf(w) /\ Load(w)
        <3>1. UNCHANGED <<status, dlq>> /\ pc[w] = "load" /\ pc'[w] \in {"ack", "step"}
              /\ (pc'[w] = "step" => status[r] \notin Terminal)
            BY <1>t, <2>2 DEF Load, Goto, Terminal
        <3> QED
            BY <2>o, <2>v, <2>w, <3>1 DEF Verdict, Driving, Unlettered
    <2>3. CASE r = RunOf(w)
               /\ (CheckStep(w) \/ Execute(w) \/ BodySucceeds(w) \/ BodyTransient(w) \/ BodyFails(w))
        <3>1. UNCHANGED <<status, dlq>> /\ pc[w] \in Driving /\ pc'[w] \in Driving \cup {"defer"}
            BY <1>t, <2>3 DEF CheckStep, Execute, BodySucceeds, BodyTransient, BodyFails, Goto, Driving
        <3>2. status[r] \notin Terminal
            BY <2>v, <2>3, <3>1 DEF Verdict
        <3> QED
            BY <2>o, <2>v, <2>w, <3>1, <3>2 DEF Verdict, Driving, Terminal, Unlettered
    <2>4. CASE r = RunOf(w) /\ (FailRun(w) \/ SucceedRun(w))
        <3>1. /\ pc[w] \in Driving /\ dlq' = dlq
              /\ \/ status'[r] = "failed" /\ pc'[w] = "dlq"
                 \/ status'[r] = "succeeded" /\ pc'[w] = "ack"
            BY <1>t, <2>4 DEF FailRun, SucceedRun, Goto, Driving
        <3>2. status[r] \notin Terminal /\ dlq[r] = 0 /\ \A v \in Workers : ~WritesLetter(v, r)
            BY <2>v, <2>4, <3>1 DEF Verdict, Terminal
        <3>3. \A v \in Workers : v # w => ~(pc[v] \in Driving /\ RunOf(v) = r)
            BY <2>4, <3>1 DEF ExclusiveDrive
        <3>4. \A v \in Workers : v # w => ~WritesLetter(v, r)' /\ ~(pc'[v] \in Driving /\ RunOf(v)' = r)
            BY <2>o, <3>2, <3>3
        <3>5. pc'[w] \notin Driving /\ (WritesLetter(w, r)' <=> status'[r] = "failed")
            BY <2>w, <2>4, <3>1 DEF Driving
        <3> QED
            BY <3>1, <3>2, <3>4, <3>5 DEF Verdict, Unlettered
    <2>5. CASE r = RunOf(w) /\ DeadLetter(w)
        <3>1. pc[w] = "dlq" /\ pc'[w] = "ack" /\ status' = status /\ dlq'[r] = dlq[r] + 1
            BY <1>t, <2>5 DEF DeadLetter, Goto
        <3>2. WritesLetter(w, r) /\ ~WritesLetter(w, r)'
            BY <2>w, <2>5, <3>1
        <3>3. status[r] = "failed" /\ dlq[r] = 0 /\ \A v \in Workers : v # w => ~WritesLetter(v, r)
            BY <2>v, <3>2 DEF Verdict
        <3>4. dlq'[r] = 1 /\ \A v \in Workers : ~WritesLetter(v, r)'
            BY <2>o, <3>1, <3>2, <3>3
        <3>5. \A v \in Workers : ~(pc'[v] \in Driving /\ RunOf(v)' = r)
            BY <2>o, <2>v, <3>1, <3>3 DEF Verdict, Terminal, Driving
        <3> QED
            BY <3>1, <3>3, <3>4, <3>5 DEF Verdict, Unlettered
    <2> QED
        BY <2>1, <2>2, <2>3, <2>4, <2>5
<1>1. Unlettered' \subseteq Unlettered
    BY <1>r DEF Unlettered
<1>2. Counted'
    BY <1>1, <1>d, CountedKept DEF Letters, TypeOK, FaultTypes
<1> QED
    BY <1>r, <1>2 DEF Letters

\* A worker that dies with a letter to write leaves one run without.
LEMMA CrashLetters ==
    ASSUME TypeOK, Letters, [Next]_vars, NEW w \in Workers, Crash(w)
    PROVE  Letters'
<1>1. /\ \A v \in Workers : v # w => UNCHANGED <<pc[v], entry[v]>>
      /\ \A v \in Workers : v # w /\ pc[v] \in Active => RunOf(v)' = RunOf(v)
    BY DriveSteps
<1>2. pc'[w] = "down" /\ crashes' = crashes + 1 /\ UNCHANGED <<status, dlq>>
    BY DEF Crash, Goto, TypeOK, WorkerTypes
<1>3. ASSUME NEW v \in Workers, NEW r \in Runs
      PROVE  /\ (pc'[v] \in Driving /\ RunOf(v)' = r) => (pc[v] \in Driving /\ RunOf(v) = r)
             /\ WritesLetter(v, r)' => WritesLetter(v, r)
             /\ v # w /\ WritesLetter(v, r) => WritesLetter(v, r)'
    BY <1>1, <1>2 DEF Active, Driving, WritesLetter
<1>4. ASSUME NEW r \in Runs PROVE Verdict(r)'
    <2>1. Verdict(r)
        BY DEF Letters
    <2> QED
        BY <1>2, <1>3, <2>1 DEF Verdict
<1>5. Unlettered' \subseteq Unlettered \cup {RunOf(w)}
    <2> SUFFICES ASSUME NEW r \in Unlettered', r # RunOf(w) PROVE r \in Unlettered
        OBVIOUS
    <2>1. \A v \in Workers : ~WritesLetter(v, r)
        BY <1>3 DEF Unlettered, WritesLetter
    <2> QED
        BY <1>2, <2>1 DEF Unlettered
<1> QED
    BY <1>2, <1>4, <1>5, CountedByCrash DEF Letters

LEMMA NextLetters ==
    ASSUME TypeOK, TypeOK', ExclusiveDrive, [Next]_vars, Cancellable = {}, Letters
    PROVE  Letters'
<1>t. crashes \in Nat /\ crashes' \in Nat
    BY DEF TypeOK, FaultTypes
<1>1. CASE \/ \E r \in Runs : Start(r) \/ LoseStart(r) \/ Cancel(r) \/ RetryComesDue(r)
           \/ \E e \in pel : LeaseExpires(e)
           \/ UNCHANGED vars
    <2>1. Aside
        BY <1>1, AsideOfAll
    <2>2. \A r \in Runs : status'[r] # status[r] => status[r] = "none" /\ status'[r] = "running"
        <3>1. CASE \E r \in Runs : AddRun(r)
            BY <3>1 DEF AddRun, TypeOK, DbTypes
        <3>2. CASE ~\E r \in Runs : AddRun(r)
            <4>1. UNCHANGED status
                BY <1>1, <3>2 DEF Start, StartReads, Enqueue, LoseStart, Cancel, RetryComesDue,
                   LeaseExpires, vars
            <4> QED
                BY <4>1
        <3> QED
            BY <3>1, <3>2
    <2>3. crashes' \in {crashes, crashes + 1}
        BY <1>1 DEF Start, AddRun, StartReads, Enqueue, LoseStart, Cancel, RetryComesDue, LeaseExpires, vars
    <2> QED
        BY <1>t, <2>1, <2>2, <2>3, AsideLetters
<1>2. ASSUME NEW w \in Workers,
             \/ Claim(w) \/ TakeClaimed(w) \/ ScanDelayed(w) \/ PromoteRemove(w) \/ PromoteAdd(w)
             \/ Read(w) \/ Defer(w) \/ Ack(w) \/ Restart(w)
      PROVE  Letters'
    <2>1. Aside /\ UNCHANGED <<status, crashes>>
        BY <1>2, AsideSteps
    <2> QED
        BY <1>t, <2>1, AsideLetters
<1>3. ASSUME NEW w \in Workers,
             \/ Load(w) \/ CheckStep(w) \/ Execute(w) \/ BodySucceeds(w) \/ BodyTransient(w)
             \/ BodyFails(w) \/ FailRun(w) \/ DeadLetter(w) \/ SucceedRun(w)
      PROVE  Letters'
    BY <1>3, DriveLetters
<1>4. ASSUME NEW w \in Workers, Crash(w) PROVE Letters'
    BY <1>4, CrashLetters
<1> QED
    BY <1>1, <1>2, <1>3, <1>4 DEF Next, ConsumeOnce

\* Wherever no two workers drive a run at once and nobody cancels one, only failed runs
\* have a dead letter, one each, and each crash costs at most one of them its letter,
\* however many runs there are (_drive, _process_entry and _dead_letter in
\* redis_streams.py).
THEOREM LettersOfTheFailed ==
    ASSUME Cancellable = {}
    PROVE  Spec /\ []ExclusiveDrive => []DeadLetteredOnce
<1>1. TypeOK /\ Letters /\ ExclusiveDrive /\ [Next]_vars => Letters'
    BY TypeStep, NextLetters
<1>2. TypeOK /\ Letters => DeadLetteredOnce
    <2> SUFFICES ASSUME TypeOK, Letters PROVE DeadLetteredOnce
        OBVIOUS
    <2>1. WithoutLetter \subseteq Unlettered
        BY DEF WithoutLetter, Unlettered, Settled, Processing, WritesLetter
    <2>2. IsFiniteSet(WithoutLetter) /\ Cardinality(WithoutLetter) <= Cardinality(Unlettered)
        BY <2>1, FS_Subset DEF Letters, Counted
    <2>3. Cardinality(WithoutLetter) \in Nat /\ Cardinality(Unlettered) \in Nat
        BY <2>2, FS_CardinalityType DEF Letters, Counted
    <2>4. Cardinality(WithoutLetter) <= crashes
        BY <2>2, <2>3 DEF Letters, Counted, TypeOK, FaultTypes
    <2>5. \A r \in Runs : dlq[r] = 0 \/ (dlq[r] = 1 /\ status[r] = "failed")
        BY DEF Letters, Verdict
    <2> QED
        BY <2>4, <2>5 DEF DeadLetteredOnce
<1> QED
    BY InitLetters, TypeCorrect, <1>1, <1>2, PTL DEF Spec

-------------------------------------------------------------------------------
(***************************************************************************)
(* The port's promise, while nobody cancels a run: a run that has ended is *)
(* driven by nobody, its steps succeed in order, and a worker at a step    *)
(* has those before it behind it.                                          *)
(***************************************************************************)

Succeeded(r, s) == records[r][s].status = "succeeded"

Ordered(r) ==
    /\ \A s, t \in Steps : t < s /\ Succeeded(r, s) => Succeeded(r, t)
    /\ status[r] \in Terminal => \A w \in Workers : ~(pc[w] \in Driving /\ RunOf(w) = r)
OnItsWay(w) ==
    /\ pc[w] \notin Driving \cup {"defer", "dlq", "ack"} => step[w] = 1
    /\ pc[w] \in Driving => \A t \in Steps : t < step[w] => Succeeded(RunOf(w), t)

Course ==
    /\ \A r \in Runs : Ordered(r)
    /\ \A w \in Workers : OnItsWay(w)

LEMMA InitCourse == Init => Course
BY DEF Init, Course, Ordered, OnItsWay, Succeeded, Terminal, Driving, NoRecord

\* What leaves the drive aside moves nobody into it.
LEMMA AsideCourse ==
    ASSUME TypeOK, Course, Aside, \A r \in Runs : status'[r] \in Terminal => status[r] \in Terminal,
           \A w \in Workers : \/ UNCHANGED <<pc[w], step[w]>>
                              \/ pc'[w] \in {"defer", "dlq", "ack"}
                              \/ pc'[w] \notin Driving /\ step'[w] = 1
    PROVE  Course'
<1>1. ASSUME NEW r \in Runs PROVE Ordered(r)'
    BY DEF Course, Ordered, Succeeded, Aside, Active
<1>2. ASSUME NEW w \in Workers PROVE OnItsWay(w)'
    BY DEF Course, OnItsWay, Succeeded, Aside, Active, Driving
<1> QED
    BY <1>1, <1>2 DEF Course

LEMMA AsideWorkerCourse ==
    ASSUME TypeOK, Course, [Next]_vars, NEW w \in Workers,
           \/ Claim(w) \/ TakeClaimed(w) \/ ScanDelayed(w) \/ PromoteRemove(w) \/ PromoteAdd(w)
           \/ Read(w) \/ Defer(w) \/ Ack(w) \/ Restart(w)
    PROVE  Course'
<1>t. /\ pc \in [Workers -> Labels] /\ step \in [Workers -> 1..(NumSteps + 1)]
      /\ resume \in [Workers -> {"idle", "reclaim"}] /\ OnItsWay(w)
    BY DEF TypeOK, WorkerTypes, DriveTypes, Course
<1>1. \A v \in Workers : v # w => UNCHANGED <<pc[v], step[v]>>
    <2>1. CASE Claim(w) \/ TakeClaimed(w) \/ ScanDelayed(w) \/ Restart(w)
        BY <1>t, <2>1 DEF Claim, TakeClaimed, ScanDelayed, Restart, Goto
    <2>2. CASE PromoteRemove(w) \/ PromoteAdd(w) \/ Read(w)
        BY <1>t, <2>2 DEF PromoteRemove, PromoteAdd, Read, Goto
    <2>3. CASE Defer(w) \/ Ack(w)
        BY <1>t, <2>3 DEF Defer, Ack, ForgetDrive, Goto
    <2> QED
        BY <2>1, <2>2, <2>3
<1>2. pc'[w] \in {"defer", "dlq", "ack"} \/ (pc'[w] \notin Driving /\ step'[w] = 1)
    <2>1. CASE Claim(w) \/ TakeClaimed(w) \/ ScanDelayed(w) \/ Restart(w)
        BY <1>t, <2>1 DEF Claim, TakeClaimed, ScanDelayed, Restart, Goto, OnItsWay, Driving
    <2>2. CASE PromoteRemove(w) \/ PromoteAdd(w) \/ Read(w)
        BY <1>t, <2>2 DEF PromoteRemove, PromoteAdd, Read, Goto, OnItsWay, Driving
    <2>3. CASE Defer(w) \/ Ack(w)
        BY <1>t, <2>3 DEF Defer, Ack, ForgetDrive, Goto, Driving
    <2> QED
        BY <2>1, <2>2, <2>3
<1>3. Aside /\ UNCHANGED status
    BY AsideSteps
<1> QED
    BY <1>1, <1>2, <1>3, AsideCourse

\* A worker that drives finds its run running.
LEMMA DrivenIsRunning ==
    ASSUME TypeOK, Ceiling, Course, NEW w \in Workers, pc[w] \in Driving
    PROVE  status[RunOf(w)] = "running"
<1>1. RunOf(w) \in Runs /\ Numbered(w) /\ Ordered(RunOf(w))
    BY CountsTyped DEF Ceiling, Course, Driving, Processing
<1> QED
    BY <1>1 DEF Numbered, Ordered, Terminal, TypeOK, DbTypes

\* What a step of the drive does to the run it drives.
LEMMA DriveOnRun ==
    ASSUME TypeOK, TypeOK', Ceiling, Course, ExclusiveDrive, [Next]_vars, NEW w \in Workers,
           \/ Load(w) \/ CheckStep(w) \/ Execute(w) \/ BodySucceeds(w) \/ BodyTransient(w)
           \/ BodyFails(w) \/ FailRun(w) \/ DeadLetter(w) \/ SucceedRun(w),
           NEW r, r = RunOf(w)
    PROVE  \/ \* nothing that the port sees
              /\ UNCHANGED status /\ \A s \in Steps : Succeeded(r, s)' <=> Succeeded(r, s)
           \/ \* a checkpoint
              /\ UNCHANGED status /\ status[r] = "running" /\ step[w] \in Steps
              /\ \A s \in Steps : Succeeded(r, s) <=> s < step[w]
              /\ \A s \in Steps : Succeeded(r, s)' <=> s <= step[w]
           \/ \* the verdict
              /\ status[r] = "running" /\ \A s \in Steps : Succeeded(r, s)' <=> Succeeded(r, s)
              /\ \/ status' = [status EXCEPT ![r] = "failed"]
                 \/ status' = [status EXCEPT ![r] = "succeeded"] /\ \A s \in Steps : Succeeded(r, s)
<1>t. /\ pc[w] \in Processing /\ r \in Runs /\ OnItsWay(w) /\ Numbered(w) /\ Ordered(r)
    <2>1. pc[w] \in Processing
        BY DEF Load, CheckStep, Execute, BodySucceeds, BodyTransient, BodyFails, FailRun, DeadLetter,
           SucceedRun, Processing
    <2> QED
        BY <2>1, CountsTyped DEF Course, Ceiling
<1>1. CASE Load(w) \/ CheckStep(w) \/ Execute(w) \/ DeadLetter(w)
    BY <1>1 DEF Load, CheckStep, Execute, DeadLetter, Succeeded
<1>2. CASE BodySucceeds(w)
    <2>1. pc[w] = "body" /\ step[w] \in Steps /\ SaveRecord(w, "succeeded", tries[w]) /\ UNCHANGED status
        BY <1>2, CountsTyped DEF BodySucceeds, Located
    <2>2. status[r] = "running"
        BY <2>1, DrivenIsRunning DEF Driving
    <2>3. ~Succeeded(r, step[w])
        BY <1>t, <2>1 DEF Numbered, Memoized, RecordOf, Succeeded
    <2>4. \A s \in Steps : s < step[w] => Succeeded(r, s)
        BY <1>t, <2>1 DEF OnItsWay, Driving
    <2>5. \A s \in Steps : Succeeded(r, s) => s < step[w]
        BY <1>t, <2>1, <2>3 DEF Ordered, Steps
    <2>6. \A s \in Steps : Succeeded(r, s)' <=> s = step[w] \/ Succeeded(r, s)
        <3>1. \A q \in Runs, s \in Steps :
                 records'[q][s] = IF q = RunOf(w) /\ s = step[w]
                                  THEN [status |-> "succeeded", attempts |-> tries[w]] ELSE records[q][s]
            BY <2>1, SavesOne
        <3> QED
            BY <1>t, <3>1 DEF Succeeded
    <2>7. \A s \in Steps : Succeeded(r, s)' <=> s <= step[w]
        BY <2>1, <2>4, <2>5, <2>6 DEF Steps
    <2> QED
        BY <2>1, <2>2, <2>4, <2>5, <2>7
<1>3. CASE BodyTransient(w) \/ BodyFails(w)
    <2>1. /\ pc[w] = "body" /\ step[w] \in Steps /\ UNCHANGED status
          /\ \E outcome \in {"pending", "failed"} : SaveRecord(w, outcome, attempt[w])
        BY <1>3, CountsTyped DEF BodyTransient, BodyFails, Located
    <2>2. ~Succeeded(r, step[w])
        BY <1>t, <2>1 DEF Numbered, Memoized, RecordOf, Succeeded
    <2>3. \A s \in Steps : Succeeded(r, s)' <=> Succeeded(r, s)
        <3>1. PICK outcome \in {"pending", "failed"} : SaveRecord(w, outcome, attempt[w])
            BY <2>1
        <3>2. \A q \in Runs, s \in Steps :
                 records'[q][s] = IF q = RunOf(w) /\ s = step[w]
                                  THEN [status |-> outcome, attempts |-> attempt[w]] ELSE records[q][s]
            BY <2>1, <3>1, SavesOne
        <3> QED
            BY <1>t, <2>2, <3>2 DEF Succeeded
    <2> QED
        BY <2>1, <2>3
<1>4. CASE FailRun(w) \/ SucceedRun(w)
    <2>1. pc[w] \in Driving /\ UNCHANGED records
        BY <1>4 DEF FailRun, SucceedRun, Driving
    <2>2. status[r] = "running"
        BY <2>1, DrivenIsRunning
    <2>3. \A s \in Steps : Succeeded(r, s)' <=> Succeeded(r, s)
        BY <2>1 DEF Succeeded
    <2>4. SucceedRun(w) => \A s \in Steps : Succeeded(r, s)
        BY <1>t, <2>1, EngineAssumption DEF SucceedRun, OnItsWay, Steps, TypeOK, DriveTypes
    <2> QED
        BY <1>4, <2>2, <2>3, <2>4 DEF FailRun, SucceedRun
<1> QED
    BY <1>1, <1>2, <1>3, <1>4

LEMMA DriveCourse ==
    ASSUME TypeOK, TypeOK', Ceiling, Course, ExclusiveDrive, [Next]_vars, NEW w \in Workers,
           \/ Load(w) \/ CheckStep(w) \/ Execute(w) \/ BodySucceeds(w) \/ BodyTransient(w)
           \/ BodyFails(w) \/ FailRun(w) \/ DeadLetter(w) \/ SucceedRun(w)
    PROVE  Course'
<1>d. /\ \A v \in Workers : v # w => UNCHANGED <<pc[v], entry[v], step[v]>>
      /\ \A v \in Workers : v # w /\ pc[v] \in Active => RunOf(v)' = RunOf(v)
      /\ \A r \in Runs : (pc[w] \in Driving => RunOf(w) # r) => records'[r] = records[r]
      /\ RunOf(w) \in Runs /\ RunOf(w)' = RunOf(w)
    <2>1. ~Crash(w)
        BY DEF Load, CheckStep, Execute, BodySucceeds, BodyTransient, BodyFails, FailRun, DeadLetter,
           SucceedRun, Crash, Goto, TypeOK, WorkerTypes
    <2> QED
        BY <2>1, DriveSteps
<1>t. /\ pc \in [Workers -> Labels] /\ step \in [Workers -> 1..(NumSteps + 1)]
      /\ status \in [Runs -> {"none", "running", "succeeded", "failed"}]
      /\ OnItsWay(w)
    BY DEF TypeOK, WorkerTypes, DriveTypes, DbTypes, Course
<1>k. \A r \in Runs, s \in Steps : Succeeded(r, s) => Succeeded(r, s)'
    <2> SUFFICES ASSUME NEW r \in Runs, NEW s \in Steps, Succeeded(r, s) PROVE Succeeded(r, s)'
        OBVIOUS
    <2>1. CASE r = RunOf(w)
        <3>1. \/ Succeeded(r, s)' <=> Succeeded(r, s)
              \/ (Succeeded(r, s) <=> s < step[w]) /\ (Succeeded(r, s)' <=> s <= step[w])
            BY <2>1, DriveOnRun
        <3> QED
            BY <1>t, <3>1, EngineAssumption DEF Steps
    <2>2. CASE r # RunOf(w)
        BY <1>d, <2>2 DEF Succeeded
    <2> QED
        BY <2>1, <2>2
<1>1. ASSUME NEW v \in Workers, v # w PROVE OnItsWay(v)'
    BY <1>1, <1>d, <1>k, CountsTyped DEF OnItsWay, Course, Active, Driving, Processing
<1>2. OnItsWay(w)'
    <2>1. CASE Load(w)
        BY <1>t, <2>1, EngineAssumption DEF Load, Goto, OnItsWay, Driving, Steps
    <2>2. CASE BodyTransient(w) \/ BodyFails(w)
        BY <1>d, <1>k, <1>t, <2>2 DEF BodyTransient, BodyFails, Goto, OnItsWay, Driving
    <2>3. CASE FailRun(w) \/ DeadLetter(w) \/ SucceedRun(w)
        BY <1>t, <2>3 DEF FailRun, DeadLetter, SucceedRun, Goto, OnItsWay, Driving
    <2>4. ASSUME pc[w] \in Driving, pc'[w] \in Driving,
                 \/ step'[w] = step[w]
                 \/ step'[w] = step[w] + 1 /\ records'[RunOf(w)][step[w]].status = "succeeded"
          PROVE  OnItsWay(w)'
        <3>1. \A q \in Steps : q < step'[w] => q < step[w] \/ (q = step[w] /\ step'[w] = step[w] + 1)
            BY <1>t, <2>4, EngineAssumption DEF Steps
        <3> QED
            BY <1>d, <1>k, <1>t, <2>4, <3>1 DEF OnItsWay, Succeeded
    <2>5. CASE CheckStep(w) \/ Execute(w)
        <3>1. /\ pc[w] \in Driving /\ pc'[w] \in Driving
              /\ \/ step'[w] = step[w]
                 \/ step'[w] = step[w] + 1 /\ Memoized(w) /\ step[w] \in Steps
            <4>1. CASE CheckStep(w)
                BY <1>t, <4>1, EngineAssumption DEF CheckStep, Goto, Driving, Steps
            <4>2. CASE Execute(w)
                BY <1>t, <4>2, CountsTyped DEF Execute, Goto, Driving, Located
            <4> QED
                BY <2>5, <4>1, <4>2
        <3>2. Memoized(w) /\ step[w] \in Steps => records'[RunOf(w)][step[w]].status = "succeeded"
            BY <1>d, <1>k DEF Memoized, RecordOf, Succeeded
        <3> QED
            BY <2>4, <3>1, <3>2
    <2>6. CASE BodySucceeds(w)
        <3>1. /\ pc[w] = "body" /\ pc'[w] = "step" /\ step'[w] = step[w] + 1
              /\ SaveRecord(w, "succeeded", tries[w]) /\ step[w] \in Steps
            BY <1>t, <2>6, CountsTyped DEF BodySucceeds, Goto, Located
        <3>2. \A q \in Runs, s \in Steps :
                 records'[q][s] = IF q = RunOf(w) /\ s = step[w]
                                  THEN [status |-> "succeeded", attempts |-> tries[w]] ELSE records[q][s]
            BY <3>1, SavesOne
        <3> QED
            BY <1>d, <2>4, <3>1, <3>2 DEF Succeeded, Driving
    <2> QED
        BY <2>1, <2>2, <2>3, <2>5, <2>6
<1>3. ASSUME NEW r \in Runs, r # RunOf(w) PROVE Ordered(r)'
    <2>1. status'[r] = status[r] /\ records'[r] = records[r]
        BY <1>d, <1>t, <1>3 DEF Load, CheckStep, Execute, BodySucceeds, BodyTransient, BodyFails, FailRun,
           DeadLetter, SucceedRun
    <2> QED
        BY <1>d, <1>3, <2>1 DEF Course, Ordered, Succeeded, Active, Driving
<1>4. ASSUME NEW r \in Runs, r = RunOf(w) PROVE Ordered(r)'
    <2>1. \A s, t \in Steps : t < s /\ Succeeded(r, s)' => Succeeded(r, t)'
        <3>1. \/ \A s \in Steps : Succeeded(r, s)' <=> Succeeded(r, s)
              \/ step[w] \in Steps /\ \A s \in Steps : Succeeded(r, s)' <=> s <= step[w]
            BY <1>4, DriveOnRun
        <3>2. \A s, t \in Steps : t < s /\ Succeeded(r, s) => Succeeded(r, t)
            BY <1>4 DEF Course, Ordered
        <3>3. CASE \A s \in Steps : Succeeded(r, s)' <=> Succeeded(r, s)
            BY <3>2, <3>3
        <3>4. CASE step[w] \in Steps /\ \A s \in Steps : Succeeded(r, s)' <=> s <= step[w]
            BY <3>4, EngineAssumption DEF Steps
        <3> QED
            BY <3>1, <3>3, <3>4
    <2>2. ASSUME status'[r] \in Terminal, NEW v \in Workers, pc'[v] \in Driving, RunOf(v)' = r PROVE FALSE
        <3>1. CASE FailRun(w) \/ SucceedRun(w)
            <4>1. pc[w] \in Driving /\ pc'[w] \notin Driving
                BY <1>t, <3>1 DEF FailRun, SucceedRun, Goto, Driving
            <4>2. v # w /\ pc[v] \in Driving /\ RunOf(v) = r
                BY <1>d, <2>2, <4>1 DEF Active, Driving
            <4> QED
                BY <1>4, <4>1, <4>2 DEF ExclusiveDrive
        <3>2. CASE ~(FailRun(w) \/ SucceedRun(w))
            <4>1. status' = status
                BY <3>2 DEF Load, CheckStep, Execute, BodySucceeds, BodyTransient, BodyFails, DeadLetter
            <4>2. status[r] \in Terminal /\ \A u \in Workers : ~(pc[u] \in Driving /\ RunOf(u) = r)
                BY <2>2, <4>1 DEF Course, Ordered
            <4>3. v = w /\ pc[w] \notin Driving
                BY <1>d, <1>4, <2>2, <4>2 DEF Active, Driving
            <4>4. pc'[w] \notin Driving
                BY <1>t, <1>4, <3>2, <4>2, <4>3 DEF Load, CheckStep, Execute, BodySucceeds, BodyTransient,
                   BodyFails, DeadLetter, Goto, Driving, Terminal
            <4> QED
                BY <2>2, <4>3, <4>4
        <3> QED
            BY <3>1, <3>2
    <2>3. \A s, t \in Steps : t < s /\ records'[r][s].status = "succeeded" => records'[r][t].status = "succeeded"
        BY <2>1 DEF Succeeded
    <2> QED
        BY <2>2, <2>3 DEF Ordered, Succeeded
<1> QED
    BY <1>1, <1>2, <1>3, <1>4 DEF Course

LEMMA CrashCourse ==
    ASSUME TypeOK, Course, [Next]_vars, NEW w \in Workers, Crash(w) PROVE Course'
<1>d. /\ \A v \in Workers : v # w => UNCHANGED <<pc[v], step[v]>>
      /\ \A v \in Workers : v # w /\ pc[v] \in Active => RunOf(v)' = RunOf(v)
    BY DriveSteps
<1>1. UNCHANGED <<records, status>> /\ pc'[w] = "down" /\ step'[w] = 1
    BY DEF Crash, Goto, ForgetDrive, TypeOK, WorkerTypes, DriveTypes
<1>2. ASSUME NEW r \in Runs PROVE Ordered(r)'
    BY <1>d, <1>1 DEF Course, Ordered, Succeeded, Active, Driving
<1>3. ASSUME NEW v \in Workers PROVE OnItsWay(v)'
    BY <1>d, <1>1 DEF Course, OnItsWay, Succeeded, Active, Driving
<1> QED
    BY <1>2, <1>3 DEF Course

LEMMA NextCourse ==
    ASSUME TypeOK, TypeOK', Ceiling, Course, ExclusiveDrive, [Next]_vars, Cancellable = {} PROVE Course'
<1>1. CASE \/ \E r \in Runs : Start(r) \/ LoseStart(r) \/ Cancel(r) \/ RetryComesDue(r)
           \/ \E e \in pel : LeaseExpires(e)
           \/ UNCHANGED vars
    <2>1. Aside
        BY <1>1, AsideOfAll
    <2>2. UNCHANGED <<pc, step>>
        BY <1>1 DEF Start, AddRun, StartReads, Enqueue, LoseStart, Cancel, RetryComesDue, LeaseExpires, vars
    <2>3. UNCHANGED status \/ \E r \in Runs : status' = [status EXCEPT ![r] = "running"]
        BY <1>1 DEF Start, AddRun, StartReads, Enqueue, LoseStart, Cancel, RetryComesDue, LeaseExpires, vars
    <2>4. \A r \in Runs : status'[r] \in Terminal => status[r] \in Terminal
        BY <2>3 DEF Terminal, TypeOK, DbTypes
    <2> QED
        BY <2>1, <2>2, <2>4, AsideCourse
<1> QED
    BY <1>1, AsideWorkerCourse, DriveCourse, CrashCourse DEF Next, ConsumeOnce

\* The checkpoints, as the port counts them.
Done == [r \in Runs |-> Checkpointed(r)]

LEMMA PortActions ==
    /\ UNCHANGED <<status, Done>> => [Port!Next]_(Port!abstractVars)
    /\ Port!Init <=> status = [r \in Runs |-> "none"] /\ Done = [r \in Runs |-> 0]
    /\ \A r : Port!Create(r) <=>
          status[r] = "none" /\ status' = [status EXCEPT ![r] = "running"] /\ Done' = Done
    /\ \A r : Port!Checkpoint(r) <=>
          /\ status[r] = "running" /\ Done[r] < NumSteps
          /\ Done' = [Done EXCEPT ![r] = @ + 1] /\ status' = status
    /\ \A r : Port!Succeed(r) <=>
          /\ status[r] = "running" /\ Done[r] = NumSteps
          /\ status' = [status EXCEPT ![r] = "succeeded"] /\ Done' = Done
    /\ \A r : Port!Fail(r) <=>
          status[r] = "running" /\ status' = [status EXCEPT ![r] = "failed"] /\ Done' = Done
BY Zenon DEF Done, Checkpointed, Port!abstractVars, Port!Init, Port!Create, Port!Checkpoint, Port!Succeed,
    Port!Fail

LEMMA CountsPrefix ==
    ASSUME NEW r \in Runs
    PROVE  /\ \A n \in 0..NumSteps : (\A s \in Steps : Succeeded(r, s) <=> s <= n) => Checkpointed(r) = n
           /\ \A n \in 0..NumSteps : (\A s \in Steps : Succeeded(r, s)' <=> s <= n) => Checkpointed(r)' = n
           /\ (\A s \in Steps : Succeeded(r, s)' <=> Succeeded(r, s)) => Checkpointed(r)' = Checkpointed(r)
<1>s. NumSteps \in Nat /\ \A s : s \in Steps <=> s \in 1..NumSteps
    BY EngineAssumption DEF Steps
<1>1. ASSUME NEW n \in 0..NumSteps, \A s \in Steps : Succeeded(r, s) <=> s <= n
      PROVE  Checkpointed(r) = n
    <2>1. {s \in Steps : \A t \in 1..s : records[r][t].status = "succeeded"} = 1..n
        BY <1>s, <1>1 DEF Succeeded
    <2>2. Cardinality(1..n) = n
        BY <1>s, FS_Interval
    <2> QED
        BY <2>1, <2>2 DEF Checkpointed
<1>2. ASSUME NEW n \in 0..NumSteps, \A s \in Steps : Succeeded(r, s)' <=> s <= n
      PROVE  Checkpointed(r)' = n
    <2>1. {s \in Steps : \A t \in 1..s : records'[r][t].status = "succeeded"} = 1..n
        BY <1>s, <1>2 DEF Succeeded
    <2>2. Cardinality(1..n) = n
        BY <1>s, FS_Interval
    <2> QED
        BY <2>1, <2>2 DEF Checkpointed
<1>3. ASSUME \A s \in Steps : Succeeded(r, s)' <=> Succeeded(r, s)
      PROVE  Checkpointed(r)' = Checkpointed(r)
    <2>1. \A s \in Steps : \A t \in 1..s : t \in Steps
        BY <1>s
    <2>2. {s \in Steps : \A t \in 1..s : records'[r][t].status = "succeeded"}
            = {s \in Steps : \A t \in 1..s : records[r][t].status = "succeeded"}
        BY <1>3, <2>1 DEF Succeeded
    <2> QED
        BY <2>2 DEF Checkpointed
<1> QED
    BY <1>1, <1>2, <1>3

LEMMA DriveKeepsPromise ==
    ASSUME TypeOK, TypeOK', Ceiling, Course, ExclusiveDrive, [Next]_vars, NEW w \in Workers,
           \/ Load(w) \/ CheckStep(w) \/ Execute(w) \/ BodySucceeds(w) \/ BodyTransient(w)
           \/ BodyFails(w) \/ FailRun(w) \/ DeadLetter(w) \/ SucceedRun(w)
    PROVE  [Port!Next]_(Port!abstractVars)
<1>d. /\ RunOf(w) \in Runs
      /\ \A r \in Runs : (pc[w] \in Driving => RunOf(w) # r) => records'[r] = records[r]
    <2>1. ~Crash(w)
        BY DEF Load, CheckStep, Execute, BodySucceeds, BodyTransient, BodyFails, FailRun, DeadLetter,
           SucceedRun, Crash, Goto, TypeOK, WorkerTypes
    <2> QED
        BY <2>1, DriveSteps
<1>r. PICK r \in Runs : r = RunOf(w)
    BY <1>d
<1>o. \A q \in Runs : q # r => Checkpointed(q)' = Checkpointed(q)
    BY <1>d, <1>r, CountsPrefix DEF Succeeded
<1>u. (\A s \in Steps : Succeeded(r, s)' <=> Succeeded(r, s)) => Done' = Done
    BY <1>o, CountsPrefix DEF Done
<1>1. CASE UNCHANGED status /\ \A s \in Steps : Succeeded(r, s)' <=> Succeeded(r, s)
    BY <1>1, <1>u, PortActions
<1>2. CASE /\ UNCHANGED status /\ status[r] = "running" /\ step[w] \in Steps
           /\ \A s \in Steps : Succeeded(r, s) <=> s < step[w]
           /\ \A s \in Steps : Succeeded(r, s)' <=> s <= step[w]
    <2> DEFINE n == step[w]
    <2>1. n \in 1..NumSteps /\ n - 1 \in 0..NumSteps /\ n \in 0..NumSteps /\ NumSteps \in Nat
        BY <1>2, EngineAssumption DEF Steps
    <2>2. Checkpointed(r) = n - 1
        <3>1. \A s \in Steps : Succeeded(r, s) <=> s <= n - 1
            BY <1>2, <2>1 DEF Steps
        <3> QED
            BY <2>1, <3>1, CountsPrefix
    <2>3. \A q \in Runs : q = r => Checkpointed(q)' = n
        <3>1. ASSUME NEW q \in Runs, q = r PROVE \A s \in Steps : Succeeded(q, s)' <=> s <= n
            BY <1>2, <3>1 DEF Succeeded
        <3> QED
            BY <2>1, <3>1, CountsPrefix
    <2> HIDE DEF n
    <2>4. Done[r] < NumSteps /\ Done' = [Done EXCEPT ![r] = @ + 1]
        <3>1. \A q \in Runs : Checkpointed(q)' = IF q = r THEN n ELSE Checkpointed(q)
            BY <1>o, <2>3
        <3>2. /\ Done = [q \in Runs |-> Done[q]] /\ Done' = [q \in Runs |-> Done'[q]]
              /\ \A q \in Runs : Done'[q] = Checkpointed(q)' /\ Done[q] = Checkpointed(q)
            BY Zenon DEF Done
        <3> HIDE DEF Done
        <3>3. Done[r] = n - 1 /\ \A q \in Runs : Done'[q] = IF q = r THEN n ELSE Done[q]
            BY <2>2, <3>1, <3>2
        <3> QED
            BY <2>1, <3>2, <3>3
    <2>5. Port!Checkpoint(r)
        BY <1>2, <2>4, PortActions
    <2> QED
        BY <2>5 DEF Port!Next
<1>3. CASE /\ status[r] = "running" /\ \A s \in Steps : Succeeded(r, s)' <=> Succeeded(r, s)
           /\ status' = [status EXCEPT ![r] = "failed"]
    <2>1. Port!Fail(r)
        BY <1>3, <1>u, PortActions
    <2> QED
        BY <2>1 DEF Port!Next
<1>4. CASE /\ status[r] = "running" /\ \A s \in Steps : Succeeded(r, s)' <=> Succeeded(r, s)
           /\ status' = [status EXCEPT ![r] = "succeeded"] /\ \A s \in Steps : Succeeded(r, s)
    <2>1. \A s \in Steps : Succeeded(r, s) <=> s <= NumSteps
        BY <1>4, EngineAssumption DEF Steps
    <2>2. Checkpointed(r) = NumSteps
        <3>1. NumSteps \in 0..NumSteps
            BY EngineAssumption
        <3> QED
            BY <2>1, <3>1, CountsPrefix
    <2>3. Port!Succeed(r)
        <3>1. Done[r] = NumSteps
            BY <2>2 DEF Done
        <3> QED
            BY <1>4, <1>u, <3>1, PortActions
    <2> QED
        BY <2>3 DEF Port!Next
<1> QED
    BY <1>r, <1>1, <1>2, <1>3, <1>4, DriveOnRun

LEMMA OthersKeepPort ==
    ASSUME TypeOK, [Next]_vars, Cancellable = {},
           \/ \E r \in Runs : Start(r) \/ LoseStart(r) \/ Cancel(r) \/ RetryComesDue(r)
           \/ \E e \in pel : LeaseExpires(e)
           \/ UNCHANGED vars
           \/ \E w \in Workers : \/ Claim(w) \/ TakeClaimed(w) \/ ScanDelayed(w) \/ PromoteRemove(w)
                                 \/ PromoteAdd(w) \/ Read(w) \/ Defer(w) \/ Ack(w) \/ Restart(w)
                                 \/ Crash(w)
    PROVE  [Port!Next]_(Port!abstractVars)
<1>1. UNCHANGED records
    <2>1. ASSUME NEW w \in Workers, Crash(w) PROVE UNCHANGED records
        BY <2>1 DEF Crash
    <2> QED
        BY <2>1, AsideSteps, AsideOfAll DEF Aside
<1>2. Done' = Done
    BY <1>1 DEF Done, Checkpointed
<1>3. UNCHANGED status \/ \E r \in Runs : status[r] = "none" /\ status' = [status EXCEPT ![r] = "running"]
    <2>1. ASSUME NEW w \in Workers, Crash(w) PROVE UNCHANGED status
        BY <2>1 DEF Crash
    <2>2. CASE \/ \E r \in Runs : Start(r) \/ LoseStart(r) \/ Cancel(r) \/ RetryComesDue(r)
               \/ \E e \in pel : LeaseExpires(e)
               \/ UNCHANGED vars
        BY <2>2 DEF Start, AddRun, StartReads, Enqueue, LoseStart, Cancel, RetryComesDue, LeaseExpires, vars
    <2> QED
        BY <2>1, <2>2, AsideSteps
<1>4. ASSUME NEW r \in Runs, status[r] = "none", status' = [status EXCEPT ![r] = "running"]
      PROVE  [Port!Next]_(Port!abstractVars)
    <2>1. Port!Create(r)
        BY <1>2, <1>4, PortActions
    <2> QED
        BY <2>1 DEF Port!Next
<1> QED
    BY <1>2, <1>3, <1>4, PortActions

\* Wherever no two workers drive a run at once and nobody cancels one, the Redis engine
\* keeps what the WorkflowEngine port promises: through crashes, retries and entries
\* delivered again a run is checkpointed step by step, in order, and ends once
\* (redis_streams.py against ports/workflow.py).
THEOREM RedisKeepsPromise ==
    ASSUME Cancellable = {}
    PROVE  Spec /\ []ExclusiveDrive => KeepsPromise
<1>1. Init => Port!Init
    <2> SUFFICES ASSUME Init PROVE Port!Init
        OBVIOUS
    <2>1. \A r \in Runs : Checkpointed(r) = 0
        <3>1. 0 \in 0..NumSteps
            BY EngineAssumption
        <3>2. \A r \in Runs : \A s \in Steps : Succeeded(r, s) <=> s <= 0
            BY EngineAssumption DEF Init, Succeeded, NoRecord, Steps
        <3> QED
            BY <3>1, <3>2, CountsPrefix
    <2> QED
        BY <2>1, PortActions DEF Init, Done
<1>2. TypeOK /\ Ceiling /\ ExclusiveDrive /\ ExclusiveDrive' /\ [Next]_vars => Ceiling'
    BY TypeStep, NextCeiling
<1>3. TypeOK /\ Ceiling /\ Course /\ ExclusiveDrive /\ [Next]_vars => Course'
    BY TypeStep, NextCourse
<1>4. TypeOK /\ Ceiling /\ Course /\ ExclusiveDrive /\ [Next]_vars => [Port!Next]_(Port!abstractVars)
    BY TypeStep, DriveKeepsPromise, OthersKeepPort DEF Next, ConsumeOnce
<1> QED
    BY TypeCorrect, InitCeiling, InitCourse, <1>1, <1>2, <1>3, <1>4, PTL
       DEF Spec, KeepsPromise, Port!Spec

===============================================================================
