-------------------------- MODULE ProviderCallsProofs --------------------------
(***************************************************************************)
(* What a step may cost, how far apart a caller's calls are and that no    *)
(* question is put twice, for any number of sessions, rounds, questions,   *)
(* retries, providers' answers and any pace.                               *)
(***************************************************************************)
EXTENDS ProviderCalls, TLAPS

Calls == {"stt", "tts"} \cup Paced
Places == {"limiter", "asleep", "request", "backoff", "ended"}
Wordings == {draft.wording : draft \in Drafts \cup {Blank}} \cup {Authored[q] : q \in Questions}
Notes == [wording : Wordings, degraded : BOOLEAN]

StepTypes ==
    /\ step \in [Callers -> StepNames \cup Ended]
    /\ attempt \in [Callers -> Nat \ {0}]
    /\ call \in [Callers -> Calls]
    /\ at \in [Callers -> Places]
    /\ tries \in [Callers -> Nat \ {0}]
    /\ calls \in [Callers -> Nat]
TimeTypes ==
    /\ wait \in [Callers -> (-Lag)..Interval]
    /\ ahead \in 0..Interval
    /\ since \in [Callers -> 0..Interval]
TalkTypes ==
    /\ sent \in [Callers -> Nat]
    /\ intakes \in [Callers -> 0..1]
    /\ told \in [Callers -> Seq(Notes)]
Types == StepTypes /\ TimeTypes /\ TalkTypes

LEMMA Settings ==
    /\ \A s \in StepNames : StepAttempts[s] \in Nat /\ StepAttempts[s] >= 1
    /\ RetryAttempts \in Nat /\ RetryAttempts >= 1
    /\ Interval \in Nat /\ Interval >= 1
    /\ Lag \in Nat /\ Lag < Interval
BY ProviderAssumption DEF StepNames

LEMMA DialTypes ==
    ASSUME StepTypes, NEW c \in Callers, NEW what \in Calls, Dial(c, what)
    PROVE  /\ call' \in [Callers -> Calls] /\ at' \in [Callers -> Places]
           /\ tries' \in [Callers -> Nat \ {0}]
           /\ call'[c] = what /\ tries'[c] = 1
           /\ at'[c] = (IF what \in Paced THEN "limiter" ELSE "request")
BY DEF StepTypes, Dial, Entry, Places

LEMMA FirstCallTypes ==
    ASSUME NEW c \in Callers, NEW s \in StepNames
    PROVE  /\ FirstCall(c, s) \in Calls
           /\ s = "transcribe" => FirstCall(c, s) = "stt"
           /\ s = "synthesize" => FirstCall(c, s) = "tts"
           /\ s = "score" => FirstCall(c, s) = "score"
           /\ s = "compose" => FirstCall(c, s) \in {"name", "first"}
BY DEF FirstCall, StepNames, Calls, Paced

LEMMA BeginStepTypes ==
    ASSUME StepTypes, NEW c \in Callers, NEW s \in StepNames, BeginStep(c, s)
    PROVE  /\ StepTypes'
           /\ step'[c] = s /\ attempt'[c] = 1 /\ calls'[c] = 0 /\ tries'[c] = 1
           /\ call'[c] = FirstCall(c, s)
           /\ at'[c] = (IF FirstCall(c, s) \in Paced THEN "limiter" ELSE "request")
<1>1. Dial(c, FirstCall(c, s)) /\ FirstCall(c, s) \in Calls
    BY FirstCallTypes DEF BeginStep
<1> QED
    BY <1>1, DialTypes DEF BeginStep, StepTypes

LEMMA EndStepsTypes ==
    ASSUME StepTypes, NEW c \in Callers, NEW how \in Ended, EndSteps(c, how)
    PROVE  /\ StepTypes'
           /\ step'[c] = how /\ at'[c] = "ended" /\ tries'[c] = 1
BY DEF EndSteps, StepTypes, Places

\* AfterCompose begins some step.
LEMMA ReplyBegins ==
    ASSUME NEW c \in Callers, AfterReply(c) \/ AfterCompose(c)
    PROVE  \E s \in StepNames : BeginStep(c, s)
BY DEF AfterReply, AfterCompose, StepNames

\* What the step of a session does to the others: nothing.
LEMMA OthersWait ==
    ASSUME Types, NEW c \in Callers, Step(c), NEW d \in Callers, d # c
    PROVE  UNCHANGED <<step[d], attempt[d], call[d], at[d], tries[d], calls[d],
                       wait[d], since[d], told[d]>>
<1>1. CASE Pace(c) \/ Wake(c) \/ Backoff(c)
    BY <1>1 DEF Types, StepTypes, TimeTypes, TalkTypes, Pace, TakeSlotNow, Wake, Backoff, timeVars, talkVars
<1>2. ASSUME NEW s, BeginStep(c, s) \/ EndSteps(c, s)
      PROVE  UNCHANGED <<step[d], attempt[d], call[d], at[d], tries[d], calls[d]>>
    BY <1>2 DEF Types, StepTypes, BeginStep, EndSteps, Dial
<1>3. ASSUME NEW w, Dial(c, w), Counted(c)
      PROVE  UNCHANGED <<call[d], at[d], tries[d], calls[d]>>
    BY <1>3 DEF Types, StepTypes, Dial, Counted
<1>4. CASE Fails(c)
    <2>1. UNCHANGED <<wait[d], since[d], told[d]>>
        BY <1>4 DEF Fails, timeVars, talkVars
    <2>2. ASSUME NEW v, Raise(c, v)
          PROVE  UNCHANGED <<step[d], attempt[d], call[d], at[d], tries[d], calls[d]>>
        BY <1>2, <1>3, <2>2 DEF Raise, Types, StepTypes
    <2>3. UNCHANGED <<step[d], attempt[d], call[d], at[d], tries[d], calls[d]>>
        BY <1>4, <2>2 DEF Fails, Counted, Types, StepTypes
    <2> QED
        BY <2>1, <2>3
<1>5. CASE Transcribed(c) \/ Synthesized(c) \/ Scored(c)
    BY <1>2, <1>5, ReplyBegins DEF Transcribed, Synthesized, Scored, Answered, timeVars, talkVars
<1>6. CASE Named(c)
    BY <1>2, <1>3, <1>6, ReplyBegins DEF Named, Answered, timeVars
<1>7. ASSUME NEW w, NEW b, Tell(c, w, b)
      PROVE  UNCHANGED <<step[d], attempt[d], call[d], at[d], tries[d], calls[d], told[d]>>
    BY <1>2, <1>7, ReplyBegins DEF Tell, Types, TalkTypes
<1>8. CASE First(c)
    BY <1>3, <1>7, <1>8 DEF First, Answered, timeVars, talkVars
<1>9. CASE Second(c)
    BY <1>7, <1>9 DEF Second, Answered, timeVars
<1> QED
    BY <1>1, <1>4, <1>5, <1>6, <1>8, <1>9 DEF Step

-------------------------------------------------------------------------------
(***************************************************************************)
(* Types: what a step does to the records of its session.                  *)
(***************************************************************************)

LEMMA InitTypes == Init => Types
<1> SUFFICES ASSUME Init PROVE Types
    OBVIOUS
<1>1. StepTypes
    BY DEF Init, StepTypes, StepNames, Calls, Places, Paced
<1>2. TimeTypes
    BY Settings DEF Init, TimeTypes
<1>3. TalkTypes
    BY DEF Init, TalkTypes
<1> QED
    BY <1>1, <1>2, <1>3 DEF Types

LEMMA TimeStepTypes ==
    ASSUME Types, Tick \/ \E c \in Callers : Pace(c) \/ Wake(c)
    PROVE  Types'
<1> USE Settings DEF Types
<1>1. CASE Tick
    <2>1. wait' \in [Callers -> (-Lag)..Interval] /\ since' \in [Callers -> 0..Interval]
        BY <1>1 DEF Tick, TimeTypes
    <2>2. ahead' \in 0..Interval
        BY <1>1 DEF Tick, TimeTypes, AtLeastZero
    <2> QED
        BY <1>1, <2>1, <2>2 DEF Tick, stepVars, talkVars, StepTypes, TimeTypes, TalkTypes
<1>2. ASSUME NEW c \in Callers, Pace(c) \/ Wake(c) PROVE Types'
    <2>1. at' \in [Callers -> Places]
        BY <1>2 DEF Pace, TakeSlotNow, Wake, StepTypes, Places
    <2>2. ahead' \in 0..Interval
        <3>1. wait[c] \in (-Lag)..Interval
            BY DEF TimeTypes
        <3> QED
            BY <1>2, <3>1 DEF Pace, TakeSlotNow, Wake, AtLeastZero, TimeTypes
    <2>3. wait' \in [Callers -> (-Lag)..Interval] /\ since' \in [Callers -> 0..Interval]
        BY <1>2 DEF Pace, TakeSlotNow, Wake, TimeTypes
    <2> QED
        BY <1>2, <2>1, <2>2, <2>3 DEF Pace, Wake, talkVars, StepTypes, TimeTypes, TalkTypes
<1> QED
    BY <1>1, <1>2

LEMMA ReplyTypes ==
    ASSUME StepTypes, NEW c \in Callers, AfterReply(c) \/ AfterCompose(c)
    PROVE  StepTypes'
BY ReplyBegins, BeginStepTypes

LEMMA TellTypes ==
    ASSUME StepTypes, TalkTypes, NEW c \in Callers, NEW w \in Wordings, NEW b \in BOOLEAN, Tell(c, w, b)
    PROVE  StepTypes' /\ TalkTypes'
<1> DEFINE note == [wording |-> w, degraded |-> b]
<1>1. told' \in [Callers -> Seq(Notes)]
    <2>1. note \in Notes
        BY DEF Notes
    <2>2. told \in [Callers -> Seq(Notes)] /\ told[c] \in Seq(Notes)
        BY DEF TalkTypes
    <2> HIDE DEF note
    <2>3. Append(told[c], note) \in Seq(Notes)
        BY <2>1, <2>2
    <2>4. told' = [told EXCEPT ![c] = Append(told[c], note)]
        BY DEF Tell, note
    <2> QED
        BY <2>2, <2>3, <2>4
<1> QED
    BY <1>1, ReplyTypes DEF Tell, TalkTypes

\* Every draft that is put, and every authored text, is worded.
LEMMA Worded ==
    ASSUME NEW r, NEW draft \in Composed(r), NEW q \in Questions
    PROVE  draft.wording \in Wordings /\ Authored[q] \in Wordings
BY DEF Composed, Wordings

LEMMA RaiseTypes ==
    ASSUME StepTypes, NEW c \in Callers, step[c] \in StepNames, NEW v, Raise(c, v)
    PROVE  StepTypes'
<1>1. CASE StepAgain(c) /\ Dial(c, FirstCall(c, step[c])) /\ Counted(c) /\ step' = step
           /\ attempt' = [attempt EXCEPT ![c] = @ + 1]
    BY <1>1, DialTypes, FirstCallTypes DEF Counted, StepTypes
<1>2. CASE EndSteps(c, "failed")
    BY <1>2, EndStepsTypes DEF Ended
<1> QED
    BY <1>1, <1>2 DEF Raise

\* A session calls only what its step calls, and whoever has ended calls nothing.
CallsOf(s) == CASE s = "transcribe" -> {"stt"}
                [] s = "compose"    -> {"name", "first", "second"}
                [] s = "synthesize" -> {"tts"}
                [] s = "score"      -> {"score"}
                [] OTHER            -> {}
OwnCall(c) ==
    /\ step[c] \in Ended <=> at[c] = "ended"
    /\ step[c] \in StepNames => call[c] \in CallsOf(step[c])
    /\ call[c] \in {"stt", "tts"} => at[c] \in {"request", "ended"}
OwnCalls == \A c \in Callers : OwnCall(c)

LEMMA StepStepTypes ==
    ASSUME Types, OwnCalls, NEW c \in Callers,
           \/ Fails(c) \/ Backoff(c) \/ Transcribed(c) \/ Named(c) \/ First(c) \/ Second(c)
           \/ Synthesized(c) \/ Scored(c)
    PROVE  Types'
<1> USE DEF Types
<1>1. UNCHANGED timeVars => TimeTypes'
    BY DEF timeVars, TimeTypes
<1>2. UNCHANGED talkVars => TalkTypes'
    BY DEF talkVars, TalkTypes
<1>3. CASE Fails(c)
    <2>1. step[c] \in StepNames
        BY <1>3 DEF Fails, OwnCalls, OwnCall, StepTypes
    <2>2. ASSUME NEW v, Raise(c, v) PROVE StepTypes'
        BY <2>1, <2>2, RaiseTypes
    <2>3. ASSUME at' = [at EXCEPT ![c] = "backoff"], Counted(c), UNCHANGED <<step, attempt, call, tries>>
          PROVE  StepTypes'
        <3>1. calls' \in [Callers -> Nat]
            BY <2>3 DEF Counted, StepTypes
        <3>2. at' \in [Callers -> Places]
            BY <2>3 DEF StepTypes, Places
        <3> QED
            BY <2>3, <3>1, <3>2 DEF StepTypes
    <2>4. StepTypes'
        BY <1>3, <2>2, <2>3 DEF Fails
    <2> QED
        BY <1>1, <1>2, <1>3, <2>4 DEF Fails
<1>4. CASE Backoff(c)
    BY <1>1, <1>2, <1>4 DEF Backoff, StepTypes, Places
<1>5. CASE Transcribed(c)
    <2>1. StepTypes'
        BY <1>5, BeginStepTypes DEF Transcribed, StepNames
    <2> QED
        BY <1>1, <1>5, <2>1 DEF Transcribed, Answered, TalkTypes
<1>6. CASE Named(c)
    <2>1. CASE Dial(c, "first") /\ Counted(c) /\ UNCHANGED <<step, attempt, intakes>>
        <3>1. StepTypes'
            BY <2>1, DialTypes DEF Counted, StepTypes, Calls, Paced
        <3> QED
            BY <1>1, <1>6, <2>1, <3>1 DEF Named, Answered, TalkTypes
    <2>2. CASE intakes' = [intakes EXCEPT ![c] = 1] /\ AfterCompose(c)
        BY <1>1, <1>6, <2>2, ReplyTypes DEF Named, Answered, TalkTypes
    <2> QED
        BY <1>6, <2>1, <2>2 DEF Named
<1>7. CASE First(c)
    <2>1. PICK r \in Responses : /\ Answered(c, "first", r)
                                 /\ \E draft \in Composed(r) :
                                       \/ Tell(c, draft.wording, FALSE)
                                       \/ /\ Dial(c, "second") /\ Counted(c)
                                          /\ UNCHANGED <<step, attempt, talkVars>>
        BY <1>7 DEF First
    <2>2. PICK draft \in Composed(r) : \/ Tell(c, draft.wording, FALSE)
                                       \/ /\ Dial(c, "second") /\ Counted(c)
                                          /\ UNCHANGED <<step, attempt, talkVars>>
        BY <2>1
    <2>3. CASE Tell(c, draft.wording, FALSE)
        BY <1>1, <2>1, <2>3, TellTypes DEF Answered, Composed, Wordings
    <2>4. CASE Dial(c, "second") /\ Counted(c) /\ UNCHANGED <<step, attempt, talkVars>>
        BY <1>1, <1>2, <2>1, <2>4, DialTypes DEF Answered, Counted, StepTypes, Calls, Paced
    <2> QED
        BY <2>2, <2>3, <2>4
<1>8. CASE Second(c)
    <2>1. PICK r \in Responses :
              /\ Answered(c, "second", r)
              /\ \E draft \in Composed(r), q \in Questions :
                    Tell(c, draft.wording, FALSE) \/ Tell(c, Authored[q], TRUE)
        BY <1>8 DEF Second
    <2>2. PICK draft \in Composed(r), q \in Questions :
              Tell(c, draft.wording, FALSE) \/ Tell(c, Authored[q], TRUE)
        BY <2>1
    <2>3. StepTypes' /\ TalkTypes'
        BY <2>2, Worded, TellTypes
    <2> QED
        BY <1>1, <2>1, <2>3 DEF Answered
<1>9. CASE Synthesized(c)
    BY <1>1, <1>2, <1>9, ReplyTypes DEF Synthesized, Answered
<1>10. CASE Scored(c)
    BY <1>1, <1>2, <1>10, EndStepsTypes DEF Scored, Answered
<1> QED
    BY <1>3, <1>4, <1>5, <1>6, <1>7, <1>8, <1>9, <1>10

-------------------------------------------------------------------------------
(***************************************************************************)
(* The pace: a caller's last slot is an interval behind the limiter's next *)
(* one, but for the lateness of the sleeper that moved it last.            *)
(***************************************************************************)

Pacing ==
    \A c \in Callers :
        /\ since[c] + ahead >= Interval - Lag
        /\ at[c] = "asleep" => since[c] + wait[c] >= Interval - Lag

LEMMA InitPacing == Init => Pacing
<1> SUFFICES ASSUME Init, NEW c \in Callers
             PROVE  since[c] + ahead >= Interval - Lag /\ at[c] # "asleep"
    BY DEF Pacing
<1>1. since[c] = Interval /\ ahead = 0 /\ at[c] \in {"limiter", "request"}
    BY DEF Init
<1> QED
    BY <1>1, Settings

LEMMA TickPacing == ASSUME Types, Pacing, Tick PROVE Pacing'
<1> SUFFICES ASSUME NEW c \in Callers
             PROVE  /\ since'[c] + ahead' >= Interval - Lag
                    /\ at'[c] = "asleep" => since'[c] + wait'[c] >= Interval - Lag
    BY DEF Pacing
<1>1. /\ since[c] \in 0..Interval /\ ahead \in 0..Interval /\ wait[c] \in (-Lag)..Interval
      /\ since'[c] = (IF since[c] < Interval THEN since[c] + 1 ELSE Interval)
      /\ ahead' = (IF ahead - 1 > 0 THEN ahead - 1 ELSE 0)
      /\ at' = at
      /\ at[c] = "asleep" => wait[c] > -Lag /\ wait'[c] = wait[c] - 1
    BY DEF Tick, AtLeastZero, Types, TimeTypes, stepVars
<1>2. /\ since[c] + ahead >= Interval - Lag
      /\ at[c] = "asleep" => since[c] + wait[c] >= Interval - Lag
    BY DEF Pacing
<1> QED
    BY <1>1, <1>2, Settings

\* A slot that is taken is at least an interval, less the lateness, ahead of all.
LEMMA SlotPacing ==
    ASSUME Types, Pacing, NEW c \in Callers, Pace(c) \/ Wake(c)
    PROVE  Pacing'
<1>t. /\ since \in [Callers -> 0..Interval] /\ ahead \in 0..Interval
      /\ wait \in [Callers -> (-Lag)..Interval] /\ at \in [Callers -> Places]
    BY DEF Types, StepTypes, TimeTypes
<1>1. CASE at[c] = "limiter" /\ wait' = [wait EXCEPT ![c] = ahead]
           /\ at' = [at EXCEPT ![c] = "asleep"] /\ UNCHANGED <<ahead, since>>
    BY <1>t, <1>1 DEF Pacing
<1>2. ASSUME ahead' \in Nat, ahead' >= Interval - Lag, since' = [since EXCEPT ![c] = 0],
             at' = [at EXCEPT ![c] = "request"],
             \A d \in Callers : d # c => wait'[d] = wait[d]
      PROVE  Pacing'
    <2> SUFFICES ASSUME NEW d \in Callers
                 PROVE  /\ since'[d] + ahead' >= Interval - Lag
                        /\ at'[d] = "asleep" => since'[d] + wait'[d] >= Interval - Lag
        BY DEF Pacing
    <2>1. since'[d] \in Nat
        BY <1>t, <1>2
    <2>2. at'[d] = "asleep" => d # c /\ at[d] = "asleep" /\ since'[d] = since[d]
        BY <1>t, <1>2
    <2> QED
        BY <1>2, <2>1, <2>2, Settings DEF Pacing
<1>3. CASE TakeSlotNow(c)
    BY <1>2, <1>3, Settings DEF TakeSlotNow
<1>4. CASE Wake(c)
    <2>1. wait[c] \in (-Lag)..0 /\ ahead' = wait[c] + Interval
        BY <1>4, <1>t, Settings DEF Wake, AtLeastZero
    <2>2. ahead' \in Nat /\ ahead' >= Interval - Lag
        BY <2>1, Settings
    <2> QED
        BY <1>2, <1>4, <1>t, <2>2 DEF Wake
<1> QED
    BY <1>1, <1>3, <1>4 DEF Pace

\* Whoever does neither goes to no sleep.
LEMMA OthersPacing ==
    ASSUME Types, Pacing, UNCHANGED timeVars, \A c \in Callers : at'[c] = "asleep" => at[c] = "asleep"
    PROVE  Pacing'
BY DEF Pacing, timeVars

LEMMA NobodyDozes ==
    ASSUME Types, OwnCalls, NEW c \in Callers,
           \/ Fails(c) \/ Backoff(c) \/ Transcribed(c) \/ Named(c) \/ First(c) \/ Second(c)
           \/ Synthesized(c) \/ Scored(c)
    PROVE  /\ UNCHANGED timeVars
           /\ at[c] \in {"request", "backoff"}
           /\ at'[c] # "asleep"
<1>1. UNCHANGED timeVars /\ at[c] \in {"request", "backoff"}
    BY DEF Fails, Backoff, Transcribed, Named, First, Second, Synthesized, Scored, Answered
<1>2. ASSUME NEW what, Dial(c, what) PROVE at'[c] # "asleep"
    BY <1>2 DEF Dial, Entry, Types, StepTypes
<1>3. ASSUME NEW s, BeginStep(c, s) \/ EndSteps(c, s) PROVE at'[c] # "asleep"
    BY <1>2, <1>3 DEF BeginStep, EndSteps, Types, StepTypes
<1>4. ASSUME NEW w, NEW b, Tell(c, w, b) PROVE at'[c] # "asleep"
    BY <1>3, <1>4, ReplyBegins DEF Tell
<1>5. CASE Fails(c)
    <2>1. ASSUME NEW v, Raise(c, v) PROVE at'[c] # "asleep"
        BY <1>2, <1>3, <2>1 DEF Raise
    <2> QED
        BY <1>1, <1>5, <2>1 DEF Fails, Types, StepTypes
<1>6. CASE Backoff(c)
    BY <1>1, <1>6 DEF Backoff, Types, StepTypes
<1>7. CASE Transcribed(c) \/ Synthesized(c) \/ Scored(c)
    BY <1>1, <1>3, <1>7, ReplyBegins DEF Transcribed, Synthesized, Scored
<1>8. CASE Named(c)
    BY <1>1, <1>2, <1>3, <1>8, ReplyBegins DEF Named
<1>9. CASE First(c)
    BY <1>1, <1>2, <1>4, <1>9 DEF First
<1>10. CASE Second(c)
    BY <1>1, <1>4, <1>10 DEF Second
<1> QED
    BY <1>5, <1>6, <1>7, <1>8, <1>9, <1>10

-------------------------------------------------------------------------------
(***************************************************************************)
(* The cost: the retries of the decorator, of the guard and of the engine, *)
(* one inside the other.                                                   *)
(***************************************************************************)

\* What one attempt at a step may cost, and what the guard's calls before this one did.
PerAttempt(s) == IF s = "compose" THEN RetryAttempts + RetryAttempts + RetryAttempts
                 ELSE IF s = "score" THEN RetryAttempts ELSE 1
Before(what) == IF what = "second" THEN RetryAttempts + RetryAttempts
                ELSE IF what = "first" THEN RetryAttempts ELSE 0

Budget(c) ==
    step[c] \in StepNames =>
        /\ attempt[c] <= StepAttempts[step[c]]
        /\ IF call[c] \in Paced THEN tries[c] <= RetryAttempts ELSE tries[c] = 1
        /\ at[c] = "backoff" => call[c] \in Paced /\ tries[c] < RetryAttempts
        /\ calls[c] <= (attempt[c] - 1) * PerAttempt(step[c]) + Before(call[c])
                         + (tries[c] - 1) + (IF at[c] = "backoff" THEN 1 ELSE 0)
Budgets == \A c \in Callers : Budget(c)

\* The ways a session moves on.
Waits(c) ==
    /\ at[c] \in {"limiter", "asleep"} /\ at'[c] \in {"asleep", "request"}
    /\ UNCHANGED <<step[c], attempt[c], call[c], tries[c], calls[c]>>
BacksOff(c) ==
    /\ at[c] = "request" /\ at'[c] = "backoff"
    /\ call[c] \in Paced /\ tries[c] < RetryAttempts
    /\ calls'[c] = calls[c] + 1
    /\ UNCHANGED <<step[c], attempt[c], call[c], tries[c]>>
TriesAgain(c) ==
    /\ at[c] = "backoff" /\ at'[c] = "request" /\ tries'[c] = tries[c] + 1
    /\ UNCHANGED <<step[c], attempt[c], call[c], calls[c]>>
StartsOver(c) ==
    /\ at[c] = "request" /\ step[c] \in StepNames /\ attempt[c] < StepAttempts[step[c]]
    /\ attempt'[c] = attempt[c] + 1
    /\ call'[c] = FirstCall(c, step[c]) /\ at'[c] = Entry(call'[c]) /\ tries'[c] = 1
    /\ calls'[c] = calls[c] + 1 /\ step'[c] = step[c]
AsksMore(c) ==
    /\ at[c] = "request" /\ at'[c] = "limiter" /\ tries'[c] = 1
    /\ \/ call[c] = "name" /\ call'[c] = "first"
       \/ call[c] = "first" /\ call'[c] = "second"
    /\ calls'[c] = calls[c] + 1
    /\ UNCHANGED <<step[c], attempt[c]>>
Begins(c) ==
    \E s \in StepNames :
        /\ step'[c] = s /\ attempt'[c] = 1 /\ calls'[c] = 0 /\ tries'[c] = 1
        /\ call'[c] = FirstCall(c, s) /\ at'[c] = Entry(call'[c])
Ends(c) == step'[c] \in Ended /\ at'[c] = "ended" /\ call'[c] = call[c]
Effect(c) == \/ Waits(c) \/ BacksOff(c) \/ TriesAgain(c) \/ StartsOver(c)
             \/ AsksMore(c) \/ Begins(c) \/ Ends(c)

LEMMA BeginEffect ==
    ASSUME StepTypes, NEW c \in Callers, NEW s \in StepNames, BeginStep(c, s)
    PROVE  Begins(c)
BY BeginStepTypes DEF Begins, Entry

LEMMA EndEffect ==
    ASSUME StepTypes, NEW c \in Callers, NEW how \in Ended, EndSteps(c, how)
    PROVE  Ends(c)
BY DEF EndSteps, StepTypes, Ends

LEMMA ReplyEffect ==
    ASSUME StepTypes, NEW c \in Callers, AfterReply(c) \/ AfterCompose(c)
    PROVE  Begins(c)
BY ReplyBegins, BeginEffect

LEMMA MoreEffect ==
    ASSUME StepTypes, NEW c \in Callers, NEW what \in {"first", "second"},
           at[c] = "request", call[c] = (IF what = "first" THEN "name" ELSE "first"),
           Dial(c, what), Counted(c), UNCHANGED <<step, attempt>>
    PROVE  AsksMore(c)
<1>1. what \in Calls /\ what \in Paced
    BY DEF Calls, Paced
<1>2. calls'[c] = calls[c] + 1
    BY DEF Counted, StepTypes
<1> QED
    BY <1>1, <1>2, DialTypes DEF AsksMore

LEMMA StepEffect == ASSUME Types, OwnCalls, NEW c \in Callers, Step(c) PROVE Effect(c)
<1> USE DEF Types, Effect
<1>1. CASE Pace(c) \/ Wake(c)
    BY <1>1 DEF Pace, TakeSlotNow, Wake, Waits, StepTypes
<1>2. CASE Fails(c)
    <2>1. at[c] = "request" /\ step[c] \in StepNames
        BY <1>2 DEF Fails, OwnCalls, OwnCall, StepTypes
    <2>2. ASSUME NEW v, Raise(c, v) PROVE Effect(c)
        <3>1. CASE EndSteps(c, "failed")
            BY <3>1, EndEffect DEF Ended
        <3>2. ASSUME StepAgain(c), attempt' = [attempt EXCEPT ![c] = @ + 1],
                     Dial(c, FirstCall(c, step[c])), Counted(c), step' = step
              PROVE  StartsOver(c)
            <4>1. attempt'[c] = attempt[c] + 1 /\ calls'[c] = calls[c] + 1
                BY <3>2 DEF Counted, StepTypes
            <4>2. FirstCall(c, step[c]) \in Calls
                BY <2>1, FirstCallTypes
            <4> QED
                BY <2>1, <3>2, <4>1, <4>2, DialTypes DEF StartsOver, StepAgain, Entry
        <3> QED
            BY <2>2, <3>1, <3>2 DEF Raise
    <2>3. ASSUME call[c] \in Paced, CallAgain(c), at' = [at EXCEPT ![c] = "backoff"], Counted(c),
                 UNCHANGED <<step, attempt, call, tries>>
          PROVE  BacksOff(c)
        <3>1. calls'[c] = calls[c] + 1 /\ at'[c] = "backoff"
            BY <2>3 DEF Counted, StepTypes
        <3> QED
            BY <2>1, <2>3, <3>1 DEF BacksOff, CallAgain
    <2> QED
        BY <1>2, <2>2, <2>3 DEF Fails
<1>3. CASE Backoff(c)
    BY <1>3 DEF Backoff, TriesAgain, StepTypes
<1>4. CASE Transcribed(c)
    BY <1>4, BeginEffect DEF Transcribed, StepNames
<1>5. CASE Synthesized(c)
    BY <1>5, ReplyEffect DEF Synthesized
<1>6. CASE Scored(c)
    BY <1>6, EndEffect DEF Scored
<1>7. CASE Named(c)
    <2>1. at[c] = "request" /\ call[c] = "name"
        BY <1>7 DEF Named, Answered
    <2>2. ASSUME Dial(c, "first"), Counted(c), UNCHANGED <<step, attempt, intakes>> PROVE AsksMore(c)
        BY <2>1, <2>2, MoreEffect
    <2> QED
        BY <1>7, <2>2, ReplyEffect DEF Named
<1>8. ASSUME NEW w, NEW b, Tell(c, w, b) PROVE Begins(c)
    BY <1>8, ReplyEffect DEF Tell
<1>9. CASE First(c)
    <2>1. at[c] = "request" /\ call[c] = "first"
        BY <1>9 DEF First, Answered
    <2>2. ASSUME Dial(c, "second"), Counted(c), UNCHANGED <<step, attempt, talkVars>> PROVE AsksMore(c)
        BY <2>1, <2>2, MoreEffect
    <2> QED
        BY <1>8, <1>9, <2>2 DEF First
<1>10. CASE Second(c)
    BY <1>8, <1>10 DEF Second
<1> QED
    BY <1>1, <1>2, <1>3, <1>4, <1>5, <1>6, <1>7, <1>9, <1>10 DEF Step

LEMMA CallsOfSteps ==
    ASSUME NEW s \in StepNames, NEW what
    PROVE  /\ what \in CallsOf(s) => \/ s = "compose" /\ what \in {"name", "first", "second"}
                                     \/ s = "transcribe" /\ what = "stt"
                                     \/ s = "synthesize" /\ what = "tts"
                                     \/ s = "score" /\ what = "score"
           /\ s = "compose" => CallsOf(s) = {"name", "first", "second"}
           /\ \A c : FirstCall(c, s) \in CallsOf(s)
BY DEF CallsOf, FirstCall, StepNames

LEMMA InitCalls == Init => OwnCalls /\ Budgets
<1> SUFFICES ASSUME Init, NEW c \in Callers PROVE OwnCall(c) /\ Budget(c)
    BY DEF OwnCalls, Budgets
<1>1. /\ attempt[c] = 1 /\ tries[c] = 1 /\ calls[c] = 0
      /\ \/ step[c] = "score" /\ call[c] = "score" /\ at[c] = "limiter"
         \/ step[c] = "transcribe" /\ call[c] = "stt" /\ at[c] = "request"
    BY DEF Init
<1>2. OwnCall(c)
    BY <1>1 DEF OwnCall, CallsOf, Ended
<1>3. /\ step[c] \in StepNames /\ StepAttempts[step[c]] >= 1 /\ RetryAttempts >= 1
      /\ (attempt[c] - 1) * PerAttempt(step[c]) = 0
    BY <1>1, Settings DEF StepNames, PerAttempt
<1>4. Budget(c)
    BY <1>1, <1>3 DEF Budget, Before, Paced
<1> QED
    BY <1>2, <1>4

LEMMA OwnCallKept ==
    ASSUME Types, NEW c \in Callers, OwnCall(c), Effect(c)
    PROVE  OwnCall(c)'
<1>1. StepNames \cap Ended = {} /\ step[c] \in StepNames \cup Ended
    BY DEF StepNames, Ended, Types, StepTypes
<1>2. CASE Waits(c) \/ BacksOff(c) \/ TriesAgain(c)
    BY <1>1, <1>2 DEF OwnCall, Waits, BacksOff, TriesAgain, Paced
<1>3. CASE StartsOver(c)
    BY <1>1, <1>3, CallsOfSteps DEF OwnCall, StartsOver, Entry, Paced
<1>4. CASE AsksMore(c)
    BY <1>1, <1>4, CallsOfSteps DEF OwnCall, AsksMore
<1>5. CASE Begins(c)
    BY <1>1, <1>5, CallsOfSteps DEF OwnCall, Begins, Entry, Paced
<1>6. CASE Ends(c)
    BY <1>1, <1>6 DEF OwnCall, Ends
<1> QED
    BY <1>2, <1>3, <1>4, <1>5, <1>6 DEF Effect

\* One more attempt costs one more attempt's worth.
LEMMA OneMore ==
    ASSUME NEW a \in Nat \ {0}, NEW m \in Nat, NEW b \in Nat, a <= b
    PROVE  /\ (a - 1) * m \in Nat /\ a * m \in Nat /\ b * m \in Nat
           /\ (a - 1) * m + m = a * m
           /\ ((a + 1) - 1) * m = a * m
           /\ a * m <= b * m
<1>1. PICK d \in Nat : b = a + d
    <2>1. b - a \in Nat /\ b = a + (b - a)
        OBVIOUS
    <2> QED
        BY <2>1
<1>2. b * m = a * m + d * m /\ d * m \in Nat
    BY <1>1
<1>3. (a - 1) * m = a * m - m
    OBVIOUS
<1>4. a - 1 \in Nat
    OBVIOUS
<1>5. (a - 1) * m \in Nat /\ a * m \in Nat /\ b * m \in Nat
    BY <1>4
<1> QED
    BY <1>2, <1>3, <1>5

LEMMA BudgetKept ==
    ASSUME Types, NEW c \in Callers, OwnCall(c), Budget(c), Effect(c)
    PROVE  Budget(c)'
<1> SUFFICES ASSUME step'[c] \in StepNames PROVE Budget(c)'
    BY DEF Budget
<1> DEFINE R == RetryAttempts
           M == PerAttempt(step[c])
<1>t. /\ attempt[c] \in Nat \ {0} /\ tries[c] \in Nat \ {0} /\ calls[c] \in Nat
      /\ step[c] \in StepNames \cup Ended /\ StepNames \cap Ended = {}
    BY DEF Types, StepTypes, StepNames, Ended
<1>r. R \in Nat /\ R >= 1 /\ \A s \in StepNames : StepAttempts[s] \in Nat /\ StepAttempts[s] >= 1
    BY Settings
<1>m. \A s : PerAttempt(s) \in Nat
    BY <1>r DEF PerAttempt
<1>b. \A what : Before(what) \in Nat
    BY <1>r DEF Before
<1>n. (attempt[c] - 1) * M \in Nat
    BY <1>t, <1>m
<1>1. CASE Waits(c) \/ BacksOff(c) \/ TriesAgain(c)
    <2>1. step[c] \in StepNames /\ PerAttempt(step[c])' = M /\ Before(call[c])' = Before(call[c])
        BY <1>1 DEF Waits, BacksOff, TriesAgain, PerAttempt, Before
    <2> HIDE DEF R, M
    <2>2. CASE Waits(c)
        BY <1>t, <1>b, <1>n, <2>1, <2>2 DEF Waits, Budget, M
    <2>3. CASE BacksOff(c)
        BY <1>t, <1>b, <1>n, <2>1, <2>3 DEF BacksOff, Budget, M
    <2>4. CASE TriesAgain(c)
        BY <1>t, <1>b, <1>n, <1>r, <2>1, <2>4 DEF TriesAgain, Budget, M, R
    <2> QED
        BY <1>1, <2>2, <2>3, <2>4
<1>2. CASE AsksMore(c)
    <2>1. step[c] \in StepNames /\ step[c] = "compose" /\ step'[c] = step[c]
          /\ call[c] \in Paced /\ call'[c] \in Paced
        BY <1>2, CallsOfSteps DEF AsksMore, OwnCall, Paced
    <2>2. PerAttempt(step[c])' = M /\ Before(call[c])' = Before(call[c]) + R
        BY <1>2, <1>r, <2>1 DEF AsksMore, PerAttempt, Before
    <2> HIDE DEF R, M
    <2> QED
        BY <1>2, <1>t, <1>b, <1>n, <1>r, <2>1, <2>2 DEF AsksMore, Budget, M, R
<1>3. CASE StartsOver(c)
    <2>1. step[c] \in StepNames /\ PerAttempt(step[c])' = M /\ Before(call[c])' \in Nat
        BY <1>3, <1>r DEF StartsOver, PerAttempt, Before
    <2>2. tries[c] + Before(call[c]) <= M
        <3>1. call[c] \in CallsOf(step[c])
            BY <2>1 DEF OwnCall
        <3> QED
            BY <1>r, <1>t, <2>1, <3>1, CallsOfSteps DEF Budget, PerAttempt, Before, Paced
    <2>3. calls'[c] <= (attempt[c] - 1) * M + M
        BY <1>3, <1>t, <1>b, <1>n, <1>m, <2>1, <2>2 DEF StartsOver, Budget
    <2>4. (attempt'[c] - 1) * M = (attempt[c] - 1) * M + M
        BY <1>3, <1>t, <1>m, OneMore DEF StartsOver
    <2>5. at'[c] # "backoff"
        BY <1>3 DEF StartsOver, Entry
    <2>6. attempt'[c] <= StepAttempts[step'[c]]
        BY <1>3, <1>r, <1>t, <2>1 DEF StartsOver
    <2>7. tries'[c] = 1 /\ calls'[c] \in Nat /\ step'[c] = step[c]
        BY <1>3, <1>t DEF StartsOver
    <2>m. M \in Nat
        BY <1>m
    <2>8. calls'[c] <= (attempt'[c] - 1) * PerAttempt(step'[c]) + Before(call'[c]) + (tries'[c] - 1)
        <3> DEFINE spent == (attempt[c] - 1) * M
                   next == (attempt'[c] - 1) * PerAttempt(step'[c])
        <3>1. next = spent + M
            BY <2>1, <2>4
        <3>2. spent \in Nat /\ calls'[c] <= spent + M /\ Before(call'[c]) \in Nat
            BY <1>n, <2>1, <2>3
        <3> HIDE DEF spent, next, M
        <3>3. calls'[c] <= next + Before(call'[c]) + (tries'[c] - 1)
            BY <2>m, <2>7, <3>1, <3>2
        <3> QED
            BY <3>3 DEF next
    <2>9. (attempt'[c] - 1) * PerAttempt(step'[c]) \in Nat
        BY <1>n, <2>m, <2>1, <2>4
    <2> QED
        BY <1>r, <2>1, <2>5, <2>6, <2>7, <2>8, <2>9 DEF Budget
<1>4. CASE Begins(c)
    <2>1. attempt'[c] = 1 /\ calls'[c] = 0 /\ tries'[c] = 1 /\ at'[c] # "backoff"
        BY <1>4 DEF Begins, Entry
    <2>2. (attempt'[c] - 1) * PerAttempt(step'[c]) = 0 /\ Before(call'[c]) \in Nat
        BY <1>m, <1>b, <2>1
    <2> QED
        BY <1>r, <2>1, <2>2 DEF Budget, PerAttempt, Before
<1>5. CASE Ends(c)
    BY <1>5, <1>t DEF Ends
<1> QED
    BY <1>1, <1>2, <1>3, <1>4, <1>5 DEF Effect

LEMMA BudgetIsEnough ==
    ASSUME Types, NEW c \in Callers, OwnCall(c), Budget(c), step[c] \in StepNames
    PROVE  calls[c] < MostCalls(step[c])
<1> DEFINE M == PerAttempt(step[c])
           A == StepAttempts[step[c]]
<1>t. attempt[c] \in Nat \ {0} /\ tries[c] \in Nat \ {0} /\ calls[c] \in Nat
    BY DEF Types, StepTypes
<1>r. RetryAttempts \in Nat /\ RetryAttempts >= 1 /\ A \in Nat /\ A >= 1
    BY Settings
<1>m. M \in Nat
    BY <1>r DEF PerAttempt
<1>1. /\ Before(call[c]) + (tries[c] - 1) + (IF at[c] = "backoff" THEN 1 ELSE 0) <= M - 1
      /\ Before(call[c]) \in Nat
    <2>1. call[c] \in CallsOf(step[c])
        BY DEF OwnCall
    <2> QED
        BY <1>r, <1>t, <2>1, CallsOfSteps DEF Budget, PerAttempt, Before, Paced
<1>2. /\ (attempt[c] - 1) * M + M = attempt[c] * M
      /\ attempt[c] * M <= A * M /\ (attempt[c] - 1) * M \in Nat
      /\ attempt[c] * M \in Nat /\ A * M \in Nat
    BY <1>m, <1>r, <1>t, OneMore DEF Budget
<1>3. MostCalls(step[c]) = A * M
    <2>1. 3 * RetryAttempts * A = A * (RetryAttempts + RetryAttempts + RetryAttempts)
        BY <1>r
    <2>2. RetryAttempts * A = A * RetryAttempts /\ A = A * 1
        BY <1>r
    <2> QED
        BY <2>1, <2>2 DEF MostCalls, PerAttempt
<1>4. calls[c] <= (attempt[c] - 1) * M + Before(call[c])
                    + (tries[c] - 1) + (IF at[c] = "backoff" THEN 1 ELSE 0)
    BY DEF Budget
<1> HIDE DEF M, A
<1> QED
    BY <1>t, <1>m, <1>1, <1>2, <1>3, <1>4

-------------------------------------------------------------------------------
(***************************************************************************)
(* The words, and the theorems.                                            *)
(***************************************************************************)

\* What the guard lets through repeats nothing; what it does not let through is
\* replaced by an authored text, which is marked.
LEMMA TellsNothingTwice ==
    ASSUME Types, NoQuestionTwice, NEW c \in Callers, NEW w \in Wordings, NEW b \in BOOLEAN,
           Tell(c, w, b),
           b \/ \A i \in DOMAIN told[c] : told[c][i].wording # w
    PROVE  NoQuestionTwice'
<1> DEFINE note == [wording |-> w, degraded |-> b]
           n == Len(told[c])
<1>t. told \in [Callers -> Seq(Notes)] /\ told[c] \in Seq(Notes) /\ note \in Notes
    BY DEF Types, TalkTypes, Notes
<1>1. told' = [told EXCEPT ![c] = Append(told[c], note)]
    BY DEF Tell
<1>2. \A d \in Callers : d # c => told'[d] = told[d]
    BY <1>t, <1>1
<1>3. /\ n \in Nat /\ DOMAIN told[c] = 1..n
      /\ told'[c] = Append(told[c], note)
    BY <1>t, <1>1
<1>5. note.wording = w /\ note.degraded = b
    OBVIOUS
<1> HIDE DEF note
<1>4. /\ DOMAIN told'[c] = 1..(n + 1)
      /\ \A i \in 1..n : told'[c][i] = told[c][i]
      /\ told'[c][n + 1] = note
    BY <1>t, <1>3
<1> HIDE DEF n
<1>6. ASSUME NEW i \in DOMAIN told'[c], NEW j \in DOMAIN told'[c],
             i < j, told'[c][i].wording = told'[c][j].wording
      PROVE  told'[c][j].degraded
    <2>1. i \in 1..n
        BY <1>3, <1>4, <1>6
    <2>2. CASE j = n + 1
        BY <1>3, <1>4, <1>5, <1>6, <2>1, <2>2
    <2>3. CASE j \in 1..n
        BY <1>3, <1>4, <1>6, <2>1, <2>3 DEF NoQuestionTwice
    <2> QED
        BY <1>3, <1>4, <2>2, <2>3
<1> QED
    BY <1>2, <1>6 DEF NoQuestionTwice

LEMMA CheckedIsNew ==
    ASSUME NEW draft, NEW history, CheckQuestion(draft, history) = {}
    PROVE  \A i \in DOMAIN history : history[i].wording # draft.wording
BY DEF CheckQuestion, NearDuplicate

LEMMA NextTellsNothingTwice ==
    ASSUME Types, NoQuestionTwice, [Next]_vars
    PROVE  NoQuestionTwice'
<1>1. told' = told => NoQuestionTwice'
    BY DEF NoQuestionTwice
<1>2. ASSUME NEW c \in Callers, First(c) PROVE NoQuestionTwice'
    <2>1. PICK r \in Responses :
              \E draft \in Composed(r) :
                 \/ CheckQuestion(draft, told[c]) = {} /\ Tell(c, draft.wording, FALSE)
                 \/ UNCHANGED talkVars
        BY <1>2 DEF First
    <2>2. PICK draft \in Composed(r) :
                 \/ CheckQuestion(draft, told[c]) = {} /\ Tell(c, draft.wording, FALSE)
                 \/ UNCHANGED talkVars
        BY <2>1
    <2>3. draft.wording \in Wordings
        BY DEF Composed, Wordings
    <2> QED
        BY <1>1, <2>2, <2>3, CheckedIsNew, TellsNothingTwice DEF talkVars
<1>3. ASSUME NEW c \in Callers, Second(c) PROVE NoQuestionTwice'
    <2>1. PICK r \in Responses :
              \E draft \in Composed(r), q \in Questions :
                 \/ CheckQuestion(draft, told[c]) = {} /\ Tell(c, draft.wording, FALSE)
                 \/ Tell(c, Authored[q], TRUE)
        BY <1>3 DEF Second
    <2>2. PICK draft \in Composed(r), q \in Questions :
                 \/ CheckQuestion(draft, told[c]) = {} /\ Tell(c, draft.wording, FALSE)
                 \/ Tell(c, Authored[q], TRUE)
        BY <2>1
    <2> QED
        BY <2>2, Worded, CheckedIsNew, TellsNothingTwice
<1>4. ASSUME NEW c \in Callers,
             \/ Pace(c) \/ Wake(c) \/ Fails(c) \/ Backoff(c) \/ Transcribed(c) \/ Named(c)
             \/ Synthesized(c) \/ Scored(c)
      PROVE  told' = told
    BY <1>4 DEF Pace, Wake, Fails, Backoff, Transcribed, Named, Synthesized, Scored, talkVars
<1> QED
    BY <1>1, <1>2, <1>3, <1>4 DEF Next, Step, Tick, talkVars, vars

Inv == Types /\ OwnCalls /\ Pacing /\ Budgets /\ NoQuestionTwice

LEMMA NextInv == ASSUME Inv, [Next]_vars PROVE Inv'
<1> USE DEF Inv
<1>1. NoQuestionTwice'
    BY NextTellsNothingTwice
<1>2. CASE UNCHANGED vars
    BY <1>1, <1>2 DEF vars, stepVars, timeVars, talkVars, Types, StepTypes, TimeTypes, TalkTypes,
        OwnCalls, OwnCall, Pacing, Budgets, Budget
<1>3. CASE Tick
    <2>1. OwnCalls' /\ Budgets'
        BY <1>3 DEF Tick, stepVars, OwnCalls, OwnCall, Budgets, Budget
    <2> QED
        BY <1>1, <1>3, <2>1, TimeStepTypes, TickPacing
<1>4. ASSUME NEW c \in Callers, Step(c) PROVE Inv'
    <2>1. Effect(c)
        BY <1>4, StepEffect
    <2>2. Types'
        BY <1>4, TimeStepTypes, StepStepTypes DEF Step
    <2>3. OwnCall(c)' /\ Budget(c)'
        BY <2>1, OwnCallKept, BudgetKept DEF OwnCalls, Budgets
    <2>4. ASSUME NEW d \in Callers, d # c PROVE OwnCall(d)' /\ Budget(d)'
        <3>1. UNCHANGED <<step[d], attempt[d], call[d], at[d], tries[d], calls[d]>>
            BY <1>4, <2>4, OthersWait
        <3>2. OwnCall(d) /\ Budget(d)
            BY DEF OwnCalls, Budgets
        <3> QED
            BY <3>1, <3>2 DEF OwnCall, Budget
    <2>5. OwnCalls' /\ Budgets'
        BY <2>3, <2>4 DEF OwnCalls, Budgets
    <2>6. Pacing'
        <3>1. CASE Pace(c) \/ Wake(c)
            BY <3>1, SlotPacing
        <3>2. CASE ~(Pace(c) \/ Wake(c))
            <4>1. UNCHANGED timeVars /\ at'[c] # "asleep"
                BY <1>4, <3>2, NobodyDozes DEF Step
            <4>2. \A d \in Callers : at'[d] = "asleep" => at[d] = "asleep"
                BY <1>4, <4>1, OthersWait
            <4> QED
                BY <4>1, <4>2, OthersPacing
        <3> QED
            BY <3>1, <3>2
    <2> QED
        BY <1>1, <2>2, <2>5, <2>6
<1> QED
    BY <1>2, <1>3, <1>4 DEF Next

LEMMA InvHolds == Spec => []Inv
<1>1. Init => Inv
    <2> SUFFICES ASSUME Init PROVE Inv
        OBVIOUS
    <2>1. NoQuestionTwice
        BY DEF Init, NoQuestionTwice
    <2> QED
        BY <2>1, InitTypes, InitCalls, InitPacing DEF Inv
<1> QED
    BY <1>1, NextInv, PTL DEF Spec

\* A step costs at most its max_attempts times the calls of one composition (engine/
\* pipeline.py: a name, a draft, a second draft) times RetryingLLM's max_attempts, which
\* nest, whatever the providers answer.
THEOREM CallsAreBounded == Spec => []CallsBounded
<1>1. Inv => CallsBounded
    BY BudgetIsEnough DEF Inv, OwnCalls, Budgets, CallsBounded
<1> QED
    BY <1>1, InvHolds, PTL

\* No question the model words repeats one that was put before; what does is the
\* authored text, marked as degraded (check_question in engine/guardrails.py, and the
\* composition in engine/pipeline.py that calls it).
THEOREM NothingIsAskedTwice == Spec => []NoQuestionTwice
<1>1. Inv => NoQuestionTwice
    BY DEF Inv
<1> QED
    BY <1>1, InvHolds, PTL

\* A caller's own calls are an interval apart, less the lateness of a sleeper, however
\* many callers read one slot (RateLimitedLLM.complete reads it before the sleep and
\* moves it after).
THEOREM CallsArePaced == Spec => PacedApart
<1> DEFINE Apart == \A c \in Callers :
                        at[c] \in {"limiter", "asleep"} /\ at'[c] = "request"
                            => since[c] >= Interval - Lag
<1>1. ASSUME Inv, NEW d \in Callers, Step(d), NEW c \in Callers,
             at[c] \in {"limiter", "asleep"}, at'[c] = "request"
      PROVE  since[c] >= Interval - Lag
    <2>t. /\ since[c] \in 0..Interval /\ wait[c] \in (-Lag)..Interval
          /\ since[c] + ahead >= Interval - Lag
          /\ at[c] = "asleep" => since[c] + wait[c] >= Interval - Lag
        BY <1>1 DEF Inv, Types, TimeTypes, Pacing
    <2>1. c = d
        BY <1>1, OthersWait DEF Inv
    <2>2. Pace(c) \/ Wake(c)
        BY <1>1, <2>1, NobodyDozes DEF Inv, Step
    <2>3. (at[c] = "limiter" /\ ahead = 0) \/ (at[c] = "asleep" /\ wait[c] <= 0)
        BY <1>1, <2>2 DEF Pace, Wake, Inv, Types, StepTypes
    <2> QED
        BY <2>t, <2>3, Settings
<1>2. Inv /\ [Next]_vars => [Apart]_vars
    BY <1>1 DEF Next, Tick, stepVars
<1> QED
    BY <1>2, InvHolds, PTL DEF Spec, PacedApart

===============================================================================
