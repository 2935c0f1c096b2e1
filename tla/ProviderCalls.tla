----------------------------- MODULE ProviderCalls -----------------------------
(***************************************************************************)
(* What the workflow steps ask of the model and speech providers.  Every   *)
(* session's steps run in one process and share its one language model,    *)
(* InstrumentedLLM(RateLimitedLLM(RetryingLLM(adapter))): the limiter      *)
(* paces a call, the retrying decorator repeats it after a transient       *)
(* error, the engine repeats the step, and in front of a question stands   *)
(* the guard, which may have it composed once more or fall back to the     *)
(* authored text.  Speech calls go to their adapter directly.              *)
(*                                                                         *)
(* Clocks are kept relative to the present, in ticks: how far ahead the    *)
(* limiter's next slot is, how long a caller still sleeps.                 *)
(***************************************************************************)
EXTENDS Integers, Sequences

CONSTANTS
    Callers,         \* sessions whose steps run concurrently
    Rounds,          \* how many replies each session still sends before it is scored
    Questions,       \* the persona's questions
    Authored,        \* the wording of the authored text of each question
    Drafts,          \* what the model may compose
    Portuguese,      \* persona.language starts with "pt"
    Responses,       \* what the provider may answer a request
    Stt,             \* the speech-to-text adapter
    Voice,           \* reply_mode is "voice"
    StepAttempts,    \* max_attempts of transcribe, compose, synthesize and score
    RetryAttempts,   \* RetryingLLM's max_attempts
    Interval,        \* the ticks between two slots, 60 / rate_per_minute
    Lag              \* how many ticks late a sleeper may be resumed

ASSUME ProviderAssumption ==
    /\ Rounds \in [Callers -> Nat]
    /\ StepAttempts \in [{"transcribe", "compose", "synthesize", "score"} -> Nat \ {0}]
    /\ RetryAttempts \in Nat \ {0}
    /\ Interval \in Nat \ {0}
    /\ Lag \in 0..(Interval - 1)

VARIABLES
    step,      \* the workflow step of a session
    attempt,   \* the engine's attempt at it
    call,      \* which call of the step is under way
    at,        \* where in the decorators it is
    tries,     \* RetryingLLM's attempt
    wait,      \* the ticks left to sleep for the limiter
    ahead,     \* the ticks to the limiter's next slot, 0 once it has passed
    sent,      \* replies transcribed so far
    intakes,   \* intake re-asks so far
    told,      \* the questions put so far, oldest first
    since,     \* ghost: ticks since the caller's last paced call, up to Interval
    calls      \* ghost: requests answered in the current step

stepVars == <<step, attempt, call, at, tries, calls>>
timeVars == <<wait, ahead, since>>
talkVars == <<sent, intakes, told>>
vars == <<stepVars, timeVars, talkVars>>

-------------------------------------------------------------------------------
(***************************************************************************)
(* The adapters: one request, classified.                                  *)
(***************************************************************************)

TransientStatuses == {408, 409, 429, 500, 502, 503, 504}

\* What an adapter makes of a 200: "blank" text, an "error" member, "nothing"
\* where the content should be, a body that is not JSON or not an object.
Parsed ==
    LET chat == [answer |-> "answered", blank |-> "answered", error |-> "transient",
                 nothing |-> "transient", garbled |-> "transient", unshaped |-> "permanent"]
    IN  [openrouter        |-> chat,
         openai_compat     |-> chat,
         stt_openrouter    |-> [chat EXCEPT !.blank = "transient"],
         stt_openai_compat |-> chat,
         tts_openai_compat |-> [body \in DOMAIN chat |->
                                   IF body \in {"blank", "nothing"} THEN "transient"
                                   ELSE "answered"]]

\* http is 0 when the request timed out or reached nobody.
Classify(adapter, response) ==
    IF response.http = 0 THEN "transient"
    ELSE IF response.http < 400 THEN Parsed[adapter][response.body]
    ELSE IF response.http \in TransientStatuses THEN "transient"
    ELSE "permanent"

Adapter(c) ==
    IF call[c] = "stt" THEN Stt ELSE IF call[c] = "tts" THEN "tts_openai_compat" ELSE "openrouter"

-------------------------------------------------------------------------------
(***************************************************************************)
(* The guard.  A draft carries what the rules read off its text; two texts *)
(* that read as the same question share a wording.                         *)
(***************************************************************************)

NearDuplicateButPending(draft, history) ==
    \E i \in DOMAIN history : i < Len(history) /\ history[i].wording = draft.wording
NearDuplicate(draft, history) ==
    \E i \in DOMAIN history : history[i].wording = draft.wording

CheckQuestion(draft, history) ==
    {code \in {"empty"} : draft.blank}
        \cup {code \in {"not_a_question"} : ~draft.blank /\ ~draft.asks}
        \cup {code \in {"near_duplicate"} : NearDuplicate(draft, history)}
        \cup {code \in {"wrong_language"} : draft.accented /\ ~Portuguese}
        \cup {code \in {"too_long"} : draft.long}
        \cup {code \in {"leaks_expected_answer"} : draft.leaks}

\* A blank response is a draft without words; it is near no question put before.
Blank == [wording |-> "none", blank |-> TRUE, asks |-> FALSE,
          accented |-> FALSE, long |-> FALSE, leaks |-> FALSE]

Composed(response) == IF response.body = "blank" THEN {Blank} ELSE Drafts

-------------------------------------------------------------------------------

Ended == {"failed", "done"}
Paced == {"name", "first", "second", "score"}

FirstCall(c, s) ==
    CASE s = "transcribe" -> "stt"
      [] s = "compose"    -> IF told[c] = <<>> THEN "name" ELSE "first"
      [] s = "synthesize" -> "tts"
      [] s = "score"      -> "score"

Entry(what) == IF what \in Paced THEN "limiter" ELSE "request"

\* A call of the step begins: the model's behind the limiter, the others at once.
Dial(c, what) ==
    /\ call' = [call EXCEPT ![c] = what]
    /\ at' = [at EXCEPT ![c] = Entry(what)]
    /\ tries' = [tries EXCEPT ![c] = 1]

BeginStep(c, s) ==
    /\ step' = [step EXCEPT ![c] = s]
    /\ attempt' = [attempt EXCEPT ![c] = 1]
    /\ calls' = [calls EXCEPT ![c] = 0]
    /\ Dial(c, FirstCall(c, s))

EndSteps(c, how) ==
    /\ step' = [step EXCEPT ![c] = how]
    /\ at' = [at EXCEPT ![c] = "ended"]
    /\ attempt' = [attempt EXCEPT ![c] = 1]
    /\ tries' = [tries EXCEPT ![c] = 1]
    /\ calls' = [calls EXCEPT ![c] = 0]
    /\ UNCHANGED call

Init ==
    /\ step = [c \in Callers |-> IF Rounds[c] = 0 THEN "score" ELSE "transcribe"]
    /\ attempt = [c \in Callers |-> 1]
    /\ call = [c \in Callers |-> IF Rounds[c] = 0 THEN "score" ELSE "stt"]
    /\ at = [c \in Callers |-> IF Rounds[c] = 0 THEN "limiter" ELSE "request"]
    /\ tries = [c \in Callers |-> 1]
    /\ wait = [c \in Callers |-> 0]
    /\ ahead = 0
    /\ sent = [c \in Callers |-> 0]
    /\ intakes = [c \in Callers |-> 0]
    /\ told = [c \in Callers |-> <<>>]
    /\ since = [c \in Callers |-> Interval]
    /\ calls = [c \in Callers |-> 0]

-------------------------------------------------------------------------------
(***************************************************************************)
(* RateLimitedLLM.complete: the slot is read before the sleep and the next *)
(* one is written after it, from the slot that was read.                   *)
(***************************************************************************)

Unclamped(n) == n
AtLeastZero(n) == IF n > 0 THEN n ELSE 0

TakeSlotNow(c) ==
    /\ ahead' = Interval
    /\ since' = [since EXCEPT ![c] = 0]
    /\ at' = [at EXCEPT ![c] = "request"]
    /\ UNCHANGED wait

PaceWithoutSleep(c) ==
    /\ at[c] = "limiter"
    /\ TakeSlotNow(c)
    /\ UNCHANGED <<step, attempt, call, tries, calls, talkVars>>

Pace(c) ==
    /\ at[c] = "limiter"
    /\ \/ /\ ahead = 0
          /\ TakeSlotNow(c)
       \/ /\ ahead > 0
          /\ wait' = [wait EXCEPT ![c] = ahead]
          /\ at' = [at EXCEPT ![c] = "asleep"]
          /\ UNCHANGED <<ahead, since>>
    /\ UNCHANGED <<step, attempt, call, tries, calls, talkVars>>

Wake(c) ==
    /\ at[c] = "asleep"
    /\ wait[c] <= 0
    /\ ahead' = AtLeastZero(wait[c] + Interval)
    /\ wait' = [wait EXCEPT ![c] = 0]
    /\ since' = [since EXCEPT ![c] = 0]
    /\ at' = [at EXCEPT ![c] = "request"]
    /\ UNCHANGED <<step, attempt, call, tries, calls, talkVars>>

\* Time passes; a sleeper is resumed at most Lag ticks late.
Tick ==
    /\ \A c \in Callers : at[c] = "asleep" => wait[c] > -Lag
    /\ wait' = [c \in Callers |-> IF at[c] = "asleep" THEN wait[c] - 1 ELSE wait[c]]
    /\ ahead' = AtLeastZero(ahead - 1)
    /\ since' = [c \in Callers |-> IF since[c] < Interval THEN since[c] + 1 ELSE Interval]
    /\ UNCHANGED <<stepVars, talkVars>>

-------------------------------------------------------------------------------
(***************************************************************************)
(* The request and what comes of it.                                       *)
(***************************************************************************)

Counted(c) == calls' = [calls EXCEPT ![c] = @ + 1]

CallAgainOnceMore(c) == tries[c] <= RetryAttempts
CallAgain(c) == tries[c] < RetryAttempts

StepAgain(c) == attempt[c] < StepAttempts[step[c]]

RaiseForgettingAttempts(c, verdict) ==
    \/ verdict = "transient" /\ BeginStep(c, step[c])
    \/ verdict = "permanent" /\ EndSteps(c, "failed")

\* The error reaches the engine, which repeats the step or fails the run.
Raise(c, verdict) ==
    \/ /\ verdict = "transient"
       /\ StepAgain(c)
       /\ attempt' = [attempt EXCEPT ![c] = @ + 1]
       /\ Dial(c, FirstCall(c, step[c]))
       /\ Counted(c)
       /\ UNCHANGED step
    \/ /\ verdict = "permanent" \/ ~StepAgain(c)
       /\ EndSteps(c, "failed")

Fails(c) ==
    /\ at[c] = "request"
    /\ \E r \in Responses :
          LET verdict == Classify(Adapter(c), r)
          IN  /\ verdict # "answered"
              /\ \/ /\ verdict = "transient"
                    /\ call[c] \in Paced
                    /\ CallAgain(c)
                    /\ at' = [at EXCEPT ![c] = "backoff"]
                    /\ Counted(c)
                    /\ UNCHANGED <<step, attempt, call, tries>>
                 \/ /\ ~(verdict = "transient" /\ call[c] \in Paced /\ CallAgain(c))
                    /\ Raise(c, verdict)
    /\ UNCHANGED <<timeVars, talkVars>>

Backoff(c) ==
    /\ at[c] = "backoff"
    /\ tries' = [tries EXCEPT ![c] = @ + 1]
    /\ at' = [at EXCEPT ![c] = "request"]
    /\ UNCHANGED <<step, attempt, call, calls, timeVars, talkVars>>

\* After compose: speak it, or wait for the next reply, or score the interview.
AfterReply(c) == BeginStep(c, IF sent[c] < Rounds[c] THEN "transcribe" ELSE "score")
AfterCompose(c) == IF Voice THEN BeginStep(c, "synthesize") ELSE AfterReply(c)

Answered(c, what, response) ==
    /\ at[c] = "request"
    /\ call[c] = what
    /\ Classify(Adapter(c), response) = "answered"
    /\ UNCHANGED timeVars

\* The last reply may answer what was still open: the closing turn is scripted,
\* compose calls nobody for it.  Otherwise it gets a question as every reply does,
\* and the candidate finishes the interview there.
Closes(c) == told[c] # <<>> /\ sent[c] + 1 = Rounds[c]

Transcribed(c) ==
    /\ \E r \in Responses : Answered(c, "stt", r)
    /\ sent' = [sent EXCEPT ![c] = @ + 1]
    /\ \/ BeginStep(c, "compose")
       \/ Closes(c) /\ BeginStep(c, IF Voice THEN "synthesize" ELSE "score")
    /\ UNCHANGED <<intakes, told>>

\* The model found a name, or the candidate was asked twice already; or the
\* authored intake prompt is put once more.
Named(c) ==
    /\ \E r \in Responses : Answered(c, "name", r)
    /\ \/ /\ Dial(c, "first")
          /\ Counted(c)
          /\ UNCHANGED <<step, attempt, intakes>>
       \/ /\ intakes[c] = 0
          /\ intakes' = [intakes EXCEPT ![c] = 1]
          /\ AfterCompose(c)
    /\ UNCHANGED <<sent, told>>

Tell(c, wording, degraded) ==
    /\ told' = [told EXCEPT ![c] = Append(@, [wording |-> wording, degraded |-> degraded])]
    /\ AfterCompose(c)
    /\ UNCHANGED <<sent, intakes>>

First(c) ==
    \E r \in Responses :
        /\ Answered(c, "first", r)
        /\ \E draft \in Composed(r) :
              \/ /\ CheckQuestion(draft, told[c]) = {}
                 /\ Tell(c, draft.wording, FALSE)
              \/ /\ CheckQuestion(draft, told[c]) # {}
                 /\ Dial(c, "second")
                 /\ Counted(c)
                 /\ UNCHANGED <<step, attempt, talkVars>>

SecondUnchecked(c) ==
    \E r \in Responses :
        /\ Answered(c, "second", r)
        /\ \E draft \in Composed(r) : Tell(c, draft.wording, FALSE)

\* The second draft, or the authored text, which no rule looks at.
Second(c) ==
    \E r \in Responses :
        /\ Answered(c, "second", r)
        /\ \E draft \in Composed(r), q \in Questions :
              \/ /\ CheckQuestion(draft, told[c]) = {}
                 /\ Tell(c, draft.wording, FALSE)
              \/ /\ CheckQuestion(draft, told[c]) # {}
                 /\ Tell(c, Authored[q], TRUE)

Synthesized(c) ==
    /\ \E r \in Responses : Answered(c, "tts", r)
    /\ AfterReply(c)
    /\ UNCHANGED talkVars

\* A scoring reply evaluate cannot read is a DomainError: nobody asks again.
Scored(c) ==
    /\ \E r \in Responses : Answered(c, "score", r)
    /\ \E how \in Ended : EndSteps(c, how)
    /\ UNCHANGED talkVars

Step(c) ==
    \/ Pace(c) \/ Wake(c) \/ Fails(c) \/ Backoff(c)
    \/ Transcribed(c) \/ Named(c) \/ First(c) \/ Second(c)
    \/ Synthesized(c) \/ Scored(c)

Next == Tick \/ \E c \in Callers : Step(c)

Spec == Init /\ [][Next]_vars

\* Time goes on, and the event loop resumes whoever can go on; a request is
\* answered or times out.
FairSpec == Spec /\ WF_vars(Tick) /\ \A c \in Callers : WF_vars(Step(c))

-------------------------------------------------------------------------------
(***************************************************************************)
(* Properties.                                                             *)
(***************************************************************************)

StepNames == {"transcribe", "compose", "synthesize", "score"}

\* The types of the variables; a sleeper sleeps no longer than one interval.
TypeOK ==
    /\ step \in [Callers -> StepNames \cup Ended]
    /\ attempt \in [Callers -> Nat \ {0}]
    /\ call \in [Callers -> {"stt", "tts"} \cup Paced]
    /\ at \in [Callers -> {"limiter", "asleep", "request", "backoff", "ended"}]
    /\ tries \in [Callers -> Nat \ {0}]
    /\ wait \in [Callers -> (-Lag)..Interval]
    /\ ahead \in 0..Interval
    /\ sent \in [Callers -> Nat]
    /\ intakes \in [Callers -> 0..1]
    /\ \A c \in Callers : \A i \in DOMAIN told[c] : told[c][i].degraded \in BOOLEAN
    /\ since \in [Callers -> 0..Interval]
    /\ calls \in [Callers -> Nat]

\* A step costs a bounded number of requests, however the retries of the
\* decorator, of the guard and of the engine nest.
MostCalls(s) == IF s = "compose" THEN 3 * RetryAttempts * StepAttempts[s]
                ELSE IF s = "score" THEN RetryAttempts * StepAttempts[s] ELSE StepAttempts[s]
CallsBounded == \A c \in Callers : step[c] \in StepNames => calls[c] < MostCalls(step[c])

\* Nothing the model words reads like a question put before, in any earlier
\* round; where a question is put twice the second is the authored fallback.
NoQuestionTwice ==
    \A c \in Callers : \A i, j \in DOMAIN told[c] :
        i < j /\ told[c][i].wording = told[c][j].wording => told[c][j].degraded

\* A caller's own calls are an interval apart, but for the lateness of a sleeper,
\* however many sleep with it: the process makes at most one paced call per
\* caller and interval.
PacedApart ==
    [][\A c \in Callers :
          at[c] \in {"limiter", "asleep"} /\ at'[c] = "request"
              => since[c] >= Interval - Lag]_vars

\* Whatever the providers answer, every session's steps come to an end.
EverySessionEnds == \A c \in Callers : <>(step[c] \in Ended)

\* What RateLimitedLLM's docstring says: the process makes at most one paced
\* call in an interval, the next one waits.
Paces ==
    [][\A c, d \in Callers :
          at[c] \in {"limiter", "asleep"} /\ at'[c] = "request"
              => since[d] >= Interval - Lag]_vars

===============================================================================
