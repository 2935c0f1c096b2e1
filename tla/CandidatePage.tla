----------------------------- MODULE CandidatePage -----------------------------
(***************************************************************************)
(* interview.html against the session routes: one candidate, one page, the *)
(* session on the server.  The page records a take, posts it, polls the    *)
(* run until a deadline, shows the round and lets the candidate record     *)
(* again; at the closing card it does the same with Finish.  Requests and  *)
(* replies may be lost, runs may be slow or fail, the token may expire,    *)
(* and the candidate may press any button that is visible, during a send   *)
(* as well: only Send and Finish look at the `sending` flag.               *)
(*                                                                         *)
(* The server's side is what InterviewSession shows of it: a round is      *)
(* committed once, in order, and a resubmission joins the round's run.  An *)
(* upload that the page has given up may still reach it, at any time.      *)
(***************************************************************************)
EXTENDS Naturals, Sequences, Functions

CONSTANTS
    MaxRounds,   \* session_max_turns
    Seats,       \* max_sessions of the invite link
    MaxFaults    \* bound: lost messages, deadlines missed, failures, reloads

ASSUME PageAssumption ==
    /\ MaxRounds \in Nat \ {0}
    /\ Seats \in Nat
    /\ MaxFaults \in Nat

Rounds == 0..(MaxRounds - 1)

VARIABLES
    seats,     \* seats left on the link
    phase,     \* the session: intake and questioning are both "open"
    done,      \* rounds whose two turns are committed
    runs,      \* status of the turn run of each round
    report,    \* status of the evaluation run
    upload,    \* the take staged for each round
    straggler, \* the take of an upload given up by the page and under way, or NoTake

    screen,    \* passkey, interview, done
    card,      \* of the interview screen: recorder or closing
    token,     \* none, valid, expired
    sending,   \* no, or where sendTake or finish is while the flag is set
    posted,    \* the take in the request's form
    polled,    \* the round whose run is polled
    button,    \* the record button is visible
    recording, \* the take under the microphone, or NoTake
    take,      \* the take to listen back to, send or drop, or NoTake
    prompt,    \* the round whose question is on the screen
    thread,    \* the rounds appended to the thread, and whose session's they are

    warned,    \* ghost: an error was shown, and no round since
    faults     \* ghost: how often what went wrong

serverVars == <<seats, phase, done, runs, report, upload, straggler>>
requestVars == <<sending, posted, polled>>
recorderVars == <<button, recording, take>>
shownVars == <<screen, card, prompt, thread>>
vars == <<serverVars, token, requestVars, recorderVars, shownVars, warned, faults>>

\* A take is known by the question on the screen when it was begun, and by
\* whether a send was under way while it was recorded.
NoTake == [for |-> MaxRounds + 1, overlaps |-> FALSE]
Terminal == {"succeeded", "failed"}
Kinds == {"lost", "delayed", "slow", "failed", "expired", "reloaded"}

Happens(kind) ==
    /\ FoldFunction(+, 0, faults) < MaxFaults
    /\ faults' = [faults EXCEPT ![kind] = @ + 1]

\* A candidate comes by an invite link, or from jobs.html with the session that
\* start_job has opened, and no slug to claim another by.
FromLink ==
    /\ screen = "passkey"
    /\ token = "none"
    /\ seats = Seats

FromJobs ==
    /\ screen = "interview"
    /\ token = "valid"
    /\ seats = 0

Init ==
    /\ FromLink \/ FromJobs
    /\ phase = "open"
    /\ done = 0
    /\ runs = [r \in Rounds |-> "none"]
    /\ report = "none"
    /\ upload = [r \in Rounds |-> NoTake]
    /\ straggler = NoTake
    /\ card = "recorder"
    /\ sending = "no"
    /\ posted = NoTake
    /\ polled = 0
    /\ button = TRUE
    /\ recording = NoTake
    /\ take = NoTake
    /\ prompt = 0
    /\ thread = <<>>
    /\ warned = FALSE
    /\ faults = [k \in Kinds |-> 0]

-------------------------------------------------------------------------------
(***************************************************************************)
(* The link, the token.                                                    *)
(***************************************************************************)

\* Its first prompt is shown; recorder, thread and cards are left as they are.
EnterInterview ==
    /\ token' = "valid"
    /\ screen' = "interview"
    /\ prompt' = 0

\* claim opens a new session, whatever became of the last one; what still reaches
\* that one is not followed.
Claim ==
    /\ screen = "passkey"
    /\ seats > 0
    /\ seats' = seats - 1
    /\ phase' = "open"
    /\ done' = 0
    /\ runs' = [r \in Rounds |-> "none"]
    /\ report' = "none"
    /\ upload' = [r \in Rounds |-> NoTake]
    /\ straggler' = NoTake
    /\ EnterInterview
    /\ UNCHANGED <<requestVars, recorderVars, card, thread, warned, faults>>

\* A reloaded page is a fresh one; the token was in a variable of the old one.
Reload ==
    /\ screen = "interview"
    /\ Happens("reloaded")
    /\ screen' = "passkey"
    /\ card' = "recorder"
    /\ thread' = <<>>
    /\ warned' = FALSE
    /\ token' = "none"
    /\ sending' = "no"
    /\ button' = TRUE
    /\ recording' = NoTake
    /\ take' = NoTake
    /\ UNCHANGED <<serverVars, posted, polled, prompt>>

TokenExpires ==
    /\ token = "valid"
    /\ Happens("expired")
    /\ token' = "expired"
    /\ UNCHANGED <<serverVars, requestVars, recorderVars, shownVars, warned>>

\* A request with such a token is answered 401, by require_candidate_session.
HandleExpired ==
    /\ token = "expired"
    /\ sending \in {"posting", "polling", "finishing", "awaiting"}
    /\ sending' = "no"
    /\ token' = "none"
    /\ screen' = "passkey"
    /\ warned' = TRUE
    /\ UNCHANGED <<serverVars, posted, polled, recorderVars, card, prompt, thread, faults>>

-------------------------------------------------------------------------------
(***************************************************************************)
(* The recorder.                                                           *)
(***************************************************************************)

AtRecorder == screen = "interview" /\ card = "recorder"

Record ==
    /\ AtRecorder
    /\ button
    /\ button' = FALSE
    /\ recording' = [for |-> prompt, overlaps |-> sending # "no"]
    /\ UNCHANGED <<serverVars, token, requestVars, take, shownVars, warned, faults>>

Stop ==
    /\ AtRecorder
    /\ recording # NoTake
    /\ take' = recording
    /\ recording' = NoTake
    /\ button' = FALSE
    /\ UNCHANGED <<serverVars, token, requestVars, shownVars, warned, faults>>

\* The button is there while the take is on its way, too.
Rerecord ==
    /\ AtRecorder
    /\ take # NoTake
    /\ take' = NoTake
    /\ button' = TRUE
    /\ UNCHANGED <<serverVars, token, requestVars, recording, shownVars, warned, faults>>

Send ==
    /\ AtRecorder
    /\ take # NoTake
    /\ sending = "no"
    /\ sending' = "posting"
    /\ posted' = take
    /\ recording' = [recording EXCEPT !.overlaps = recording # NoTake]
    /\ UNCHANGED <<serverVars, token, polled, button, take, shownVars, warned, faults>>

-------------------------------------------------------------------------------
(***************************************************************************)
(* POST /session/turns, and the poll of its run.                           *)
(***************************************************************************)

TurnIndexOfLast == IF done = 0 THEN 0 ELSE done - 1
TurnIndex == done

\* Neither closed nor at its turn limit.
TakesTurns == phase = "open" /\ done < MaxRounds

StartTurn(audio) ==
    /\ upload' = [upload EXCEPT ![TurnIndex] = audio]
    /\ runs' = [runs EXCEPT ![TurnIndex] = IF @ = "none" THEN "running" ELSE @]

SubmitTurn ==
    /\ sending = "posting"
    /\ token = "valid"
    /\ TakesTurns
    /\ StartTurn(posted)
    /\ polled' = TurnIndex
    /\ sending' = "accepted"
    /\ UNCHANGED <<seats, phase, done, report, straggler, token, posted, recorderVars, shownVars,
                   warned, faults>>

\* "That answer didn't go through ... You can try again."
ShowError ==
    /\ sending' = "no"
    /\ button' = TRUE
    /\ warned' = TRUE

RefuseTurn ==
    /\ sending = "posting"
    /\ token = "valid"
    /\ ~TakesTurns
    /\ ShowError
    /\ UNCHANGED <<serverVars, token, posted, polled, recording, take, shownVars, faults>>

TurnAcceptedKeepingTake ==
    /\ sending = "accepted"
    /\ button' = FALSE
    /\ sending' = "polling"
    /\ UNCHANGED <<serverVars, token, posted, polled, recording, take, shownVars, warned, faults>>

\* The reply with the run's id: whatever take there is by now is dropped.
TurnAccepted ==
    /\ sending = "accepted"
    /\ take' = NoTake
    /\ button' = FALSE
    /\ sending' = "polling"
    /\ UNCHANGED <<serverVars, token, posted, polled, recording, shownVars, warned, faults>>

ShowRoundOnly ==
    /\ thread' = Append(thread, [session |-> seats, round |-> polled])
    /\ warned' = FALSE
    /\ sending' = "no"
    /\ UNCHANGED prompt

ShowRound ==
    /\ thread' = Append(thread, [session |-> seats, round |-> polled])
    /\ prompt' = polled + 1
    /\ warned' = FALSE
    /\ sending' = "no"

PollSucceeds ==
    /\ sending = "polling"
    /\ token = "valid"
    /\ runs[polled] = "succeeded"
    /\ ShowRound
    /\ \/ /\ phase # "closing"
          /\ button' = TRUE
          /\ UNCHANGED card
       \/ /\ phase = "closing"
          /\ card' = "closing"
          /\ UNCHANGED button
    /\ UNCHANGED <<serverVars, screen, token, posted, polled, recording, take, faults>>

PollFails ==
    /\ sending = "polling"
    /\ token = "valid"
    /\ runs[polled] = "failed"
    /\ ShowError
    /\ UNCHANGED <<serverVars, token, posted, polled, recording, take, shownVars, faults>>

\* 90 seconds have passed: "It's still running -- check back shortly."
PollGivesUp ==
    /\ sending = "polling"
    /\ Happens("slow")
    /\ ShowError
    /\ UNCHANGED <<serverVars, token, posted, polled, recording, take, shownVars>>

\* The connection breaks while the upload is on its way: an error for the page,
\* a request like any other for the server when it gets there.
GiveUpUpload ==
    /\ sending = "posting"
    /\ token = "valid"
    /\ straggler = NoTake
    /\ Happens("delayed")
    /\ straggler' = posted
    /\ ShowError
    /\ UNCHANGED <<seats, phase, done, runs, report, upload, token, posted, polled, recording, take,
                   shownVars>>

StragglerArrives ==
    /\ straggler # NoTake
    /\ \/ TakesTurns /\ StartTurn(straggler)
       \/ ~TakesTurns /\ UNCHANGED <<upload, runs>>
    /\ straggler' = NoTake
    /\ UNCHANGED <<seats, phase, done, report, token, requestVars, recorderVars, shownVars, warned,
                   faults>>

\* The request, its reply or a poll is lost on the way, or the upload is refused.
LoseTurnMessage ==
    /\ sending \in {"posting", "accepted", "polling"}
    /\ Happens("lost")
    /\ ShowError
    /\ UNCHANGED <<serverVars, token, posted, polled, recording, take, shownVars>>

-------------------------------------------------------------------------------
(***************************************************************************)
(* Finish.                                                                 *)
(***************************************************************************)

Finish ==
    /\ screen = "interview"
    /\ card = "closing"
    /\ sending = "no"
    /\ sending' = "finishing"
    /\ UNCHANGED <<serverVars, token, posted, polled, recorderVars, shownVars, warned, faults>>

FinishPhasesOnce == {"closing"}
FinishPhases == {"closing", "evaluating", "completed"}

SubmitFinish ==
    /\ sending = "finishing"
    /\ token = "valid"
    /\ \/ /\ phase \in FinishPhases
          /\ phase' = IF phase = "closing" THEN "evaluating" ELSE phase
          /\ report' = IF report = "none" THEN "running" ELSE report
          /\ sending' = "finished"
       \/ /\ phase \notin FinishPhases
          /\ sending' = "no"
          /\ UNCHANGED <<phase, report>>
    /\ UNCHANGED <<seats, done, runs, upload, straggler, token, posted, polled, recorderVars,
                   shownVars, warned, faults>>

FinishAccepted ==
    /\ sending = "finished"
    /\ sending' = "awaiting"
    /\ UNCHANGED <<serverVars, token, posted, polled, recorderVars, shownVars, warned, faults>>

ReportArrives ==
    /\ sending = "awaiting"
    /\ token = "valid"
    /\ report \in Terminal
    /\ sending' = "no"
    /\ screen' = IF report = "succeeded" THEN "done" ELSE screen
    /\ UNCHANGED <<serverVars, token, posted, polled, recorderVars, card, prompt, thread, warned,
                   faults>>

FinishGoesWrong ==
    /\ sending \in {"finishing", "finished", "awaiting"}
    /\ \/ Happens("lost")
       \/ sending = "awaiting" /\ Happens("slow")
    /\ sending' = "no"
    /\ UNCHANGED <<serverVars, token, posted, polled, recorderVars, shownVars, warned>>

-------------------------------------------------------------------------------
(***************************************************************************)
(* The runs.                                                               *)
(***************************************************************************)

\* A turn run is committed and closes the interview or not, the last one the limit
\* allows neither.
CommitRound(r) ==
    /\ runs[r] = "running"
    /\ runs' = [runs EXCEPT ![r] = "succeeded"]
    /\ done' = done + 1
    /\ phase' \in {"open", "closing"}
    /\ UNCHANGED <<seats, report, upload, straggler, token, requestVars, recorderVars, shownVars,
                   warned, faults>>

FailRound(r) ==
    /\ runs[r] = "running"
    /\ Happens("failed")
    /\ runs' = [runs EXCEPT ![r] = "failed"]
    /\ UNCHANGED <<seats, phase, done, report, upload, straggler, token, requestVars, recorderVars,
                   shownVars, warned>>

CommitReport ==
    /\ report = "running"
    /\ report' = "succeeded"
    /\ phase' = "completed"
    /\ UNCHANGED <<seats, done, runs, upload, straggler, token, requestVars, recorderVars, shownVars, warned,
                   faults>>

FailReport ==
    /\ report = "running"
    /\ Happens("failed")
    /\ report' = "failed"
    /\ UNCHANGED <<seats, phase, done, runs, upload, straggler, token, requestVars, recorderVars,
                   shownVars, warned>>

-------------------------------------------------------------------------------

Run == CommitReport \/ \E r \in Rounds : CommitRound(r)

Reply ==
    \/ HandleExpired
    \/ SubmitTurn \/ RefuseTurn \/ TurnAccepted \/ PollSucceeds \/ PollFails
    \/ SubmitFinish \/ FinishAccepted \/ ReportArrives

Press == Claim \/ Record \/ Stop \/ Send \/ Finish

Fault ==
    \/ Reload \/ TokenExpires \/ PollGivesUp \/ LoseTurnMessage \/ GiveUpUpload \/ FinishGoesWrong
    \/ FailReport
    \/ \E r \in Rounds : FailRound(r)

Next == Run \/ Reply \/ Press \/ Rerecord \/ StragglerArrives \/ Fault

Spec == Init /\ [][Next]_vars

\* Runs end and replies arrive unless a fault intervenes; the candidate goes on
\* answering: somebody who can record, stop, send or finish again and again does.
FairSpec ==
    /\ Spec
    /\ WF_vars(Run) /\ WF_vars(Reply)
    /\ SF_vars(Record) /\ SF_vars(Stop) /\ SF_vars(Send) /\ WF_vars(Finish) /\ WF_vars(Claim)

-------------------------------------------------------------------------------
(***************************************************************************)
(* Properties.                                                             *)
(***************************************************************************)

\* The page is never silently out of step with the session: when it waits for
\* the candidate and the last thing it showed was a round, the question on the
\* screen is that of the round the next reply will get, and the closing card is
\* up exactly when the session is past its questions.  An upload that arrives after
\* the page gave it up does get a round past the page.
InStep ==
    (screen = "interview" /\ sending = "no" /\ ~warned /\ faults["delayed"] = 0) =>
        /\ prompt = done
        /\ card = "recorder" <=> phase = "open"

\* No round is shown twice or out of order, whatever was lost or sent again.
ShownInOrder ==
    \A i, j \in DOMAIN thread :
        i < j /\ thread[i].session = thread[j].session => thread[i].round < thread[j].round

\* A round's reply was recorded while its question was on the screen, unless a
\* message was lost, late or answered with an error, or the candidate recorded
\* while a send was still under way.
RepliesFitTheQuestion ==
    \A r \in Rounds :
        \/ upload[r] = NoTake
        \/ upload[r].for = r
        \/ upload[r].overlaps
        \/ \E k \in Kinds : faults[k] > 0

\* What leaves an interview without a way on: a seat or a token that is gone, a
\* run that failed (a second try joins it), a closing the page never heard of, or
\* the turn limit, where a session that is still open takes no turn and no Finish.
Stranded ==
    \/ faults["expired"] + faults["reloaded"] + faults["failed"] > 0
    \/ card = "recorder" /\ phase # "open" /\ warned
    \/ phase = "open" /\ done = MaxRounds

\* Every interview the candidate goes on with is finished, through lost messages
\* and missed deadlines: Send and Finish can be pressed until they get through.
EveryInterviewEnds == screen = "interview" ~> (screen = "done" \/ Stranded)

===============================================================================
