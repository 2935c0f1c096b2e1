-------------------------- MODULE CandidatePageProofs --------------------------
(***************************************************************************)
(* The page and its session, for any number of rounds, seats and faults:   *)
(* when the page waits for the candidate it shows where the session is, no *)
(* round is shown twice, and a reply is the one to the question shown.     *)
(***************************************************************************)
EXTENDS CandidatePage, TLAPS

Phases == {"open", "closing", "evaluating", "completed"}
RunStates == {"none", "running"} \cup Terminal
Takes == [for : 0..(MaxRounds + 1), overlaps : BOOLEAN]
Shown == [session : Nat, round : Nat]

ServerTypes ==
    /\ seats \in Nat
    /\ phase \in Phases
    /\ done \in 0..MaxRounds
    /\ runs \in [Rounds -> RunStates]
    /\ report \in RunStates
    /\ upload \in [Rounds -> Takes]
    /\ straggler \in Takes
PageTypes ==
    /\ screen \in {"passkey", "interview", "done"}
    /\ card \in {"recorder", "closing"}
    /\ token \in {"none", "valid", "expired"}
    /\ sending \in {"no", "posting", "accepted", "polling", "finishing", "finished", "awaiting"}
    /\ polled \in Rounds
    /\ prompt \in 0..MaxRounds
    /\ posted \in Takes
    /\ recording \in Takes
    /\ take \in Takes
    /\ thread \in Seq(Shown)
    /\ warned \in BOOLEAN
    /\ faults \in [Kinds -> Nat]

\* Rounds are committed one after the other; once the interview has closed no run of
\* a round is left, and before that there is no report.
RunsOf ==
    /\ \A r \in Rounds : /\ r < done => runs[r] = "succeeded"
                         /\ r > done => runs[r] = "none"
                         /\ r = done => runs[r] # "succeeded"
    /\ phase # "open" => \A r \in Rounds : r >= done => runs[r] = "none"
    /\ report # "none" => phase \in {"evaluating", "completed"}

\* No upload is under way behind the page's back unless it gave one up.
Punctual == faults["delayed"] = 0
Stragglers == Punctual => straggler = NoTake

Server == ServerTypes /\ PageTypes /\ RunsOf /\ Stragglers

-------------------------------------------------------------------------------

LEMMA RoundsCounted ==
    /\ MaxRounds \in Nat /\ MaxRounds >= 1 /\ 0 \in Rounds
    /\ \A r : r \in Rounds <=> r \in Nat /\ r < MaxRounds
BY PageAssumption DEF Rounds

LEMMA HappensCounts ==
    ASSUME NEW kind \in Kinds, Happens(kind), faults \in [Kinds -> Nat]
    PROVE  /\ faults' \in [Kinds -> Nat]
           /\ faults'[kind] > 0
<1>1. faults' = [faults EXCEPT ![kind] = @ + 1]
    BY Zenon DEF Happens
<1>2. faults[kind] \in Nat
    OBVIOUS
<1> QED
    BY <1>1, <1>2

LEMMA InitServer == Init => Server
<1> SUFFICES ASSUME Init PROVE Server
    OBVIOUS
<1>1. NoTake \in Takes
    BY RoundsCounted DEF NoTake, Takes
<1>2. ServerTypes
    BY <1>1, RoundsCounted, PageAssumption DEF Init, FromLink, FromJobs, ServerTypes, Phases, RunStates
<1>3. PageTypes
    BY <1>1, RoundsCounted DEF Init, FromLink, FromJobs, PageTypes
<1>4. RunsOf
    BY RoundsCounted DEF Init, RunsOf
<1>5. Stragglers
    BY DEF Init, Stragglers
<1> QED
    BY <1>2, <1>3, <1>4, <1>5 DEF Server

\* The rest of the page's steps and of the candidate's leave the session alone.
LEMMA ServerStill ==
    ASSUME [Next]_vars,
           ~(Claim \/ SubmitTurn \/ GiveUpUpload \/ StragglerArrives \/ SubmitFinish
               \/ CommitReport \/ FailReport),
           ~\E r \in Rounds : CommitRound(r) \/ FailRound(r)
    PROVE  UNCHANGED serverVars
BY DEF Next, Run, Reply, Press, Fault, vars, HandleExpired, RefuseTurn, TurnAccepted, PollSucceeds,
    PollFails, FinishAccepted, ReportArrives, Record, Stop, Send, Finish, Rerecord, Reload,
    TokenExpires, PollGivesUp, LoseTurnMessage, FinishGoesWrong

LEMMA CommitRoundIsNext ==
    ASSUME Server, NEW r \in Rounds, CommitRound(r) \/ FailRound(r)
    PROVE  r = done /\ phase = "open" /\ done < MaxRounds
BY RoundsCounted DEF Server, ServerTypes, RunsOf, CommitRound, FailRound

\* A turn that is taken stages its audio and starts the round's run unless it has one.
LEMMA TurnStarted ==
    ASSUME Server, TakesTurns, NEW audio \in Takes, StartTurn(audio)
    PROVE  /\ done \in Rounds /\ phase = "open"
           /\ runs' \in [Rounds -> RunStates] /\ upload' \in [Rounds -> Takes]
           /\ \A r \in Rounds : runs'[r] = IF r = done /\ runs[r] = "none" THEN "running" ELSE runs[r]
           /\ \A r \in Rounds : upload'[r] = IF r = done THEN audio ELSE upload[r]
<1> USE RoundsCounted DEF Server, ServerTypes, TurnIndex, StartTurn
<1>1. done \in Rounds /\ phase = "open"
    BY DEF TakesTurns
<1>2. upload' \in [Rounds -> Takes] /\ \A r \in Rounds : upload'[r] = IF r = done THEN audio ELSE upload[r]
    BY <1>1
<1> DEFINE new == IF runs[done] = "none" THEN "running" ELSE runs[done]
<1>3. runs' = [runs EXCEPT ![done] = new]
    OBVIOUS
<1>4. new \in RunStates
    BY <1>1 DEF RunStates
<1> HIDE DEF new
<1>5. /\ runs' \in [Rounds -> RunStates]
      /\ \A r \in Rounds : runs'[r] = IF r = done THEN new ELSE runs[r]
    BY <1>1, <1>3, <1>4
<1> QED
    BY <1>1, <1>2, <1>5 DEF new

LEMMA NextRunsOf ==
    ASSUME Server, [Next]_vars
    PROVE  ServerTypes' /\ RunsOf'
<1> USE RoundsCounted DEF Server
<1>1. NoTake \in Takes
    BY DEF NoTake, Takes
<1>2. CASE Claim
    BY <1>1, <1>2 DEF Claim, ServerTypes, RunsOf, Phases, RunStates
<1>t. ASSUME NEW audio \in Takes, TakesTurns, StartTurn(audio), straggler' \in Takes,
             UNCHANGED <<seats, phase, done, report>>
      PROVE  ServerTypes' /\ RunsOf'
    BY <1>t, TurnStarted DEF ServerTypes, RunsOf
<1>3. CASE SubmitTurn
    BY <1>3, <1>t DEF SubmitTurn, ServerTypes, PageTypes
<1>9. CASE GiveUpUpload
    BY <1>9 DEF GiveUpUpload, ServerTypes, PageTypes, RunsOf
<1>10. CASE StragglerArrives
    <2>1. straggler' \in Takes /\ straggler \in Takes /\ UNCHANGED <<seats, phase, done, report>>
        BY <1>1, <1>10 DEF StragglerArrives, ServerTypes
    <2>2. CASE UNCHANGED <<upload, runs>>
        BY <2>1, <2>2 DEF ServerTypes, RunsOf
    <2> QED
        BY <1>10, <1>t, <2>1, <2>2 DEF StragglerArrives
<1>4. CASE SubmitFinish
    BY <1>4 DEF SubmitFinish, FinishPhases, ServerTypes, RunsOf, Phases, RunStates
<1>5. CASE CommitReport \/ FailReport
    BY <1>5 DEF CommitReport, FailReport, ServerTypes, RunsOf, Phases, RunStates, Terminal
<1>6. ASSUME NEW r \in Rounds, CommitRound(r) PROVE ServerTypes' /\ RunsOf'
    <2>1. r = done /\ done < MaxRounds
        BY <1>6, CommitRoundIsNext
    <2>2. /\ runs' \in [Rounds -> RunStates]
          /\ \A s \in Rounds : runs'[s] = IF s = r THEN "succeeded" ELSE runs[s]
        BY <1>6 DEF CommitRound, ServerTypes, RunStates, Terminal
    <2>3. /\ done' = done + 1 /\ phase' \in {"closing", "open"}
          /\ UNCHANGED <<seats, report, upload, straggler>>
        BY <1>6 DEF CommitRound
    <2>4. report = "none"
        BY <1>6, CommitRoundIsNext DEF RunsOf
    <2> QED
        BY <2>1, <2>2, <2>3, <2>4 DEF ServerTypes, RunsOf, Phases
<1>7. ASSUME NEW r \in Rounds, FailRound(r) PROVE ServerTypes' /\ RunsOf'
    <2>1. r = done /\ phase = "open"
        BY <1>7, CommitRoundIsNext
    <2>2. /\ runs' \in [Rounds -> RunStates]
          /\ \A s \in Rounds : runs'[s] = IF s = r THEN "failed" ELSE runs[s]
        BY <1>7 DEF FailRound, ServerTypes, RunStates, Terminal
    <2> QED
        BY <1>7, <2>1, <2>2 DEF FailRound, ServerTypes, RunsOf
<1>8. CASE UNCHANGED serverVars
    BY <1>8 DEF serverVars, ServerTypes, RunsOf
<1> QED
    BY <1>2, <1>3, <1>4, <1>5, <1>6, <1>7, <1>8, <1>9, <1>10, ServerStill

LEMMA ShowRoundTypes ==
    ASSUME Server, ShowRound
    PROVE  /\ thread' \in Seq(Shown) /\ prompt' \in 0..MaxRounds
           /\ thread' = Append(thread, [session |-> seats, round |-> polled])
           /\ [session |-> seats, round |-> polled] \in Shown
<1>1. seats \in Nat /\ polled \in Nat /\ polled < MaxRounds
    BY RoundsCounted DEF Server, ServerTypes, PageTypes
<1>2. [session |-> seats, round |-> polled] \in Shown
    BY <1>1 DEF Shown
<1>3. thread' = Append(thread, [session |-> seats, round |-> polled]) /\ prompt' = polled + 1
    BY DEF ShowRound
<1>4. thread' \in Seq(Shown)
    BY <1>2, <1>3 DEF Server, PageTypes
<1> QED
    BY <1>1, <1>2, <1>3, <1>4, RoundsCounted

LEMMA NextPageTypes ==
    ASSUME Server, [Next]_vars
    PROVE  PageTypes'
<1> USE RoundsCounted DEF Server, PageTypes
<1>1. NoTake \in Takes
    BY DEF NoTake, Takes
<1>2. CASE Claim
    BY <1>2 DEF Claim, EnterInterview, requestVars, recorderVars
<1>3. CASE Reload
    <2>1. faults' \in [Kinds -> Nat]
        BY <1>3, HappensCounts DEF Reload, Kinds
    <2>2. thread' = <<>> /\ thread' \in Seq(Shown)
        BY <1>3 DEF Reload
    <2> QED
        BY <1>1, <1>3, <2>1, <2>2 DEF Reload
<1>4. CASE TokenExpires
    <2>1. faults' \in [Kinds -> Nat]
        BY <1>4, HappensCounts DEF TokenExpires, Kinds
    <2> QED
        BY <1>4, <2>1 DEF TokenExpires, requestVars, recorderVars, shownVars
<1>5. CASE HandleExpired
    BY <1>5 DEF HandleExpired, recorderVars
<1>6. CASE Record
    <2>1. [for |-> prompt, overlaps |-> sending # "no"] \in Takes
        BY DEF Takes
    <2> QED
        BY <1>6, <2>1 DEF Record, requestVars, shownVars
<1>7. CASE Stop \/ Rerecord
    BY <1>1, <1>7 DEF Stop, Rerecord, requestVars, shownVars
<1>8. CASE Send
    <2>1. recording' \in Takes
        BY <1>8 DEF Send, Takes
    <2> QED
        BY <1>8, <2>1 DEF Send, shownVars
<1>9. CASE SubmitTurn
    <2>1. done \in Rounds
        BY <1>9 DEF SubmitTurn, TakesTurns, ServerTypes
    <2> QED
        BY <1>9, <2>1 DEF SubmitTurn, TurnIndex, recorderVars, shownVars
<1>10. CASE RefuseTurn \/ PollFails
    BY <1>10 DEF RefuseTurn, PollFails, ShowError, shownVars
<1>11. CASE TurnAccepted
    BY <1>1, <1>11 DEF TurnAccepted, shownVars
<1>12. CASE PollSucceeds
    <2>1. thread' \in Seq(Shown) /\ prompt' \in 0..MaxRounds /\ sending' = "no" /\ warned' = FALSE
        BY <1>12, ShowRoundTypes DEF PollSucceeds, ShowRound
    <2>2. button' \in BOOLEAN \/ button' = button
        BY <1>12 DEF PollSucceeds
    <2>3. card' \in {"recorder", "closing"}
        BY <1>12 DEF PollSucceeds
    <2> QED
        BY <1>12, <2>1, <2>3 DEF PollSucceeds
<1>13. CASE PollGivesUp \/ LoseTurnMessage \/ GiveUpUpload
    <2>1. faults' \in [Kinds -> Nat]
        BY <1>13, HappensCounts DEF PollGivesUp, LoseTurnMessage, GiveUpUpload, Kinds
    <2> QED
        BY <1>13, <2>1 DEF PollGivesUp, LoseTurnMessage, GiveUpUpload, ShowError, shownVars
<1>14. CASE Finish \/ SubmitFinish \/ FinishAccepted
    BY <1>14 DEF Finish, SubmitFinish, FinishAccepted, recorderVars, shownVars
<1>15. CASE ReportArrives
    BY <1>15 DEF ReportArrives, recorderVars
<1>16. CASE FinishGoesWrong
    <2>1. faults' \in [Kinds -> Nat]
        BY <1>16, HappensCounts DEF FinishGoesWrong, Kinds
    <2> QED
        BY <1>16, <2>1 DEF FinishGoesWrong, recorderVars, shownVars
<1>17. ASSUME NEW r \in Rounds, CommitRound(r) \/ FailRound(r) PROVE PageTypes'
    <2>1. faults' \in [Kinds -> Nat]
        BY <1>17, HappensCounts DEF CommitRound, FailRound, Kinds
    <2> QED
        BY <1>17, <2>1 DEF CommitRound, FailRound, requestVars, recorderVars, shownVars
<1>18. CASE CommitReport \/ FailReport
    <2>1. faults' \in [Kinds -> Nat]
        BY <1>18, HappensCounts DEF CommitReport, FailReport, Kinds
    <2> QED
        BY <1>18, <2>1 DEF CommitReport, FailReport, requestVars, recorderVars, shownVars
<1>19. CASE StragglerArrives \/ UNCHANGED vars
    BY <1>19 DEF StragglerArrives, vars, requestVars, recorderVars, shownVars
<1> QED
    BY <1>2, <1>3, <1>4, <1>5, <1>6, <1>7, <1>8, <1>9, <1>10, <1>11, <1>12, <1>13, <1>14, <1>15,
       <1>16, <1>17, <1>18, <1>19 DEF Next, Run, Reply, Press, Fault

\* What was late stays on record.
LEMMA NextPunctual == ASSUME Server, [Next]_vars, Punctual' PROVE Punctual
<1>1. CASE UNCHANGED faults
    BY <1>1 DEF Punctual
<1>2. ASSUME NEW kind \in Kinds, Happens(kind) PROVE Punctual
    <2>1. faults' = [faults EXCEPT ![kind] = @ + 1] /\ faults \in [Kinds -> Nat]
        BY <1>2, Zenon DEF Happens, Server, PageTypes
    <2>2. faults["delayed"] \in Nat /\ "delayed" \in Kinds
        BY <2>1 DEF Kinds
    <2>3. faults'["delayed"] \in {faults["delayed"], faults["delayed"] + 1}
        BY <2>1, <2>2
    <2> QED
        BY <2>2, <2>3 DEF Punctual
<1>3. UNCHANGED faults \/ \E kind \in Kinds : Happens(kind)
    BY Zenon DEF Next, Run, Reply, Press, Fault, Claim, Reload, TokenExpires, HandleExpired, Record,
       Stop, Rerecord, Send, SubmitTurn, RefuseTurn, TurnAccepted, PollSucceeds, PollFails,
       PollGivesUp, LoseTurnMessage, GiveUpUpload, StragglerArrives, Finish, SubmitFinish,
       FinishAccepted, ReportArrives, FinishGoesWrong, CommitRound, FailRound, CommitReport,
       FailReport, vars, Kinds
<1> QED
    BY <1>1, <1>2, <1>3

LEMMA NextStragglers == ASSUME Server, [Next]_vars PROVE Stragglers'
<1> SUFFICES ASSUME Punctual' PROVE straggler' = NoTake
    BY DEF Stragglers
<1>1. straggler = NoTake
    BY NextPunctual DEF Server, Stragglers
<1>2. ~GiveUpUpload
    <2>1. ASSUME GiveUpUpload PROVE FALSE
        <3>1. Happens("delayed") /\ "delayed" \in Kinds
            BY <2>1 DEF GiveUpUpload, Kinds
        <3>2. faults'["delayed"] > 0
            BY <3>1, HappensCounts DEF Server, PageTypes
        <3> QED
            BY <3>2 DEF Punctual
    <2> QED
        BY <2>1
<1>3. UNCHANGED straggler \/ Claim \/ SubmitTurn \/ StragglerArrives \/ SubmitFinish
      \/ CommitReport \/ FailReport \/ \E r \in Rounds : CommitRound(r) \/ FailRound(r)
    BY <1>2, ServerStill DEF serverVars
<1> QED
    BY <1>1, <1>3 DEF Claim, SubmitTurn, StragglerArrives, SubmitFinish, CommitReport, FailReport,
       CommitRound, FailRound

LEMMA NextServer == ASSUME Server, [Next]_vars PROVE Server'
BY NextRunsOf, NextPageTypes, NextStragglers DEF Server

-------------------------------------------------------------------------------
(***************************************************************************)
(* In step: what a send in flight, and a page that waits without a         *)
(* warning, know of the session.                                           *)
(***************************************************************************)

InFlight == sending \in {"accepted", "polling"}

\* The run that is polled is the one under way, or the last that was committed, and
\* the session has not moved past it.
PolledRun ==
    InFlight => \/ polled = done /\ phase = "open"
                \/ /\ polled + 1 = done /\ phase \in {"open", "closing"}
                   /\ \A r \in Rounds : r >= done => runs[r] = "none"

\* A page without a warning shows the session as it is, and no run will move it.
Unwarned ==
    screen = "interview" /\ ~InFlight /\ ~warned =>
        /\ prompt = done
        /\ card = "recorder" <=> phase = "open"
        /\ \A r \in Rounds : r >= done => runs[r] = "none"

\* Answers are sent from the recorder and the interview is finished from its closing
\* card; a page that was loaded afresh has the recorder.
Cards ==
    /\ sending # "no" => screen = "interview"
    /\ sending \in {"posting", "accepted", "polling"} => card = "recorder"
    /\ sending \in {"finishing", "finished", "awaiting"} => card = "closing"
    /\ screen = "passkey" /\ ~warned => card = "recorder"

InTouch == PolledRun /\ Unwarned /\ Cards

LEMMA InitInTouch == Init => InTouch
BY RoundsCounted DEF Init, FromLink, FromJobs, InTouch, PolledRun, Unwarned, Cards, InFlight

\* The session's runs, under the page.
LEMMA RunsInTouch ==
    ASSUME Server, InTouch,
           CommitReport \/ FailReport \/ \E r \in Rounds : CommitRound(r) \/ FailRound(r)
    PROVE  InTouch'
<1> USE RoundsCounted DEF Server, InTouch
<1>1. UNCHANGED <<screen, card, sending, polled, prompt, warned>>
    BY DEF CommitReport, FailReport, CommitRound, FailRound, requestVars, shownVars
<1>2. CASE CommitReport \/ FailReport
    <2>1. phase \in {"evaluating", "completed"} /\ phase' \in {"evaluating", "completed"}
          /\ UNCHANGED <<done, runs>>
        BY <1>2 DEF CommitReport, FailReport, RunsOf
    <2> QED
        BY <1>1, <2>1 DEF PolledRun, Unwarned, Cards, InFlight
<1>3. ASSUME NEW r \in Rounds, CommitRound(r) PROVE InTouch'
    <2>1. r = done /\ phase = "open" /\ done \in Rounds /\ runs[done] = "running"
        BY <1>3, CommitRoundIsNext DEF CommitRound
    <2>2. /\ done' = done + 1 /\ phase' \in {"open", "closing"}
          /\ \A s \in Rounds : runs'[s] = IF s = r THEN "succeeded" ELSE runs[s]
        BY <1>3 DEF CommitRound, ServerTypes
    <2>3. \A s \in Rounds : s >= done + 1 => runs'[s] = "none"
        BY <2>1, <2>2 DEF RunsOf
    <2>4. ~(screen = "interview" /\ ~InFlight /\ ~warned)
        BY <2>1 DEF Unwarned
    <2>5. InFlight => polled = done
        BY <2>1 DEF PolledRun
    <2> QED
        BY <1>1, <2>2, <2>3, <2>4, <2>5 DEF PolledRun, Unwarned, Cards, InFlight
<1>4. ASSUME NEW r \in Rounds, FailRound(r) PROVE InTouch'
    <2>1. r = done /\ phase = "open" /\ done \in Rounds /\ runs[done] = "running"
        BY <1>4, CommitRoundIsNext DEF FailRound
    <2>2. UNCHANGED <<done, phase>>
        BY <1>4 DEF FailRound
    <2>3. ~(screen = "interview" /\ ~InFlight /\ ~warned)
        BY <2>1 DEF Unwarned
    <2>4. InFlight => polled = done
        BY <2>1 DEF PolledRun
    <2> QED
        BY <1>1, <2>1, <2>2, <2>3, <2>4 DEF PolledRun, Unwarned, Cards, InFlight
<1> QED
    BY <1>2, <1>3, <1>4

\* The page, and what the session answers it.
LEMMA PageInTouch ==
    ASSUME Server, InTouch, [Next]_vars, Punctual',
           ~(CommitReport \/ FailReport \/ \E r \in Rounds : CommitRound(r) \/ FailRound(r))
    PROVE  InTouch'
<1> USE RoundsCounted DEF Server, InTouch, PolledRun, Unwarned, Cards, InFlight
<1>1. CASE Claim
    BY <1>1 DEF Claim, EnterInterview, requestVars
<1>2. CASE Reload
    BY <1>2 DEF Reload, serverVars
<1>3. CASE TokenExpires \/ Record \/ Stop \/ Rerecord \/ UNCHANGED vars
    BY <1>3 DEF TokenExpires, Record, Stop, Rerecord, vars, serverVars, requestVars, shownVars
<1>4. CASE HandleExpired
    BY <1>4 DEF HandleExpired, serverVars
<1>5. CASE Send
    BY <1>5 DEF Send, AtRecorder, serverVars, shownVars
<1>6. CASE SubmitTurn
    BY <1>6 DEF SubmitTurn, TakesTurns, TurnIndex, shownVars
<1>14. ~GiveUpUpload /\ ~StragglerArrives
    <2>1. straggler = NoTake /\ straggler' = NoTake
        BY NextPunctual, NextStragglers DEF Stragglers
    <2>2. ASSUME Happens("delayed") PROVE FALSE
        <3>1. faults'["delayed"] > 0
            BY <2>2, HappensCounts DEF PageTypes, Kinds
        <3> QED
            BY <3>1 DEF Punctual
    <2> QED
        BY <2>1, <2>2 DEF GiveUpUpload, StragglerArrives
<1>7. CASE RefuseTurn \/ PollFails \/ PollGivesUp \/ LoseTurnMessage
    BY <1>7 DEF RefuseTurn, PollFails, PollGivesUp, LoseTurnMessage, ShowError, serverVars, shownVars
<1>8. CASE TurnAccepted
    BY <1>8 DEF TurnAccepted, serverVars, shownVars
<1>9. CASE PollSucceeds
    <2>1. polled + 1 = done /\ phase \in {"open", "closing"}
          /\ \A r \in Rounds : r >= done => runs[r] = "none"
        BY <1>9 DEF PollSucceeds, RunsOf, PageTypes
    <2>2. prompt' = done /\ sending' = "no"
        BY <1>9, <2>1 DEF PollSucceeds, ShowRound
    <2>3. card' = (IF phase = "closing" THEN "closing" ELSE "recorder") /\ screen' = "interview"
        BY <1>9 DEF PollSucceeds
    <2> QED
        BY <1>9, <2>1, <2>2, <2>3 DEF PollSucceeds, serverVars
<1>10. CASE Finish
    BY <1>10 DEF Finish, serverVars, shownVars
<1>11. CASE SubmitFinish
    BY <1>11 DEF SubmitFinish, FinishPhases, shownVars
<1>12. CASE FinishAccepted \/ FinishGoesWrong
    BY <1>12 DEF FinishAccepted, FinishGoesWrong, serverVars, shownVars
<1>13. CASE ReportArrives
    BY <1>13 DEF ReportArrives, serverVars
<1> QED
    BY <1>1, <1>2, <1>3, <1>4, <1>5, <1>6, <1>7, <1>8, <1>9, <1>10, <1>11, <1>12, <1>13, <1>14
       DEF Next, Run, Reply, Press, Fault

\* Late or not, the round that is polled is one the session has reached; the page
\* sends and polls from the interview only.
Reached ==
    /\ InFlight => polled <= done
    /\ sending # "no" => screen = "interview"

LEMMA NextReached == ASSUME Server, Reached, [Next]_vars PROVE Reached'
<1> USE RoundsCounted DEF Server, ServerTypes, PageTypes, Reached, InFlight
<1>1. CASE SubmitTurn
    BY <1>1 DEF SubmitTurn, TurnIndex, shownVars
<1>2. ASSUME NEW r \in Rounds, CommitRound(r) \/ FailRound(r) PROVE Reached'
    BY <1>2 DEF CommitRound, FailRound, requestVars, shownVars
<1>3. CASE TurnAccepted
    BY <1>3 DEF TurnAccepted, serverVars, shownVars
<1>4. CASE Claim
    BY <1>4 DEF Claim, EnterInterview, requestVars
<1>5. CASE \/ HandleExpired \/ RefuseTurn \/ PollSucceeds \/ PollFails \/ PollGivesUp \/ GiveUpUpload
           \/ LoseTurnMessage \/ Reload \/ Send \/ Finish \/ SubmitFinish \/ FinishAccepted
           \/ ReportArrives \/ FinishGoesWrong
    BY <1>5 DEF HandleExpired, RefuseTurn, PollSucceeds, PollFails, PollGivesUp, GiveUpUpload,
        LoseTurnMessage, ShowError, ShowRound, Reload, Send, AtRecorder, Finish, SubmitFinish,
        FinishAccepted, ReportArrives, FinishGoesWrong, shownVars
<1>6. CASE \/ TokenExpires \/ Record \/ Stop \/ Rerecord \/ StragglerArrives \/ CommitReport
           \/ FailReport \/ UNCHANGED vars
    BY <1>6 DEF TokenExpires, Record, Stop, Rerecord, StragglerArrives, CommitReport, FailReport,
        vars, serverVars, requestVars, shownVars
<1> QED
    BY <1>1, <1>2, <1>3, <1>4, <1>5, <1>6 DEF Next, Run, Reply, Press, Fault

Inv == Server /\ Reached /\ (Punctual => InTouch)

LEMMA NextInv == ASSUME Inv, [Next]_vars PROVE Inv'
BY NextServer, NextReached, NextPunctual, RunsInTouch, PageInTouch DEF Inv

LEMMA InvHolds == Spec => []Inv
<1>1. Init => Inv
    BY InitServer, InitInTouch DEF Inv, Reached, Init, InFlight
<1> QED
    BY <1>1, NextInv, PTL DEF Spec

\* The page is never silently out of step: when it waits for the candidate and the last
\* thing it showed was a round, its question and its card are the session's (sendTake,
\* pollTurn and appendTurn in interview.html over submit_turn), as long as no upload it
\* gave up arrived after all.
THEOREM PageInStep == Spec => []InStep
<1>1. Inv => InStep
    BY DEF Inv, Punctual, InTouch, Unwarned, InFlight, InStep
<1> QED
    BY <1>1, InvHolds, PTL

-------------------------------------------------------------------------------
(***************************************************************************)
(* In order: what the thread shows of a session is behind the session.     *)
(***************************************************************************)

\* The first round of this session that the page cannot have shown.
Unshown == IF InFlight THEN polled ELSE done

Thread ==
    /\ \A i \in DOMAIN thread :
          /\ thread[i].session >= seats
          /\ thread[i].session = seats => thread[i].round < Unshown
    /\ ShownInOrder

LEMMA ThreadGrows ==
    ASSUME NEW shown, shown \in Seq(Shown), NEW entry \in Shown
    PROVE  /\ DOMAIN Append(shown, entry) = 1..(Len(shown) + 1) /\ Len(shown) \in Nat
           /\ DOMAIN shown = 1..Len(shown)
           /\ \A i \in 1..Len(shown) : Append(shown, entry)[i] = shown[i] /\ shown[i] \in Shown
           /\ Append(shown, entry)[Len(shown) + 1] = entry
OBVIOUS

LEMMA NextThread == ASSUME Inv, Thread, [Next]_vars PROVE Thread'
<1>t. /\ done \in Nat /\ polled \in Nat /\ seats \in Nat /\ thread \in Seq(Shown)
      /\ \A i \in DOMAIN thread : thread[i].session \in Nat /\ thread[i].round \in Nat
    <2>1. done \in Nat /\ polled \in Nat /\ seats \in Nat /\ thread \in Seq(Shown)
        BY RoundsCounted DEF Inv, Server, ServerTypes, PageTypes
    <2>2. \A i \in DOMAIN thread : thread[i] \in Shown
        BY <2>1
    <2> QED
        BY <2>1, <2>2 DEF Shown
<1>1. CASE PollSucceeds
    <2> DEFINE entry == [session |-> seats, round |-> polled]
               n == Len(thread)
    <2>1. thread' = Append(thread, entry) /\ entry \in Shown
        BY <1>1, ShowRoundTypes DEF PollSucceeds, Inv
    <2>2. entry.session = seats /\ entry.round = polled
        OBVIOUS
    <2>3. InFlight /\ ~InFlight' /\ UNCHANGED <<seats, done>> /\ polled < done
        <3>1. polled < done
            BY <1>1, <1>t DEF PollSucceeds, Inv, Server, RunsOf, PageTypes
        <3> QED
            BY <1>t, <1>1, <3>1 DEF PollSucceeds, ShowRound, InFlight, serverVars
    <2> HIDE DEF entry
    <2>4. /\ DOMAIN thread' = 1..(n + 1) /\ n \in Nat /\ DOMAIN thread = 1..n
          /\ \A i \in 1..n : thread'[i] = thread[i]
          /\ thread'[n + 1] = entry
        BY <1>t, <2>1, ThreadGrows
    <2> HIDE DEF n
    <2>5. \A i \in 1..n : /\ thread[i].session >= seats
                          /\ thread[i].session = seats => thread[i].round < polled
        BY <2>3, <2>4 DEF Thread, Unshown
    <2>6. \A i \in DOMAIN thread' : /\ thread'[i].session >= seats
                                    /\ thread'[i].session = seats => thread'[i].round < done
        <3> TAKE i \in DOMAIN thread'
        <3>1. CASE i \in 1..n
            BY <1>t, <2>3, <2>4, <2>5, <3>1
        <3>2. CASE i = n + 1
            BY <1>t, <2>2, <2>3, <2>4, <3>2
        <3> QED
            BY <2>4, <3>1, <3>2
    <2>7. ShownInOrder'
        <3> SUFFICES ASSUME NEW i \in DOMAIN thread', NEW j \in DOMAIN thread', i < j,
                            thread'[i].session = thread'[j].session
                     PROVE  thread'[i].round < thread'[j].round
            BY DEF ShownInOrder
        <3>1. i \in 1..n
            BY <2>4
        <3>2. CASE j \in 1..n
            BY <2>4, <3>1, <3>2 DEF Thread, ShownInOrder
        <3>3. CASE j = n + 1
            BY <2>2, <2>4, <2>5, <3>1, <3>3
        <3> QED
            BY <2>4, <3>2, <3>3
    <2> QED
        BY <2>3, <2>6, <2>7 DEF Thread, Unshown
<1>2. ASSUME thread' = thread, seats' = seats, Unshown' >= Unshown, Unshown' \in Nat PROVE Thread'
    <2>1. Unshown \in Nat
        BY <1>t DEF Unshown
    <2>2. \A i \in DOMAIN thread : /\ thread[i].session >= seats
                                   /\ thread[i].session = seats => thread[i].round < Unshown'
        BY <1>t, <1>2, <2>1 DEF Thread
    <2>3. ShownInOrder'
        BY <1>2 DEF Thread, ShownInOrder
    <2> QED
        BY <1>2, <2>2, <2>3 DEF Thread
<1>3. CASE Claim
    <2>1. thread' = thread /\ seats' = seats - 1
        BY <1>3 DEF Claim
    <2>2. \A i \in DOMAIN thread' : thread'[i].session > seats'
        BY <1>t, <2>1 DEF Thread
    <2> QED
        BY <1>t, <2>1, <2>2 DEF Thread, ShownInOrder
<1>4. CASE Reload
    BY <1>4 DEF Reload, Thread, ShownInOrder
<1>5. CASE SubmitTurn
    BY <1>t, <1>2, <1>5 DEF SubmitTurn, TurnIndex, shownVars, Unshown, InFlight
<1>6. ASSUME NEW r \in Rounds, CommitRound(r) PROVE Thread'
    BY <1>t, <1>2, <1>6 DEF CommitRound, requestVars, shownVars, Unshown, InFlight
<1>7. CASE \/ HandleExpired \/ RefuseTurn \/ TurnAccepted \/ PollFails \/ PollGivesUp
           \/ LoseTurnMessage \/ GiveUpUpload
    <2>1. UNCHANGED <<thread, seats, done, polled>>
        BY <1>7 DEF HandleExpired, RefuseTurn, TurnAccepted, PollFails, PollGivesUp, LoseTurnMessage,
            GiveUpUpload, serverVars, shownVars
    <2>2. InFlight => polled <= done
        BY DEF Inv, Reached
    <2>3. InFlight' => InFlight
        BY <1>7 DEF HandleExpired, RefuseTurn, TurnAccepted, PollFails, PollGivesUp, LoseTurnMessage,
            GiveUpUpload, ShowError, InFlight
    <2> QED
        BY <1>t, <1>2, <2>1, <2>2, <2>3 DEF Unshown
<1>8. CASE \/ TokenExpires \/ Record \/ Stop \/ Rerecord \/ Send \/ Finish \/ SubmitFinish
           \/ FinishAccepted \/ ReportArrives \/ FinishGoesWrong \/ CommitReport \/ FailReport
           \/ StragglerArrives \/ UNCHANGED vars \/ \E r \in Rounds : FailRound(r)
    <2>1. UNCHANGED <<thread, seats, done, polled>>
        BY <1>8 DEF TokenExpires, Record, Stop, Rerecord, Send, Finish, SubmitFinish, FinishAccepted,
            ReportArrives, FinishGoesWrong, CommitReport, FailReport, FailRound, StragglerArrives, vars,
            serverVars, requestVars, shownVars
    <2>2. InFlight' <=> InFlight
        BY <1>8 DEF TokenExpires, Record, Stop, Rerecord, Send, Finish, SubmitFinish, FinishAccepted,
            ReportArrives, FinishGoesWrong, CommitReport, FailReport, FailRound, StragglerArrives, vars,
            requestVars, InFlight
    <2> QED
        BY <1>t, <1>2, <2>1, <2>2 DEF Unshown
<1> QED
    BY <1>1, <1>3, <1>4, <1>5, <1>6, <1>7, <1>8 DEF Next, Run, Reply, Press, Fault

\* No round is shown twice or out of order, whatever was lost or sent again, in whatever
\* session the page goes on with (appendTurn in interview.html).
THEOREM RoundsShownInOrder == Spec => []ShownInOrder
<1>1. Init => Thread
    BY DEF Init, Thread, ShownInOrder
<1>2. Thread => ShownInOrder
    BY DEF Thread
<1> QED
    BY <1>1, <1>2, InvHolds, NextThread, PTL DEF Spec

-------------------------------------------------------------------------------
(***************************************************************************)
(* The reply and its question: while nothing went wrong, a take that was   *)
(* not begun during a send is one for the prompt on the screen.            *)
(***************************************************************************)

Calm == \A k \in Kinds : faults[k] = 0
Fits(x) == x = NoTake \/ x.overlaps \/ x.for = prompt
Late(x) == x = NoTake \/ x.overlaps

\* In the calm, what there is to send fits the prompt; what was begun since the send is
\* late; and the prompt is the one of the run that is polled.
Fitting ==
    /\ ~warned /\ token # "expired" /\ \A r \in Rounds : runs[r] # "failed"
    /\ Fits(take) /\ Fits(recording)
    /\ sending = "posting" => Fits(posted)
    /\ InFlight => prompt = polled
    /\ sending \in {"posting", "accepted", "polling"} => Late(recording)
    /\ sending = "polling" => Late(take)
    /\ screen = "passkey" => take = NoTake /\ recording = NoTake

Uploaded == \A r \in Rounds : upload[r] = NoTake \/ upload[r].for = r \/ upload[r].overlaps

\* What a fault does, and the steps that fall short of one.
LEMMA FaultEndsCalm ==
    ASSUME Server, NEW kind \in Kinds, Happens(kind) PROVE ~Calm'
BY HappensCounts DEF Calm, Server, PageTypes

LEMMA NextCalm == ASSUME Inv, [Next]_vars, Calm' PROVE Calm
<1>1. CASE UNCHANGED faults
    BY <1>1 DEF Calm
<1>2. CASE \E kind \in Kinds : Happens(kind)
    BY <1>2, FaultEndsCalm DEF Inv
<1>3. UNCHANGED faults \/ \E kind \in Kinds : Happens(kind)
    BY Zenon DEF Next, Run, Reply, Press, Fault, Claim, Reload, TokenExpires, HandleExpired, Record,
       Stop, Rerecord, Send, SubmitTurn, RefuseTurn, TurnAccepted, PollSucceeds, PollFails,
       PollGivesUp, LoseTurnMessage, GiveUpUpload, StragglerArrives, Finish, SubmitFinish,
       FinishAccepted, ReportArrives, FinishGoesWrong, CommitRound, FailRound, CommitReport,
       FailReport, vars, Kinds
<1> QED
    BY <1>1, <1>2, <1>3

LEMMA CalmIsPunctual == Calm => Punctual
BY DEF Calm, Punctual, Kinds

LEMMA NoTakeIsATake ==
    /\ NoTake \in Takes /\ NoTake.overlaps = FALSE /\ NoTake.for = MaxRounds + 1
    /\ \A x \in Takes : x.overlaps \in BOOLEAN /\ x.for \in 0..(MaxRounds + 1)
BY RoundsCounted DEF NoTake, Takes

\* Only a request that is received stages a take, for the round that is next.
LEMMA NextUploaded ==
    ASSUME Inv, [Next]_vars, Calm, Fitting, Uploaded PROVE Uploaded'
<1>i. InTouch /\ straggler = NoTake
    BY CalmIsPunctual DEF Inv, Server, Stragglers
<1>1. CASE SubmitTurn
    <2>1. Fits(posted) /\ prompt = done
        BY <1>1, <1>i DEF SubmitTurn, Fitting, InTouch, Unwarned, Cards, InFlight
    <2>2. \A r \in Rounds : upload'[r] = IF r = done THEN posted ELSE upload[r]
        BY <1>1, TurnStarted DEF SubmitTurn, Inv, Server, PageTypes
    <2> QED
        BY <2>1, <2>2 DEF Uploaded, Fits
<1>2. CASE Claim
    BY <1>2 DEF Claim, Uploaded
<1>3. CASE UNCHANGED upload
    BY <1>3 DEF Uploaded
<1>4. SubmitTurn \/ Claim \/ UNCHANGED upload
    BY <1>i, Zenon DEF StragglerArrives, Next, Run, Reply, Press, Fault, Reload, TokenExpires,
       HandleExpired, Record, Stop, Rerecord, Send, RefuseTurn, TurnAccepted, PollSucceeds, PollFails,
       PollGivesUp, LoseTurnMessage, GiveUpUpload, Finish, SubmitFinish, FinishAccepted, ReportArrives,
       FinishGoesWrong, CommitRound, FailRound, CommitReport, FailReport, vars, serverVars
<1> QED
    BY <1>1, <1>2, <1>3, <1>4

\* At the turn limit of a session that did not close, replies are refused for good.
Spent ==
    /\ screen = "interview" /\ card = "recorder" /\ token # "expired"
    /\ sending \in {"no", "posting"}
    /\ phase = "open" /\ done = MaxRounds

LEMMA NextSpent ==
    ASSUME Inv, [Next]_vars, Calm, Spent, Uploaded, Calm' PROVE Spent' /\ Uploaded'
<1>i. Server /\ straggler = NoTake
    BY CalmIsPunctual DEF Inv, Server, Stragglers
<1>f. \A kind \in Kinds : ~Happens(kind)
    BY <1>i, FaultEndsCalm
<1> USE DEF Spent
<1>1. ~Fault
    BY <1>f DEF Fault, Reload, TokenExpires, PollGivesUp, LoseTurnMessage, GiveUpUpload, FinishGoesWrong,
       FailReport, FailRound, Kinds
<1>2. ~StragglerArrives /\ ~SubmitTurn /\ ~HandleExpired /\ ~Claim /\ ~Finish
    BY <1>i, RoundsCounted DEF StragglerArrives, SubmitTurn, TakesTurns, HandleExpired, Claim, Finish,
       Server, ServerTypes
<1>3. ~TurnAccepted /\ ~PollSucceeds /\ ~PollFails /\ ~SubmitFinish /\ ~FinishAccepted /\ ~ReportArrives
    BY DEF TurnAccepted, PollSucceeds, PollFails, SubmitFinish, FinishAccepted, ReportArrives
<1>4. ~CommitReport /\ \A r \in Rounds : ~CommitRound(r)
    BY <1>i, RoundsCounted, CommitRoundIsNext DEF CommitReport, Server, RunsOf
<1>5. CASE Record \/ Stop \/ Rerecord \/ UNCHANGED vars
    BY <1>5 DEF Record, Stop, Rerecord, vars, serverVars, requestVars, shownVars, Uploaded
<1>6. CASE Send \/ RefuseTurn
    BY <1>6 DEF Send, RefuseTurn, ShowError, serverVars, shownVars, Uploaded
<1> QED
    BY <1>1, <1>2, <1>3, <1>4, <1>5, <1>6 DEF Next, Run, Reply, Press

LEMMA NextFitting ==
    ASSUME Inv, [Next]_vars, Calm, Fitting, Calm' PROVE Fitting' \/ Spent'
<1>i. Server /\ PolledRun /\ Unwarned /\ Cards /\ straggler = NoTake
    BY CalmIsPunctual DEF Inv, InTouch, Server, Stragglers
<1>f. \A kind \in Kinds : ~Happens(kind)
    BY <1>i, FaultEndsCalm
<1>t. take \in Takes /\ recording \in Takes /\ posted \in Takes
    BY <1>i DEF Server, PageTypes
<1> USE DEF Fitting, Fits, Late, InFlight
<1>1. CASE Claim
    BY <1>1, <1>i DEF Claim, EnterInterview, Cards, requestVars, recorderVars
<1>2. CASE Record
    <2>1. recording' = [for |-> prompt, overlaps |-> sending # "no"]
        BY <1>2 DEF Record
    <2>2. recording'.for = prompt /\ recording'.overlaps = (sending # "no")
        BY <2>1
    <2> QED
        BY <1>2, <2>2 DEF Record, AtRecorder, serverVars, requestVars, shownVars
<1>3. CASE Stop
    BY <1>3 DEF Stop, AtRecorder, serverVars, requestVars, shownVars
<1>4. CASE Rerecord
    BY <1>4 DEF Rerecord, AtRecorder, serverVars, requestVars, shownVars
<1>5. CASE Send
    <2>1. recording' = [recording EXCEPT !.overlaps = recording # NoTake]
        BY <1>5 DEF Send
    <2>2. recording'.for = recording.for /\ recording'.overlaps = (recording # NoTake)
        BY <1>t, <2>1 DEF Takes
    <2>3. recording = NoTake => recording' = NoTake
        <3>1. recording' = [for |-> recording.for, overlaps |-> recording # NoTake]
            BY <1>t, <2>1 DEF Takes
        <3>2. ASSUME recording = NoTake PROVE recording' = [for |-> MaxRounds + 1, overlaps |-> FALSE]
            BY <3>1, <3>2, NoTakeIsATake
        <3> QED
            BY <3>2 DEF NoTake
    <2> QED
        BY <1>5, <1>i, <2>2, <2>3 DEF Send, AtRecorder, Cards, serverVars, shownVars
<1>6. CASE SubmitTurn
    <2>1. prompt = done
        BY <1>6, <1>i DEF SubmitTurn, Unwarned, Cards
    <2>2. \A r \in Rounds : runs'[r] # "failed"
        BY <1>6, <1>i, <1>t, TurnStarted DEF SubmitTurn
    <2> QED
        BY <1>6, <2>1, <2>2 DEF SubmitTurn, TurnIndex, recorderVars, shownVars
<1>7. CASE TurnAccepted
    BY <1>7, NoTakeIsATake DEF TurnAccepted, serverVars, shownVars
<1>8. CASE PollSucceeds
    <2>1. screen = "interview" /\ Late(take) /\ Late(recording)
        BY <1>8, <1>i DEF PollSucceeds, Cards
    <2> QED
        BY <1>8, <2>1 DEF PollSucceeds, ShowRound, serverVars
<1>16. CASE RefuseTurn
    <2>1. phase = "open" /\ done = MaxRounds
        BY <1>16, <1>i, RoundsCounted DEF RefuseTurn, TakesTurns, Unwarned, Cards, Server, ServerTypes
    <2> QED
        BY <1>16, <1>i, <2>1 DEF RefuseTurn, ShowError, Spent, Cards, serverVars, shownVars
<1>9. ~PollFails /\ ~HandleExpired /\ ~StragglerArrives
    BY <1>i DEF PollFails, HandleExpired, StragglerArrives, Server, PageTypes
<1>10. CASE Finish \/ SubmitFinish \/ FinishAccepted
    BY <1>10, <1>i DEF Finish, SubmitFinish, FinishAccepted, Cards, serverVars, recorderVars, shownVars
<1>11. CASE ReportArrives
    BY <1>11, <1>i DEF ReportArrives, Cards, serverVars, recorderVars
<1>12. ASSUME NEW r \in Rounds, CommitRound(r) PROVE Fitting'
    BY <1>12, <1>i DEF CommitRound, Server, ServerTypes, requestVars, recorderVars, shownVars
<1>13. CASE CommitReport
    BY <1>13 DEF CommitReport, requestVars, recorderVars, shownVars
<1>14. CASE UNCHANGED vars
    BY <1>14 DEF vars, serverVars, requestVars, recorderVars, shownVars
<1>15. ~Fault
    BY <1>f DEF Fault, Reload, TokenExpires, PollGivesUp, LoseTurnMessage, GiveUpUpload, FinishGoesWrong,
       FailReport, FailRound, Kinds
<1> QED
    BY <1>1, <1>2, <1>3, <1>4, <1>5, <1>6, <1>7, <1>8, <1>9, <1>10, <1>11, <1>12, <1>13, <1>14,
       <1>15, <1>16 DEF Next, Run, Reply, Press

\* Unless something went wrong or the candidate recorded during a send, the reply that is
\* staged for a round is one to that round's question (sendTake and pollTurn in
\* interview.html, submit_turn's count of the turns).
THEOREM RepliesFit == Spec => []RepliesFitTheQuestion
<1> DEFINE Apt == Calm => (Fitting \/ Spent) /\ Uploaded
<1>1. Init => Apt
    BY NoTakeIsATake DEF Init, FromLink, FromJobs, Fitting, Fits, Late, InFlight, Uploaded
<1>2. Inv /\ Apt /\ [Next]_vars => Apt'
    BY NextCalm, NextFitting, NextUploaded, NextSpent
<1>3. Inv /\ Apt => RepliesFitTheQuestion
    <2>1. ASSUME Inv, ~Calm PROVE \E k \in Kinds : faults[k] > 0
        BY <2>1 DEF Calm, Inv, Server, PageTypes
    <2> QED
        BY <2>1 DEF RepliesFitTheQuestion, Uploaded
<1> HIDE DEF Apt
<1> QED
    BY <1>1, <1>2, <1>3, InvHolds, PTL DEF Spec

===============================================================================
