------------------------------ MODULE Evaluation ------------------------------
(***************************************************************************)
(* The evaluation of an interview that TurnPipeline conducted: the answers *)
(* are collected from the turn rows, one model call scores them, and the   *)
(* reply is either read whole or refused whole.  What the interview knows  *)
(* of an answer (its coverage) and what the evaluation reads (the rows)    *)
(* are kept apart from the first reply on.                                 *)
(*                                                                         *)
(* A score is measured like an overlap, 0..Full standing for 0.0..1.0.     *)
(***************************************************************************)
EXTENDS TurnPipeline, Integers, Sequences, FiniteSetsExt

CONSTANTS
    Weights,     \* the weights personas give their questions
    Entries,     \* what the model may list: a ref, a score, a verdict, or not these
    MostEntries, \* bound: the length of the list
    NotANumber   \* a score JSON reads as NaN

Unknown == 0    \* a ref the persona does not have
Verdicts == {"strong", "adequate", "weak", "not_answered"}

\* publish_persona takes any number for a weight, a negative one too.
ASSUME EvaluationAssumption ==
    /\ Weights \subseteq [Questions -> Int]
    /\ NotANumber \in Int \ (-Full)..(2 * Full)
    /\ \A e \in Entries : /\ e.ref \in Questions \cup {Unknown}
                          /\ e.score \in Int
                          /\ e.verdict \in Verdicts
                          /\ e.wellFormed \in BOOLEAN

VARIABLES
    weight,    \* the weights of the persona's questions
    history,   \* build_history's question entries, completed ones: ref and reply
    report     \* none, failed, or the scores by question

evaluationVars == <<vars, weight, history, report>>

NoReport == [status |-> "none"]
Failed == [status |-> "failed"]

EvaluationInit ==
    /\ Init
    /\ weight \in Weights
    /\ history = <<>>
    /\ report = NoReport

-------------------------------------------------------------------------------
(***************************************************************************)
(* collect_answers and evaluate.                                           *)
(***************************************************************************)

RefsIn(h) == {h[i].ref : i \in DOMAIN h}

\* A dict built in order: the last reply to a question is the one that stays.
AnswersFirst(h) ==
    [q \in RefsIn(h) |->
        h[CHOOSE i \in DOMAIN h : h[i].ref = q /\ \A j \in DOMAIN h : h[j].ref = q => i <= j].reply]
AnswersByRef(h) ==
    [q \in RefsIn(h) |->
        h[CHOOSE i \in DOMAIN h : h[i].ref = q /\ \A j \in DOMAIN h : h[j].ref = q => j <= i].reply]

\* max(0.0, min(1.0, score)): Python's min keeps its first argument against NaN.
Clamp(s) == IF s = NotANumber \/ s > Full THEN Full ELSE IF s < 0 THEN 0 ELSE s

\* An entry is well formed when its verdict is of the vocabulary, its rationale a
\* text and its score a number; one entry that is not refuses them all.
Malformed(e) == e.ref = Unknown \/ ~e.wellFormed

\* The entries by ref, the last one again; "score" is clamped on the way in.
ScoredRefs(list) == {list[i].ref : i \in DOMAIN list}
LastEntry(list, q) ==
    list[CHOOSE i \in DOMAIN list :
            list[i].ref = q /\ \A j \in DOMAIN list : list[j].ref = q => j <= i]

NotReached == [score |-> 0, verdict |-> "not_answered"]

ParseScoresGuess(list, answered) ==
    [status |-> "scored",
     scores |-> [q \in Questions |->
                    IF q \in ScoredRefs(list)
                    THEN [score |-> Clamp(LastEntry(list, q).score),
                          verdict |-> LastEntry(list, q).verdict]
                    ELSE NotReached]]

ParseScores(list, answered) ==
    IF (\E i \in DOMAIN list : Malformed(list[i])) \/ ~(answered \subseteq ScoredRefs(list))
    THEN Failed
    ELSE [status |-> "scored",
          scores |-> [q \in Questions |->
                         IF q \in answered
                         THEN [score |-> Clamp(LastEntry(list, q).score),
                               verdict |-> LastEntry(list, q).verdict]
                         ELSE NotReached]]

Answers == AnswersByRef(history)

\* The model's reply holds no readable list, or some list.
Score ==
    /\ phase = "closing"
    /\ report = NoReport
    /\ \/ report' = Failed
       \/ \E n \in 0..MostEntries : \E list \in [1..n -> Entries] :
             report' = ParseScores(list, DOMAIN Answers)
    /\ UNCHANGED <<vars, weight, history>>

\* _weighted_mean, as a fraction: where there is nothing to divide by the mean is 0.
TotalWeight == MapThenSumSet(LAMBDA q : weight[q], Questions)
WeightedSum == MapThenSumSet(LAMBDA q : report.scores[q].score * weight[q], Questions)
Overall ==
    IF TotalWeight <= 0 THEN [sum |-> 0, of |-> 1] ELSE [sum |-> WeightedSum, of |-> TotalWeight]

-------------------------------------------------------------------------------

Intake == (AskNameAgain \/ RegisterName) /\ UNCHANGED history

Answer(overlap) ==
    /\ AskNext(overlap) \/ Close(overlap)
    /\ history' = Append(history, [ref |-> last, reply |-> overlap])

Converse ==
    /\ Intake \/ \E overlap \in Replies : Answer(overlap)
    /\ UNCHANGED <<weight, report>>

\* The candidate keeps replying, as in TurnPipeline.
EvaluationSpec ==
    /\ EvaluationInit
    /\ [][Converse \/ Score]_evaluationVars
    /\ WF_evaluationVars(Converse)

-------------------------------------------------------------------------------
(***************************************************************************)
(* Properties.                                                             *)
(***************************************************************************)

\* What is scored is what the interview went by: for a question put several times
\* the evaluation reads the reply that coverage was last marked with, and it
\* reads one for every question asked.
EvaluatesWhatWasCovered ==
    phase = "closing" =>
        /\ DOMAIN Answers = Asked(coverage)
        /\ \A q \in DOMAIN Answers : Answers[q] = coverage[q].confidence

\* No number is made up: a question that was never asked scores nothing, whatever
\* the model lists, every other score is one between 0.0 and 1.0, and so is the
\* overall one, unless a negative weight counts: outweighed by the others, it takes the
\* mean out of these bounds (a question of weight 3 scored 1.0, one of -1 scored 0.0).
NoNegativeCounts == TotalWeight <= 0 \/ \A q \in Questions : weight[q] >= 0
ReportIsSound ==
    report.status = "scored" =>
        /\ \A q \in Questions : /\ ~coverage[q].asked => report.scores[q] = NotReached
                                /\ report.scores[q].score \in 0..Full
        /\ NoNegativeCounts => Overall.sum \in 0..(Full * Overall.of)

\* An interview that closed because everything was covered leaves no question
\* that counts as not reached (unless the floor asks for nothing).
CoveredIsScoredWhole ==
    (reason = "min_coverage" /\ persona.floor > 0) => DOMAIN Answers = Questions

===============================================================================
