----------------------------- MODULE TurnPipeline -----------------------------
(***************************************************************************)
(* What an interview asks, and when it stops: the turn pipeline's route    *)
(* stage with the three question policies, the coverage the session keeps  *)
(* and the completion rule.  A step is one committed round: a reply comes  *)
(* in, it is assessed, and the interview asks its next question or closes. *)
(*                                                                         *)
(* The words are left out.  compose and guard decide how a question is put *)
(* (the model's text, its second attempt, or the authored one), never      *)
(* which one it is.  A model call that raises fails the run and commits    *)
(* nothing.                                                                *)
(***************************************************************************)
EXTENDS Naturals, FiniteSets

CONSTANTS
    NumQuestions,      \* the persona's questions, in their order
    Full,              \* confidence 1.0, in the units overlap is measured in
    Policies,          \* the policies a persona may have
    Floors,            \* the values of min_coverage
    Budgets,           \* the values of max_questions
    Depths,            \* the values of a question's follow_up_depth
    Replies,           \* the overlaps with the expected answer replies may reach
    IntakeAttempts,    \* _INTAKE_ATTEMPTS_BEFORE_FALLBACK
    MaxTurns           \* settings.session_max_turns

\* publish_persona refuses a budget above the number of questions.
ASSUME PersonaAssumption ==
    /\ NumQuestions \in Nat \ {0}
    /\ Full \in Nat \ {0}
    /\ Policies \subseteq {"guided", "adaptive", "stress"}
    /\ Floors \subseteq Nat
    /\ Budgets \subseteq 0..NumQuestions
    /\ Depths \subseteq Nat
    /\ Replies \subseteq 0..Full
    /\ IntakeAttempts \in Nat
    /\ MaxTurns \in Nat

VARIABLES
    persona,     \* the version the session is pinned to
    phase,       \* Session.phase
    coverage,    \* Session.coverage; a question it lacks is the default
    times,       \* times_asked, as the turn rows tell it
    last,        \* the question the next reply answers, 0 before the first
    intakes,     \* the rounds that asked for the name again
    rounds,      \* the replies committed
    reason       \* end_reason of the closing turn

vars == <<persona, phase, coverage, times, last, intakes, rounds, reason>>

Lifecycle == INSTANCE SessionLifecycle

Questions == 1..NumQuestions

Personas == [policy : Policies, floor : Floors, budget : Budgets, depth : [Questions -> Depths]]

Untouched == [asked |-> FALSE, answered |-> FALSE, confidence |-> 0]

Init ==
    /\ persona \in Personas
    /\ phase = "intake"
    /\ coverage = [q \in Questions |-> Untouched]
    /\ times = [q \in Questions |-> 0]
    /\ last = 0
    /\ intakes = 0
    /\ rounds = 0
    /\ reason = "none"

-------------------------------------------------------------------------------
(***************************************************************************)
(* Coverage.                                                               *)
(***************************************************************************)

\* The share of the expected words a reply contains; a reply counts as an
\* answer when it contains any.
Assess(overlap) == [answered |-> overlap > 0, confidence |-> overlap]

MarkAnswered(cov, q, a) ==
    [cov EXCEPT ![q] = [asked |-> TRUE, answered |-> a.answered, confidence |-> a.confidence]]

MarkAskedNever(cov, q) == cov
MarkAsked(cov, q) == [cov EXCEPT ![q].asked = TRUE]

Asked(cov) == {q \in Questions : cov[q].asked}
CoveredIfAsked(cov) == \A q \in Asked(cov) : cov[q].confidence >= persona.floor
Covered(cov) == \A q \in Questions : cov[q].confidence >= persona.floor

CompletionReasonLate(cov) ==
    IF Covered(cov) THEN "min_coverage"
    ELSE IF Cardinality(Asked(cov)) > persona.budget THEN "max_questions" ELSE "none"

CompletionReason(cov) ==
    IF Covered(cov) THEN "min_coverage"
    ELSE IF Cardinality(Asked(cov)) >= persona.budget THEN "max_questions" ELSE "none"

-------------------------------------------------------------------------------
(***************************************************************************)
(* The policies.  Each picks one question; ties go to the earlier one, as  *)
(* Python's stable sort and its max do.                                    *)
(***************************************************************************)

Open(cov) == {q \in Questions : ~cov[q].answered}

GuidedFirstUnasked(cov) ==
    LET fresh == {q \in Questions : ~cov[q].asked}
    IN  IF fresh # {} THEN {q \in fresh : \A p \in fresh : q <= p} ELSE {1}

Guided(cov) ==
    IF Open(cov) # {} THEN {q \in Open(cov) : \A p \in Open(cov) : q <= p} ELSE {1}

Weakest(S, cov) ==
    {q \in S : \A p \in S : \/ cov[q].confidence < cov[p].confidence
                            \/ cov[q].confidence = cov[p].confidence /\ q <= p}

\* Below the floor, and not yet asked or with a follow-up left.
ThinOnceMore(cov) ==
    {q \in Questions : cov[q].confidence < persona.floor /\ times[q] <= persona.depth[q] + 1}
ThinForever(cov) == {q \in Questions : cov[q].confidence < persona.floor}
Thin(cov) ==
    {q \in Questions : cov[q].confidence < persona.floor /\ times[q] <= persona.depth[q]}

Adaptive(cov) ==
    IF Thin(cov) # {} THEN Weakest(Thin(cov), cov) ELSE Weakest(Questions, cov)

Answered(cov) == {q \in Questions : cov[q].answered}

Strongest(S, cov) ==
    {q \in S : \A p \in S : \/ cov[q].confidence > cov[p].confidence
                            \/ cov[q].confidence = cov[p].confidence /\ q <= p}

Stress(cov) == IF Answered(cov) # {} THEN Strongest(Answered(cov), cov) ELSE {1}

\* policy_for: the registry.
PickNext(cov) ==
    [guided   |-> Guided(cov),
     adaptive |-> Adaptive(cov),
     stress   |-> Stress(cov)][persona.policy]

-------------------------------------------------------------------------------
(***************************************************************************)
(* The rounds.                                                             *)
(***************************************************************************)

\* submit_turn refuses the round past session_max_turns.
Accepted ==
    /\ rounds < MaxTurns
    /\ rounds' = rounds + 1

Ask(cov, q) ==
    /\ coverage' = MarkAsked(cov, q)
    /\ times' = [times EXCEPT ![q] = @ + 1]
    /\ last' = q

\* No name in the reply, and an attempt left.
AskNameAgain ==
    /\ phase = "intake"
    /\ Accepted
    /\ intakes + 1 < IntakeAttempts
    /\ intakes' = intakes + 1
    /\ UNCHANGED <<persona, phase, coverage, times, last, reason>>

RegisterName ==
    /\ phase = "intake"
    /\ Accepted
    /\ phase' = Lifecycle!After(phase, "register_name")
    /\ \E q \in PickNext(coverage) : Ask(coverage, q)
    /\ UNCHANGED <<persona, intakes, reason>>

Heard(overlap) == MarkAnswered(coverage, last, Assess(overlap))

AskNext(overlap) ==
    /\ phase = "questioning"
    /\ Accepted
    /\ CompletionReason(Heard(overlap)) = "none"
    /\ phase' = Lifecycle!After(phase, "record_answer")
    /\ \E q \in PickNext(Heard(overlap)) : Ask(Heard(overlap), q)
    /\ UNCHANGED <<persona, intakes, reason>>

Close(overlap) ==
    /\ phase = "questioning"
    /\ Accepted
    /\ CompletionReason(Heard(overlap)) # "none"
    /\ reason' = CompletionReason(Heard(overlap))
    /\ coverage' = Heard(overlap)
    /\ phase' = Lifecycle!After(Lifecycle!After(phase, "record_answer"), "reach_closing")
    /\ UNCHANGED <<persona, times, last, intakes>>

Next ==
    \/ AskNameAgain
    \/ RegisterName
    \/ \E overlap \in Replies : AskNext(overlap) \/ Close(overlap)

Spec == Init /\ [][Next]_vars

\* A candidate who keeps replying.
FairSpec == Spec /\ WF_vars(Next)

-------------------------------------------------------------------------------
(***************************************************************************)
(* Properties.                                                             *)
(***************************************************************************)

Coverages ==
    [Questions -> [asked : BOOLEAN, answered : BOOLEAN, confidence : 0..Full]]

\* The types of the variables; an interview that is questioning has a question
\* on the table.
TypeOK ==
    /\ persona \in Personas
    /\ phase \in {"intake", "questioning", "closing"}
    /\ coverage \in Coverages
    /\ times \in [Questions -> Nat]
    /\ last \in 0..NumQuestions
    /\ last = 0 <=> phase = "intake"
    /\ intakes \in Nat
    /\ rounds \in Nat
    /\ reason \in {"none", "min_coverage", "max_questions"}

\* The coverage the session row keeps and the history the turn rows tell agree:
\* a question is marked asked exactly when a round asked it, and one that was
\* never asked has reached nothing.
CoverageMatchesHistory ==
    \A q \in Questions : /\ coverage[q].asked <=> times[q] > 0
                         /\ ~coverage[q].asked => coverage[q] = Untouched

\* adaptive asks a question at most once and then follow_up_depth times more,
\* whatever the candidate says.  The fallback of its loop, which ignores the
\* depth, is never reached while the interview goes on.
FollowUpsBounded ==
    persona.policy = "adaptive" =>
        \A q \in Questions : times[q] <= persona.depth[q] + 1

\* guided walks the questions in order: the one on the table is the last asked,
\* every earlier one is answered and no later one has been touched.
GuidedInOrder ==
    (persona.policy = "guided" /\ phase = "questioning") =>
        \A q \in Questions : /\ q < last => coverage[q].answered
                             /\ coverage[q].asked <=> q <= last

\* No more distinct questions are asked than max_questions allows; the first one
\* is asked before the rule is consulted.
BudgetRespected ==
    Cardinality(Asked(coverage)) <= IF persona.budget = 0 THEN 1 ELSE persona.budget

\* An adaptive interview closes, whatever a candidate who keeps replying says,
\* provided session_max_turns leaves it room for every follow-up.
AdaptiveCloses == persona.policy = "adaptive" ~> phase = "closing"

\* What the documents say, and the code does not do.

\* An interview whose candidate keeps replying closes, after each question has
\* been asked once at the latest when max_questions is left out.
InterviewCloses == <>(phase = "closing")

===============================================================================
