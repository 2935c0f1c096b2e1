-------------------------- MODULE TurnPipelineProofs --------------------------
(***************************************************************************)
(* Proofs about the pipeline, for every persona, number of questions and   *)
(* reply: its type invariant, the agreement of coverage and history, and   *)
(* what each policy and the budget promise.                                *)
(***************************************************************************)
EXTENDS TurnPipeline, FiniteSetTheorems, TLAPS

-------------------------------------------------------------------------------
(***************************************************************************)
(* The phases an interview moves through.                                  *)
(***************************************************************************)

LEMMA Registering == Lifecycle!After("intake", "register_name") = "questioning"
BY DEF Lifecycle!After, Lifecycle!Transitions

LEMMA Recording == Lifecycle!After("questioning", "record_answer") = "questioning"
BY DEF Lifecycle!After, Lifecycle!Transitions

LEMMA Closing == Lifecycle!After("questioning", "reach_closing") = "closing"
BY DEF Lifecycle!After, Lifecycle!Transitions

-------------------------------------------------------------------------------
(***************************************************************************)
(* The type invariant.                                                     *)
(***************************************************************************)

LEMMA PersonaFields ==
    ASSUME PersonaAssumption, persona \in Personas
    PROVE  /\ persona.policy \in {"guided", "adaptive", "stress"}
           /\ persona.floor \in Nat
           /\ persona.budget \in Nat /\ persona.budget <= NumQuestions
           /\ persona.depth \in [Questions -> Nat]
<1>1. /\ persona.policy \in Policies /\ persona.floor \in Floors
      /\ persona.budget \in Budgets /\ persona.depth \in [Questions -> Depths]
  BY DEF Personas
<1>2. persona.budget \in 0..NumQuestions
  BY <1>1 DEF PersonaAssumption
<1>3. persona.depth \in [Questions -> Nat]
  <2>1. Depths \subseteq Nat
    BY DEF PersonaAssumption
  <2> QED
    BY <1>1, <2>1
<1>4. persona.policy \in {"guided", "adaptive", "stress"}
  BY <1>1 DEF PersonaAssumption
<1>5. persona.floor \in Nat
  BY <1>1 DEF PersonaAssumption
<1>6. persona.budget \in Nat /\ persona.budget <= NumQuestions
  BY <1>2 DEF PersonaAssumption
<1> QED
  BY <1>3, <1>4, <1>5, <1>6

LEMMA PolicyFor ==
    ASSUME NEW cov
    PROVE  /\ persona.policy = "guided" => PickNext(cov) = Guided(cov)
           /\ persona.policy = "adaptive" => PickNext(cov) = Adaptive(cov)
           /\ persona.policy = "stress" => PickNext(cov) = Stress(cov)
BY DEF PickNext

\* Whatever the policy, what is picked is a question.
LEMMA PickIsAQuestion ==
    ASSUME PersonaAssumption, persona \in Personas, NEW cov
    PROVE  PickNext(cov) \subseteq Questions
<1>1. 1 \in Questions
  BY DEF PersonaAssumption, Questions
<1>2. Guided(cov) \subseteq Questions
  BY <1>1 DEF Guided, Open
<1>3. Adaptive(cov) \subseteq Questions
  BY DEF Adaptive, Weakest, Thin
<1>4. Stress(cov) \subseteq Questions
  BY <1>1 DEF Stress, Strongest, Answered
<1> QED
  BY <1>2, <1>3, <1>4, PersonaFields, PolicyFor

LEMMA AskTypes ==
    ASSUME PersonaAssumption, TypeOK, NEW cov \in Coverages, NEW q \in Questions, Ask(cov, q)
    PROVE  /\ coverage' \in Coverages
           /\ times' \in [Questions -> Nat]
           /\ last' \in 0..NumQuestions
           /\ last' # 0
<1>1. coverage' = [cov EXCEPT ![q] = [cov[q] EXCEPT !.asked = TRUE]]
  BY DEF Ask, MarkAsked
<1>2. cov[q] \in [asked : BOOLEAN, answered : BOOLEAN, confidence : 0..Full]
  BY DEF Coverages
<1>3. coverage' \in Coverages
  BY <1>1, <1>2 DEF Coverages
<1>4. times' \in [Questions -> Nat]
  BY DEF TypeOK, Ask
<1>5. last' \in 0..NumQuestions /\ last' # 0
  BY DEF PersonaAssumption, Ask, Questions
<1> QED
  BY <1>3, <1>4, <1>5

LEMMA HeardTypes ==
    ASSUME PersonaAssumption, TypeOK, phase = "questioning", NEW overlap \in Replies
    PROVE  Heard(overlap) \in Coverages
<1>1. last \in Questions /\ overlap \in 0..Full
  BY DEF PersonaAssumption, TypeOK, Questions
<1> QED
  BY <1>1 DEF TypeOK, Heard, MarkAnswered, Assess, Coverages

LEMMA AcceptedTypes ==
    ASSUME TypeOK, Accepted
    PROVE  rounds' \in Nat
BY DEF TypeOK, Accepted

LEMMA TypeInit ==
    ASSUME PersonaAssumption, Init
    PROVE  TypeOK
BY DEF PersonaAssumption, Init, TypeOK, Coverages, Untouched

LEMMA TypeStep ==
    ASSUME PersonaAssumption, TypeOK, [Next]_vars
    PROVE  TypeOK'
<1>1. CASE AskNameAgain
  BY <1>1, AcceptedTypes DEF TypeOK, AskNameAgain
<1>2. CASE RegisterName
  <2>1. PICK q \in PickNext(coverage) : Ask(coverage, q)
    BY <1>2 DEF RegisterName
  <2>2. q \in Questions /\ coverage \in Coverages
    BY <2>1, PickIsAQuestion DEF TypeOK
  <2>3. phase' = "questioning" /\ rounds' \in Nat
    BY <1>2, Registering, AcceptedTypes DEF RegisterName
  <2> QED
    BY <1>2, <2>1, <2>2, <2>3, AskTypes DEF TypeOK, RegisterName, Personas
<1>3. ASSUME NEW overlap \in Replies, AskNext(overlap) PROVE TypeOK'
  <2>1. PICK q \in PickNext(Heard(overlap)) : Ask(Heard(overlap), q)
    BY <1>3 DEF AskNext
  <2>2. q \in Questions /\ Heard(overlap) \in Coverages
    BY <1>3, <2>1, PickIsAQuestion, HeardTypes DEF TypeOK, AskNext
  <2>3. phase' = "questioning" /\ rounds' \in Nat
    BY <1>3, Recording, AcceptedTypes DEF AskNext
  <2> QED
    BY <1>3, <2>1, <2>2, <2>3, AskTypes DEF TypeOK, AskNext, Personas
<1>4. ASSUME NEW overlap \in Replies, Close(overlap) PROVE TypeOK'
  <2>1. coverage' \in Coverages /\ rounds' \in Nat
    BY <1>4, HeardTypes, AcceptedTypes DEF Close
  <2>2. phase' = "closing"
    BY <1>4, Recording, Closing DEF Close
  <2>3. reason' \in {"min_coverage", "max_questions"}
    BY <1>4 DEF Close, CompletionReason
  <2> QED
    BY <1>4, <2>1, <2>2, <2>3 DEF TypeOK, Close, Personas
<1>5. CASE UNCHANGED vars
  BY <1>5 DEF TypeOK, vars, Personas
<1> QED
  BY <1>1, <1>2, <1>3, <1>4, <1>5 DEF Next

\* Every variable of the pipeline keeps its type, for any persona publish_persona
\* accepts.
THEOREM PipelineTypes == Spec => []TypeOK
<1>1. Init => TypeOK
  BY TypeInit, PersonaAssumption
<1>2. TypeOK /\ [Next]_vars => TypeOK'
  BY TypeStep, PersonaAssumption
<1> QED
  BY <1>1, <1>2, PTL DEF Spec

-------------------------------------------------------------------------------
(***************************************************************************)
(* What the policies and the budget promise.  Each proof is about the      *)
(* coverage as one reply leaves it: the question on the table reassessed,  *)
(* every other one as it was.                                              *)
(***************************************************************************)

LEMMA AnsweredField ==
    ASSUME NEW r, NEW b \in BOOLEAN, NEW c, r = [asked |-> TRUE, answered |-> b, confidence |-> c]
    PROVE  r.answered = b
OBVIOUS

LEMMA HeardElsewhere ==
    ASSUME PersonaAssumption, TypeOK, phase = "questioning", NEW overlap \in Replies
    PROVE  /\ last \in Questions
           /\ Heard(overlap)[last].asked
           /\ Heard(overlap)[last].answered <=> overlap > 0
           /\ \A q \in Questions : q # last => Heard(overlap)[q] = coverage[q]
<1>1. last \in Questions
  BY DEF PersonaAssumption, TypeOK, Questions
<1>2. Heard(overlap) = [coverage EXCEPT ![last] = [asked |-> TRUE, answered |-> overlap > 0,
                                                   confidence |-> overlap]]
  BY DEF Heard, MarkAnswered, Assess
<1>3. coverage \in [Questions -> [asked : BOOLEAN, answered : BOOLEAN, confidence : 0..Full]]
  BY DEF TypeOK, Coverages
<1>4. Heard(overlap)[last] = [asked |-> TRUE, answered |-> overlap > 0, confidence |-> overlap]
  BY <1>1, <1>2, <1>3
<1>5. \A q \in Questions : q # last => Heard(overlap)[q] = coverage[q]
  BY <1>2, <1>3
<1>6. Heard(overlap)[last].asked
  BY <1>4
<1>7. Heard(overlap)[last].answered <=> overlap > 0
  <2>1. (overlap > 0) \in BOOLEAN
    OBVIOUS
  <2> QED
    BY <1>4, <2>1, AnsweredField, Zenon
<1> QED
  BY <1>1, <1>5, <1>6, <1>7, Zenon

LEMMA AskElsewhere ==
    ASSUME NEW cov \in Coverages, TypeOK, NEW q \in Questions, Ask(cov, q)
    PROVE  /\ coverage'[q].asked
           /\ coverage'[q].answered = cov[q].answered
           /\ \A p \in Questions : p # q => coverage'[p] = cov[p]
           /\ times'[q] = times[q] + 1
           /\ \A p \in Questions : p # q => times'[p] = times[p]
           /\ last' = q
<1>1. coverage' = [cov EXCEPT ![q] = [cov[q] EXCEPT !.asked = TRUE]]
  BY DEF Ask, MarkAsked
<1>2. cov \in [Questions -> [asked : BOOLEAN, answered : BOOLEAN, confidence : 0..Full]]
  BY DEF Coverages
<1>3. times' = [times EXCEPT ![q] = times[q] + 1] /\ last' = q
  BY DEF Ask
<1> QED
  BY <1>1, <1>2, <1>3 DEF TypeOK

\* The question on the table has been asked, and before the first one nothing has.
OnTheTable ==
    /\ phase = "questioning" => coverage[last].asked
    /\ phase = "intake" => \A q \in Questions : ~coverage[q].asked

\* What a coverage owes the history it goes with.
Matches(cov) ==
    \A q \in Questions : /\ cov[q].asked <=> times[q] > 0
                         /\ ~cov[q].asked => cov[q] = Untouched

\* A reply marks nothing asked that was not.
LEMMA HeardMatches ==
    ASSUME PersonaAssumption, TypeOK, CoverageMatchesHistory, OnTheTable,
           phase = "questioning", NEW overlap \in Replies
    PROVE  /\ Matches(Heard(overlap))
           /\ Asked(Heard(overlap)) = Asked(coverage)
<1>1. \A q \in Questions : Heard(overlap)[q].asked <=> coverage[q].asked
  BY HeardElsewhere DEF OnTheTable
<1>2. Asked(Heard(overlap)) = Asked(coverage)
  BY <1>1 DEF Asked
<1>3. \A q \in Questions : ~Heard(overlap)[q].asked => Heard(overlap)[q] = coverage[q]
  BY HeardElsewhere
<1>4. Matches(Heard(overlap))
  BY <1>1, <1>3 DEF Matches, CoverageMatchesHistory
<1> QED
  BY <1>2, <1>4

LEMMA AskMatches ==
    ASSUME TypeOK, NEW cov \in Coverages, Matches(cov), NEW q \in Questions, Ask(cov, q)
    PROVE  CoverageMatchesHistory'
<1>1. coverage'[q].asked /\ times'[q] > 0
  BY AskElsewhere DEF TypeOK
<1>2. \A p \in Questions : p # q => coverage'[p] = cov[p] /\ times'[p] = times[p]
  BY AskElsewhere
<1> QED
  BY <1>1, <1>2 DEF CoverageMatchesHistory, Matches, Untouched

\* While the interview goes on, a question is left to ask.
LEMMA UnaskedLeft ==
    ASSUME PersonaAssumption, TypeOK, NEW cov \in Coverages, CompletionReason(cov) = "none"
    PROVE  /\ \E u \in Questions : ~cov[u].asked
           /\ \E q \in Questions : cov[q].confidence < persona.floor
           /\ Cardinality(Asked(cov)) < persona.budget
<1>1. persona.budget \in 0..NumQuestions /\ persona.floor \in Nat
  BY PersonaFields DEF PersonaAssumption, TypeOK
<1>2. ~Covered(cov) /\ ~(Cardinality(Asked(cov)) >= persona.budget)
  BY DEF CompletionReason
<1>3. \A q \in Questions : cov[q].confidence \in Nat
  BY DEF PersonaAssumption, Coverages
<1>4. \E q \in Questions : cov[q].confidence < persona.floor
  BY <1>1, <1>2, <1>3 DEF Covered
<1>5. IsFiniteSet(Questions) /\ Cardinality(Questions) = NumQuestions
  BY FS_Interval DEF PersonaAssumption, Questions
<1>6. Cardinality(Asked(cov)) \in Nat
  BY <1>5, FS_Subset, FS_CardinalityType DEF Asked
<1>7. Cardinality(Asked(cov)) < persona.budget
  BY <1>1, <1>2, <1>6
<1>8. Asked(cov) # Questions
  BY <1>1, <1>5, <1>7 DEF PersonaAssumption
<1> QED
  BY <1>4, <1>7, <1>8 DEF Asked

-------------------------------------------------------------------------------
(***************************************************************************)
(* adaptive: an unasked question is always thin, so the fallback of the    *)
(* loop is out of reach and what is picked has a follow-up left.           *)
(***************************************************************************)

LEMMA AdaptivePick ==
    ASSUME PersonaAssumption, TypeOK, persona.policy = "adaptive",
           NEW cov \in Coverages, Matches(cov), CompletionReason(cov) = "none",
           NEW q \in PickNext(cov)
    PROVE  times[q] <= persona.depth[q]
<1>1. PICK u \in Questions : ~cov[u].asked
  BY UnaskedLeft
<1>2. PICK p \in Questions : cov[p].confidence < persona.floor
  BY UnaskedLeft
<1>3. cov[p].confidence \in Nat /\ persona.floor \in Nat /\ persona.depth[u] \in Nat
  <2>1. cov[p].confidence \in Nat
    BY DEF PersonaAssumption, Coverages
  <2> QED
    BY <2>1, PersonaFields DEF TypeOK
<1>4. cov[u].confidence = 0 /\ times[u] = 0
  BY <1>1 DEF Matches, Untouched, TypeOK
<1>5. u \in Thin(cov)
  BY <1>2, <1>3, <1>4 DEF Thin
<1>6. q \in Weakest(Thin(cov), cov)
  BY <1>5, PolicyFor DEF Adaptive
<1> QED
  BY <1>6 DEF Weakest, Thin

LEMMA FirstPickHasRoom ==
    ASSUME PersonaAssumption, TypeOK, CoverageMatchesHistory, OnTheTable, phase = "intake",
           NEW q \in Questions
    PROVE  times[q] <= persona.depth[q]
<1>1. times[q] = 0
  BY DEF TypeOK, CoverageMatchesHistory, OnTheTable
<1>2. persona.depth[q] \in Nat
  BY PersonaFields DEF TypeOK
<1> QED
  BY <1>1, <1>2

LEMMA AskWithinDepth ==
    ASSUME PersonaAssumption, TypeOK, FollowUpsBounded, UNCHANGED persona,
           NEW cov \in Coverages, NEW q \in Questions, Ask(cov, q),
           persona.policy = "adaptive" => times[q] <= persona.depth[q]
    PROVE  FollowUpsBounded'
<1> SUFFICES ASSUME persona.policy = "adaptive", NEW p \in Questions
             PROVE  times'[p] <= persona.depth[p] + 1
  BY DEF FollowUpsBounded
<1>1. times[p] \in Nat /\ times[q] \in Nat /\ persona.depth[p] \in Nat
  BY PersonaFields DEF TypeOK
<1>2. CASE p = q
  BY <1>1, <1>2, AskElsewhere
<1>3. CASE p # q
  BY <1>3, AskElsewhere DEF FollowUpsBounded
<1> QED
  BY <1>2, <1>3

-------------------------------------------------------------------------------
(***************************************************************************)
(* guided: what is open is what comes after the question on the table, and *)
(* that question itself when the reply said nothing.                       *)
(***************************************************************************)

LEMMA GuidedPick ==
    ASSUME PersonaAssumption, TypeOK, persona.policy = "guided", phase = "questioning",
           CoverageMatchesHistory, OnTheTable, GuidedInOrder,
           NEW overlap \in Replies, CompletionReason(Heard(overlap)) = "none",
           NEW q \in PickNext(Heard(overlap))
    PROVE  /\ \A p \in Questions : p < q => Heard(overlap)[p].answered
           /\ \A p \in Questions : p # q => (Heard(overlap)[p].asked <=> p < q)
<1> DEFINE cov == Heard(overlap)
<1>1. cov \in Coverages /\ Matches(cov) /\ last \in Questions
  BY HeardTypes, HeardMatches, HeardElsewhere
<1>2. \A p \in Questions : /\ cov[p].asked <=> p <= last
                           /\ p < last => cov[p].answered
  <2>1. \A p \in Questions : p # last => cov[p] = coverage[p]
    BY HeardElsewhere
  <2>2. cov[last].asked
    BY HeardElsewhere
  <2>3. \A p \in Questions : p \in Nat /\ last \in Nat
    BY <1>1 DEF PersonaAssumption, Questions
  <2> QED
    BY <2>1, <2>2, <2>3 DEF GuidedInOrder
<1>3. PICK u \in Questions : ~cov[u].asked
  BY <1>1, UnaskedLeft
<1>4. \A p \in Questions : ~cov[p].asked => ~cov[p].answered
  BY <1>1 DEF Matches, Untouched
<1>5. u \in Open(cov)
  BY <1>3, <1>4 DEF Open
<1>6. Guided(cov) = {r \in Open(cov) : \A p \in Open(cov) : r <= p}
  BY <1>5 DEF Guided
<1>7. q \in Open(cov) /\ \A p \in Open(cov) : q <= p
  BY <1>6, PolicyFor
<1>8. q \in Questions /\ ~cov[q].answered /\ \A p \in Questions : ~cov[p].answered => q <= p
  BY <1>7 DEF Open
<1>9. \A p \in Questions : p < q => cov[p].answered
  BY <1>8 DEF PersonaAssumption, Questions
<1>10. q = last \/ q = last + 1
  <2>1. last <= q
    BY <1>1, <1>2, <1>8 DEF PersonaAssumption, Questions
  <2>2. last < u
    BY <1>1, <1>2, <1>3 DEF PersonaAssumption, Questions
  <2>3. last + 1 \in Questions /\ ~(last + 1 <= last)
    BY <1>1, <2>2 DEF PersonaAssumption, Questions
  <2>4. q <= last + 1
    BY <1>2, <1>4, <1>8, <2>3
  <2> QED
    BY <1>1, <1>8, <2>1, <2>4 DEF PersonaAssumption, Questions
<1>11. \A p \in Questions : p # q => (cov[p].asked <=> p < q)
  BY <1>1, <1>2, <1>8, <1>10 DEF PersonaAssumption, Questions
<1> QED
  BY <1>9, <1>11

LEMMA AskInOrder ==
    ASSUME TypeOK, NEW cov \in Coverages, NEW q \in Questions, Ask(cov, q),
           \A p \in Questions : p < q => cov[p].answered,
           \A p \in Questions : p # q => (cov[p].asked <=> p < q),
           PersonaAssumption
    PROVE  GuidedInOrder'
<1>1. \A p \in Questions : p \in Nat
  BY DEF PersonaAssumption, Questions
<1>2. \A p \in Questions : p < last' => coverage'[p].answered
  BY <1>1, AskElsewhere
<1>3. \A p \in Questions : coverage'[p].asked <=> p <= last'
  BY <1>1, AskElsewhere
<1> QED
  BY <1>2, <1>3 DEF GuidedInOrder

LEMMA GuidedFirst ==
    ASSUME PersonaAssumption, TypeOK, CoverageMatchesHistory, OnTheTable,
           phase = "intake", persona.policy = "guided", NEW q \in PickNext(coverage)
    PROVE  q = 1
<1>1. \A p \in Questions : ~coverage[p].answered /\ p \in Nat
  BY DEF PersonaAssumption, Questions, CoverageMatchesHistory, OnTheTable, Untouched
<1>2. 1 \in Questions
  BY DEF PersonaAssumption, Questions
<1>3. Open(coverage) = Questions
  BY <1>1 DEF Open
<1>4. q \in Questions /\ q <= 1
  BY <1>2, <1>3, PolicyFor DEF Guided
<1> QED
  BY <1>4 DEF PersonaAssumption, Questions

-------------------------------------------------------------------------------
(***************************************************************************)
(* The budget.                                                             *)
(***************************************************************************)

LEMMA AskOneMore ==
    ASSUME PersonaAssumption, TypeOK, NEW cov \in Coverages, NEW q \in Questions, Ask(cov, q)
    PROVE  /\ Cardinality(Asked(cov)) \in Nat
           /\ Cardinality(Asked(coverage')) <= Cardinality(Asked(cov)) + 1
<1>1. Asked(coverage') = Asked(cov) \cup {q}
  BY AskElsewhere DEF Asked
<1>2. IsFiniteSet(Questions)
  BY FS_Interval DEF PersonaAssumption, Questions
<1>3. IsFiniteSet(Asked(cov))
  BY <1>2, FS_Subset DEF Asked
<1>4. Cardinality(Asked(cov)) \in Nat
  BY <1>3, FS_CardinalityType
<1>5. Cardinality(Asked(cov) \cup {q}) =
        IF q \in Asked(cov) THEN Cardinality(Asked(cov)) ELSE Cardinality(Asked(cov)) + 1
  BY <1>3, FS_AddElement
<1> QED
  BY <1>1, <1>4, <1>5

-------------------------------------------------------------------------------
(***************************************************************************)
(* The inductive invariant, and the theorems.                              *)
(***************************************************************************)

Interview ==
    /\ CoverageMatchesHistory
    /\ OnTheTable
    /\ FollowUpsBounded
    /\ GuidedInOrder
    /\ BudgetRespected

LEMMA InterviewInit ==
    ASSUME PersonaAssumption, Init
    PROVE  Interview
<1>1. \A q \in Questions : ~coverage[q].asked /\ coverage[q] = Untouched /\ times[q] = 0
  BY DEF Init, Untouched
<1>2. phase = "intake"
  BY DEF Init
<1>3. CoverageMatchesHistory /\ OnTheTable /\ GuidedInOrder
  BY <1>1, <1>2 DEF CoverageMatchesHistory, OnTheTable, GuidedInOrder
<1>4. persona \in Personas
  BY DEF Init
<1>5. FollowUpsBounded
  BY <1>1, <1>4, PersonaFields DEF FollowUpsBounded
<1>6. Asked(coverage) = {}
  BY <1>1 DEF Asked
<1>7. persona.budget \in Nat
  BY <1>4, PersonaFields
<1>8. BudgetRespected
  BY <1>6, <1>7, FS_EmptySet DEF BudgetRespected
<1> QED
  BY <1>3, <1>5, <1>8 DEF Interview

LEMMA RegisterKeeps ==
    ASSUME PersonaAssumption, TypeOK, TypeOK', Interview, RegisterName
    PROVE  Interview'
<1>1. PICK q \in PickNext(coverage) : Ask(coverage, q)
  BY DEF RegisterName
<1>2. /\ phase = "intake" /\ phase' = "questioning" /\ persona' = persona
      /\ q \in Questions /\ coverage \in Coverages
  BY <1>1, PickIsAQuestion, Registering DEF TypeOK, RegisterName
<1>3. CoverageMatchesHistory'
  BY <1>1, <1>2, AskMatches DEF Interview, Matches, CoverageMatchesHistory
<1>4. OnTheTable'
  BY <1>1, <1>2, AskElsewhere DEF OnTheTable
<1>5. FollowUpsBounded'
  BY <1>1, <1>2, FirstPickHasRoom, AskWithinDepth DEF Interview
<1>6. ASSUME persona.policy = "guided" PROVE GuidedInOrder'
  <2>1. q = 1
    BY <1>1, <1>2, <1>6, GuidedFirst DEF Interview
  <2>2. \A p \in Questions : ~(p < q) /\ ~coverage[p].asked
    BY <1>2, <2>1 DEF PersonaAssumption, Questions, Interview, OnTheTable
  <2> QED
    BY <1>1, <1>2, <2>2, AskInOrder
<1>7. GuidedInOrder'
  BY <1>2, <1>6 DEF GuidedInOrder
<1>8. BudgetRespected'
  <2>1. Asked(coverage) = {}
    BY <1>2 DEF Asked, Interview, OnTheTable
  <2>2. Cardinality(Asked(coverage')) <= 0 + 1
    BY <1>1, <1>2, <2>1, AskOneMore, FS_EmptySet
  <2>3. persona.budget \in Nat
    BY PersonaFields DEF TypeOK
  <2>4. Cardinality(Asked(coverage')) \in Nat
    <3>1. IsFiniteSet(Questions) /\ Asked(coverage') \subseteq Questions
      BY FS_Interval DEF PersonaAssumption, Questions, Asked
    <3> QED
      BY <3>1, FS_Subset, FS_CardinalityType
  <2> QED
    BY <1>2, <2>2, <2>3, <2>4 DEF BudgetRespected, Asked
<1> QED
  BY <1>3, <1>4, <1>5, <1>7, <1>8, <1>6 DEF Interview

LEMMA AskNextKeeps ==
    ASSUME PersonaAssumption, TypeOK, TypeOK', Interview, NEW overlap \in Replies, AskNext(overlap)
    PROVE  Interview'
<1> DEFINE cov == Heard(overlap)
<1>1. PICK q \in PickNext(cov) : Ask(cov, q)
  BY DEF AskNext
<1>2. /\ phase = "questioning" /\ phase' = "questioning" /\ persona' = persona
      /\ CompletionReason(cov) = "none"
  BY Recording DEF AskNext
<1>3. q \in Questions /\ cov \in Coverages
  BY <1>1, <1>2, PickIsAQuestion, HeardTypes DEF TypeOK
<1>4. Matches(cov)
  BY <1>2, HeardMatches DEF Interview
<1>5. CoverageMatchesHistory'
  BY <1>1, <1>3, <1>4, AskMatches
<1>6. OnTheTable'
  BY <1>1, <1>2, <1>3, AskElsewhere DEF OnTheTable
<1>7. FollowUpsBounded'
  BY <1>1, <1>2, <1>3, <1>4, AdaptivePick, AskWithinDepth DEF Interview
<1>8. ASSUME persona.policy = "guided" PROVE GuidedInOrder'
  BY <1>1, <1>2, <1>3, <1>8, GuidedPick, AskInOrder DEF Interview
<1>9. GuidedInOrder'
  BY <1>2, <1>8 DEF GuidedInOrder
<1>10. BudgetRespected'
  <2>1. Cardinality(Asked(cov)) < persona.budget
    BY <1>2, <1>3, UnaskedLeft
  <2>2. Cardinality(Asked(coverage')) <= Cardinality(Asked(cov)) + 1 /\ Cardinality(Asked(cov)) \in Nat
    BY <1>1, <1>3, AskOneMore
  <2>3. persona.budget \in Nat
    BY PersonaFields DEF TypeOK
  <2>4. Cardinality(Asked(coverage')) \in Nat
    <3>1. IsFiniteSet(Questions) /\ Asked(coverage') \subseteq Questions
      BY FS_Interval DEF PersonaAssumption, Questions, Asked
    <3> QED
      BY <3>1, FS_Subset, FS_CardinalityType
  <2> QED
    BY <1>2, <2>1, <2>2, <2>3, <2>4 DEF BudgetRespected, Asked
<1> QED
  BY <1>5, <1>6, <1>7, <1>9, <1>10 DEF Interview

LEMMA CloseKeeps ==
    ASSUME PersonaAssumption, TypeOK, Interview, NEW overlap \in Replies, Close(overlap)
    PROVE  Interview'
<1>1. /\ phase = "questioning" /\ phase' = "closing" /\ coverage' = Heard(overlap)
      /\ UNCHANGED <<persona, times>>
  BY Recording, Closing DEF Close
<1>2. Matches(Heard(overlap)) /\ Asked(Heard(overlap)) = Asked(coverage)
  BY <1>1, HeardMatches DEF Interview
<1>3. CoverageMatchesHistory'
  BY <1>1, <1>2 DEF CoverageMatchesHistory, Matches
<1>4. OnTheTable' /\ GuidedInOrder'
  BY <1>1 DEF OnTheTable, GuidedInOrder
<1>5. FollowUpsBounded'
  BY <1>1 DEF Interview, FollowUpsBounded
<1>6. BudgetRespected'
  BY <1>1, <1>2 DEF Interview, BudgetRespected, Asked
<1> QED
  BY <1>3, <1>4, <1>5, <1>6 DEF Interview

LEMMA InterviewStep ==
    ASSUME PersonaAssumption, TypeOK, TypeOK', Interview, [Next]_vars
    PROVE  Interview'
<1>1. CASE UNCHANGED <<persona, phase, coverage, times, last>>
  BY <1>1 DEF Interview, CoverageMatchesHistory, OnTheTable, FollowUpsBounded,
              GuidedInOrder, BudgetRespected, Asked
<1>2. CASE AskNameAgain
  BY <1>1, <1>2 DEF AskNameAgain
<1>3. CASE RegisterName
  BY <1>3, RegisterKeeps
<1>4. CASE \E overlap \in Replies : AskNext(overlap) \/ Close(overlap)
  BY <1>4, AskNextKeeps, CloseKeeps
<1> QED
  BY <1>1, <1>2, <1>3, <1>4 DEF Next, vars

LEMMA InterviewHolds == Spec => []Interview
<1>1. Init => Interview
  BY InterviewInit, PersonaAssumption
<1>2. TypeOK /\ TypeOK' /\ Interview /\ [Next]_vars => Interview'
  BY InterviewStep, PersonaAssumption
<1> QED
  BY <1>1, <1>2, PipelineTypes, PTL DEF Spec

\* The coverage in the session row and the history in the turn rows agree.
THEOREM CoverageIsHistory == Spec => []CoverageMatchesHistory
<1>1. Interview => CoverageMatchesHistory
  BY DEF Interview
<1> QED
  BY <1>1, InterviewHolds, PTL

\* An adaptive interview never follows up deeper than the question allows, for
\* any number of questions, depths, floor and replies.
THEOREM DepthKept == Spec => []FollowUpsBounded
<1>1. Interview => FollowUpsBounded
  BY DEF Interview
<1> QED
  BY <1>1, InterviewHolds, PTL

\* A guided interview asks its questions in their order and skips none.
THEOREM OrderKept == Spec => []GuidedInOrder
<1>1. Interview => GuidedInOrder
  BY DEF Interview
<1> QED
  BY <1>1, InterviewHolds, PTL

\* No interview asks more distinct questions than its budget, or one.
THEOREM BudgetKept == Spec => []BudgetRespected
<1>1. Interview => BudgetRespected
  BY DEF Interview
<1> QED
  BY <1>1, InterviewHolds, PTL

===============================================================================
