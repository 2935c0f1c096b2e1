--------------------------- MODULE EvaluationProofs ---------------------------
(***************************************************************************)
(* Proofs about Evaluation, for every persona, every conversation and      *)
(* every list of scores the model may return: what is scored is what the   *)
(* interview went by, and no number is made up.                            *)
(***************************************************************************)
EXTENDS Evaluation, TurnPipelineProofs

Turns == [ref : Questions, reply : 0..Full]

\* An evaluated interview is an interview: what holds of the pipeline holds here.
LEMMA Conducted == EvaluationSpec => []TypeOK /\ []Interview
<1>1. EvaluationInit => Init
  BY DEF EvaluationInit
<1>2. [Converse \/ Score]_evaluationVars => [Next]_vars
  BY DEF Converse, Intake, Answer, Score, Next, evaluationVars
<1> QED
  BY <1>1, <1>2, PipelineTypes, InterviewHolds, PTL DEF EvaluationSpec, Spec

-------------------------------------------------------------------------------
(***************************************************************************)
(* The last entry of a list that is about a question.                      *)
(***************************************************************************)

LastAt(h, q, i) ==
    i \in DOMAIN h /\ h[i].ref = q /\ \A j \in DOMAIN h : h[j].ref = q => j <= i

LEMMA LastIsRead ==
    ASSUME NEW n \in Nat, NEW h, DOMAIN h = 1..n, NEW q, NEW i, LastAt(h, q, i)
    PROVE  /\ q \in RefsIn(h) /\ AnswersByRef(h)[q] = h[i].reply
           /\ q \in ScoredRefs(h) /\ LastEntry(h, q) = h[i]
<1>1. q \in RefsIn(h) /\ q \in ScoredRefs(h)
  BY DEF LastAt, RefsIn, ScoredRefs
<1>2. \A k : (k \in DOMAIN h /\ h[k].ref = q /\ \A j \in DOMAIN h : h[j].ref = q => j <= k) <=> k = i
  BY DEF LastAt
<1>3. i = CHOOSE k \in DOMAIN h : h[k].ref = q /\ \A j \in DOMAIN h : h[j].ref = q => j <= k
  BY <1>2
<1> QED
  BY <1>1, <1>3 DEF AnswersByRef, LastEntry

\* One more turn is the last about its question, and leaves the others as they were.
TurnAdded(h, q, t, g) ==
    /\ g \in Seq(Turns)
    /\ RefsIn(g) = RefsIn(h) \cup {q}
    /\ LastAt(g, q, Len(h) + 1) /\ g[Len(h) + 1] = t
    /\ \A p, i : p # q /\ LastAt(h, p, i) => LastAt(g, p, i) /\ g[i] = h[i]

LEMMA OneMoreTurn ==
    ASSUME NEW h \in Seq(Turns), NEW t \in Turns, NEW q, q = t.ref, NEW g, g = Append(h, t)
    PROVE  TurnAdded(h, q, t, g)
<1>1. /\ g \in Seq(Turns) /\ Len(g) = Len(h) + 1 /\ Len(h) \in Nat
      /\ DOMAIN g = 1..(Len(h) + 1) /\ DOMAIN h = 1..Len(h)
      /\ g[Len(h) + 1] = t
      /\ \A i \in 1..Len(h) : g[i] = h[i]
  OBVIOUS
<1>2. RefsIn(g) = RefsIn(h) \cup {q}
  BY <1>1 DEF RefsIn
<1>3. LastAt(g, q, Len(h) + 1)
  BY <1>1 DEF LastAt
<1>4. ASSUME NEW p, NEW i, p # q, LastAt(h, p, i) PROVE LastAt(g, p, i) /\ g[i] = h[i]
  BY <1>1, <1>4 DEF LastAt
<1> QED
  BY <1>1, <1>2, <1>3, <1>4 DEF TurnAdded

-------------------------------------------------------------------------------
(***************************************************************************)
(* The rows and the coverage tell the same replies.                        *)
(***************************************************************************)

OpenRound == IF phase = "questioning" THEN {last} ELSE {}

Told ==
    /\ history \in Seq(Turns)
    /\ Asked(coverage) = RefsIn(history) \cup OpenRound
    /\ \A q \in RefsIn(history) :
          \E i \in DOMAIN history : LastAt(history, q, i) /\ history[i].reply = coverage[q].confidence

LEMMA InitTold == ASSUME EvaluationInit PROVE Told
BY DEF EvaluationInit, Init, Told, Asked, OpenRound, RefsIn, Untouched

\* A reply is heard with the confidence it is told with.
LEMMA HeardConfidence ==
    ASSUME PersonaAssumption, TypeOK, phase = "questioning", NEW overlap \in Replies
    PROVE  /\ Heard(overlap)[last].confidence = overlap
           /\ \A q \in Questions : q # last => Heard(overlap)[q].confidence = coverage[q].confidence
<1>1. last \in Questions /\ coverage \in [Questions -> [asked : BOOLEAN, answered : BOOLEAN, confidence : 0..Full]]
  BY HeardElsewhere DEF TypeOK, Coverages
<1>2. Heard(overlap)[last] = [asked |-> TRUE, answered |-> overlap > 0, confidence |-> overlap]
  BY <1>1, Zenon DEF Heard, MarkAnswered, Assess
<1> QED
  BY <1>2, HeardElsewhere

LEMMA AskConfidence ==
    ASSUME NEW cov \in Coverages, TypeOK, NEW q \in Questions, Ask(cov, q)
    PROVE  /\ Asked(coverage') = Asked(cov) \cup {q}
           /\ \A p \in Questions : coverage'[p].confidence = cov[p].confidence
<1>1. Asked(coverage') = Asked(cov) \cup {q}
  BY AskElsewhere DEF Asked
<1>2. coverage' = [cov EXCEPT ![q] = [cov[q] EXCEPT !.asked = TRUE]]
  BY DEF Ask, MarkAsked
<1>3. /\ cov \in [Questions -> [asked : BOOLEAN, answered : BOOLEAN, confidence : 0..Full]]
      /\ cov[q] \in [asked : BOOLEAN, answered : BOOLEAN, confidence : 0..Full]
  BY DEF Coverages
<1>4. PICK r : r = [cov[q] EXCEPT !.asked = TRUE]
  OBVIOUS
<1>5. r.confidence = cov[q].confidence
  BY <1>3, <1>4
<1>6. \A p \in Questions : coverage'[p] = IF p = q THEN r ELSE cov[p]
  BY <1>2, <1>3, <1>4
<1> QED
  BY <1>1, <1>5, <1>6

\* What a round leaves: the reply at the end of the rows, its confidence in the coverage.
LEMMA ReplyKeepsTold ==
    ASSUME PersonaAssumption, TypeOK, Told, phase = "questioning", NEW overlap \in Replies,
           history' = Append(history, [ref |-> last, reply |-> overlap]),
           coverage'[last].confidence = overlap,
           \A q \in Questions : q # last => coverage'[q].confidence = coverage[q].confidence,
           Asked(coverage') = Asked(coverage) \cup OpenRound'
    PROVE  Told'
<1>1. last \in Questions /\ overlap \in 0..Full /\ history \in Seq(Turns)
  BY HeardElsewhere DEF PersonaAssumption, Told
<1>2. /\ history' \in Seq(Turns)
      /\ RefsIn(history') = RefsIn(history) \cup {last}
      /\ LastAt(history', last, Len(history) + 1) /\ history'[Len(history) + 1].reply = overlap
      /\ \A p, i : p # last /\ LastAt(history, p, i) => LastAt(history', p, i) /\ history'[i] = history[i]
  <2>1. PICK g, t : g = history' /\ t = [ref |-> last, reply |-> overlap]
    OBVIOUS
  <2>2. t \in Turns /\ t.ref = last /\ t.reply = overlap
    BY <1>1, <2>1 DEF Turns
  <2>3. g = Append(history, t)
    BY <2>1, Zenon
  <2>4. TurnAdded(history, last, t, g)
    BY <1>1, <2>2, <2>3, OneMoreTurn
  <2> QED
    BY <2>1, <2>2, <2>4 DEF TurnAdded
<1>3. Asked(coverage) = RefsIn(history) \cup {last}
  BY DEF Told, OpenRound
<1>4. Asked(coverage)' = RefsIn(history)' \cup OpenRound'
  BY <1>2, <1>3 DEF Asked, RefsIn
<1>5. ASSUME NEW q \in RefsIn(history')
      PROVE  \E i \in DOMAIN history' : LastAt(history', q, i) /\ history'[i].reply = coverage'[q].confidence
  <2>1. CASE q = last
    BY <1>2, <2>1 DEF LastAt
  <2>2. CASE q # last
    <3>1. q \in RefsIn(history) /\ q \in Questions
      BY <1>2, <1>3, <2>2 DEF Asked
    <3>2. PICK i \in DOMAIN history : LastAt(history, q, i) /\ history[i].reply = coverage[q].confidence
      BY <3>1 DEF Told
    <3> QED
      BY <1>2, <2>2, <3>1, <3>2 DEF LastAt
  <2> QED
    BY <2>1, <2>2
<1> QED
  BY <1>2, <1>4, <1>5 DEF Told, RefsIn, LastAt

LEMMA ToldStep ==
    ASSUME PersonaAssumption, TypeOK, Interview, Told, [Converse \/ Score]_evaluationVars
    PROVE  Told'
<1>1. CASE UNCHANGED <<phase, coverage, last, history>>
  BY <1>1 DEF Told, Asked, OpenRound, RefsIn, LastAt
<1>2. CASE AskNameAgain /\ UNCHANGED history
  BY <1>1, <1>2 DEF AskNameAgain
<1>3. CASE RegisterName /\ UNCHANGED history
  <2>1. PICK q \in PickNext(coverage) : Ask(coverage, q)
    BY <1>3 DEF RegisterName
  <2>2. /\ phase = "intake" /\ phase' = "questioning" /\ q \in Questions /\ coverage \in Coverages
        /\ last' = q
    BY <1>3, <2>1, PickIsAQuestion, Registering DEF TypeOK, RegisterName, Ask
  <2>3. Asked(coverage) = RefsIn(history)
    BY <2>2 DEF Told, OpenRound
  <2>4. Asked(coverage') = RefsIn(history) \cup {last'}
    BY <2>1, <2>2, <2>3, AskConfidence
  <2>5. \A p \in RefsIn(history) : coverage'[p].confidence = coverage[p].confidence
    BY <2>1, <2>2, <2>3, AskConfidence DEF Asked
  <2> QED
    BY <1>3, <2>2, <2>4, <2>5 DEF Told, Asked, OpenRound, RefsIn, LastAt
<1>4. ASSUME NEW overlap \in Replies, AskNext(overlap),
             history' = Append(history, [ref |-> last, reply |-> overlap])
      PROVE  Told'
  <2>1. PICK q \in PickNext(Heard(overlap)) : Ask(Heard(overlap), q)
    BY <1>4 DEF AskNext
  <2>2. /\ phase = "questioning" /\ phase' = "questioning"
        /\ q \in Questions /\ Heard(overlap) \in Coverages /\ last \in Questions
    BY <1>4, <2>1, PickIsAQuestion, HeardTypes, HeardElsewhere, Recording DEF TypeOK, AskNext
  <2>3. /\ Asked(coverage') = Asked(Heard(overlap)) \cup {q} /\ last' = q
        /\ \A p \in Questions : coverage'[p].confidence = Heard(overlap)[p].confidence
    BY <2>1, <2>2, AskConfidence DEF Ask
  <2>4. Asked(Heard(overlap)) = Asked(coverage)
    BY <2>2, HeardMatches DEF Interview
  <2>5. Asked(coverage') = Asked(coverage) \cup OpenRound'
    BY <2>2, <2>3, <2>4 DEF OpenRound
  <2>6. /\ coverage'[last].confidence = overlap
        /\ \A p \in Questions : p # last => coverage'[p].confidence = coverage[p].confidence
    BY <2>2, <2>3, HeardConfidence
  <2> QED
    BY <1>4, <2>2, <2>5, <2>6, ReplyKeepsTold
<1>5. ASSUME NEW overlap \in Replies, Close(overlap),
             history' = Append(history, [ref |-> last, reply |-> overlap])
      PROVE  Told'
  <2>1. phase = "questioning" /\ phase' = "closing" /\ coverage' = Heard(overlap)
    BY <1>5, Recording, Closing DEF Close
  <2>2. Asked(coverage') = Asked(coverage) \cup OpenRound'
    BY <2>1, HeardMatches DEF Interview, OpenRound
  <2> QED
    BY <1>5, <2>1, <2>2, HeardConfidence, ReplyKeepsTold
<1> QED
  BY <1>1, <1>2, <1>3, <1>4, <1>5 DEF Converse, Intake, Answer, Score, evaluationVars, vars

LEMMA ToldHolds == EvaluationSpec => []Told
<1>1. TypeOK /\ Interview /\ Told /\ [Converse \/ Score]_evaluationVars => Told'
  BY ToldStep, PersonaAssumption
<1> QED
  BY Conducted, InitTold, <1>1, PTL DEF EvaluationSpec

LEMMA ToldAnswers ==
    ASSUME Told, phase = "closing"
    PROVE  EvaluatesWhatWasCovered
<1>1. DOMAIN Answers = RefsIn(history) /\ RefsIn(history) = Asked(coverage)
  BY DEF Answers, AnswersByRef, Told, OpenRound
<1>2. Len(history) \in Nat /\ DOMAIN history = 1..Len(history)
  BY DEF Told
<1>3. \A q \in RefsIn(history) : Answers[q] = coverage[q].confidence
  BY <1>2, LastIsRead DEF Told, Answers
<1> QED
  BY <1>1, <1>3 DEF EvaluatesWhatWasCovered

\* Whatever the conversation, an interview that closed is evaluated on the replies its
\* coverage was marked with, one for every question asked (evaluation/inputs.py against
\* the turn pipeline's record stage).
THEOREM ScoresWhatWasHeard == EvaluationSpec => []EvaluatesWhatWasCovered
<1>1. Told => EvaluatesWhatWasCovered
  BY ToldAnswers DEF EvaluatesWhatWasCovered
<1> QED
  BY <1>1, ToldHolds, PTL

-------------------------------------------------------------------------------
(***************************************************************************)
(* A conversation that covered every question has a reply to each.         *)
(***************************************************************************)

CoveredAtTheEnd == reason = "min_coverage" => phase = "closing" /\ Covered(coverage)

LEMMA CoveredStep ==
    ASSUME TypeOK, CoveredAtTheEnd, [Next]_vars
    PROVE  CoveredAtTheEnd'
<1>1. CASE UNCHANGED <<persona, phase, coverage, reason>>
  BY <1>1 DEF CoveredAtTheEnd, Covered
<1>2. CASE RegisterName \/ \E overlap \in Replies : AskNext(overlap)
  BY <1>2 DEF RegisterName, AskNext, CoveredAtTheEnd
<1>3. ASSUME NEW overlap \in Replies, Close(overlap) PROVE CoveredAtTheEnd'
  <2>1. /\ phase' = "closing" /\ coverage' = Heard(overlap) /\ persona' = persona
        /\ reason' = CompletionReason(Heard(overlap))
    BY <1>3, Recording, Closing DEF Close
  <2>2. reason' = "min_coverage" => Covered(Heard(overlap))
    BY <2>1 DEF CompletionReason
  <2> QED
    BY <2>1, <2>2 DEF CoveredAtTheEnd, Covered
<1> QED
  BY <1>1, <1>2, <1>3 DEF Next, AskNameAgain, vars

\* An interview that closed on coverage left no question that counts for the
\* evaluation to call not reached, whatever the persona (the completion rule of
\* pipeline.py against evaluation/inputs.py).
THEOREM CoveredIsScored == EvaluationSpec => []CoveredIsScoredWhole
<1>1. EvaluationInit => CoveredAtTheEnd
  BY DEF EvaluationInit, Init, CoveredAtTheEnd
<1>2. TypeOK /\ CoveredAtTheEnd /\ [Converse \/ Score]_evaluationVars => CoveredAtTheEnd'
  <2>1. [Converse \/ Score]_evaluationVars => [Next]_vars
    BY DEF Converse, Intake, Answer, Score, Next, evaluationVars
  <2> QED
    BY <2>1, CoveredStep
<1>3. ASSUME TypeOK, Interview, Told, CoveredAtTheEnd,
             reason = "min_coverage", persona.floor > 0
      PROVE  DOMAIN Answers = Questions
  <2>1. phase = "closing" /\ \A q \in Questions : coverage[q].confidence >= persona.floor
    BY <1>3 DEF CoveredAtTheEnd, Covered
  <2>2. persona.floor \in Nat /\ Untouched.confidence = 0
    BY <1>3, PersonaAssumption, PersonaFields DEF TypeOK, Untouched
  <2>3. \A q \in Questions : coverage[q].asked
    BY <1>3, <2>1, <2>2 DEF Interview, CoverageMatchesHistory
  <2>4. Asked(coverage) = Questions
    BY <2>3 DEF Asked
  <2> QED
    BY <1>3, <2>1, <2>4, ToldAnswers DEF EvaluatesWhatWasCovered
<1>4. TypeOK /\ Interview /\ Told /\ CoveredAtTheEnd => CoveredIsScoredWhole
  BY <1>3 DEF CoveredIsScoredWhole
<1> QED
  BY <1>1, <1>2, <1>4, Conducted, ToldHolds, PTL DEF EvaluationSpec

-------------------------------------------------------------------------------
(***************************************************************************)
(* The scores.                                                             *)
(***************************************************************************)

LEMMA SomeGreatest ==
    ASSUME NEW n \in Nat, NEW S \in SUBSET (1..n), S # {}
    PROVE  \E i \in S : \A j \in S : j <= i
<1>1. PICK R : IsWellFoundedOn(R, Nat) /\ \A x, y \in Nat : <<x, y>> \in R <=> x < y
  BY NatLessThanWellFounded DEF OpToRel
<1>2. PICK T : \A m : m \in T <=> m \in 0..n /\ n - m \in S
  <2>1. \A m : m \in {k \in 0..n : n - k \in S} <=> m \in 0..n /\ n - m \in S
    OBVIOUS
  <2> QED
    BY <2>1
<1>3. \A i \in S : n - i \in T /\ n - (n - i) = i
  BY <1>2
<1>4. T \subseteq Nat /\ T # {}
  <2>1. \A m \in T : m \in Nat
    BY <1>2
  <2>2. PICK i : i \in S
    OBVIOUS
  <2>3. n - i \in T
    BY <1>3, <2>2
  <2> QED
    BY <2>1, <2>3
<1>5. PICK m \in T : \A k \in T : ~(<<k, m>> \in R)
  <2>1. IsWellFoundedOn(R, Nat)
    BY <1>1
  <2> QED
    BY <1>4, <2>1, WFMin, Zenon
<1>6. ASSUME NEW k \in T PROVE m <= k
  <2>1. k \in Nat /\ m \in Nat /\ ~(<<k, m>> \in R)
    BY <1>4, <1>5
  <2>2. ~(k < m)
    BY <1>1, <2>1
  <2> QED
    BY <2>1, <2>2
<1>7. m \in 0..n /\ n - m \in S
  BY <1>2
<1>8. \A j \in S : j <= n - m
  BY <1>3, <1>6, <1>7
<1> QED
  BY <1>7, <1>8

\* A question the list names has a last entry.
LEMMA SomeLast ==
    ASSUME NEW n \in Nat, NEW h, DOMAIN h = 1..n, NEW q, q \in ScoredRefs(h)
    PROVE  \E i : LastAt(h, q, i)
<1>1. PICK S \in SUBSET (1..n) : S # {} /\ \A i : i \in S <=> i \in 1..n /\ h[i].ref = q
  <2>1. \A i : i \in {k \in 1..n : h[k].ref = q} <=> i \in 1..n /\ h[i].ref = q
    OBVIOUS
  <2>2. \E i \in 1..n : h[i].ref = q
    BY DEF ScoredRefs
  <2> QED
    BY <2>1, <2>2
<1>2. PICK i \in S : \A j \in S : j <= i
  BY <1>1, SomeGreatest
<1> QED
  BY <1>1, <1>2 DEF LastAt

LEMMA ClampBounds ==
    ASSUME NEW s \in Int
    PROVE  Clamp(s) \in 0..Full
BY PersonaAssumption DEF Clamp

LEMMA ParsedScores ==
    ASSUME NEW n \in Nat, NEW list \in [1..n -> Entries], NEW answered,
           NEW r, r = ParseScores(list, answered), r.status = "scored"
    PROVE  \A q \in Questions : /\ q \notin answered => r.scores[q] = NotReached
                                /\ r.scores[q].score \in 0..Full
<1>1. answered \subseteq ScoredRefs(list) /\ r # Failed
  BY DEF ParseScores, Failed
<1>2. \A q \in Questions :
         r.scores[q] = IF q \in answered
                       THEN [score |-> Clamp(LastEntry(list, q).score),
                             verdict |-> LastEntry(list, q).verdict]
                       ELSE NotReached
  BY <1>1 DEF ParseScores
<1>3. ASSUME NEW q \in answered PROVE Clamp(LastEntry(list, q).score) \in 0..Full
  <2>1. PICK i : LastAt(list, q, i)
    BY <1>1, <1>3, SomeLast
  <2>2. LastEntry(list, q) = list[i] /\ list[i] \in Entries
    <3>1. DOMAIN list = 1..n
      OBVIOUS
    <3>2. LastEntry(list, q) = list[i]
      BY <2>1, <3>1, LastIsRead, Zenon
    <3> QED
      BY <2>1, <3>2 DEF LastAt
  <2>3. LastEntry(list, q).score \in Int
    BY <2>2, EvaluationAssumption
  <2> QED
    BY <2>3, ClampBounds
<1>4. NotReached.score \in 0..Full
  BY PersonaAssumption DEF NotReached
<1> TAKE q \in Questions
<1>5. q \notin answered => r.scores[q] = NotReached
  BY <1>2
<1>6. r.scores[q].score \in 0..Full
  <2>1. CASE q \in answered
    <3>1. PICK s, v : s = Clamp(LastEntry(list, q).score) /\ v = LastEntry(list, q).verdict
      OBVIOUS
    <3>2. r.scores[q] = [score |-> s, verdict |-> v]
      BY <1>2, <2>1, <3>1
    <3> QED
      BY <1>3, <2>1, <3>1, <3>2
  <2>2. CASE q \notin answered
    BY <1>4, <1>5, <2>2
  <2> QED
    BY <2>1, <2>2
<1> QED
  BY <1>5, <1>6

-------------------------------------------------------------------------------
(***************************************************************************)
(* Sums over a set, by induction on its subsets: a fold is a recursive     *)
(* function, and it is bounded as its terms are.                           *)
(***************************************************************************)

\* A family of subsets of a finite set has a smallest member.
LEMMA SmallestSubset ==
    ASSUME NEW S, IsFiniteSet(S), NEW C \in SUBSET (SUBSET S), C # {}
    PROVE  \E T \in C : \A U \in C : U \subseteq T => U = T
<1>1. FiniteSubsetsOf(S) = SUBSET S
  BY FS_FiniteSubsetsOfFinite
<1>2. PICK R : /\ IsWellFoundedOn(R, SUBSET S)
               /\ \A U, T \in SUBSET S : U \subseteq T /\ U # T => <<U, T>> \in R
  <2>1. IsWellFoundedOn(StrictSubsetOrdering(S), SUBSET S)
    BY <1>1, FS_StrictSubsetOrderingWellFounded
  <2>2. \A U, T \in SUBSET S : U \subseteq T /\ U # T => <<U, T>> \in StrictSubsetOrdering(S)
    BY DEF StrictSubsetOrdering
  <2> QED
    BY <2>1, <2>2
<1>3. PICK T \in C : \A U \in C : ~(<<U, T>> \in R)
  <2>1. IsWellFoundedOn(R, SUBSET S) /\ C \subseteq SUBSET S
    BY <1>2
  <2> QED
    BY <2>1, WFMin, Zenon
<1> QED
  BY <1>2, <1>3

\* The element a fold takes first and those it leaves; the value a function g has at s
\* when it sums f; a function that sums f over every subset of S, and over those of T.
Any(s) == CHOOSE x \in s : TRUE
Less(s) == s \ {Any(s)}
Adds(f, g, s) == IF s = {} THEN 0 ELSE f[Any(s)] + g[Less(s)]
IsSum(f, g, S) == g = [s \in SUBSET S |-> Adds(f, g, s)]
Sums(f, g, T) == \A s \in SUBSET T : g[s] = Adds(f, g, s)

LEMMA LessIsLess ==
    ASSUME NEW T, NEW s \in SUBSET T, s # {}
    PROVE  Any(s) \in s /\ Less(s) \in SUBSET T /\ Less(s) \subseteq s /\ Less(s) # s
           /\ ~(T \subseteq Less(s))
BY DEF Any, Less

LEMMA OneSum ==
    ASSUME NEW T, IsFiniteSet(T), NEW f, NEW g, NEW h, Sums(f, g, T), Sums(f, h, T)
    PROVE  \A s \in SUBSET T : g[s] = h[s]
<1> SUFFICES ASSUME NEW C, C = {s \in SUBSET T : g[s] # h[s]}, C # {} PROVE FALSE
  OBVIOUS
<1>1. PICK s \in C : \A U \in C : U \subseteq s => U = s
  BY SmallestSubset
<1>2. s \in SUBSET T /\ g[s] # h[s]
  OBVIOUS
<1>3. s # {}
  BY <1>2 DEF Sums, Adds
<1>4. Less(s) \in SUBSET T /\ g[Less(s)] = h[Less(s)]
  BY <1>1, <1>2, <1>3, LessIsLess
<1>5. g[s] = f[Any(s)] + g[Less(s)] /\ h[s] = f[Any(s)] + h[Less(s)]
  BY <1>2, <1>3 DEF Sums, Adds
<1> QED
  BY <1>2, <1>4, <1>5, Zenon

LEMMA SomeSum ==
    ASSUME NEW S, IsFiniteSet(S), NEW f
    PROVE  \A T \in SUBSET S : \E g : Sums(f, g, T)
<1> SUFFICES ASSUME NEW C \in SUBSET (SUBSET S), C # {},
                    \A T \in SUBSET S : T \in C <=> ~ \E g : Sums(f, g, T)
             PROVE  FALSE
  <2> DEFINE D == {T \in SUBSET S : ~ \E g : Sums(f, g, T)}
  <2>1. D \in SUBSET (SUBSET S) /\ \A T \in SUBSET S : T \in D <=> ~ \E g : Sums(f, g, T)
    OBVIOUS
  <2> HIDE DEF D
  <2> QED
    BY <2>1
<1>1. PICK T \in C : \A U \in C : U \subseteq T => U = T
  BY SmallestSubset
<1>2. T \in SUBSET S /\ ~ \E g : Sums(f, g, T)
  OBVIOUS
<1> DEFINE own(U) == CHOOSE g : Sums(f, g, U)
           G == [s \in SUBSET T |-> IF s = {} THEN 0 ELSE f[Any(s)] + own(Less(s))[Less(s)]]
<1>3. \A U \in SUBSET T : U # T => Sums(f, own(U), U)
  BY <1>1, <1>2
<1> HIDE DEF own
<1>4. ASSUME NEW s \in SUBSET T, s # T PROVE G[s] = own(s)[s]
  <2>1. own(s)[s] = Adds(f, own(s), s)
    BY <1>3, <1>4 DEF Sums
  <2>2. CASE s = {}
    BY <2>1, <2>2 DEF Adds
  <2>3. CASE s # {}
    <3>1. Less(s) \in SUBSET T /\ Less(s) # T /\ Less(s) \in SUBSET s
      BY <2>3, LessIsLess
    <3>2. Sums(f, own(s), Less(s)) /\ Sums(f, own(Less(s)), Less(s))
      BY <1>3, <1>4, <3>1 DEF Sums
    <3>3. IsFiniteSet(Less(s)) /\ Less(s) \in SUBSET Less(s)
      BY <1>2, <3>1, FS_Subset
    <3>4. own(Less(s))[Less(s)] = own(s)[Less(s)]
      BY <3>2, <3>3, OneSum
    <3> QED
      BY <2>1, <2>3, <3>4 DEF Adds
  <2> QED
    BY <2>2, <2>3
<1>5. ASSUME NEW s \in SUBSET T PROVE G[s] = Adds(f, G, s)
  <2>1. CASE s = {}
    BY <2>1 DEF Adds
  <2>2. CASE s # {}
    <3>1. Less(s) \in SUBSET T /\ Less(s) # T
      BY <2>2, LessIsLess
    <3>2. G[Less(s)] = own(Less(s))[Less(s)]
      BY <1>4, <3>1
    <3>3. G[s] = f[Any(s)] + own(Less(s))[Less(s)]
      BY <2>2
    <3> QED
      BY <2>2, <3>2, <3>3, Zenon DEF Adds
  <2> QED
    BY <2>1, <2>2
<1>6. Sums(f, G, T)
  BY <1>5 DEF Sums
<1> QED
  BY <1>2, <1>6

LEMMA SumIsRecursive ==
    ASSUME NEW S, IsFiniteSet(S), NEW f
    PROVE  \E g : IsSum(f, g, S)
<1>1. PICK h : Sums(f, h, S)
  BY SomeSum
<1>2. PICK g : g = [s \in SUBSET S |-> h[s]]
  OBVIOUS
<1>3. \A s \in SUBSET S : g[s] = Adds(f, g, s)
  <2> TAKE s \in SUBSET S
  <2>1. s # {} => g[Less(s)] = h[Less(s)]
    BY <1>2, LessIsLess
  <2>2. g[s] = h[s] /\ h[s] = Adds(f, h, s)
    BY <1>1, <1>2 DEF Sums
  <2> QED
    BY <2>1, <2>2 DEF Adds
<1>4. g = [s \in SUBSET S |-> Adds(f, g, s)]
  <2>1. g = [s \in SUBSET S |-> g[s]]
    BY <1>2
  <2> QED
    BY <1>3, <2>1
<1> QED
  BY <1>4 DEF IsSum

LEMMA SumBounds ==
    ASSUME NEW S, IsFiniteSet(S), NEW n \in Nat, NEW f \in [S -> Nat], NEW k \in [S -> Nat],
           \A q \in S : k[q] <= n * f[q], NEW g, NEW h, Sums(f, g, S), Sums(k, h, S)
    PROVE  g[S] \in Nat /\ h[S] \in 0..(n * g[S])
<1> SUFFICES ASSUME NEW C \in SUBSET (SUBSET S), C # {},
                    \A s \in SUBSET S : s \in C <=> ~(g[s] \in Nat /\ h[s] \in 0..(n * g[s]))
             PROVE  FALSE
  <2> DEFINE D == {s \in SUBSET S : ~(g[s] \in Nat /\ h[s] \in 0..(n * g[s]))}
  <2>1. /\ D \in SUBSET (SUBSET S) /\ S \in SUBSET S
        /\ \A s \in SUBSET S : s \in D <=> ~(g[s] \in Nat /\ h[s] \in 0..(n * g[s]))
    OBVIOUS
  <2> HIDE DEF D
  <2> QED
    BY <2>1, Zenon
<1>1. PICK s \in C : \A U \in C : U \subseteq s => U = s
  BY SmallestSubset
<1>2. s \in SUBSET S /\ ~(g[s] \in Nat /\ h[s] \in 0..(n * g[s]))
  OBVIOUS
<1>3. s # {}
  <2>1. {} \in SUBSET S => g[{}] = 0 /\ h[{}] = 0
    BY DEF Sums, Adds
  <2>2. 0 \in Nat /\ 0 \in 0..(n * 0)
    BY SMT
  <2> QED
    BY <1>2, <2>1, <2>2, Zenon
<1>4. Less(s) \in SUBSET S /\ g[Less(s)] \in Nat /\ h[Less(s)] \in 0..(n * g[Less(s)])
  BY <1>1, <1>2, <1>3, LessIsLess
<1>5. Any(s) \in S
  BY <1>3, LessIsLess
<1>6. g[s] = f[Any(s)] + g[Less(s)] /\ h[s] = k[Any(s)] + h[Less(s)]
  BY <1>3 DEF Sums, Adds
<1>7. PICK a \in Nat, b \in Nat, c \in Nat, d \in Nat :
         /\ a = f[Any(s)] /\ b = g[Less(s)] /\ c = k[Any(s)] /\ d = h[Less(s)]
         /\ c <= n * a /\ d <= n * b
  BY <1>4, <1>5
<1>8. n * (a + b) = n * a + n * b
  BY SMT
<1>9. c + d <= n * a + n * b /\ a + b \in Nat /\ c + d \in Nat
  <2>1. n * a \in Nat /\ n * b \in Nat
    BY SMT
  <2> QED
    BY <1>7, <2>1
<1> QED
  BY <1>2, <1>6, <1>7, <1>8, <1>9

LEMMA FiniteQuestions == IsFiniteSet(Questions)
BY PersonaAssumption, FS_Interval DEF PersonaAssumption, Questions

LEMMA TotalIsSum == \E g : Sums(weight, g, Questions) /\ TotalWeight = g[Questions]
<1>1. PICK h : IsSum(weight, h, Questions)
  BY FiniteQuestions, SumIsRecursive
<1> DEFINE g == CHOOSE k : k = [s \in SUBSET Questions |-> Adds(weight, k, s)]
<1>2. g = [s \in SUBSET Questions |-> Adds(weight, g, s)]
  BY <1>1, Zenon DEF IsSum
<1>3. TotalWeight = g[Questions]
  BY Zenon DEF TotalWeight, MapThenSumSet, MapThenFoldSet, Adds, Any, Less
<1> HIDE DEF g
<1>4. Sums(weight, g, Questions)
  BY <1>2, Zenon DEF Sums
<1> QED
  BY <1>3, <1>4

LEMMA WeightedIsSum ==
    ASSUME NEW f, f = [q \in Questions |-> report.scores[q].score * weight[q]]
    PROVE  \E g : Sums(f, g, Questions) /\ WeightedSum = g[Questions]
<1> DEFINE Term(s) == report.scores[Any(s)].score * weight[Any(s)]
           Step(k) == [s \in SUBSET Questions |-> IF s = {} THEN 0 ELSE Term(s) + k[Less(s)]]
           g == CHOOSE k : k = Step(k)
<1>1. \A k : \A s \in SUBSET Questions :
         (IF s = {} THEN 0 ELSE Term(s) + k[Less(s)]) = Adds(f, k, s)
  <2>1. \A s \in SUBSET Questions : s # {} => f[Any(s)] = Term(s)
    BY LessIsLess
  <2> QED
    BY <2>1, Zenon DEF Adds
<1>2. \A k : Step(k) = [s \in SUBSET Questions |-> Adds(f, k, s)]
  BY <1>1, Zenon
<1>3. PICK h : IsSum(f, h, Questions)
  BY FiniteQuestions, SumIsRecursive
<1>4. WeightedSum = g[Questions]
  BY Zenon DEF WeightedSum, MapThenSumSet, MapThenFoldSet, Any, Less
<1>5. h = Step(h)
  BY <1>2, <1>3, Zenon DEF IsSum
<1> HIDE DEF Step
<1>6. g = Step(g)
  BY <1>5, Zenon
<1>7. g = [s \in SUBSET Questions |-> Adds(f, g, s)]
  BY <1>2, <1>6, Zenon
<1> HIDE DEF g
<1>8. Sums(f, g, Questions)
  BY <1>7, Zenon DEF Sums
<1> QED
  BY <1>4, <1>8

-------------------------------------------------------------------------------
(***************************************************************************)
(* The report.                                                             *)
(***************************************************************************)

Reported ==
    /\ weight \in [Questions -> Int]
    /\ report.status = "scored" =>
          /\ phase = "closing"
          /\ \A q \in Questions : /\ ~coverage[q].asked => report.scores[q] = NotReached
                                  /\ report.scores[q].score \in 0..Full

LEMMA ReportedStep ==
    ASSUME TypeOK, Told, Reported, [Converse \/ Score]_evaluationVars
    PROVE  Reported'
<1>1. CASE UNCHANGED <<phase, coverage, weight, report>>
  BY <1>1 DEF Reported
<1>2. CASE Converse
  <2>1. /\ phase # "closing" \/ UNCHANGED <<phase, coverage>>
        /\ UNCHANGED <<weight, report>>
    BY <1>2 DEF Converse, Intake, Answer, AskNameAgain, RegisterName, AskNext, Close
  <2> QED
    BY <2>1 DEF Reported
<1>3. CASE Score
  <2>1. UNCHANGED <<phase, coverage, weight>> /\ phase = "closing"
    BY <1>3 DEF Score, vars
  <2>2. CASE report' = Failed
    BY <2>1, <2>2 DEF Reported, Failed
  <2>3. ASSUME NEW n \in 0..MostEntries, NEW list \in [1..n -> Entries],
               report' = ParseScores(list, DOMAIN Answers)
        PROVE  Reported'
    <3>1. n \in Nat
      OBVIOUS
    <3>2. DOMAIN Answers = Asked(coverage)
      BY <2>1, ToldAnswers DEF EvaluatesWhatWasCovered
    <3>3. report'.status = "scored" =>
             \A q \in Questions : /\ q \notin DOMAIN Answers => report'.scores[q] = NotReached
                                  /\ report'.scores[q].score \in 0..Full
      <4>1. PICK r, answered : r = report' /\ answered = DOMAIN Answers
        OBVIOUS
      <4>2. r = ParseScores(list, answered)
        BY <2>3, <4>1, Zenon
      <4> QED
        BY <3>1, <4>1, <4>2, ParsedScores
    <3> QED
      BY <2>1, <3>2, <3>3 DEF Reported, Asked
  <2> QED
    BY <1>3, <2>2, <2>3 DEF Score
<1> QED
  BY <1>1, <1>2, <1>3 DEF evaluationVars, vars

LEMMA ReportedIsSound ==
    ASSUME Reported
    PROVE  ReportIsSound
<1> SUFFICES ASSUME report.status = "scored", NoNegativeCounts
             PROVE  Overall.sum \in 0..(Full * Overall.of)
  BY DEF Reported, ReportIsSound
<1>f. Full \in Nat
  BY PersonaAssumption DEF PersonaAssumption
<1>1. CASE TotalWeight <= 0
  BY <1>f, <1>1 DEF Overall
<1>2. CASE ~(TotalWeight <= 0)
  <2>1. PICK f : f = [q \in Questions |-> report.scores[q].score * weight[q]]
    OBVIOUS
  <2>2. weight \in [Questions -> Nat]
    BY <1>2 DEF Reported, NoNegativeCounts
  <2>3. ASSUME NEW q \in Questions PROVE f[q] \in Nat /\ f[q] <= Full * weight[q]
    <3>1. PICK s \in 0..Full, w \in Nat : s = report.scores[q].score /\ w = weight[q]
      BY <2>2 DEF Reported
    <3>2. s * w \in Nat /\ s * w <= Full * w
      BY <1>f, SMT
    <3> QED
      BY <2>1, <3>1, <3>2
  <2>4. f \in [Questions -> Nat]
    BY <2>1, <2>3
  <2>5. PICK g : Sums(weight, g, Questions) /\ TotalWeight = g[Questions]
    BY TotalIsSum
  <2>6. PICK h : Sums(f, h, Questions) /\ WeightedSum = h[Questions]
    BY <2>1, WeightedIsSum
  <2>7. h[Questions] \in 0..(Full * g[Questions])
    BY <1>f, <2>2, <2>3, <2>4, <2>5, <2>6, FiniteQuestions, SumBounds
  <2>8. Overall.sum = WeightedSum /\ Overall.of = TotalWeight
    BY <1>2 DEF Overall
  <2> QED
    BY <2>5, <2>6, <2>7, <2>8
<1> QED
  BY <1>1, <1>2

\* No number of a report is made up, for every list of scores the model may return: a
\* question never asked scores nothing, no score leaves its bounds whatever the weights,
\* and the overall one keeps to them unless a negative weight is outweighed by the
\* others (_parse_scores and _weighted_mean in evaluator.py).
THEOREM ReportsAreSound == EvaluationSpec => []ReportIsSound
<1>1. EvaluationInit => Reported
  BY EvaluationAssumption DEF EvaluationInit, Reported, NoReport
<1>2. TypeOK /\ Told /\ Reported /\ [Converse \/ Score]_evaluationVars => Reported'
  BY ReportedStep
<1> QED
  BY <1>1, <1>2, Conducted, ToldHolds, ReportedIsSound, PTL DEF EvaluationSpec

===============================================================================
