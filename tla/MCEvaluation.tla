----------------------------- MODULE MCEvaluation -----------------------------
(***************************************************************************)
(* Instances of Evaluation for TLC: every persona of three questions with  *)
(* depths 0 and 1, confidences none, half and whole, and lists of up to    *)
(* three scores.                                                           *)
(***************************************************************************)
EXTENDS Evaluation

EveryPolicy == {"guided", "adaptive", "stress"}
EveryOverlap == 0..Full
EveryFloor == 0..(Full + 1)
EveryBudget == 0..NumQuestions

\* A question that weighs nothing among others that do; one that weighs less than
\* nothing, outweighed by the others, and one that makes them all weigh nothing.
SomeWeights == {<<2, 0, 1>>, <<3, -1, 1>>, <<1, -2, 1>>}

Entry(q, s, v) == [ref |-> q, score |-> s, verdict |-> v, wellFormed |-> TRUE]

\* A score within bounds and NaN for the first question, one below them for the
\* second, one above for the third; an entry for no question and a malformed one.
SomeEntries ==
    {Entry(1, 1, "adequate"), Entry(1, NotANumber, "strong"), Entry(2, -1, "weak"),
     Entry(3, Full + 1, "strong"), Entry(Unknown, 1, "weak"),
     [Entry(2, 1, "weak") EXCEPT !.wellFormed = FALSE]}
NaN == -99
===============================================================================
