---------------------------- MODULE MCTurnPipeline ----------------------------
(***************************************************************************)
(* Instances of TurnPipeline for TLC.                                      *)
(***************************************************************************)
EXTENDS TurnPipeline

\* max_questions left out: as many as there are questions.
NoBudgetGiven == {NumQuestions}
===============================================================================
