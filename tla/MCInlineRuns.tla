----------------------------- MODULE MCInlineRuns -----------------------------
(***************************************************************************)
(* Instances of InlineRuns for TLC.                                        *)
(***************************************************************************)
EXTENDS InlineRuns

\* One step that is retried, one that is not.
TwoThenOne == [s \in 1..NumSteps |-> IF s = 1 THEN 2 ELSE 1]
BothStores == {"sql", "memory"}
===============================================================================
