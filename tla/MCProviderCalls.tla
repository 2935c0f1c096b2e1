---------------------------- MODULE MCProviderCalls ----------------------------
(***************************************************************************)
(* Instances of ProviderCalls for TLC.                                     *)
(***************************************************************************)
EXTENDS ProviderCalls

CONSTANTS talking, finished   \* a session of two rounds, one that is scored

TwoAndNone == [c \in Callers |-> IF c = talking THEN 2 ELSE 0]

AuthoredText == [q \in Questions |-> "authored"]

Fine == [wording |-> "fresh", blank |-> FALSE, asks |-> TRUE,
         accented |-> FALSE, long |-> FALSE, leaks |-> FALSE]

\* A wording that ships, the authored one repeated by the model, and one draft for
\* every rule.
OneOfEach == {Fine, [Fine EXCEPT !.wording = "authored"],
              [Fine EXCEPT !.asks = FALSE], [Fine EXCEPT !.accented = TRUE],
              [Fine EXCEPT !.long = TRUE], [Fine EXCEPT !.leaks = TRUE]}

Ok(body) == [http |-> 200, body |-> body]
Status(n) == [http |-> n, body |-> "nothing"]
AnyResponse == {Ok(body) : body \in {"answer", "blank", "error", "nothing", "garbled", "unshaped"}}
                   \cup {Status(n) : n \in {0, 400, 429, 503}}

OneOrTwo == [s \in StepNames |-> IF s = "synthesize" THEN 1 ELSE 2]
===============================================================================
