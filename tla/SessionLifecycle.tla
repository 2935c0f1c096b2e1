--------------------------- MODULE SessionLifecycle ---------------------------
(***************************************************************************)
(* The phase machine of an interview session (domain/phase.py): the legal  *)
(* transitions, and the lifecycle they allow.  Nothing here says who moves *)
(* the session or when; InterviewSession implements it.                    *)
(***************************************************************************)

VARIABLE phase       \* Session.phase as the database holds it

Phases == {"intake", "questioning", "closing", "evaluating",
           "completed", "failed", "abandoned"}

Events == {"register_name", "record_answer", "reach_closing",
           "start_evaluation", "complete", "fail", "abandon"}

Transitions ==
    [intake      |-> [register_name    |-> "questioning",
                      abandon          |-> "abandoned"],
     questioning |-> [record_answer    |-> "questioning",
                      reach_closing    |-> "closing",
                      abandon          |-> "abandoned"],
     closing     |-> [start_evaluation |-> "evaluating"],
     evaluating  |-> [complete         |-> "completed",
                      fail             |-> "failed"]]

\* advance raises a DomainError for an event its phase does not list.
Allows(p, event) == p \in DOMAIN Transitions /\ event \in DOMAIN Transitions[p]
After(p, event) == Transitions[p][event]

Init == phase = "intake"

Advance(event) ==
    /\ Allows(phase, event)
    /\ phase' = After(phase, event)

Next == \E event \in Events : Advance(event)

Spec == Init /\ [][Next]_phase

===============================================================================
