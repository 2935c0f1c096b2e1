-------------------------- MODULE MCInterviewSession --------------------------
(***************************************************************************)
(* Instances of InterviewSession for TLC.                                  *)
(***************************************************************************)
EXTENDS InterviewSession, TLC

\* Requests, and workers, are interchangeable.
Symmetric == Permutations(Requests) \cup Permutations(Drivers)
===============================================================================
