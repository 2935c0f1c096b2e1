---------------------------- MODULE MCRedisStreams ----------------------------
(***************************************************************************)
(* Instances of RedisStreams for TLC.                                      *)
(***************************************************************************)
EXTENDS RedisStreams, TLC

\* Two attempts a step: the least that has a retry and a ceiling.
TwoAttempts == [s \in 1..NumSteps |-> 2]
OneAttempt == [s \in 1..NumSteps |-> 1]

\* Runs, and workers, are interchangeable.
Symmetric == Permutations(Runs) \cup Permutations(Workers)
===============================================================================
