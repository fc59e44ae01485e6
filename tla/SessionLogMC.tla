---------------------------- MODULE SessionLogMC ----------------------------
(* Instances of SessionLog for TLC.                                        *)
EXTENDS SessionLogChecks, TLC

CONSTANTS s1, s2, s3, a, b, x, t1, t2

OneSubtask == [c \in {x} |-> a]

Alike == Permutations(Session) \cup Permutations(Thread)
=============================================================================
