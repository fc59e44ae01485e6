--------------------------- MODULE AuthSessionsMC ---------------------------
(* Instances of AuthSessions for TLC.                                      *)
EXTENDS AuthSessionsChecks, TLC

CONSTANTS b1, b2, t1, t2

Alike == Permutations(Thread) \cup Permutations(Browser)
=============================================================================
