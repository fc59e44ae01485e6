---------------------------- MODULE SyncFeedMC ----------------------------
(* Instances of SyncFeed for TLC.                                          *)
EXTENDS SyncFeedChecks, TLC

CONSTANTS phone, laptop, server, a, b, p1, p2

Entities == Permutations(Key)
=============================================================================
