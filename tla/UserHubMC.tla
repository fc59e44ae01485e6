----------------------------- MODULE UserHubMC -----------------------------
(* Instances of UserHub for TLC. *)
EXTENDS UserHubChecks, TLC

CONSTANTS a, b, r1, r2

Off == [enabled |-> FALSE, focus |-> 2, brk |-> 1, auto |-> FALSE]
On == [Off EXCEPT !.enabled = TRUE]
Auto == [On EXCEPT !.auto = TRUE]
Long == [On EXCEPT !.focus = 3]

JustOff == {Off}
JustOn == {On}
JustAuto == {Auto}
Cycling == {On, Auto}
OnOff == {On, Off}
AllModes == {On, Off, Auto}
Durations == {On, Long}

Interchangeable == Permutations(Req) \cup Permutations(Task)
=============================================================================
