---------------------------- MODULE TaskGraphMC ----------------------------
(* Instances of TaskGraph for TLC.                                         *)
EXTENDS TaskGraphChecks, TLC

CONSTANTS ann, ben, p1, p2, c1, c2, s1, t1, t2, n1, n2

Alike == Permutations(Thread) \cup Permutations(Name)

Races(n, kinds) == [kinds |-> kinds, max |-> n, races |-> TRUE]
InTurn(n, kinds) == [Races(n, kinds) EXCEPT !.races = FALSE]

AllScenes ==
    {Races(3, {"createProject", "patchProject", "deleteProject", "createTask", "patchTask", "deleteTask",
               "link", "unlink", "restore", "import"}),
     Races(3, {"createSub", "patchSub", "deleteSub", "deleteTask", "restore", "import"}),
     InTurn(4, {"link", "unlink", "import"})}
=============================================================================
