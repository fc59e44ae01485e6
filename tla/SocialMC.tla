------------------------------ MODULE SocialMC ------------------------------
(* Instances of Social for TLC.                                            *)
EXTENDS SocialChecks, TLC

CONSTANTS ann, ben, cat, g1, g2, p1, p2, c1, c2, m1, t1, t2

Scene(n, kinds) == [kinds |-> kinds, max |-> n]

AllScenes ==
    {Scene(4, {"request", "acceptFriend", "dropRequest", "unfriend", "deleteMe", "deactivate"}),
     Scene(4, {"presence", "request", "acceptFriend", "unfriend"}),
     Scene(4, {"invite", "accept", "decline", "cancel", "leave", "deleteMe"}),
     Scene(5, {"link", "revoke", "join", "leave", "deleteGroup"}),
     Scene(5, {"patchMember", "remove", "leave", "deleteMe", "deactivate"}),
     Scene(4, {"createGroup", "deleteGroup", "deleteMe", "link", "join"}),
     Scene(5, {"deleteGroup", "deleteMe", "project", "dropProject", "task", "track", "leave"}),
     Scene(5, {"post", "edit", "dropMessage", "deleteGroup", "deleteMe"})}

AllOrNone == {{}, Perm}

OnceOrMore == {1, None}

Alike == Permutations(Thread)
=============================================================================
