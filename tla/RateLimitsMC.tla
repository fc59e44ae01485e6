---------------------------- MODULE RateLimitsMC ----------------------------
(* Instances of RateLimits for TLC.                                        *)
EXTENDS RateLimitsChecks, TLC

CONSTANTS ip1, ip2, ip3, ann, ben, t1, t2

Alike == Permutations(Thread) \cup Permutations(Ip)

Limits == [r \in Rule |-> CASE r = "login_identity" -> 4 [] r = "write_user_day" -> 3 [] OTHER -> 1]
Windows == [r \in Rule |-> IF r = "write_user_day" THEN 4 ELSE 2]

Scene(kinds, ips, max, from, until) ==
    [kinds |-> kinds, ips |-> ips, max |-> max, from |-> from, until |-> until]

AllScenes ==
    { Scene({"login"}, {ip1, ip2, ip3}, 5, 1, 2),
      Scene({"reset", "resend"}, {ip1, ip2}, 3, 0, 3),
      Scene({"admin", "lookup"}, {ip1}, 3, 0, 3),
      Scene({"token"}, {ip1}, 3, 0, 4),
      Scene({"write", "nested"}, {ip1}, 4, 2, 4),
      Scene({"group", "heavy"}, {ip1}, 3, 0, 3),
      Scene({"write", "message"}, {ip1}, 3, 3, 4) }
=============================================================================
