--------------------------- MODULE MCBridgeAccess ---------------------------
(* Instances of BridgeAccess for TLC: an access that exists and one that may *)
(* be created, for different users; two threads of the server.               *)
EXTENDS BridgeAccess, TLC

CONSTANTS ann, ben, ua, ub, t1, t2

MCNames   == {ann, ben}
MCUsers   == {ua, ub}
MCThreads == {t1, t2}
MCInitial == [m \in MCNames |-> IF m = ann THEN [user |-> ua, pat |-> 1] ELSE None]

MCMenu ==
    { [op |-> "create", name |-> ben, user |-> ub], [op |-> "create", name |-> ann, user |-> ub],
      [op |-> "rotate", name |-> ann], [op |-> "rotate", name |-> ben],
      [op |-> "revoke", name |-> ann], [op |-> "list"] }

(* The first PATs, right and under the wrong name.                          *)
MCAttempts == [name: {ann}, pat: {1, 2}] \cup [name: {ben}, pat: {2}]

Alike == Permutations(MCThreads)
=============================================================================
