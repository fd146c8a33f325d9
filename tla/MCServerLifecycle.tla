------------------------- MODULE MCServerLifecycle --------------------------
(* Instances of ServerLifecycle for TLC: two replicas on one tree, one whose *)
(* directory is no work tree, one whose backend does not exist.              *)
EXTENDS ServerLifecycle

CONSTANTS r1, r2, stray, odd

MCInstances == {r1, r2, stray, odd}
MCRoot      == [i \in MCInstances |-> IF i = stray THEN "elsewhere" ELSE "tree"]
MCWorkTrees == {"tree"}
MCLockPath  == [i \in MCInstances |-> IF i = stray THEN "other.lock" ELSE "instance.lock"]
MCBackend   == [i \in MCInstances |->
                   IF i = odd THEN "loki" ELSE IF i = r1 THEN "sqlite" ELSE "none"]
=============================================================================
