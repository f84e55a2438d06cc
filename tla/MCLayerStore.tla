---------------------------- MODULE MCLayerStore ----------------------------
(* Instances of LayerStore: a chain base <- middle <- top.                   *)
EXTENDS LayerStore, TLC

CONSTANTS t1, t2, base, middle, top, m1, r1, r2, r3

ChainParent ==
    [c \in Chains |-> CASE c = base -> Nil
                        [] c = middle -> base
                        [] c = top -> middle]

\* Everything may fail, the daemon too; the daemon does not crash; no removal fails.
Environments ==
    {AllFaults, AllFaults \ {"crash"}, {"create", "commit", "mount", "saveId", "saveParent"}}

\* Nothing fails but the daemon.
CrashOnly == {{"crash"}}

StoreSymmetry == Permutations(Threads) \cup Permutations(Refs)
=============================================================================
