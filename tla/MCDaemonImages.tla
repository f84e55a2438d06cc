--------------------------- MODULE MCDaemonImages ---------------------------
(* Instances of DaemonImages for TLC. *)
EXTENDS DaemonImages, TLC

CONSTANTS base, other, top, l1, l2, a1, ad, b1, g1, g2, k1

\* base and other are two images of the same layer; top is made from either.
ChainOf == (base :> l1) @@ (other :> l1) @@ (top :> l2)
BasesOf == (base :> {}) @@ (other :> {}) @@ (top :> {base, other})
\* A tag and a digest in one repository, a tag in another
Names == (a1 :> "a") @@ (ad :> "a") @@ (b1 :> "b")
Full == [images |-> {base, other, top},
         parent |-> (base :> None) @@ (other :> None) @@ (top :> base),
         table |-> (a1 :> top) @@ (ad :> top) @@ (b1 :> base)]
\* The same before top was made
Young == [images |-> {base, other},
          parent |-> (base :> None) @@ (other :> None) @@ (top :> None),
          table |-> (a1 :> base) @@ (ad :> base) @@ (b1 :> other)]

Setup(ops, faults, start) == [ops |-> ops, faults |-> faults, start |-> start]

\* Removals with crashes; against taggers when the file cannot be written;
\* against commits, pulls and the build cache; when files stay behind.
ImageSetups ==
    {Setup({"rmi", "reparent"}, {"crash"}, Full),
     Setup({"rmi", "container"}, {"crash"}, Full),
     Setup({"rmi", "tag"}, {"save", "crash"}, Full),
     Setup({"rmi", "commit"}, {"crash"}, Young),
     Setup({"rmi", "pull"}, {}, Full),
     Setup({"rmi", "pull"}, {"save", "crash"}, Young),
     Setup({"rmi", "cached"}, {"crash"}, Full),
     Setup({"rmi", "reparent"}, {"metadata", "delete", "crash"}, Full)}
=============================================================================
