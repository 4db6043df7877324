------------------------------- MODULE MCXyCall -------------------------------
(***************************************************************************)
(* Instances of XyCall for TLC.                                            *)
(***************************************************************************)
EXTENDS XyCall, TLC

CONSTANTS r0, r1, m0, m1, s1, h1, h2

\* A root and its leftmost child, which shares the root's id; one library is loaded
\* in both, the last time in the child.
SameId == (r0 :> 0) @@ (r1 :> 0)
TwoMods == (m0 :> r0) @@ (m1 :> r1)
ParentAndChild == (r0 :> {r0, r1}) @@ (r1 :> {r1})
OneLibrary == (m0 :> s1) @@ (m1 :> s1)
Latest == s1 :> r1

\* Both listen to h1; the root listens to h2 too, and denies it below.
TreeVector ==
  (<<r0, h1>> :> <<m0, m1>>) @@ (<<r1, h1>> :> <<m1>>) @@
  (<<r0, h2>> :> <<m0>>) @@ (<<r1, h2>> :> <<>>)
RootDenies == {<<r1, h2>>}

\* No thread differs from another.
Threads == Permutations(Thread)
===============================================================================
