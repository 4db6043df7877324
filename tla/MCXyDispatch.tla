----------------------------- MODULE MCXyDispatch -----------------------------
(***************************************************************************)
(* Instances of XyDispatch for TLC.                                        *)
(***************************************************************************)
EXTENDS XyDispatch, TLC

CONSTANTS s1, s2, h1, r1, r2

\* Both libraries, or the only one, listen to the hook.
OneHook == {<<s1, h1>>, <<s2, h1>>}
OneLib  == {<<s1, h1>>}

\* Which of the two other regions, and which of the two libraries, is which makes
\* no difference.
EitherWay == Permutations({r1, r2}) \cup Permutations({s1, s2})
===============================================================================
