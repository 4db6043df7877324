------------------------------- MODULE MCXyLoop -------------------------------
(***************************************************************************)
(* Instances of XyLoop for TLC.                                            *)
(***************************************************************************)
EXTENDS XyLoop, TLC

CONSTANTS r0, r1

\* A root and a child.
TwoRegions == (r0 :> <<r0, r1>>) @@ (r1 :> <<r1>>)
===============================================================================
