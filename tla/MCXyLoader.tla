------------------------------ MODULE MCXyLoader ------------------------------
(***************************************************************************)
(* Instances of XyLoader for TLC.                                          *)
(***************************************************************************)
EXTENDS XyLoader, TLC

CONSTANTS a1, a2, a3

\* Which address an entry has makes no difference.
AddrSymmetry == Permutations({a1, a2, a3})
===============================================================================
