------------------------------ MODULE MCXyWatch -------------------------------
(***************************************************************************)
(* Instances of XyWatch for TLC.                                           *)
(***************************************************************************)
EXTENDS XyWatch, TLC
===============================================================================
