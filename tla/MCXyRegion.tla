------------------------------ MODULE MCXyRegion ------------------------------
(***************************************************************************)
(* Instances of XyRegion for TLC.                                          *)
(***************************************************************************)
EXTENDS XyRegion, TLC

===============================================================================
