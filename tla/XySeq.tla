-------------------------------- MODULE XySeq ---------------------------------
(***************************************************************************)
(* The lists of libxylem as sequences.  SelectSeq of the standard modules  *)
(* is built into the prover, which knows nothing about it; Filter is the   *)
(* same for a test that is a set, as a recursive function, and             *)
(* XySeqProofs says what it returns.                                       *)
(***************************************************************************)
EXTENDS Integers, Sequences

\* The elements of s that are in K, in the order of s.
Filter(s, K) ==
  LET kept[n \in 0 .. Len(s)] ==
        IF n = 0 THEN <<>>
        ELSE IF s[n] \in K THEN Append(kept[n - 1], s[n]) ELSE kept[n - 1]
  IN kept[Len(s)]
===============================================================================
