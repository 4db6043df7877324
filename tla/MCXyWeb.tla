------------------------------- MODULE MCXyWeb --------------------------------
(***************************************************************************)
(* An instance of XyWeb for TLC.                                           *)
(***************************************************************************)
EXTENDS XyWeb, TLC

CONSTANTS tick, draw, long, listener, caller, definer, byhand

\* The long name is cut to tick in the table.
CutNames == (tick :> tick) @@ (draw :> draw) @@ (long :> tick)

\* A listener of one hook and, for the same hook, an adapter written by hand without a
\* call function; a definition of the hook with the long name; and an adapter, written by
\* hand too, to call a hook that nobody implements.
Names == (listener :> tick) @@ (byhand :> tick) @@ (definer :> long) @@ (caller :> draw)
Calls == (listener :> "run") @@ (byhand :> "none") @@ (definer :> "zero") @@ (caller :> "none")
Ids == (listener :> -1) @@ (byhand :> 0) @@ (definer :> -1) @@ (caller :> 0)
===============================================================================
