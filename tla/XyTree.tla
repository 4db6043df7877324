-------------------------------- MODULE XyTree --------------------------------
(***************************************************************************)
(* What the rest of libxylem relies on in the region table: a rooted tree  *)
(* that only grows by leaves.  A new region is put in front of its         *)
(* parent's children, nothing moves, and only a shutdown clears the tree.  *)
(*                                                                         *)
(* XyRegion implements this specification; XyDispatch is built on it.      *)
(***************************************************************************)
EXTENDS Sequences

CONSTANTS Node, TreeRoot, NoNode

ASSUME TreeAssumption == TreeRoot \in Node /\ NoNode \notin Node

VARIABLES
  parent,   \* parent pointer of every region that exists
  kids      \* children_head / sibling_next list of every region that exists

treeVars == <<parent, kids>>

\* The tree that holds the root only, and the tree that holds nothing.
RootOnly ==
  /\ parent' = [n \in {TreeRoot} |-> NoNode]
  /\ kids' = [n \in {TreeRoot} |-> <<>>]

TreeInit ==
  /\ parent = [n \in {TreeRoot} |-> NoNode]
  /\ kids = [n \in {TreeRoot} |-> <<>>]

\* Region c is created below region p.
Grow(c, p) ==
  /\ p \in DOMAIN parent
  /\ c \in Node \ DOMAIN parent
  /\ parent' = [n \in DOMAIN parent \cup {c} |-> IF n = c THEN p ELSE parent[n]]
  /\ kids' = [n \in DOMAIN parent \cup {c} |->
               IF n = c THEN <<>> ELSE IF n = p THEN <<c>> \o kids[p] ELSE kids[n]]

\* xy_shutdown, and the bootstrap that follows it.
Clear ==
  /\ TreeRoot \in DOMAIN parent
  /\ parent' = [n \in {} |-> NoNode]
  /\ kids' = [n \in {} |-> NoNode]

Plant ==
  /\ TreeRoot \notin DOMAIN parent
  /\ RootOnly

\* The new region is sought among those that a step has added: as a property of XyRegion
\* this is checked in every step, and most steps add none.
TreeNext ==
  \/ Clear
  \/ Plant
  \/ \E c \in DOMAIN parent' \ DOMAIN parent, p \in DOMAIN parent : Grow(c, p)

TreeSpec == TreeInit /\ [][TreeNext]_treeVars
===============================================================================
