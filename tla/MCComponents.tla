----------------------------- MODULE MCComponents -----------------------------
(***************************************************************************)
(* An instance of Components for TLC.                                      *)
(*                                                                         *)
(* a1 and a2 (b1 and b2) are interchangeable in every component: clients   *)
(* of the queue, facts of the catalog, Checkpoints, archive entries,       *)
(* recorders (workers of the queue, episodes).  One symmetry set serves    *)
(* them all.                                                               *)
(***************************************************************************)
EXTENDS Components, TLC

CONSTANTS j1, s1, a1, a2, b1, b2, i1, i2, r1

Interchangeable == Permutations({a1, a2}) \cup Permutations({b1, b2})

RunKinds == [required : BOOLEAN, acknowledges : BOOLEAN]
TwoLives == <<i1, i2>>
TwoCheckpoints == [j \in Requests |-> {1, 2}]
=============================================================================
