---------------------------- MODULE CatalogRecord ----------------------------
(***************************************************************************)
(* What the goal catalog promises to its readers: the set of facts a goal's *)
(* published catalog shows only grows, and a fact is acknowledged only once *)
(* it is shown.  GoalCatalog implements this.                               *)
(***************************************************************************)
CONSTANT Events  \* the facts a catalog may show

VARIABLES shown, acknowledged
vars == <<shown, acknowledged>>

Init == shown = {} /\ acknowledged = {}

Publish ==
  /\ shown' \in SUBSET Events
  /\ shown \subseteq shown'
  /\ UNCHANGED acknowledged

Acknowledge ==
  /\ acknowledged' \in SUBSET shown
  /\ acknowledged \subseteq acknowledged'
  /\ UNCHANGED shown

Next == Publish \/ Acknowledge
Spec == Init /\ [][Next]_vars
=============================================================================
