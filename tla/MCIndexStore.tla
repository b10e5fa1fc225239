---------------------------- MODULE MCIndexStore -----------------------------
(* Instances of IndexStore for TLC. *)
EXTENDS IndexStore

TwoPlans == [r \in Runs |-> r]
AllFaults == {"crash", "locked", "lost_index"}
==============================================================================
