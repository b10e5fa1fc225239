----------------------------- MODULE CachedObject ------------------------------
(***************************************************************************)
(* What fetch_runtime promises to those who use the cache, whatever dies   *)
(* on the way: the object appears at once and whole, a power loss may take *)
(* it back until it is permanent, and only a permanent one is handed out.  *)
(***************************************************************************)
CONSTANT Procs

VARIABLES object, holders

vars == <<object, holders>>

Init == object = "absent" /\ holders = {}

Publish ==
  /\ object = "absent" /\ object' = "published"
  /\ UNCHANGED holders

Settle ==
  /\ object = "published" /\ object' = "permanent"
  /\ UNCHANGED holders

Hand(p) ==
  /\ object = "permanent" /\ holders' = holders \cup {p}
  /\ UNCHANGED object

Drop(p) ==
  /\ holders' = holders \ {p}
  /\ UNCHANGED object

PowerLoss ==
  /\ holders' = {}
  /\ IF object = "published" THEN object' \in {"absent", "permanent"} ELSE UNCHANGED object

Next == Publish \/ Settle \/ PowerLoss \/ \E p \in Procs : Hand(p) \/ Drop(p)

Spec == Init /\ [][Next]_vars
================================================================================
