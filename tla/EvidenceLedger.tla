--------------------------- MODULE EvidenceLedger ----------------------------
(***************************************************************************)
(* What a run promises to a reader of its directory: evidence of a trial   *)
(* grows in three stages and never goes back; the run is opened, then      *)
(* closed once with a status that its published episodes justify; and a    *)
(* dependent trial is attempted only after a completed one.                *)
(***************************************************************************)
EXTENDS Integers

CONSTANTS NTrials, CarryForward

VARIABLES stage, result, ledger, listed

vars == <<stage, result, ledger, listed>>

Trials == 1..NTrials
Open == {"none", "running"}

Init ==
  /\ stage = [t \in Trials |-> "absent"]
  /\ result = [t \in Trials |-> "none"]
  /\ ledger = "none" /\ listed = {}

OpenRun ==
  /\ ledger = "none" /\ ledger' = "running"
  /\ UNCHANGED <<stage, result, listed>>

\* attempts of a run that has already failed may still be under way
Advance(t, from, to) ==
  /\ ledger # "none"
  /\ stage[t] = from /\ stage' = [stage EXCEPT ![t] = to]
  /\ UNCHANGED <<ledger, listed>>

Attempt(t) ==
  /\ CarryForward => \A u \in 1..(t - 1) : stage[u] = "published" /\ result[u] = "completed"
  /\ Advance(t, "absent", "attempted")
  /\ UNCHANGED result

Seal(t) == Advance(t, "attempted", "sealed") /\ UNCHANGED result

Publish(t) ==
  /\ Advance(t, "sealed", "published")
  /\ \E r \in {"completed", "failed", "timed_out"} : result' = [result EXCEPT ![t] = r]

CloseRun ==
  /\ ledger = "running"
  /\ ledger' \in {"completed", "failed", "cancelled"}
  /\ ledger' = "completed" => \A t \in Trials : stage[t] = "published" /\ result[t] = "completed"
  /\ listed' \in SUBSET {t \in Trials : stage[t] = "published"}
  /\ UNCHANGED <<stage, result>>

Next == OpenRun \/ CloseRun \/ \E t \in Trials : Attempt(t) \/ Seal(t) \/ Publish(t)

Spec == Init /\ [][Next]_vars
==============================================================================
