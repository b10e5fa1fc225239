---------------------------- MODULE MCRunEngine -----------------------------
(* Instances of RunEngine for TLC, and its refinement of EvidenceLedger.   *)
EXTENDS RunEngine

Ok == [process |-> "completed", protocol |-> "completed"]
BadProtocol == [process |-> "completed", protocol |-> "failed"]
ExitCode == [process |-> "failed", protocol |-> "completed"]
TimedOut == [process |-> "timed_out", protocol |-> "failed"]

AllResults == {Ok, BadProtocol, ExitCode, TimedOut}
TwoResults == {Ok, ExitCode}
OkOnly == {Ok}

\* ways an attempt, or the run coroutine beside it, ends early
Endings == {"runtime_missing", "source_drift", "record_raises", "index_locked", "interrupt", "crash"}
\* everything but edits of the source, which only the first trial of a lineage reads
LineageFaults == FaultNames \ {"source_drift"}
NoFaults == {}

Stage(t) ==
  IF "episode" \in files[t] THEN "published"
  ELSE IF "seal" \in files[t] THEN "sealed"
  ELSE IF files[t] # {} THEN "attempted" ELSE "absent"

Ledger == INSTANCE EvidenceLedger WITH
  stage  <- [t \in Trials |-> Stage(t)],
  result <- status,
  ledger <- run,
  listed <- runEpisodes

\* The files of a run, at every crash point, behave as EvidenceLedger promises.
ImplementsLedger == Ledger!Spec
==============================================================================
