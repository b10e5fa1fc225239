------------------------------ MODULE RunEngine ------------------------------
(***************************************************************************)
(* One execution of a frozen TrialPlan: RunEngine.run and RunEngine._run_  *)
(* trial of execution/runner.py, the files an attempt leaves in its        *)
(* RawBundle, and the rows it writes into the index.                       *)
(*                                                                         *)
(* The program is one asyncio event loop.  A trial's coroutine gives the   *)
(* loop away only at three awaits: the thread that materializes the        *)
(* workspace, record_process, and the thread that captures the final       *)
(* workspace.  `loop` names the trial that holds the loop between the end  *)
(* of the capture and its return, where it writes outcomes, seal, episode  *)
(* and index row one after the other: no other coroutine can run there,    *)
(* but a crash, a signal and the agent's leftover processes can.           *)
(***************************************************************************)
EXTENDS Integers, FiniteSets

CONSTANTS
  NTrials,        \* len(plan.trials); a trial is named by its ordinal
  Concurrency,    \* plan.concurrency
  CarryForward,   \* plan.state_policy = carry_forward (FALSE: independent, branch)
  RecordResults,  \* what record_process may return: [process, protocol]
  Faults,         \* what the environment may do, a subset of FaultNames
  MaxEdits,       \* bound: edits made to one workspace
  MaxDrift        \* bound: edits made to the source workspace after the freeze

FaultNames == {"runtime_missing", "runtime_drift", "source_drift", "materialize",
               "record_raises", "git_removed", "capture", "artifact_link",
               "index_locked", "leftover", "interrupt", "crash"}

ASSUME NTrialsAssumption == NTrials \in Nat \ {0}
ASSUME ConcurrencyAssumption == Concurrency \in Nat \ {0}
ASSUME PolicyAssumption == CarryForward \in BOOLEAN /\ (CarryForward => Concurrency = 1)
ASSUME RecordResultsAssumption ==
  RecordResults \subseteq [process : {"completed", "failed", "timed_out"},
                           protocol : {"completed", "failed"}]
ASSUME FaultsAssumption == Faults \subseteq FaultNames
ASSUME BoundsAssumption == MaxEdits \in Nat /\ MaxDrift \in Nat

Trials == 1..NTrials
Idle == 0

\* dispatch_batch of the plan: Concurrency consecutive ordinals make a batch
PlannedBatch(t) == ((t - 1) \div Concurrency) + 1

VARIABLES
  pc,             \* the coroutine of run()
  verdict,        \* what the run coroutine will be resumed with
  interrupted,    \* gather's _cancel_requested: SIGINT cancelled the main task
  loop,           \* the trial that holds the event loop while it finalizes, or Idle
  task,           \* the coroutine of each trial
  cancel,         \* CancelledError of each trial: "no", "pending" or "thrown"
  permits,        \* semaphore value
  dispatchCount,  \* _dispatch_count
  batch,          \* actual_dispatch_batch of each trial, 0 before it starts
  active,         \* _active
  maxActive,      \* _max_active
  outcomes,       \* the four outcomes of each attempt
  status,         \* "status" of each episode.json
  run,            \* "status" of run.json
  runEpisodes,    \* "episodes" of run.json
  files,          \* evidence of each trial on disk, and its index row
  runRow,         \* "status" of the row in the runs table
  drift,          \* edits of the source workspace since the plan was frozen
  edits,          \* version of each workspace: edits made to it since it was copied
  leftover,       \* trials whose agent left a process running
  copied,         \* version of its source, or of its parent's workspace, each was copied from
  snapshot,       \* version of each workspace that git add staged
  manifest        \* version of each workspace in workspace.final.json

engine == <<pc, verdict, interrupted>>
sched  == <<loop, task, cancel, permits, dispatchCount, batch, active, maxActive>>
disk   == <<run, runEpisodes, files, runRow>>
spaces == <<drift, edits, leftover, copied, snapshot, manifest>>
vars   == <<engine, sched, outcomes, status, disk, spaces>>

InFlight == {"materializing", "recording", "capturing", "committing",
             "finalizing", "outcomes", "sealed", "published"}
Ended    == {"returned", "raised", "cancelled"}
Unknown  == -1

Outcome == {"pending", "completed", "failed", "timed_out"}
NoOutcomes == [process |-> "pending", protocol |-> "pending",
               capture |-> "completed", workspace |-> "pending"]

\* AttemptOutcomes.completed
AllCompleted(o) == \A kind \in DOMAIN o : o[kind] = "completed"

Init ==
  /\ pc = "begin" /\ verdict = "pending" /\ interrupted = FALSE
  /\ loop = Idle
  /\ task = [t \in Trials |-> "queued"]
  /\ cancel = [t \in Trials |-> "no"]
  /\ permits = Concurrency
  /\ dispatchCount = 0 /\ batch = [t \in Trials |-> 0]
  /\ active = 0 /\ maxActive = 0
  /\ outcomes = [t \in Trials |-> NoOutcomes]
  /\ status = [t \in Trials |-> "none"]
  /\ run = "none" /\ runEpisodes = {} /\ runRow = "none"
  /\ files = [t \in Trials |-> {}]
  /\ drift = 0 /\ leftover = {}
  /\ edits = [t \in Trials |-> 0]
  /\ copied = [t \in Trials |-> Unknown]
  /\ snapshot = [t \in Trials |-> Unknown]
  /\ manifest = [t \in Trials |-> Unknown]

LoopFree == loop = Idle /\ pc \in {"await", "returned", "swept"}
Alive == pc \notin {"dead", "exited"}

-----------------------------------------------------------------------------
(* run(): up to the first await, and from the awaited result to its return *)

\* plan.json, then run.json with status "running"
Begin ==
  /\ pc = "begin"
  /\ pc' = "begun" /\ run' = "running"
  /\ UNCHANGED <<verdict, interrupted, sched, outcomes, status, runEpisodes, files, runRow, spaces>>

\* upsert_run is outside the try: when it raises, nothing closes run.json
BeginRow ==
  /\ pc = "begun"
  /\ \/ pc' = "await" /\ runRow' = "running"
     \/ "index_locked" \in Faults /\ pc' = "exited" /\ UNCHANGED runRow
  /\ UNCHANGED <<verdict, interrupted, sched, outcomes, status, run, runEpisodes, files, spaces>>

\* `results` when run() leaves its try block
Results == IF CarryForward THEN {t \in Trials : task[t] = "returned"}
           ELSE IF verdict = "results" THEN Trials ELSE {}

\* mutant: the statuses of the episodes are not looked at
RunStatusByCount ==
  IF verdict = "results" THEN IF Results = Trials THEN "completed" ELSE "failed" ELSE verdict

RunStatus ==
  IF verdict = "results"
  THEN IF Results = Trials /\ \A t \in Trials : status[t] = "completed"
       THEN "completed" ELSE "failed"
  ELSE verdict

\* resumed by gather (or by the last sequential trial); the finally block writes run.json
CloseRun ==
  /\ pc = "await" /\ loop = Idle /\ verdict # "pending"
  /\ pc' = "closing"
  /\ run' = RunStatus /\ runEpisodes' = Results
  /\ UNCHANGED <<verdict, interrupted, sched, outcomes, status, files, runRow, spaces>>

\* mutant: the row is written from what gather returned, not from run.json
CloseRowFromVerdict ==
  /\ pc = "closing" /\ pc' = "returned"
  /\ runRow' = IF verdict = "results" THEN "completed" ELSE verdict
  /\ UNCHANGED <<verdict, interrupted, sched, outcomes, status, run, runEpisodes, files, spaces>>

CloseRow ==
  /\ pc = "closing"
  /\ pc' = "returned"
  /\ \/ runRow' = run
     \/ "index_locked" \in Faults /\ UNCHANGED runRow
  /\ UNCHANGED <<verdict, interrupted, sched, outcomes, status, run, runEpisodes, files, spaces>>

\* asyncio.run cancels every task that is left when the main task is done
Sweep ==
  /\ pc = "returned" /\ loop = Idle
  /\ pc' = "swept"
  /\ cancel' = [t \in Trials |-> IF CarryForward \/ task[t] \in Ended THEN cancel[t] ELSE "pending"]
  /\ UNCHANGED <<verdict, interrupted, loop, task, permits, dispatchCount, batch,
                 active, maxActive, outcomes, status, disk, spaces>>

Exit ==
  /\ pc = "swept"
  /\ \A t \in Trials : task[t] \in Ended \/ (CarryForward /\ task[t] = "queued")
  /\ pc' = "exited"
  /\ UNCHANGED <<verdict, interrupted, sched, outcomes, status, disk, spaces>>

-----------------------------------------------------------------------------
(* How a trial's coroutine ends, and what the awaiting run coroutine sees  *)

Others(t) == Trials \ {t}

\* mutant: an exception leaves the run with the name of the coroutine's end
VerdictByName(t, how, st) ==
  IF verdict # "pending" THEN verdict
  ELSE IF how # "returned" THEN how
  ELSE IF \A u \in Others(t) : task[u] = "returned" THEN "results" ELSE "pending"

\* mutant: an exception is kept for later and the others are waited for
VerdictOfReturns(t, how, st) ==
  IF verdict = "pending" /\ how = "returned" /\ \A u \in Others(t) : task[u] = "returned"
  THEN "results" ELSE verdict

\* gather propagates the first exception at once; a sequential run stops at the
\* first episode that is not completed
VerdictAfter(t, how, st) ==
  IF verdict # "pending" THEN verdict
  ELSE IF how = "raised" THEN "failed"
  ELSE IF how = "cancelled" THEN "cancelled"
  ELSE IF CarryForward
       THEN IF st # "completed" \/ t = NTrials THEN "results" ELSE "pending"
  ELSE IF \E u \in Others(t) : task[u] # "returned" THEN "pending"
  ELSE IF interrupted THEN "cancelled" ELSE "results"

\* mutant: only a coroutine that returns gives its permit back
EndWithoutRelease(t, how) ==
  /\ task' = [task EXCEPT ![t] = how]
  /\ loop' = Idle
  /\ permits' = IF how = "returned" THEN permits + 1 ELSE permits
  /\ verdict' = VerdictAfter(t, how, status[t])

End(t, how) ==
  /\ task' = [task EXCEPT ![t] = how]
  /\ loop' = Idle
  /\ permits' = permits + 1
  /\ verdict' = VerdictAfter(t, how, status[t])

\* what the finally block of _run_trial does when it is entered
Finally(t, gitPresent) ==
  IF gitPresent
  THEN task' = [task EXCEPT ![t] = "capturing"] /\ UNCHANGED loop
  ELSE task' = [task EXCEPT ![t] = "finalizing"] /\ loop' = t

Missing(gitPresent) == IF gitPresent THEN "pending" ELSE "failed"

Fail(t, gitPresent) ==
  outcomes' = [outcomes EXCEPT ![t].process = "failed", ![t].protocol = "failed",
                               ![t].workspace = Missing(gitPresent)]

GitMayBeGone(gitPresent) == gitPresent \/ "git_removed" \in Faults

-----------------------------------------------------------------------------
(* _run_trial                                                              *)

\* mutant: tasks pick their permit in any order
TurnInAnyOrder(t) ==
  /\ task[t] = "queued" /\ LoopFree /\ permits > 0
  /\ cancel[t] = "no"

\* mutant: the trials are started without the semaphore
TurnWithoutPermit(t) ==
  /\ task[t] = "queued" /\ LoopFree /\ cancel[t] = "no"
  /\ \A u \in 1..(t - 1) : task[u] # "queued"

\* mutant: the sequential loop does not stop at an episode that is not completed
TurnGoesOn(t) ==
  /\ task[t] = "queued" /\ LoopFree /\ permits > 0
  /\ \A u \in 1..(t - 1) : task[u] = "returned"

\* the semaphore wakes its waiters in order; a sequential run calls the next trial
\* only after a completed one, and meets a pending cancellation at its first await
Turn(t) ==
  /\ task[t] = "queued" /\ LoopFree
  /\ \A u \in 1..(t - 1) : task[u] # "queued"
  /\ permits > 0
  /\ IF CarryForward
     THEN /\ verdict = "pending"
          /\ \A u \in 1..(t - 1) : task[u] = "returned" /\ status[u] = "completed"
     ELSE cancel[t] = "no"

\* directories, dispatch counter, prompt/trial/runtime.json and the checks before the copy:
\* up to the first await.  The runtime's digest is first read outside the try.
Open(t) ==
  /\ Turn(t)
  /\ dispatchCount' = dispatchCount + 1
  /\ batch' = [batch EXCEPT ![t] = (dispatchCount \div Concurrency) + 1]
  /\ files' = [files EXCEPT ![t] = {"attempt"}]
  /\ \/ /\ "runtime_missing" \in Faults
        /\ task' = [task EXCEPT ![t] = "raised"]
        /\ verdict' = VerdictAfter(t, "raised", status[t])
        /\ UNCHANGED <<loop, permits, outcomes>>
     \/ /\ "runtime_drift" \in Faults \/ (drift > 0 /\ (CarryForward => t = 1))
        /\ Finally(t, FALSE) /\ Fail(t, FALSE)
        /\ permits' = permits - 1
        /\ UNCHANGED verdict
     \/ /\ drift = 0 \/ (CarryForward /\ t > 1)
        /\ task' = [task EXCEPT ![t] = "materializing"]
        /\ permits' = permits - 1
        /\ UNCHANGED <<verdict, loop, outcomes>>
  /\ UNCHANGED <<pc, interrupted, cancel, active, maxActive, status, run, runEpisodes, runRow, spaces>>

\* mutant: the child is copied from the workspace the study names, not from its parent's
SourceVersionOfStudy(t) == drift

\* what the copying thread reads: the parent's workspace or the source, as they are now
SourceVersion(t) == IF CarryForward /\ t > 1 THEN edits[t - 1] ELSE drift

\* WorkspaceBackend.materialize has copied the tree; launch; _count_active
Materialized(t) ==
  /\ LoopFree /\ task[t] = "materializing" /\ cancel[t] # "pending"
  /\ task' = [task EXCEPT ![t] = "recording"]
  /\ copied' = [copied EXCEPT ![t] = SourceVersion(t)]
  /\ active' = active + 1
  /\ maxActive' = IF active + 1 > maxActive THEN active + 1 ELSE maxActive
  /\ UNCHANGED <<engine, loop, cancel, permits, dispatchCount, batch, outcomes, status, disk,
                 drift, edits, leftover, snapshot, manifest>>

\* the copy, git or the adapter raises: the private repository may exist or not
MaterializeFails(t) ==
  /\ "materialize" \in Faults
  /\ LoopFree /\ task[t] = "materializing" /\ cancel[t] # "pending"
  /\ \E gitPresent \in BOOLEAN : Finally(t, gitPresent) /\ Fail(t, gitPresent)
  /\ UNCHANGED <<engine, cancel, permits, dispatchCount, batch, active, maxActive, status, disk, spaces>>

\* processes of the agent may survive record_process, however it ends
MayLeave(t) ==
  \/ UNCHANGED leftover
  \/ "leftover" \in Faults /\ leftover' = leftover \cup {t}

\* record_process returns; a normal exit leaves the agent's background processes alone
RecordReturns(t) ==
  /\ LoopFree /\ task[t] = "recording" /\ cancel[t] # "pending"
  /\ \E r \in RecordResults, gitPresent \in BOOLEAN :
       /\ GitMayBeGone(gitPresent)
       /\ outcomes' = [outcomes EXCEPT ![t].process = r.process, ![t].protocol = r.protocol,
                                       ![t].workspace = Missing(gitPresent)]
       /\ Finally(t, gitPresent)
  /\ active' = active - 1
  /\ MayLeave(t)
  /\ UNCHANGED <<engine, cancel, permits, dispatchCount, batch, maxActive, status, disk,
                 drift, edits, copied, snapshot, manifest>>

\* spawn, stdin, a signal or a pump raises; when it does so while the process is torn down
\* for a cancellation, it replaces the CancelledError and the trial goes on as a failed one
RecordRaises(t) ==
  /\ "record_raises" \in Faults
  /\ LoopFree /\ task[t] = "recording"
  /\ \E gitPresent \in BOOLEAN :
       GitMayBeGone(gitPresent) /\ Finally(t, gitPresent) /\ Fail(t, gitPresent)
  /\ cancel' = [cancel EXCEPT ![t] = "no"]
  /\ active' = active - 1
  /\ MayLeave(t)
  /\ UNCHANGED <<engine, permits, dispatchCount, batch, maxActive, status, disk,
                 drift, edits, copied, snapshot, manifest>>

\* thread, first half of capture_final: git add, diff, status
CaptureAdd(t) ==
  /\ Alive /\ task[t] = "capturing"
  /\ snapshot' = [snapshot EXCEPT ![t] = edits[t]]
  /\ task' = [task EXCEPT ![t] = "committing"]
  /\ UNCHANGED <<engine, loop, cancel, permits, dispatchCount, batch, active, maxActive,
                 outcomes, status, disk, drift, edits, leftover, copied, manifest>>

\* second half: build_manifest, git commit; the coroutine resumes and keeps the loop
CaptureDone(t) ==
  /\ LoopFree /\ task[t] = "committing" /\ cancel[t] # "pending"
  /\ manifest' = [manifest EXCEPT ![t] = edits[t]]
  /\ outcomes' = [outcomes EXCEPT ![t].workspace = "completed"]
  /\ task' = [task EXCEPT ![t] = "finalizing"] /\ loop' = t
  /\ UNCHANGED <<engine, cancel, permits, dispatchCount, batch, active, maxActive, status, disk,
                 drift, edits, leftover, copied, snapshot>>

\* a failed capture is a workspace outcome, never an exception
CaptureFails(t) ==
  /\ "capture" \in Faults
  /\ LoopFree /\ task[t] \in {"capturing", "committing"} /\ cancel[t] # "pending"
  /\ outcomes' = [outcomes EXCEPT ![t].workspace = "failed"]
  /\ task' = [task EXCEPT ![t] = "finalizing"] /\ loop' = t
  /\ UNCHANGED <<engine, cancel, permits, dispatchCount, batch, active, maxActive, status, disk, spaces>>

\* end of the finally block: artifacts must be regular files, or the ValueError escapes;
\* a CancelledError that is propagating goes on; otherwise outcomes.json is written
Finalize(t) ==
  /\ loop = t /\ task[t] = "finalizing"
  /\ \/ /\ "artifact_link" \in Faults /\ copied[t] # Unknown
        /\ End(t, "raised")
        /\ UNCHANGED files
     \/ /\ cancel[t] = "thrown"
        /\ End(t, "cancelled")
        /\ UNCHANGED files
     \/ /\ cancel[t] # "thrown"
        /\ task' = [task EXCEPT ![t] = "outcomes"]
        /\ files' = [files EXCEPT ![t] = @ \cup {"outcomes"}]
        /\ UNCHANGED <<verdict, loop, permits>>
  /\ UNCHANGED <<pc, interrupted, cancel, dispatchCount, batch, active, maxActive, outcomes,
                 status, run, runEpisodes, runRow, spaces>>

\* mutant: the row is upserted when the bundle is sealed, before episode.json exists
SealAndIndex(t) ==
  /\ loop = t /\ task[t] = "outcomes"
  /\ task' = [task EXCEPT ![t] = "sealed"]
  /\ files' = [files EXCEPT ![t] = @ \cup {"seal", "row"}]
  /\ UNCHANGED <<engine, loop, cancel, permits, dispatchCount, batch, active, maxActive, outcomes,
                 status, run, runEpisodes, runRow, spaces>>

\* mutant: sealing is awaited, so a pending cancellation is thrown after the seal
SealAwaits(t) ==
  /\ loop = t /\ task[t] = "outcomes"
  /\ files' = [files EXCEPT ![t] = @ \cup {"seal"}]
  /\ IF cancel[t] = "pending" THEN End(t, "cancelled")
     ELSE task' = [task EXCEPT ![t] = "sealed"] /\ UNCHANGED <<verdict, loop, permits>>
  /\ UNCHANGED <<pc, interrupted, cancel, dispatchCount, batch, active, maxActive, outcomes,
                 status, run, runEpisodes, runRow, spaces>>

\* the bundle is walked again: a process the agent left running may have linked an artifact
Seal(t) ==
  /\ loop = t /\ task[t] = "outcomes"
  /\ \/ /\ task' = [task EXCEPT ![t] = "sealed"]
        /\ files' = [files EXCEPT ![t] = @ \cup {"seal"}]
        /\ UNCHANGED <<verdict, loop, permits>>
     \/ /\ "artifact_link" \in Faults /\ t \in leftover
        /\ End(t, "raised")
        /\ UNCHANGED files
  /\ UNCHANGED <<pc, interrupted, cancel, dispatchCount, batch, active, maxActive, outcomes,
                 status, run, runEpisodes, runRow, spaces>>

EpisodeStatus(o) == IF AllCompleted(o) THEN "completed" ELSE o.process

\* mutant: the protocol outcome is corrected after the seal
PublishCorrected(t) ==
  /\ loop = t /\ task[t] = "sealed"
  /\ outcomes' = [outcomes EXCEPT ![t].protocol = outcomes[t].process]
  /\ status' = [status EXCEPT ![t] = EpisodeStatus(outcomes[t])]
  /\ task' = [task EXCEPT ![t] = "published"]
  /\ files' = [files EXCEPT ![t] = @ \cup {"episode"}]
  /\ UNCHANGED <<engine, loop, cancel, permits, dispatchCount, batch, active, maxActive,
                 run, runEpisodes, runRow, spaces>>

PublishEpisode(t) ==
  /\ loop = t /\ task[t] = "sealed"
  /\ status' = [status EXCEPT ![t] = EpisodeStatus(outcomes[t])]
  /\ task' = [task EXCEPT ![t] = "published"]
  /\ files' = [files EXCEPT ![t] = @ \cup {"episode"}]
  /\ UNCHANGED <<engine, loop, cancel, permits, dispatchCount, batch, active, maxActive, outcomes,
                 run, runEpisodes, runRow, spaces>>

\* a task that finishes with an undelivered cancellation ends cancelled; in a sequential
\* run the main task carries it into the next trial
IndexEpisode(t) ==
  /\ loop = t /\ task[t] = "published"
  /\ \/ /\ files' = [files EXCEPT ![t] = @ \cup {"row"}]
        /\ LET how == IF cancel[t] = "pending" /\ ~CarryForward THEN "cancelled" ELSE "returned"
           IN  End(t, how)
     \/ /\ "index_locked" \in Faults
        /\ End(t, "raised")
        /\ UNCHANGED files
  /\ cancel' = [u \in Trials |->
                  IF CarryForward /\ u = t + 1 /\ cancel[t] = "pending" THEN "pending" ELSE cancel[u]]
  /\ UNCHANGED <<pc, interrupted, dispatchCount, batch, active, maxActive, outcomes, status,
                 run, runEpisodes, runRow, spaces>>

-----------------------------------------------------------------------------
(* Cancellation: SIGINT cancels the main task, the end of asyncio.run all  *)

\* gather.cancel() cancels its unfinished children; a sequential run is one task
Interrupt ==
  /\ "interrupt" \in Faults /\ ~interrupted /\ pc = "await"
  /\ interrupted' = TRUE
  /\ IF verdict # "pending"
     THEN /\ verdict' = IF CarryForward THEN verdict ELSE "cancelled"
          /\ UNCHANGED cancel
     ELSE /\ cancel' = [t \in Trials |->
                IF task[t] \notin Ended /\ (CarryForward => \A u \in 1..(t - 1) : task[u] \in Ended)
                THEN "pending" ELSE cancel[t]]
          /\ UNCHANGED verdict
  /\ UNCHANGED <<pc, loop, task, permits, dispatchCount, batch, active, maxActive,
                 outcomes, status, disk, spaces>>

\* a waiter of the semaphore never ran: no permit to give back
CancelQueued(t) ==
  /\ LoopFree /\ task[t] = "queued" /\ cancel[t] = "pending" /\ ~CarryForward
  /\ task' = [task EXCEPT ![t] = "cancelled"]
  /\ cancel' = [cancel EXCEPT ![t] = "thrown"]
  /\ verdict' = VerdictAfter(t, "cancelled", "none")
  /\ UNCHANGED <<pc, interrupted, loop, permits, dispatchCount, batch, active, maxActive,
                 outcomes, status, disk, spaces>>

\* the copying thread goes on, the coroutine unwinds through its finally block
CancelMaterializing(t) ==
  /\ LoopFree /\ task[t] = "materializing" /\ cancel[t] = "pending"
  /\ cancel' = [cancel EXCEPT ![t] = "thrown"]
  /\ \E gitPresent \in BOOLEAN : Finally(t, gitPresent)
  /\ UNCHANGED <<engine, permits, dispatchCount, batch, active, maxActive, outcomes, status, disk, spaces>>

\* the process group gets SIGTERM and its leader is reaped, then the finally block captures
CancelRecording(t) ==
  /\ LoopFree /\ task[t] = "recording" /\ cancel[t] = "pending"
  /\ cancel' = [cancel EXCEPT ![t] = "thrown"]
  /\ active' = active - 1
  /\ \E gitPresent \in BOOLEAN : GitMayBeGone(gitPresent) /\ Finally(t, gitPresent)
  /\ MayLeave(t)
  /\ UNCHANGED <<engine, permits, dispatchCount, batch, maxActive, outcomes, status, disk,
                 drift, edits, copied, snapshot, manifest>>

\* thrown at the await inside the finally block: the rest of the block is skipped
CancelCapture(t) ==
  /\ LoopFree /\ task[t] \in {"capturing", "committing"} /\ cancel[t] = "pending"
  /\ cancel' = [cancel EXCEPT ![t] = "thrown"]
  /\ End(t, "cancelled")
  /\ UNCHANGED <<pc, interrupted, dispatchCount, batch, active, maxActive, outcomes, status, disk, spaces>>

-----------------------------------------------------------------------------
(* The environment                                                         *)

Crash ==
  /\ "crash" \in Faults /\ Alive
  /\ pc' = "dead" /\ loop' = Idle
  /\ UNCHANGED <<verdict, interrupted, task, cancel, permits, dispatchCount, batch, active,
                 maxActive, outcomes, status, disk, spaces>>

\* the agent edits its workspace; a process it left behind goes on, before or after the seal
WorkspaceEdited(t) ==
  /\ task[t] = "recording" \/ t \in leftover
  /\ edits[t] < MaxEdits
  /\ edits' = [edits EXCEPT ![t] = @ + 1]
  /\ UNCHANGED <<engine, sched, outcomes, status, disk, drift, leftover, copied, snapshot, manifest>>

\* somebody edits the source workspace the plan has pinned
SourceDrift ==
  /\ "source_drift" \in Faults /\ drift < MaxDrift
  /\ drift' = drift + 1
  /\ UNCHANGED <<engine, sched, outcomes, status, disk, edits, leftover, copied, snapshot, manifest>>

\* the command has ended: nothing of the engine is left to run
Over == pc \in {"exited", "dead"} /\ UNCHANGED vars

Attempt(t) ==
  \/ Open(t) \/ Materialized(t) \/ MaterializeFails(t) \/ RecordReturns(t) \/ RecordRaises(t)
  \/ CaptureAdd(t) \/ CaptureDone(t) \/ CaptureFails(t)
  \/ Finalize(t) \/ Seal(t) \/ PublishEpisode(t) \/ IndexEpisode(t)
  \/ CancelQueued(t) \/ CancelMaterializing(t) \/ CancelRecording(t) \/ CancelCapture(t)

System == Begin \/ BeginRow \/ CloseRun \/ CloseRow \/ Sweep \/ Exit \/ (\E t \in Trials : Attempt(t))

Environment == Interrupt \/ Crash \/ SourceDrift \/ (\E t \in Trials : WorkspaceEdited(t))

Next == System \/ Environment \/ Over

Spec == Init /\ [][Next]_vars

\* the event loop runs what is ready, worker threads and record_process come back
FairSpec == Spec /\ WF_vars(System)

-----------------------------------------------------------------------------
(* Properties                                                              *)

EngineType ==
  /\ pc \in {"begin", "begun", "await", "closing", "returned", "swept", "exited", "dead"}
  /\ verdict \in {"pending", "results", "failed", "cancelled"}
  /\ interrupted \in BOOLEAN
  /\ run \in {"none", "running", "completed", "failed", "cancelled"}
  /\ runEpisodes \subseteq Trials
  /\ runRow \in {"none", "running", "completed", "failed", "cancelled"}

SchedType ==
  /\ loop \in 0..NTrials
  /\ task \in [Trials -> {"queued"} \cup InFlight \cup Ended]
  /\ cancel \in [Trials -> {"no", "pending", "thrown"}]
  /\ permits \in Int /\ dispatchCount \in Nat
  /\ batch \in [Trials -> Nat]
  /\ active \in Int /\ maxActive \in Int

EvidenceType ==
  /\ outcomes \in [Trials -> [process : Outcome, protocol : Outcome,
                             capture : Outcome, workspace : Outcome]]
  /\ status \in [Trials -> Outcome \cup {"none"}]
  /\ files \in [Trials -> SUBSET {"attempt", "outcomes", "seal", "episode", "row"}]

SpaceType ==
  /\ drift \in Nat /\ edits \in [Trials -> Nat] /\ leftover \subseteq Trials
  /\ copied \in [Trials -> Int] /\ snapshot \in [Trials -> Int] /\ manifest \in [Trials -> Int]

\* Every variable keeps its type: the life cycles of the run, of a trial's coroutine, of a
\* run.json and of a bundle have no other states than the ones named here.
TypeOK == EngineType /\ SchedType /\ EvidenceType /\ SpaceType

\* Whatever the crash point, an index row has its episode.json, an episode.json its seal,
\* and a seal the outcomes.json it covers (runner.py 228-287).
EvidenceChain ==
  \A t \in Trials :
    /\ "row" \in files[t] => "episode" \in files[t]
    /\ "episode" \in files[t] => "seal" \in files[t]
    /\ "seal" \in files[t] => "outcomes" \in files[t]

\* The semaphore hands permits over in plan order, so the batch an attempt was dispatched in
\* is always the planned one and design_deviations stays empty (runner.py 119-121, 230-238).
NoDesignDeviation == \A t \in Trials : batch[t] # 0 => batch[t] = PlannedBatch(t)

Flying == {t \in Trials : task[t] \in InFlight}

\* At most `concurrency` attempts are between their first file and their return, also while
\* failures and cancellations release permits (runner.py 78-82); max_active never exceeds it.
BoundedConcurrency ==
  /\ Cardinality(Flying) <= Concurrency
  /\ active = Cardinality({t \in Trials : task[t] = "recording"})
  /\ maxActive <= Concurrency

\* A run.json that says "completed" stands for a sealed, indexed, completed episode of
\* every planned trial (runner.py 86-90).
CompletedRunIsComplete ==
  run = "completed" =>
    \A t \in Trials : status[t] = "completed" /\ {"seal", "episode", "row"} \subseteq files[t]

\* A carry-forward attempt starts only when every earlier episode is sealed with status
\* "completed" (runner.py 69-76): a failed parent ends the lineage for good.
LineageIsCompleted ==
  CarryForward =>
    \A t \in Trials : files[t] # {} =>
      \A u \in 1..(t - 1) : status[u] = "completed" /\ {"seal", "episode"} \subseteq files[u]

\* The runs row is never ahead of run.json and never tells another story than an older one.
RowFollowsRun == runRow \in {"none", "running"} \/ runRow = run

\* An attempt whose coroutine a cancellation ended is never sealed as cancelled: it leaves a
\* complete chain (the signal came too late) or no seal at all.
CancelledIsAllOrNothing ==
  \A t \in Trials : task[t] = "cancelled" =>
    \/ "seal" \notin files[t]
    \/ {"outcomes", "seal", "episode", "row"} \subseteq files[t]

\* A child carries on from exactly the tree its parent was sealed with, and a manifest lists
\* exactly the tree that was committed, with two exceptions (runner.py 76, backend.py 145-219).
\* A parent that left a process running may be copied, or listed, newer, never older; and a
\* parent whose capture failed was sealed with no manifest at all, yet counts as completed.
\* Both are against docs/how-it-works.md:14, which promises the sealed workspace: the copy is
\* made from the parent's live directory and never compared with its manifest.
ChildInheritsParent ==
  /\ CarryForward =>
       \A t \in 2..NTrials : copied[t] # Unknown =>
         \/ copied[t] = manifest[t - 1]
         \/ manifest[t - 1] # Unknown /\ copied[t] > manifest[t - 1] /\ t - 1 \in leftover
         \/ manifest[t - 1] = Unknown /\ outcomes[t - 1].workspace = "failed"
  /\ \A t \in Trials : manifest[t] # Unknown =>
       \/ manifest[t] = snapshot[t]
       \/ manifest[t] > snapshot[t] /\ t \in leftover

\* What the engine itself has written stays: no step takes a file of an attempt away, the
\* outcomes, the final manifest and the dispatch batch do not change once they are sealed, nor
\* the status once episode.json is there.  Streams and artifacts have writers of their own
\* and belong to Evidence.
SealedForGood ==
  [][\A t \in Trials :
       /\ files[t] \subseteq files'[t]
       /\ "seal" \in files[t] =>
            outcomes'[t] = outcomes[t] /\ manifest'[t] = manifest[t] /\ batch'[t] = batch[t]
       /\ "episode" \in files[t] => status'[t] = status[t]]_vars

\* A command that is not killed closes run.json, whatever fails inside the run (runner.py
\* 97-105), and ends with no attempt left and every permit given back.
CommandEnds ==
  (pc = "await") ~>
    \/ pc = "dead"
    \/ /\ pc = "exited" /\ run \in {"completed", "failed", "cancelled"}
       /\ Flying = {} /\ permits = Concurrency

\* What System needs to take a step, of the run coroutine and of a trial's.
Writing == {"finalizing", "outcomes", "sealed", "published"}
RunReady ==
  \/ pc \in {"begin", "begun", "closing"}
  \/ pc = "await" /\ loop = Idle /\ verdict # "pending"
  \/ pc = "returned" /\ loop = Idle
  \/ pc = "swept" /\ \A t \in Trials : task[t] \in Ended \/ (CarryForward /\ task[t] = "queued")
AttemptReady(t) ==
  \/ loop = t /\ task[t] \in Writing
  \/ LoopFree /\ task[t] \in InFlight \ Writing
  \/ Turn(t)
  \/ LoopFree /\ task[t] = "queued" /\ cancel[t] = "pending" /\ ~CarryForward
NeverStuck == pc \in {"exited", "dead"} \/ RunReady \/ \E t \in Trials : AttemptReady(t)

EndsClean ==
  pc = "exited" =>
    /\ Flying = {} /\ permits = Concurrency
    /\ \/ run \in {"completed", "failed", "cancelled"}
       \/ run = "running" /\ runRow = "none" /\ \A t \in Trials : files[t] = {}

\* How many stages the run and a trial have before them at most.
RunLeft(at) ==
  CASE at = "begin" -> 6 [] at = "begun" -> 5 [] at = "await" -> 4 [] at = "closing" -> 3
    [] at = "returned" -> 2 [] at = "swept" -> 1 [] OTHER -> 0
TrialLeft(at) ==
  CASE at = "queued" -> 9 [] at = "materializing" -> 8 [] at = "recording" -> 7
    [] at = "capturing" -> 6 [] at = "committing" -> 5 [] at = "finalizing" -> 4
    [] at = "outcomes" -> 3 [] at = "sealed" -> 2 [] at = "published" -> 1 [] OTHER -> 0
Forward ==
  /\ RunLeft(pc') <= RunLeft(pc)
  /\ \A t \in Trials : TrialLeft(task'[t]) <= TrialLeft(task[t])
  /\ System => \/ RunLeft(pc') < RunLeft(pc)
               \/ \E t \in Trials : TrialLeft(task'[t]) < TrialLeft(task[t])

\* Neither a permit nor an awaited result can leave everybody waiting: until the command has
\* ended some coroutine can run, every step brings one nearer to its end and takes none back,
\* and what is left at the end is clean: all permits returned and run.json closed, unless its
\* row could not be opened and no trial was started (runner.py 66-105).
MovesUntilItEnds == [](NeverStuck /\ EndsClean) /\ [][Forward]_vars

-----------------------------------------------------------------------------
(* What the documents say and the code does not do                         *)

\* docs/architecture/design-principles.md:29 - an episode is "completed" only when all four
\* outcomes are.
CompletedMeansAllFour == \A t \in Trials : status[t] = "completed" => AllCompleted(outcomes[t])

==============================================================================
