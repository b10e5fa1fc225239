--------------------------- MODULE RunEngineProofs ---------------------------
(***************************************************************************)
(* Theorems about RunEngine for every number of trials, every concurrency, *)
(* both state policies and every set of faults.                            *)
(***************************************************************************)
EXTENDS RunEngine, MCRunEngine, FiniteSetTheorems, TLAPS

USE NTrialsAssumption, ConcurrencyAssumption, PolicyAssumption, RecordResultsAssumption
USE DEF engine, sched, disk, spaces

-----------------------------------------------------------------------------
(* Type correctness, one part of the state at a time                       *)

LEMMA TypeOKInit == Init => TypeOK
<1> SUFFICES ASSUME Init PROVE TypeOK
  OBVIOUS
<1>1. EngineType BY DEF Init, EngineType
<1>2. SchedType BY DEF Init, SchedType, InFlight, Ended, Idle
<1>3. EvidenceType BY DEF Init, EvidenceType, NoOutcomes, Outcome
<1>4. SpaceType BY DEF Init, SpaceType, Unknown
<1> QED BY <1>1, <1>2, <1>3, <1>4 DEF TypeOK

LEMMA VerdictType ==
  ASSUME EngineType, NEW t, NEW how, NEW st
  PROVE  VerdictAfter(t, how, st) \in {"pending", "results", "failed", "cancelled"}
BY DEF VerdictAfter, EngineType

LEMMA EngineTypeStep == TypeOK /\ [Next]_vars => EngineType'
<1> SUFFICES ASSUME EngineType, [Next]_vars PROVE EngineType'
  BY DEF TypeOK
<1>1. CASE Begin \/ BeginRow \/ CloseRow \/ Sweep \/ Exit
  BY <1>1 DEF Begin, BeginRow, CloseRow, Sweep, Exit, EngineType
<1>2. CASE CloseRun
  BY <1>2 DEF CloseRun, RunStatus, Results, EngineType
<1>3. CASE \E t \in Trials : Open(t)
  BY <1>3, VerdictType DEF Open, EngineType
<1>4. CASE \E t \in Trials : Finalize(t) \/ Seal(t) \/ CancelCapture(t)
  BY <1>4, VerdictType DEF Finalize, Seal, CancelCapture, End, EngineType
<1>5. CASE \E t \in Trials : IndexEpisode(t) \/ CancelQueued(t)
  BY <1>5, VerdictType DEF IndexEpisode, CancelQueued, End, EngineType
<1>6. CASE Interrupt \/ Crash
  BY <1>6 DEF Interrupt, Crash, EngineType
<1>7. CASE UNCHANGED <<engine, run, runEpisodes, runRow>>
  BY <1>7 DEF EngineType
<1>8. CASE \E t \in Trials : Attempt(t)
  BY <1>3, <1>4, <1>5, <1>7, <1>8
  DEF Attempt, Materialized, MaterializeFails, RecordReturns, RecordRaises, CaptureAdd, CaptureDone,
      CaptureFails, PublishEpisode, CancelMaterializing, CancelRecording
<1>9. CASE Environment
  BY <1>6, <1>7, <1>9 DEF Environment, SourceDrift, WorkspaceEdited
<1> QED
  BY <1>1, <1>2, <1>7, <1>8, <1>9 DEF Next, System, Over, vars

LEMMA FinallyType ==
  ASSUME SchedType, NEW t \in Trials, NEW present \in BOOLEAN, Finally(t, present)
  PROVE  /\ task' \in [Trials -> {"queued"} \cup InFlight \cup Ended]
         /\ loop' \in 0..NTrials
<1>1. CASE present
  BY <1>1 DEF SchedType, Finally, InFlight
<1>2. CASE ~present
  <2>1. task' = [task EXCEPT ![t] = "finalizing"] /\ loop' = t
    BY <1>2 DEF Finally
  <2>2. task' \in [Trials -> {"queued"} \cup InFlight \cup Ended]
    BY <2>1 DEF SchedType, InFlight
  <2> QED BY <2>1, <2>2 DEF Trials
<1> QED BY <1>1, <1>2

LEMMA SchedTypeStep == TypeOK /\ [Next]_vars => SchedType'
<1> SUFFICES ASSUME SchedType, [Next]_vars PROVE SchedType'
  BY DEF TypeOK
<1> DEFINE T == [Trials -> {"queued"} \cup InFlight \cup Ended]
<1>1. ASSUME NEW t \in Trials, Open(t) PROVE SchedType'
  <2>1. task' \in T /\ loop' \in 0..NTrials
    <3>1. CASE Finally(t, FALSE)
      BY <3>1, FinallyType
    <3>2. CASE task' \in {[task EXCEPT ![t] = "raised"], [task EXCEPT ![t] = "materializing"]} /\ UNCHANGED loop
      BY <3>2 DEF SchedType, InFlight, Ended
    <3> QED BY <1>1, <3>1, <3>2 DEF Open
  <2>2. dispatchCount' \in Nat
    BY <1>1 DEF Open, SchedType
  <2>3. dispatchCount \div Concurrency + 1 \in Nat
    BY DEF SchedType
  <2>4. batch' \in [Trials -> Nat]
    BY <1>1, <2>3 DEF Open, SchedType
  <2>5. permits' \in {permits, permits - 1}
    BY <1>1 DEF Open
  <2>6. UNCHANGED <<cancel, active, maxActive>>
    BY <1>1 DEF Open
  <2> QED BY <2>1, <2>2, <2>4, <2>5, <2>6 DEF SchedType
<1>2. CASE \E t \in Trials : Materialized(t)
  BY <1>2 DEF Materialized, SchedType, InFlight
<1>3. ASSUME NEW t \in Trials,
             MaterializeFails(t) \/ RecordReturns(t) \/ RecordRaises(t)
               \/ CancelMaterializing(t) \/ CancelRecording(t)
      PROVE  SchedType'
  <2>1. PICK present \in BOOLEAN : Finally(t, present)
    BY <1>3 DEF MaterializeFails, RecordReturns, RecordRaises, CancelMaterializing, CancelRecording
  <2>2. task' \in T /\ loop' \in 0..NTrials
    BY <2>1, FinallyType
  <2>3. UNCHANGED <<permits, dispatchCount, batch, maxActive>>
    BY <1>3 DEF MaterializeFails, RecordReturns, RecordRaises, CancelMaterializing, CancelRecording
  <2>4. active' \in {active, active - 1} /\ \E c \in {"no", "thrown"} : cancel' \in {cancel, [cancel EXCEPT ![t] = c]}
    BY <1>3 DEF MaterializeFails, RecordReturns, RecordRaises, CancelMaterializing, CancelRecording
  <2> QED BY <2>2, <2>3, <2>4 DEF SchedType
<1>4. ASSUME NEW t \in Trials, CaptureAdd(t) \/ CaptureDone(t) \/ CaptureFails(t)
      PROVE  SchedType'
  <2>1. task' \in {[task EXCEPT ![t] = "committing"], [task EXCEPT ![t] = "finalizing"]}
    BY <1>4 DEF CaptureAdd, CaptureDone, CaptureFails
  <2>2. task' \in T
    BY <2>1 DEF SchedType, InFlight
  <2>3. loop' \in {loop, t} /\ t \in 0..NTrials
    BY <1>4 DEF CaptureAdd, CaptureDone, CaptureFails, Trials
  <2>4. UNCHANGED <<cancel, permits, dispatchCount, batch, active, maxActive>>
    BY <1>4 DEF CaptureAdd, CaptureDone, CaptureFails
  <2> QED BY <2>2, <2>3, <2>4 DEF SchedType
<1>5. CASE \E t \in Trials : Finalize(t) \/ Seal(t)
  BY <1>5 DEF Finalize, Seal, End, SchedType, InFlight, Ended, Idle
<1>6. CASE \E t \in Trials : PublishEpisode(t) \/ CancelQueued(t)
  BY <1>6 DEF PublishEpisode, CancelQueued, SchedType, InFlight, Ended
<1>7. CASE \E t \in Trials : IndexEpisode(t) \/ CancelCapture(t)
  BY <1>7 DEF IndexEpisode, CancelCapture, End, SchedType, InFlight, Ended, Idle
<1>8. CASE Sweep \/ Interrupt \/ Crash
  BY <1>8 DEF Sweep, Interrupt, Crash, SchedType, Idle
<1>9. CASE UNCHANGED sched
  BY <1>9 DEF SchedType
<1>10. CASE \E t \in Trials : Attempt(t)
  BY <1>1, <1>2, <1>3, <1>4, <1>5, <1>6, <1>7, <1>10 DEF Attempt
<1>11. CASE Begin \/ BeginRow \/ CloseRun \/ CloseRow \/ Exit
  BY <1>9, <1>11 DEF Begin, BeginRow, CloseRun, CloseRow, Exit
<1>12. CASE Environment
  BY <1>8, <1>9, <1>12 DEF Environment, SourceDrift, WorkspaceEdited
<1> QED
  BY <1>8, <1>9, <1>10, <1>11, <1>12 DEF Next, System, Over, vars

LEMMA FailType ==
  ASSUME EvidenceType, NEW t \in Trials, NEW p \in Outcome, NEW q \in Outcome, NEW w \in Outcome
  PROVE  [outcomes EXCEPT ![t].process = p, ![t].protocol = q, ![t].workspace = w]
           \in [Trials -> [process : Outcome, protocol : Outcome,
                           capture : Outcome, workspace : Outcome]]
<1> DEFINE S == [process : Outcome, protocol : Outcome, capture : Outcome, workspace : Outcome]
<1>1. outcomes \in [Trials -> S]
  BY DEF EvidenceType
<1>2. [[[outcomes[t] EXCEPT !.process = p] EXCEPT !.protocol = q] EXCEPT !.workspace = w] \in S
  BY <1>1
<1>3. [outcomes EXCEPT ![t].process = p, ![t].protocol = q, ![t].workspace = w]
        = [outcomes EXCEPT ![t] =
             [[[outcomes[t] EXCEPT !.process = p] EXCEPT !.protocol = q] EXCEPT !.workspace = w]]
  BY <1>1
<1> QED BY <1>1, <1>2, <1>3

LEMMA EvidenceTypeStep == TypeOK /\ [Next]_vars => EvidenceType'
<1> SUFFICES ASSUME EvidenceType, [Next]_vars PROVE EvidenceType'
  BY DEF TypeOK
<1> DEFINE S == [process : Outcome, protocol : Outcome, capture : Outcome, workspace : Outcome]
<1>1. ASSUME NEW t \in Trials, NEW present \in BOOLEAN, Fail(t, present)
      PROVE  outcomes' \in [Trials -> S]
  <2>1. Missing(present) \in Outcome /\ "failed" \in Outcome
    BY DEF Missing, Outcome
  <2> QED BY <1>1, <2>1, FailType DEF Fail
<1>2. CASE \E t \in Trials : Open(t)
  <2>1. PICK t \in Trials : Open(t)
    BY <1>2
  <2>2. outcomes' \in [Trials -> S]
    BY <1>1, <2>1 DEF Open, EvidenceType
  <2> QED BY <2>1, <2>2 DEF Open, EvidenceType
<1>3. ASSUME NEW t \in Trials, MaterializeFails(t) \/ RecordRaises(t) PROVE EvidenceType'
  <2>1. outcomes' \in [Trials -> S]
    BY <1>1, <1>3 DEF MaterializeFails, RecordRaises
  <2> QED BY <1>3, <2>1 DEF MaterializeFails, RecordRaises, EvidenceType
<1>4. ASSUME NEW t \in Trials, RecordReturns(t) PROVE EvidenceType'
  <2>1. PICK r \in RecordResults, present \in BOOLEAN :
          outcomes' = [outcomes EXCEPT ![t].process = r.process, ![t].protocol = r.protocol,
                                       ![t].workspace = Missing(present)]
    BY <1>4 DEF RecordReturns
  <2>2. r.process \in Outcome /\ r.protocol \in Outcome /\ Missing(present) \in Outcome
    BY DEF Outcome, Missing
  <2>3. outcomes' \in [Trials -> S]
    BY <2>1, <2>2, FailType
  <2> QED BY <1>4, <2>3 DEF RecordReturns, EvidenceType
<1>5. CASE \E t \in Trials : CaptureDone(t) \/ CaptureFails(t)
  BY <1>5 DEF CaptureDone, CaptureFails, EvidenceType, Outcome
<1>6. CASE \E t \in Trials : Finalize(t) \/ Seal(t) \/ IndexEpisode(t)
  BY <1>6 DEF Finalize, Seal, IndexEpisode, EvidenceType
<1>7. CASE \E t \in Trials : PublishEpisode(t)
  BY <1>7 DEF PublishEpisode, EpisodeStatus, EvidenceType, Outcome
<1>8. CASE UNCHANGED <<outcomes, status, files>>
  BY <1>8 DEF EvidenceType
<1>9. CASE \E t \in Trials : Attempt(t)
  BY <1>2, <1>3, <1>4, <1>5, <1>6, <1>7, <1>8, <1>9
  DEF Attempt, Materialized, CaptureAdd, CancelQueued, CancelMaterializing, CancelRecording, CancelCapture
<1>10. CASE Begin \/ BeginRow \/ CloseRun \/ CloseRow \/ Sweep \/ Exit
  BY <1>8, <1>10 DEF Begin, BeginRow, CloseRun, CloseRow, Sweep, Exit
<1>11. CASE Environment
  BY <1>8, <1>11 DEF Environment, Interrupt, Crash, SourceDrift, WorkspaceEdited
<1> QED
  BY <1>8, <1>9, <1>10, <1>11 DEF Next, System, Over, vars

LEMMA SpaceTypeStep == TypeOK /\ [Next]_vars => SpaceType'
<1> SUFFICES ASSUME SpaceType, [Next]_vars PROVE SpaceType'
  BY DEF TypeOK
<1>1. ASSUME NEW t \in Trials, Materialized(t) PROVE SpaceType'
  <2>1. CarryForward /\ t > 1 => t - 1 \in Trials
    BY DEF Trials
  <2>2. SourceVersion(t) \in Int
    BY <2>1 DEF SourceVersion, SpaceType
  <2> QED BY <1>1, <2>2 DEF Materialized, SpaceType
<1>2. CASE \E t \in Trials : RecordReturns(t) \/ RecordRaises(t) \/ CancelRecording(t)
  BY <1>2 DEF RecordReturns, RecordRaises, CancelRecording, MayLeave, SpaceType
<1>3. CASE \E t \in Trials : CaptureAdd(t) \/ CaptureDone(t)
  BY <1>3 DEF CaptureAdd, CaptureDone, SpaceType
<1>4. CASE SourceDrift \/ \E t \in Trials : WorkspaceEdited(t)
  BY <1>4 DEF SourceDrift, WorkspaceEdited, SpaceType
<1>5. CASE UNCHANGED spaces
  BY <1>5 DEF SpaceType
<1>6. CASE \E t \in Trials : Attempt(t)
  BY <1>1, <1>2, <1>3, <1>5, <1>6
  DEF Attempt, Open, MaterializeFails, CaptureFails, Finalize, Seal, PublishEpisode,
      IndexEpisode, CancelQueued, CancelMaterializing, CancelCapture
<1>7. CASE Begin \/ BeginRow \/ CloseRun \/ CloseRow \/ Sweep \/ Exit
  BY <1>5, <1>7 DEF Begin, BeginRow, CloseRun, CloseRow, Sweep, Exit
<1>8. CASE Environment
  BY <1>4, <1>5, <1>8 DEF Environment, Interrupt, Crash
<1> QED
  BY <1>5, <1>6, <1>7, <1>8 DEF Next, System, Over, vars

LEMMA TypeOKStep == TypeOK /\ [Next]_vars => TypeOK'
BY EngineTypeStep, SchedTypeStep, EvidenceTypeStep, SpaceTypeStep DEF TypeOK

\* Every variable keeps its type in every behaviour of the run engine.
THEOREM TypeCorrect == Spec => []TypeOK
BY TypeOKInit, TypeOKStep, PTL DEF Spec

-----------------------------------------------------------------------------
(* Whose step it is: only a step of trial u touches what belongs to u      *)

Own(u) == <<task[u], batch[u], outcomes[u], status[u], files[u]>>

LEMMA FinallyOwn ==
  ASSUME TypeOK, NEW t \in Trials, NEW u \in Trials \ {t}, NEW present, Finally(t, present)
  PROVE  task'[u] = task[u]
BY DEF Finally, TypeOK, SchedType

LEMMA EndOwn ==
  ASSUME TypeOK, NEW t \in Trials, NEW u \in Trials \ {t}, NEW how, End(t, how)
  PROVE  task'[u] = task[u]
BY DEF End, TypeOK, SchedType

LEMMA OthersAlone ==
  ASSUME TypeOK, NEW t \in Trials, NEW u \in Trials \ {t}, Attempt(t)
  PROVE  UNCHANGED Own(u)
<1> USE DEF TypeOK, SchedType, EvidenceType, Own
<1>1. CASE Open(t)
  BY <1>1, FinallyOwn DEF Open, Fail
<1>2. CASE MaterializeFails(t) \/ RecordReturns(t) \/ RecordRaises(t)
  BY <1>2, FinallyOwn DEF MaterializeFails, RecordReturns, RecordRaises, Fail
<1>3. CASE CancelMaterializing(t) \/ CancelRecording(t)
  BY <1>3, FinallyOwn DEF CancelMaterializing, CancelRecording
<1>4. CASE Materialized(t) \/ CaptureAdd(t) \/ CaptureDone(t) \/ CaptureFails(t)
  BY <1>4 DEF Materialized, CaptureAdd, CaptureDone, CaptureFails
<1>5. CASE Finalize(t) \/ Seal(t) \/ IndexEpisode(t) \/ CancelCapture(t)
  BY <1>5, EndOwn DEF Finalize, Seal, IndexEpisode, CancelCapture
<1>6. CASE PublishEpisode(t) \/ CancelQueued(t)
  BY <1>6 DEF PublishEpisode, CancelQueued
<1> QED BY <1>1, <1>2, <1>3, <1>4, <1>5, <1>6 DEF Attempt

LEMMA OwnStep ==
  ASSUME TypeOK, [Next]_vars, NEW u \in Trials
  PROVE  Attempt(u) \/ UNCHANGED Own(u)
<1>1. CASE Begin \/ BeginRow \/ CloseRun \/ CloseRow \/ Sweep \/ Exit
  BY <1>1 DEF Begin, BeginRow, CloseRun, CloseRow, Sweep, Exit, Own
<1>2. CASE Environment
  BY <1>2 DEF Environment, Interrupt, Crash, SourceDrift, WorkspaceEdited, Own
<1>3. CASE UNCHANGED vars
  BY <1>3 DEF vars, Own
<1> QED
  BY <1>1, <1>2, <1>3, OthersAlone DEF Next, System, Over

-----------------------------------------------------------------------------
(* The evidence chain                                                      *)

\* The chain of one trial, and where its coroutine is when its evidence has grown so far.
Life(t) ==
  /\ "row" \in files[t] => "episode" \in files[t]
  /\ "episode" \in files[t] => "seal" \in files[t]
  /\ "seal" \in files[t] => "outcomes" \in files[t]
  /\ task[t] = "queued" => files[t] = {}
  /\ task[t] \in InFlight => files[t] # {}
  /\ task[t] \in {"outcomes", "sealed", "published", "returned"} => "outcomes" \in files[t]
  /\ task[t] \in {"sealed", "published", "returned"} => "seal" \in files[t]
  /\ task[t] \in {"published", "returned"} => "episode" \in files[t]
  /\ "outcomes" \in files[t] => task[t] \in {"outcomes", "sealed", "published"} \cup Ended
  /\ "seal" \in files[t] => task[t] \in {"sealed", "published"} \cup Ended
  /\ "episode" \in files[t] => task[t] \in {"published"} \cup Ended

LifeInv == \A t \in Trials : Life(t)

LEMMA LifeInit == Init => LifeInv
BY DEF Init, LifeInv, Life, InFlight

LEMMA FinallyStage ==
  ASSUME TypeOK, NEW t \in Trials, NEW present, Finally(t, present)
  PROVE  task'[t] \in {"capturing", "finalizing"}
BY DEF Finally, TypeOK, SchedType

LEMMA EndStage ==
  ASSUME TypeOK, NEW t \in Trials, NEW how, End(t, how)
  PROVE  task'[t] = how
BY DEF End, TypeOK, SchedType

LEMMA LifeOwnStep ==
  ASSUME TypeOK, NEW t \in Trials, Life(t), Attempt(t)
  PROVE  Life(t)'
<1> USE DEF TypeOK, SchedType, EvidenceType
<1>1. CASE Open(t)
  <2>1. files'[t] = {"attempt"}
    BY <1>1 DEF Open
  <2>2. task'[t] \in {"raised", "capturing", "finalizing", "materializing"}
    BY <1>1, FinallyStage DEF Open
  <2> QED BY <2>1, <2>2 DEF Life, InFlight, Ended
<1>2. ASSUME files'[t] = files[t],
             task[t] \in {"materializing", "recording", "capturing", "committing"},
             task'[t] \in {"recording", "capturing", "committing", "finalizing"}
      PROVE  Life(t)'
  BY <1>2 DEF Life, InFlight, Ended
<1>3. CASE MaterializeFails(t) \/ RecordReturns(t) \/ RecordRaises(t)
  BY <1>2, <1>3, FinallyStage DEF MaterializeFails, RecordReturns, RecordRaises
<1>4. CASE CancelMaterializing(t) \/ CancelRecording(t)
  BY <1>2, <1>4, FinallyStage DEF CancelMaterializing, CancelRecording
<1>5. CASE Materialized(t) \/ CaptureAdd(t) \/ CaptureDone(t) \/ CaptureFails(t)
  BY <1>2, <1>5 DEF Materialized, CaptureAdd, CaptureDone, CaptureFails
<1>6. CASE Finalize(t)
  <2>1. CASE task'[t] \in {"raised", "cancelled"} /\ files'[t] = files[t]
    BY <1>6, <2>1 DEF Finalize, Life, InFlight, Ended
  <2>2. CASE task'[t] = "outcomes" /\ files'[t] = files[t] \cup {"outcomes"}
    BY <1>6, <2>2 DEF Finalize, Life, InFlight, Ended
  <2> QED BY <1>6, <2>1, <2>2, EndStage DEF Finalize
<1>7. CASE Seal(t)
  <2>1. CASE task'[t] = "raised" /\ files'[t] = files[t]
    BY <1>7, <2>1 DEF Seal, Life, InFlight, Ended
  <2>2. CASE task'[t] = "sealed" /\ files'[t] = files[t] \cup {"seal"}
    BY <1>7, <2>2 DEF Seal, Life, InFlight, Ended
  <2> QED BY <1>7, <2>1, <2>2, EndStage DEF Seal
<1>8. CASE PublishEpisode(t)
  BY <1>8 DEF PublishEpisode, Life, InFlight, Ended
<1>9. CASE IndexEpisode(t)
  <2>1. task'[t] \in Ended
    BY <1>9, EndStage DEF IndexEpisode, Ended
  <2>2. files'[t] \in {files[t], files[t] \cup {"row"}}
    BY <1>9 DEF IndexEpisode
  <2> QED BY <1>9, <2>1, <2>2 DEF IndexEpisode, Life, InFlight, Ended
<1>10. CASE CancelQueued(t) \/ CancelCapture(t)
  <2>1. task'[t] = "cancelled" /\ files'[t] = files[t]
    BY <1>10, EndStage DEF CancelQueued, CancelCapture
  <2> QED BY <1>10, <2>1 DEF CancelQueued, CancelCapture, Life, InFlight, Ended
<1> QED BY <1>1, <1>3, <1>4, <1>5, <1>6, <1>7, <1>8, <1>9, <1>10 DEF Attempt

LEMMA LifeStep == TypeOK /\ LifeInv /\ [Next]_vars => LifeInv'
<1> SUFFICES ASSUME TypeOK, LifeInv, [Next]_vars, NEW t \in Trials PROVE Life(t)'
  BY DEF LifeInv
<1>1. Life(t)
  BY DEF LifeInv
<1>2. CASE UNCHANGED Own(t)
  BY <1>1, <1>2 DEF Own, Life
<1> QED BY <1>1, <1>2, OwnStep, LifeOwnStep

LEMMA LifeAlways == Spec => [](TypeOK /\ LifeInv)
<1>1. Init => TypeOK /\ LifeInv
  BY TypeOKInit, LifeInit
<1>2. TypeOK /\ LifeInv /\ [Next]_vars => (TypeOK /\ LifeInv)'
  BY TypeOKStep, LifeStep
<1> QED BY <1>1, <1>2, PTL DEF Spec

\* At every crash point of every run a row has its episode, an episode its seal and a seal
\* its outcomes (the order of the writes in runner.py 228-287).
THEOREM EvidenceChainHolds == Spec => []EvidenceChain
<1>1. LifeInv => EvidenceChain
  BY DEF LifeInv, Life, EvidenceChain
<1> QED BY <1>1, LifeAlways, PTL

LEMMA ManifestStep ==
  ASSUME TypeOK, [Next]_vars, NEW u \in Trials
  PROVE  manifest'[u] = manifest[u] \/ CaptureDone(u)
<1>1. CASE Begin \/ BeginRow \/ CloseRun \/ CloseRow \/ Sweep \/ Exit
  BY <1>1 DEF Begin, BeginRow, CloseRun, CloseRow, Sweep, Exit, spaces
<1>2. CASE Environment
  BY <1>2 DEF Environment, Interrupt, Crash, SourceDrift, WorkspaceEdited, spaces
<1>3. CASE UNCHANGED vars
  BY <1>3 DEF vars, spaces
<1>4. ASSUME NEW t \in Trials, Attempt(t) PROVE manifest'[u] = manifest[u] \/ CaptureDone(u)
  <2>1. CASE CaptureDone(t)
    BY <2>1 DEF CaptureDone, TypeOK, SpaceType
  <2>2. ASSUME ~CaptureDone(t) PROVE manifest' = manifest
    BY <1>4, <2>2
    DEF Attempt, Open, Materialized, MaterializeFails, RecordReturns, RecordRaises, CaptureAdd,
        CaptureFails, Finalize, Seal, PublishEpisode, IndexEpisode, CancelQueued,
        CancelMaterializing, CancelRecording, CancelCapture, spaces
  <2> QED BY <2>1, <2>2
<1> QED BY <1>1, <1>2, <1>3, <1>4 DEF Next, System, Over

\* What the engine wrote into an attempt stays as it is once it is sealed, whatever runs, fails
\* or is cancelled around it (runner.py 228-287).
THEOREM SealedForGoodHolds == Spec => SealedForGood
<1>1. ASSUME TypeOK, LifeInv, [Next]_vars, NEW t \in Trials
      PROVE  /\ files[t] \subseteq files'[t]
             /\ "seal" \in files[t] => outcomes'[t] = outcomes[t] /\ batch'[t] = batch[t]
             /\ "episode" \in files[t] => status'[t] = status[t]
  <2>1. Life(t)
    BY <1>1 DEF LifeInv
  <2>2. CASE UNCHANGED Own(t)
    BY <2>2 DEF Own
  <2>3. CASE Attempt(t)
    <3> USE DEF TypeOK, SchedType, EvidenceType
    <3>1. CASE Open(t)
      BY <1>1, <2>1, <3>1 DEF Open, Turn, Life
    <3>2. ASSUME UNCHANGED <<files, status>>,
                 task[t] \in {"materializing", "recording", "capturing", "committing"}
          PROVE  files'[t] = files[t] /\ status'[t] = status[t] /\ "seal" \notin files[t]
      BY <2>1, <3>2 DEF Life, InFlight, Ended
    <3>3. CASE \/ Materialized(t) \/ MaterializeFails(t) \/ RecordReturns(t) \/ RecordRaises(t)
               \/ CancelMaterializing(t) \/ CancelRecording(t)
      BY <3>2, <3>3
      DEF Materialized, MaterializeFails, RecordReturns, RecordRaises, CancelMaterializing, CancelRecording
    <3>4. CASE CaptureAdd(t) \/ CaptureDone(t) \/ CaptureFails(t) \/ CancelCapture(t)
      BY <3>2, <3>4 DEF CaptureAdd, CaptureDone, CaptureFails, CancelCapture
    <3>5. CASE Finalize(t) \/ Seal(t) \/ IndexEpisode(t) \/ CancelQueued(t)
      BY <1>1, <3>5 DEF Finalize, Seal, IndexEpisode, CancelQueued
    <3>6. CASE PublishEpisode(t)
      BY <1>1, <2>1, <3>6 DEF PublishEpisode, Life, InFlight, Ended
    <3> QED BY <2>3, <3>1, <3>3, <3>4, <3>5, <3>6 DEF Attempt
  <2> QED BY <1>1, <2>2, <2>3, OwnStep
<1>2. ASSUME TypeOK, LifeInv, [Next]_vars, NEW t \in Trials, "seal" \in files[t]
      PROVE  manifest'[t] = manifest[t]
  <2>1. Life(t)
    BY <1>2 DEF LifeInv
  <2>2. ~CaptureDone(t)
    BY <1>2, <2>1 DEF CaptureDone, Life, Ended
  <2> QED BY <1>2, <2>2, ManifestStep
<1>3. TypeOK /\ LifeInv /\ [Next]_vars =>
        [\A t \in Trials :
           /\ files[t] \subseteq files'[t]
           /\ "seal" \in files[t] =>
                outcomes'[t] = outcomes[t] /\ manifest'[t] = manifest[t] /\ batch'[t] = batch[t]
           /\ "episode" \in files[t] => status'[t] = status[t]]_vars
  BY <1>1, <1>2
<1> QED BY <1>3, LifeAlways, PTL DEF Spec, SealedForGood

-----------------------------------------------------------------------------
(* The lineage of a carry-forward run                                      *)

\* A parent that a child has started from never runs again, so its status is settled.
LineageInv ==
  CarryForward =>
    \A t \in Trials : files[t] # {} =>
      \A u \in 1..(t - 1) : task[u] = "returned" /\ status[u] = "completed"

LEMMA ReturnedRests ==
  ASSUME NEW u \in Trials, task[u] = "returned"
  PROVE  ~Attempt(u)
BY DEF Attempt, Open, Turn, Materialized, MaterializeFails, RecordReturns, RecordRaises, CaptureAdd,
       CaptureDone, CaptureFails, Finalize, Seal, PublishEpisode, IndexEpisode,
       CancelQueued, CancelMaterializing, CancelRecording, CancelCapture

LEMMA FirstFile ==
  ASSUME TypeOK, LifeInv, NEW t \in Trials, Attempt(t), files[t] = {}, files'[t] # {}
  PROVE  Open(t)
<1> USE DEF TypeOK, EvidenceType
<1>1. Life(t)
  BY DEF LifeInv
<1>2. CASE Finalize(t) \/ Seal(t) \/ PublishEpisode(t) \/ IndexEpisode(t)
  BY <1>1, <1>2 DEF Finalize, Seal, PublishEpisode, IndexEpisode, Life, InFlight
<1>3. CASE Materialized(t) \/ MaterializeFails(t) \/ RecordReturns(t) \/ RecordRaises(t)
  BY <1>3 DEF Materialized, MaterializeFails, RecordReturns, RecordRaises
<1>4. CASE CaptureAdd(t) \/ CaptureDone(t) \/ CaptureFails(t) \/ CancelCapture(t)
  BY <1>4 DEF CaptureAdd, CaptureDone, CaptureFails, CancelCapture
<1>5. CASE CancelQueued(t) \/ CancelMaterializing(t) \/ CancelRecording(t)
  BY <1>5 DEF CancelQueued, CancelMaterializing, CancelRecording
<1> QED BY <1>2, <1>3, <1>4, <1>5 DEF Attempt

LEMMA LineageStep == TypeOK /\ LifeInv /\ LineageInv /\ [Next]_vars => LineageInv'
<1> SUFFICES ASSUME TypeOK, LifeInv, LineageInv, [Next]_vars, CarryForward,
                    NEW t \in Trials, files'[t] # {}, NEW u \in 1..(t - 1)
             PROVE  (task[u] = "returned" /\ status[u] = "completed")'
  BY DEF LineageInv
<1>1. u \in Trials
  BY DEF Trials
<1>2. task[u] = "returned" /\ status[u] = "completed"
  <2>1. CASE files[t] # {}
    BY <2>1 DEF LineageInv
  <2>2. CASE files[t] = {}
    <3>1. Attempt(t)
      BY <2>2, OwnStep DEF Own
    <3>2. Open(t)
      BY <2>2, <3>1, FirstFile
    <3> QED BY <3>2 DEF Open, Turn
  <2> QED BY <2>1, <2>2
<1>3. UNCHANGED Own(u)
  BY <1>1, <1>2, ReturnedRests, OwnStep
<1> QED BY <1>2, <1>3 DEF Own

\* A dependent trial has evidence only when every earlier episode is sealed and completed
\* (runner.py 69-76), for lineages of any length.
THEOREM LineageHolds == Spec => []LineageIsCompleted
<1>1. Init => LineageInv
  BY DEF Init, LineageInv
<1>2. TypeOK /\ LifeInv /\ LineageInv => LineageIsCompleted
  <2> SUFFICES ASSUME LifeInv, LineageInv, CarryForward,
                      NEW t \in Trials, files[t] # {}, NEW u \in 1..(t - 1)
               PROVE  status[u] = "completed" /\ {"seal", "episode"} \subseteq files[u]
    BY DEF LineageIsCompleted
  <2>1. u \in Trials
    BY DEF Trials
  <2> QED BY <2>1 DEF LineageInv, LifeInv, Life
<1> QED BY <1>1, <1>2, LineageStep, LifeAlways, TypeOKInit, LifeInit, PTL DEF Spec

-----------------------------------------------------------------------------
(* The dispatch order                                                      *)

Startable(t) == task[t] = "queued" /\ (CarryForward \/ cancel[t] = "no")

\* As long as a trial can start, exactly the first dispatchCount trials have left the queue.
DispatchOrder ==
  (\E t \in Trials : Startable(t)) => \A u \in Trials : task[u] = "queued" <=> u > dispatchCount

\* A cancellation reaches every waiter of the semaphore in the same step.
SameFate ==
  ~CarryForward =>
    \A t, u \in Trials : task[t] = "queued" /\ task[u] = "queued" /\ cancel[t] = "no" => cancel[u] = "no"

DispatchInv == NoDesignDeviation /\ DispatchOrder /\ SameFate

LEMMA DispatchInit == Init => DispatchInv
BY DEF Init, DispatchInv, NoDesignDeviation, DispatchOrder, SameFate, Startable, Trials

\* What a step that starts nothing and cancels no waiter does to the queue.
QueueRests ==
  /\ UNCHANGED <<dispatchCount, batch>>
  /\ \A u \in Trials : task'[u] = "queued" <=> task[u] = "queued"

WaitersKeep == \A u \in Trials : task[u] = "queued" /\ ~CarryForward => cancel'[u] = cancel[u]
WaitersCancelled == \A u \in Trials : task[u] = "queued" /\ ~CarryForward => cancel'[u] = "pending"

LEMMA AttemptQueue ==
  ASSUME TypeOK, NEW t \in Trials, Attempt(t), ~Open(t), ~CancelQueued(t)
  PROVE  QueueRests /\ WaitersKeep
<1> USE DEF TypeOK, SchedType
<1>1. ASSUME UNCHANGED <<dispatchCount, batch>>, task[t] # "queued", task'[t] # "queued",
             \A u \in Trials \ {t} : ~CarryForward => cancel'[u] = cancel[u]
      PROVE  QueueRests /\ WaitersKeep
  BY <1>1, OthersAlone DEF QueueRests, WaitersKeep, Own
<1>2. CASE MaterializeFails(t) \/ RecordReturns(t) \/ RecordRaises(t)
  BY <1>1, <1>2, FinallyStage DEF MaterializeFails, RecordReturns, RecordRaises
<1>3. CASE CancelMaterializing(t) \/ CancelRecording(t)
  BY <1>1, <1>3, FinallyStage DEF CancelMaterializing, CancelRecording
<1>4. CASE Materialized(t) \/ CaptureAdd(t) \/ CaptureDone(t) \/ CaptureFails(t)
  BY <1>1, <1>4 DEF Materialized, CaptureAdd, CaptureDone, CaptureFails
<1>5. CASE Finalize(t)
  BY <1>1, <1>5, EndStage DEF Finalize
<1>6. CASE IndexEpisode(t)
  BY <1>1, <1>6, EndStage DEF IndexEpisode
<1>7. CASE CancelCapture(t)
  BY <1>1, <1>7, EndStage DEF CancelCapture
<1>8. CASE Seal(t)
  BY <1>1, <1>8, EndStage DEF Seal
<1>9. CASE PublishEpisode(t)
  BY <1>1, <1>9 DEF PublishEpisode
<1> QED BY <1>2, <1>3, <1>4, <1>5, <1>6, <1>7, <1>8, <1>9 DEF Attempt

LEMMA QueueStep ==
  ASSUME TypeOK, [Next]_vars
  PROVE  \/ \E t \in Trials : Open(t) \/ CancelQueued(t)
         \/ QueueRests /\ (WaitersKeep \/ WaitersCancelled)
<1>1. CASE Begin \/ BeginRow \/ CloseRun \/ CloseRow \/ Exit
  BY <1>1 DEF Begin, BeginRow, CloseRun, CloseRow, Exit, QueueRests, WaitersKeep
<1>2. CASE Sweep
  BY <1>2 DEF Sweep, QueueRests, WaitersCancelled, Ended
<1>3. CASE Interrupt
  BY <1>3 DEF Interrupt, QueueRests, WaitersKeep, WaitersCancelled, Ended
<1>4. CASE Crash \/ SourceDrift \/ \E t \in Trials : WorkspaceEdited(t)
  BY <1>4 DEF Crash, SourceDrift, WorkspaceEdited, QueueRests, WaitersKeep
<1>5. CASE UNCHANGED vars
  BY <1>5 DEF vars, QueueRests, WaitersKeep
<1> QED
  BY <1>1, <1>2, <1>3, <1>4, <1>5, AttemptQueue DEF Next, System, Environment, Over

LEMMA DispatchStep == TypeOK /\ DispatchInv /\ [Next]_vars => DispatchInv'
<1> SUFFICES ASSUME TypeOK, DispatchInv, [Next]_vars PROVE DispatchInv'
  OBVIOUS
<1> USE DEF DispatchInv, Startable
<1>1. ASSUME NEW t \in Trials, Open(t) PROVE DispatchInv'
  <2>1. Startable(t) /\ \A u \in 1..(t - 1) : task[u] # "queued"
    BY <1>1 DEF Open, Turn
  <2>2. dispatchCount \in Nat /\ \A u \in Trials : task[u] = "queued" <=> u > dispatchCount
    BY <2>1 DEF DispatchOrder, TypeOK, SchedType
  <2>3. dispatchCount = t - 1
    <3>1. t > dispatchCount
      BY <2>1, <2>2
    <3>2. dispatchCount >= t - 1
      <4> SUFFICES ASSUME t > 1 PROVE t - 1 <= dispatchCount
        BY <2>2 DEF Trials
      <4>1. t - 1 \in Trials /\ t - 1 \in 1..(t - 1)
        BY DEF Trials
      <4> QED BY <2>1, <2>2, <4>1 DEF Trials
    <3> QED BY <2>2, <3>1, <3>2 DEF Trials
  <2>4. NoDesignDeviation'
    <3>1. batch' = [batch EXCEPT ![t] = PlannedBatch(t)]
      BY <1>1, <2>3 DEF Open, PlannedBatch
    <3> QED BY <3>1 DEF NoDesignDeviation, TypeOK, SchedType
  <2>5. task'[t] # "queued" /\ \A u \in Trials \ {t} : task'[u] = task[u]
    BY <1>1, OthersAlone, FinallyStage DEF Open, Own, Attempt, TypeOK, SchedType
  <2>6. UNCHANGED cancel /\ dispatchCount' = t
    BY <1>1, <2>3 DEF Open, Trials
  <2>7. DispatchOrder'
    BY <2>2, <2>3, <2>5, <2>6 DEF DispatchOrder, Trials
  <2>8. SameFate'
    BY <2>5, <2>6 DEF SameFate
  <2> QED BY <2>4, <2>7, <2>8
<1>2. ASSUME NEW t \in Trials, CancelQueued(t) PROVE DispatchInv'
  <2>1. ~CarryForward /\ task[t] = "queued" /\ cancel[t] = "pending"
    BY <1>2 DEF CancelQueued
  <2>2. \A u \in Trials : task[u] = "queued" => cancel[u] # "no"
    BY <2>1 DEF SameFate
  <2>3. /\ task'[t] # "queued"
        /\ \A u \in Trials \ {t} : task'[u] = task[u] /\ cancel'[u] = cancel[u]
        /\ UNCHANGED batch
    BY <1>2 DEF CancelQueued, TypeOK, SchedType
  <2> QED BY <2>1, <2>2, <2>3 DEF NoDesignDeviation, DispatchOrder, SameFate
<1>3. CASE QueueRests /\ WaitersKeep
  BY <1>3 DEF QueueRests, WaitersKeep, NoDesignDeviation, DispatchOrder, SameFate
<1>4. CASE QueueRests /\ WaitersCancelled
  BY <1>4 DEF QueueRests, WaitersCancelled, NoDesignDeviation, DispatchOrder, SameFate
<1> QED BY <1>1, <1>2, <1>3, <1>4, QueueStep

\* Permits are handed over in plan order under any failures and cancellations, so the batch
\* an attempt is dispatched in is the planned one (runner.py 119-121, 230-238).
THEOREM NoDesignDeviationHolds == Spec => []NoDesignDeviation
<1>1. DispatchInv => NoDesignDeviation
  BY DEF DispatchInv
<1> QED BY <1>1, DispatchInit, DispatchStep, TypeOKInit, TypeOKStep, PTL DEF Spec

-----------------------------------------------------------------------------
(***************************************************************************)
(* What a run and its attempts come to, for every number of trials, every  *)
(* concurrency, both state policies and every set of faults: permits are   *)
(* neither lost nor duplicated, run.json and the runs table say only what  *)
(* the episodes justify, a cancelled attempt leaves all of its evidence or *)
(* no seal, a child never starts from less than its parent recorded, the   *)
(* command is never stuck, and so the run's directory behaves as           *)
(* EvidenceLedger promises.                                                *)
(***************************************************************************)

-----------------------------------------------------------------------------
(* Permits                                                                 *)

In(stages) == {u \in Trials : task[u] \in stages}
One(b) == IF b THEN 1 ELSE 0

PermitInv ==
  /\ permits \in Nat /\ permits + Cardinality(In(InFlight)) = Concurrency
  /\ active = Cardinality(In({"recording"})) /\ maxActive <= Concurrency

LEMMA FiniteParts ==
  ASSUME NEW S \in SUBSET Trials
  PROVE  IsFiniteSet(S) /\ Cardinality(S) \in Nat
<1>1. IsFiniteSet(Trials)
  BY FS_Interval DEF Trials
<1> QED BY <1>1, FS_Subset, FS_CardinalityType

LEMMA FiniteStages ==
  ASSUME NEW stages
  PROVE  IsFiniteSet(In(stages)) /\ Cardinality(In(stages)) \in Nat
<1>1. In(stages) \in SUBSET Trials
  BY DEF In
<1> QED BY <1>1, FiniteParts

(* How the number of trials in some stages changes when trial t moves on.  *)
LEMMA OneMoves ==
  ASSUME NEW stages, NEW t \in Trials, \A u \in Trials \ {t} : task'[u] = task[u]
  PROVE  Cardinality(In(stages)') =
           Cardinality(In(stages)) + One(task'[t] \in stages) - One(task[t] \in stages)
<1>1. IsFiniteSet(In(stages)) /\ Cardinality(In(stages)) \in Nat
  BY FiniteStages
<1>2. In(stages)' = {u \in Trials : task'[u] \in stages}
  BY DEF In
<1>3. CASE task[t] \in stages /\ task'[t] \in stages
  <2>1. In(stages)' = In(stages)
    BY <1>2, <1>3 DEF In
  <2> QED BY <1>1, <1>3, <2>1 DEF One
<1>4. CASE task[t] \notin stages /\ task'[t] \notin stages
  <2>1. In(stages)' = In(stages)
    BY <1>2, <1>4 DEF In
  <2> QED BY <1>1, <1>4, <2>1 DEF One
<1>5. CASE task[t] \notin stages /\ task'[t] \in stages
  <2>1. In(stages)' = In(stages) \cup {t} /\ t \notin In(stages)
    BY <1>2, <1>5 DEF In
  <2>2. Cardinality(In(stages)') = Cardinality(In(stages)) + 1
    BY <1>1, <2>1, FS_AddElement
  <2> QED BY <1>1, <1>5, <2>2 DEF One
<1>6. CASE task[t] \in stages /\ task'[t] \notin stages
  <2>1. In(stages)' = In(stages) \ {t} /\ t \in In(stages)
    BY <1>2, <1>6 DEF In
  <2>2. Cardinality(In(stages)') = Cardinality(In(stages)) - 1
    BY <1>1, <2>1, FS_RemoveElement
  <2> QED BY <1>1, <1>6, <2>2 DEF One
<1> QED BY <1>3, <1>4, <1>5, <1>6

(* What an attempt does with its permit and with the active counter.       *)
LEMMA PermitMoves ==
  ASSUME TypeOK, NEW t \in Trials, Attempt(t)
  PROVE  /\ permits' = permits + One(task[t] \in InFlight) - One(task'[t] \in InFlight)
         /\ permits' >= 0 \/ permits' >= permits
         /\ active' = active + One(task'[t] \in {"recording"}) - One(task[t] \in {"recording"})
         /\ maxActive' \in {maxActive, active'}
<1> USE DEF TypeOK, SchedType, One, InFlight
<1>1. CASE Open(t)
  <2>1. task[t] = "queued" /\ permits > 0 /\ UNCHANGED <<active, maxActive>>
    BY <1>1 DEF Open, Turn
  <2>2. \/ task'[t] = "raised" /\ UNCHANGED permits
        \/ task'[t] \in {"materializing", "capturing", "finalizing"} /\ permits' = permits - 1
    BY <1>1, FinallyStage DEF Open
  <2> QED BY <2>1, <2>2
<1>2. CASE MaterializeFails(t) \/ CancelMaterializing(t)
  BY <1>2, FinallyStage DEF MaterializeFails, CancelMaterializing
<1>3. CASE RecordReturns(t) \/ RecordRaises(t) \/ CancelRecording(t)
  <2>1. /\ task[t] = "recording" /\ task'[t] \in {"capturing", "finalizing"}
        /\ active' = active - 1 /\ UNCHANGED <<permits, maxActive>>
    BY <1>3, FinallyStage DEF RecordReturns, RecordRaises, CancelRecording
  <2> QED BY <2>1
<1>4. CASE Materialized(t)
  BY <1>4 DEF Materialized
<1>5. CASE CaptureAdd(t) \/ CaptureDone(t) \/ CaptureFails(t)
  BY <1>5 DEF CaptureAdd, CaptureDone, CaptureFails
<1>6. ASSUME NEW how \in Ended, End(t, how)
      PROVE  task'[t] = how /\ permits' = permits + 1
  BY <1>6, EndStage DEF End
<1>7. CASE Finalize(t) \/ Seal(t)
  BY <1>6, <1>7 DEF Finalize, Seal, Ended
<1>8. CASE IndexEpisode(t) \/ CancelCapture(t)
  BY <1>6, <1>8 DEF IndexEpisode, CancelCapture, Ended
<1>9. CASE PublishEpisode(t) \/ CancelQueued(t)
  BY <1>9 DEF PublishEpisode, CancelQueued
<1> QED BY <1>1, <1>2, <1>3, <1>4, <1>5, <1>7, <1>8, <1>9 DEF Attempt

LEMMA PermitStep ==
  ASSUME TypeOK, PermitInv, [Next]_vars
  PROVE  PermitInv'
<1> DEFINE f == Cardinality(In(InFlight))
           r == Cardinality(In({"recording"}))
<1>1. ASSUME UNCHANGED <<task, permits, active, maxActive>> PROVE PermitInv'
  BY <1>1 DEF PermitInv, In
<1>2. ASSUME NEW t \in Trials, Attempt(t) PROVE PermitInv'
  <2>1. \A u \in Trials \ {t} : task'[u] = task[u]
    BY <1>2, OthersAlone DEF Own
  <2>2. /\ f \in Nat /\ r \in Nat /\ f' \in Nat /\ r' \in Nat
        /\ permits \in Int /\ active \in Int /\ maxActive \in Int
    <3>1. In(InFlight)' \in SUBSET Trials /\ In({"recording"})' \in SUBSET Trials
      BY DEF In
    <3> QED BY <3>1, FiniteParts, FiniteStages DEF TypeOK, SchedType
  <2>3. /\ f' = f + One(task'[t] \in InFlight) - One(task[t] \in InFlight)
        /\ r' = r + One(task'[t] \in {"recording"}) - One(task[t] \in {"recording"})
    BY <2>1, OneMoves
  <2>4. r' <= f'
    <3>1. In(InFlight)' \in SUBSET Trials /\ In({"recording"})' \in SUBSET In(InFlight)'
      BY DEF In, InFlight
    <3> QED BY <3>1, FiniteParts, FS_Subset
  <2>5. permits' + f' = Concurrency /\ permits' \in Nat /\ active' = r'
    <3> HIDE DEF f, r
    <3>1. permits \in Nat /\ permits + f = Concurrency /\ active = r
      BY DEF PermitInv, f, r
    <3> QED BY <1>2, <2>2, <2>3, <3>1, PermitMoves DEF One
  <2>6. maxActive' <= Concurrency
    <3> HIDE DEF f, r
    <3>1. maxActive' \in {maxActive, active'} /\ maxActive <= Concurrency
      BY <1>2, PermitMoves DEF PermitInv
    <3>2. \A x, y, z \in Nat : x <= y /\ z + y = Concurrency => x <= Concurrency
      OBVIOUS
    <3>3. r' <= Concurrency
      BY <2>2, <2>4, <2>5, <3>2
    <3> QED BY <2>5, <3>1, <3>3
  <2> QED BY <2>5, <2>6 DEF PermitInv
<1>3. CASE Begin \/ BeginRow \/ CloseRun \/ CloseRow \/ Sweep \/ Exit
  BY <1>1, <1>3 DEF Begin, BeginRow, CloseRun, CloseRow, Sweep, Exit
<1>4. CASE Environment
  BY <1>1, <1>4 DEF Environment, Interrupt, Crash, SourceDrift, WorkspaceEdited
<1>5. CASE UNCHANGED vars
  BY <1>1, <1>5 DEF vars
<1> QED BY <1>2, <1>3, <1>4, <1>5 DEF Next, System, Over

LEMMA PermitInit == Init => PermitInv
<1> SUFFICES ASSUME Init PROVE PermitInv
  OBVIOUS
<1>1. In(InFlight) = {} /\ In({"recording"}) = {}
  BY DEF Init, In, InFlight
<1>2. permits = Concurrency /\ active = 0 /\ maxActive = 0
  BY DEF Init
<1> QED BY <1>1, <1>2, FS_EmptySet DEF PermitInv

\* Under any failures, cancellations and crashes there are never more attempts in flight than
\* the plan's concurrency, and the active counter counts the agents that run (runner.py 78-82).
THEOREM BoundedConcurrencyHolds == Spec => []BoundedConcurrency
<1>1. PermitInv => BoundedConcurrency
  <2> SUFFICES ASSUME PermitInv PROVE BoundedConcurrency
    OBVIOUS
  <2>1. Flying = In(InFlight) /\ {t \in Trials : task[t] = "recording"} = In({"recording"})
    BY DEF Flying, In
  <2>2. Cardinality(In(InFlight)) \in Nat
    BY FiniteStages
  <2>3. permits \in Nat /\ Cardinality(In(InFlight)) <= Concurrency
    BY <2>2 DEF PermitInv
  <2> QED BY <2>1, <2>3 DEF PermitInv, BoundedConcurrency
<1> QED BY <1>1, PermitInit, PermitStep, TypeOKInit, TypeOKStep, PTL DEF Spec

-----------------------------------------------------------------------------
(* run.json and the runs table                                             *)

RunFile ==
  /\ pc = "begin" => run = "none"
  /\ pc \in {"begun", "await"} => run = "running"
  /\ pc \in {"closing", "returned", "swept"} => run # "none"
  /\ pc \in {"begin", "begun", "await", "closing"} => runRow \in {"none", "running"}
  /\ \A t \in Trials : files[t] # {} => run # "none"
  /\ RowFollowsRun

LEMMA RunFileInit == Init => RunFile
BY DEF Init, RunFile, RowFollowsRun

LEMMA RunStatusIsFinal ==
  ASSUME TypeOK, verdict # "pending"
  PROVE  /\ RunStatus \in {"completed", "failed", "cancelled"}
         /\ RunStatus = "completed" =>
              verdict = "results" /\ Results = Trials /\ \A t \in Trials : status[t] = "completed"
BY DEF RunStatus, TypeOK, EngineType

LEMMA AttemptLeavesRun ==
  ASSUME NEW t \in Trials, Attempt(t)
  PROVE  UNCHANGED <<pc, interrupted, run, runEpisodes, runRow, edits, drift>>
BY DEF Attempt, Open, Materialized, MaterializeFails, RecordReturns, RecordRaises, CaptureAdd,
       CaptureDone, CaptureFails, Finalize, Seal, PublishEpisode, IndexEpisode,
       CancelQueued, CancelMaterializing, CancelRecording, CancelCapture

LEMMA RunFileStep ==
  ASSUME TypeOK, LifeInv, RunFile, [Next]_vars
  PROVE  RunFile'
<1>1. CASE Begin \/ BeginRow \/ CloseRow \/ Sweep \/ Exit
  BY <1>1 DEF Begin, BeginRow, CloseRow, Sweep, Exit, RunFile, RowFollowsRun
<1>2. CASE CloseRun
  BY <1>2, RunStatusIsFinal DEF CloseRun, RunFile, RowFollowsRun
<1>3. CASE Environment
  BY <1>3 DEF Environment, Interrupt, Crash, SourceDrift, WorkspaceEdited, RunFile, RowFollowsRun
<1>4. CASE UNCHANGED vars
  BY <1>4 DEF vars, RunFile, RowFollowsRun
<1>5. ASSUME NEW t \in Trials, Attempt(t) PROVE RunFile'
  <2>1. UNCHANGED <<pc, run, runRow>>
    BY <1>5, AttemptLeavesRun
  <2>2. ASSUME NEW u \in Trials, files'[u] # {} PROVE run # "none"
    <3>1. CASE files[u] # {}
      BY <3>1 DEF RunFile
    <3>2. CASE files[u] = {}
      <4>1. u = t
        BY <1>5, <2>2, <3>2, OthersAlone DEF Own
      <4>2. Open(t)
        BY <1>5, <2>2, <3>2, <4>1, FirstFile
      <4> QED BY <4>2 DEF Open, Turn, LoopFree, RunFile
    <3> QED BY <3>1, <3>2
  <2> QED BY <2>1, <2>2 DEF RunFile, RowFollowsRun
<1> QED BY <1>1, <1>2, <1>3, <1>4, <1>5 DEF Next, System, Over

LEMMA RunFileAlways == Spec => []RunFile
BY RunFileInit, RunFileStep, LifeAlways, PTL DEF Spec

\* The runs table is never ahead of run.json and, once closed, tells the same story
\* (runner.py 97-105).
THEOREM RowFollowsRunHolds == Spec => []RowFollowsRun
<1>1. RunFile => RowFollowsRun
  BY DEF RunFile
<1> QED BY <1>1, RunFileAlways, PTL

-----------------------------------------------------------------------------
(* A completed run                                                         *)

\* What makes results of a run, and that it stays so: a coroutine that has returned rests.
Closing ==
  /\ verdict = "results" /\ ~CarryForward => \A t \in Trials : task[t] = "returned"
  /\ run = "completed" => \A t \in Trials : task[t] = "returned" /\ status[t] = "completed"

Indexed == \A t \in Trials : task[t] = "returned" => "row" \in files[t]

\* Only IndexEpisode returns.
LEMMA Returns ==
  ASSUME TypeOK, NEW t \in Trials, Attempt(t), task'[t] = "returned"
  PROVE  IndexEpisode(t) /\ files'[t] = files[t] \cup {"row"} /\ End(t, "returned")
<1>1. CASE Open(t)
  BY <1>1, FinallyStage DEF Open, TypeOK, SchedType
<1>2. CASE MaterializeFails(t) \/ RecordReturns(t) \/ RecordRaises(t)
  BY <1>2, FinallyStage DEF MaterializeFails, RecordReturns, RecordRaises
<1>3. CASE CancelMaterializing(t) \/ CancelRecording(t)
  BY <1>3, FinallyStage DEF CancelMaterializing, CancelRecording
<1>4. CASE Materialized(t) \/ CaptureAdd(t) \/ CaptureDone(t) \/ CaptureFails(t)
  BY <1>4 DEF Materialized, CaptureAdd, CaptureDone, CaptureFails, TypeOK, SchedType
<1>5. CASE Finalize(t) \/ Seal(t)
  BY <1>5, EndStage DEF Finalize, Seal, TypeOK, SchedType
<1>6. CASE PublishEpisode(t) \/ CancelQueued(t)
  BY <1>6 DEF PublishEpisode, CancelQueued, TypeOK, SchedType
<1>7. CASE CancelCapture(t)
  BY <1>7, EndStage DEF CancelCapture
<1>8. CASE IndexEpisode(t)
  BY <1>8, EndStage DEF IndexEpisode, TypeOK, EvidenceType
<1> QED BY <1>1, <1>2, <1>3, <1>4, <1>5, <1>6, <1>7, <1>8 DEF Attempt

LEMMA ReturnedStays ==
  ASSUME TypeOK, [Next]_vars, NEW u \in Trials, task[u] = "returned"
  PROVE  task'[u] = "returned" /\ status'[u] = status[u]
BY ReturnedRests, OwnStep DEF Own

\* gather has results only when the last coroutine returns.
LEMMA ResultsOfGather ==
  ASSUME TypeOK, NEW t \in Trials, Attempt(t), ~CarryForward,
         verdict # "results", verdict' = "results"
  PROVE  \A u \in Trials : task'[u] = "returned"
<1>1. ASSUME NEW how, NEW st, VerdictAfter(t, how, st) = "results"
      PROVE  how \notin {"raised", "cancelled"} /\ \A u \in Others(t) : task[u] = "returned"
  BY <1>1 DEF VerdictAfter
<1>2. ASSUME NEW how \in {"raised", "cancelled"} PROVE ~End(t, how)
  BY <1>1, <1>2 DEF End
<1>3. CASE IndexEpisode(t)
  <2>1. End(t, "returned")
    BY <1>2, <1>3 DEF IndexEpisode
  <2>2. task'[t] = "returned" /\ \A u \in Others(t) : task[u] = "returned"
    BY <1>1, <2>1, EndStage DEF End
  <2> QED BY <2>2, OthersAlone DEF Own, Others
<1>4. CASE Open(t) \/ CancelQueued(t)
  BY <1>1, <1>4 DEF Open, CancelQueued
<1>5. CASE Finalize(t) \/ Seal(t) \/ CancelCapture(t)
  BY <1>2, <1>5 DEF Finalize, Seal, CancelCapture
<1>6. CASE \/ Materialized(t) \/ MaterializeFails(t) \/ RecordReturns(t) \/ RecordRaises(t)
           \/ CancelMaterializing(t) \/ CancelRecording(t)
  BY <1>6 DEF Materialized, MaterializeFails, RecordReturns, RecordRaises, CancelMaterializing,
              CancelRecording
<1>7. CASE CaptureAdd(t) \/ CaptureDone(t) \/ CaptureFails(t) \/ PublishEpisode(t)
  BY <1>7 DEF CaptureAdd, CaptureDone, CaptureFails, PublishEpisode
<1> QED BY <1>3, <1>4, <1>5, <1>6, <1>7 DEF Attempt

LEMMA ClosingStep ==
  ASSUME TypeOK, Closing, [Next]_vars
  PROVE  Closing'
<1>1. (verdict = "results" /\ ~CarryForward => \A t \in Trials : task[t] = "returned")'
  <2>1. CASE verdict = "results"
    BY <2>1, ReturnedStays DEF Closing
  <2>2. ASSUME NEW t \in Trials, Attempt(t), verdict # "results", verdict' = "results",
               ~CarryForward
        PROVE  \A u \in Trials : task'[u] = "returned"
    BY <2>2, ResultsOfGather
  <2>3. ASSUME verdict' = "results", verdict # "results" PROVE \E t \in Trials : Attempt(t)
    BY <2>3 DEF Next, System, Environment, Over, vars, Begin, BeginRow, CloseRun, CloseRow, Sweep,
                Exit, Interrupt, Crash, SourceDrift, WorkspaceEdited
  <2> QED BY <2>1, <2>2, <2>3
<1>2. (run = "completed" => \A t \in Trials : task[t] = "returned" /\ status[t] = "completed")'
  <2>1. CASE run = "completed"
    BY <2>1, ReturnedStays DEF Closing
  <2>2. CASE CloseRun
    <3> SUFFICES ASSUME RunStatus = "completed", NEW t \in Trials
                 PROVE  task'[t] = "returned" /\ status'[t] = "completed"
      BY <2>2 DEF CloseRun
    <3>1. verdict = "results" /\ Results = Trials /\ status[t] = "completed"
      BY <2>2, RunStatusIsFinal DEF CloseRun
    <3>2. task[t] = "returned"
      BY <3>1 DEF Results, Closing
    <3> QED BY <3>1, <3>2, ReturnedStays
  <2>3. ASSUME run' = "completed", run # "completed" PROVE CloseRun
    BY <2>3, AttemptLeavesRun
    DEF Next, System, Environment, Over, vars, Begin, BeginRow, CloseRow, Sweep,
        Exit, Interrupt, Crash, SourceDrift, WorkspaceEdited
  <2> QED BY <2>1, <2>2, <2>3
<1> QED BY <1>1, <1>2 DEF Closing

LEMMA IndexedStep ==
  ASSUME TypeOK, Indexed, [Next]_vars
  PROVE  Indexed'
<1> SUFFICES ASSUME NEW t \in Trials, task'[t] = "returned" PROVE "row" \in files'[t]
  BY DEF Indexed
<1>1. CASE UNCHANGED Own(t)
  BY <1>1 DEF Own, Indexed
<1>2. CASE Attempt(t)
  BY <1>2, Returns
<1> QED BY <1>1, <1>2, OwnStep

LEMMA ClosingAlways == Spec => [](Closing /\ Indexed)
<1>1. Init => Closing /\ Indexed
  BY DEF Init, Closing, Indexed
<1> QED BY <1>1, ClosingStep, IndexedStep, TypeOKInit, TypeOKStep, PTL DEF Spec

\* A run.json that says "completed" stands for a sealed, indexed and completed episode of
\* every planned trial, for good (runner.py 86-105).
THEOREM CompletedRunIsCompleteHolds == Spec => []CompletedRunIsComplete
<1>1. LifeInv /\ Closing /\ Indexed => CompletedRunIsComplete
  BY DEF LifeInv, Life, Closing, Indexed, CompletedRunIsComplete
<1> QED BY <1>1, ClosingAlways, LifeAlways, PTL

\* An attempt that a cancellation ended has its whole chain of evidence, row included, or no
\* seal: the writes from the seal to the row give the loop away nowhere (runner.py 228-287).
THEOREM CancelledIsAllOrNothingHolds == Spec => []CancelledIsAllOrNothing
<1>1. ASSUME TypeOK, LifeInv, CancelledIsAllOrNothing, [Next]_vars
      PROVE  CancelledIsAllOrNothing'
  <2> SUFFICES ASSUME NEW t \in Trials, task'[t] = "cancelled"
               PROVE  \/ "seal" \notin files'[t]
                      \/ {"outcomes", "seal", "episode", "row"} \subseteq files'[t]
    BY DEF CancelledIsAllOrNothing
  <2>1. CASE UNCHANGED Own(t)
    BY <1>1, <2>1 DEF Own, CancelledIsAllOrNothing
  <2>2. CASE IndexEpisode(t)
    <3>1. files'[t] = files[t] \cup {"row"} \/ task'[t] = "raised"
      BY <1>1, <2>2, EndStage DEF IndexEpisode, TypeOK, EvidenceType
    <3> QED BY <1>1, <2>2, <3>1 DEF IndexEpisode, LifeInv, Life
  <2>3. CASE Finalize(t) \/ CancelCapture(t) \/ CancelQueued(t)
    <3>1. "seal" \notin files[t]
      BY <1>1, <2>3 DEF Finalize, CancelCapture, CancelQueued, LifeInv, Life, Ended
    <3> QED BY <1>1, <2>3, <3>1 DEF Finalize, CancelCapture, CancelQueued, TypeOK, SchedType,
               EvidenceType
  <2>4. ASSUME Attempt(t), task[t] # "cancelled"
        PROVE  IndexEpisode(t) \/ Finalize(t) \/ CancelCapture(t) \/ CancelQueued(t)
    <3> USE DEF TypeOK, SchedType
    <3>1. ~Open(t) /\ ~MaterializeFails(t) /\ ~RecordReturns(t) /\ ~RecordRaises(t)
      BY <1>1, FinallyStage DEF Open, MaterializeFails, RecordReturns, RecordRaises
    <3>2. ~CancelMaterializing(t) /\ ~CancelRecording(t) /\ ~Materialized(t) /\ ~CaptureAdd(t)
      BY <1>1, FinallyStage DEF CancelMaterializing, CancelRecording, Materialized, CaptureAdd
    <3>3. ~CaptureDone(t) /\ ~CaptureFails(t) /\ ~Seal(t) /\ ~PublishEpisode(t)
      BY <1>1, EndStage DEF CaptureDone, CaptureFails, Seal, PublishEpisode
    <3> QED BY <2>4, <3>1, <3>2, <3>3 DEF Attempt
  <2>5. Attempt(t) => task[t] # "cancelled"
    BY DEF Attempt, Open, Turn, Materialized, MaterializeFails, RecordReturns, RecordRaises,
       CaptureAdd, CaptureDone, CaptureFails, Finalize, Seal, PublishEpisode, IndexEpisode,
       CancelQueued, CancelMaterializing, CancelRecording, CancelCapture
  <2> QED BY <1>1, <2>1, <2>2, <2>3, <2>4, <2>5, OwnStep
<1>2. Init => CancelledIsAllOrNothing
  BY DEF Init, CancelledIsAllOrNothing
<1> QED BY <1>1, <1>2, LifeAlways, PTL DEF Spec

-----------------------------------------------------------------------------
(* What an episode.json may say                                            *)

Settled(t) == outcomes[t].process \in {"completed", "failed", "timed_out"}

\* An attempt without a process outcome is being cancelled and will not get its outcomes.json;
\* cancellations arrive once, from SIGINT or from the end of asyncio.run.
Answered(t) ==
  /\ task[t] \in {"capturing", "committing"} => Settled(t) \/ cancel[t] # "no"
  /\ task[t] = "finalizing" => (Settled(t) \/ cancel[t] = "thrown") /\ (loop = t \/ pc = "dead")
  /\ task[t] \in {"outcomes", "sealed", "published"} => Settled(t)
  /\ cancel[t] # "no" => interrupted \/ pc \in {"swept", "exited", "dead"}

AnswerInv == (\A t \in Trials : Answered(t)) /\ (pc = "dead" => loop = Idle)

LEMMA AnswerInit == Init => AnswerInv
BY DEF Init, AnswerInv, Answered

\* While an attempt finalizes, no other one has the loop.
LEMMA OthersWait ==
  ASSUME AnswerInv, NEW t \in Trials, NEW u \in Trials \ {t}, Attempt(t), task[u] = "finalizing"
  PROVE  CaptureAdd(t)
<1>1. ~LoopFree /\ loop # t
  BY DEF AnswerInv, Answered, LoopFree, Trials, Idle
<1> QED BY <1>1 DEF Attempt, Open, Turn, Materialized, MaterializeFails, RecordReturns, RecordRaises,
       CaptureDone, CaptureFails, Finalize, Seal, PublishEpisode, IndexEpisode,
       CancelQueued, CancelMaterializing, CancelRecording, CancelCapture

\* What a step of one attempt does to the cancellation of another.
LEMMA CancelOfOthers ==
  ASSUME TypeOK, NEW t \in Trials, NEW u \in Trials \ {t}, Attempt(t)
  PROVE  \/ cancel'[u] = cancel[u]
         \/ cancel'[u] = "pending" /\ cancel[t] # "no"
<1> USE DEF TypeOK, SchedType
<1>1. CASE IndexEpisode(t)
  BY <1>1 DEF IndexEpisode
<1>2. CASE CancelQueued(t) \/ CancelMaterializing(t) \/ CancelRecording(t) \/ CancelCapture(t)
  BY <1>2 DEF CancelQueued, CancelMaterializing, CancelRecording, CancelCapture
<1>3. CASE Open(t) \/ Materialized(t) \/ MaterializeFails(t) \/ RecordReturns(t) \/ RecordRaises(t)
  BY <1>3 DEF Open, Materialized, MaterializeFails, RecordReturns, RecordRaises
<1>4. CASE CaptureAdd(t) \/ CaptureDone(t) \/ CaptureFails(t)
  BY <1>4 DEF CaptureAdd, CaptureDone, CaptureFails
<1>5. CASE Finalize(t) \/ Seal(t) \/ PublishEpisode(t)
  BY <1>5 DEF Finalize, Seal, PublishEpisode
<1> QED BY <1>1, <1>2, <1>3, <1>4, <1>5 DEF Attempt

LEMMA OthersAnswered ==
  ASSUME TypeOK, AnswerInv, NEW t \in Trials, NEW u \in Trials \ {t}, Attempt(t)
  PROVE  Answered(u)'
<1>1. /\ task'[u] = task[u] /\ outcomes'[u] = outcomes[u] /\ UNCHANGED <<pc, interrupted>>
      /\ Answered(u) /\ Answered(t)
  BY OthersAlone, AttemptLeavesRun DEF Own, AnswerInv
<1>2. task[u] = "finalizing" => UNCHANGED <<loop, cancel>>
  BY OthersWait DEF CaptureAdd
<1>3. cancel'[u] = cancel[u] \/ (cancel'[u] = "pending" /\ cancel[t] # "no")
  BY CancelOfOthers
<1> QED BY <1>1, <1>2, <1>3 DEF Answered, Settled

LEMMA FailSettles ==
  ASSUME TypeOK, NEW t \in Trials, NEW present, Fail(t, present)
  PROVE  Settled(t)'
BY DEF Fail, Settled, TypeOK, EvidenceType

LEMMA FinallyLoop ==
  ASSUME TypeOK, NEW t \in Trials, NEW present, Finally(t, present)
  PROVE  task'[t] = "capturing" \/ (task'[t] = "finalizing" /\ loop' = t)
BY DEF Finally, TypeOK, SchedType

LEMMA OwnAnswered ==
  ASSUME TypeOK, AnswerInv, NEW t \in Trials, Attempt(t)
  PROVE  Answered(t)'
<1> USE DEF TypeOK, SchedType, EvidenceType
<1>1. Answered(t) /\ UNCHANGED <<pc, interrupted>>
  BY AttemptLeavesRun DEF AnswerInv
<1>2. cancel'[t] # "no" => cancel[t] # "no"
  BY DEF Attempt, Open, Materialized, MaterializeFails, RecordReturns, RecordRaises, CaptureAdd,
         CaptureDone, CaptureFails, Finalize, Seal, PublishEpisode, IndexEpisode,
         CancelQueued, CancelMaterializing, CancelRecording, CancelCapture
<1>3. ASSUME task'[t] \in {"materializing", "recording"} \cup Ended PROVE Answered(t)'
  BY <1>1, <1>2, <1>3 DEF Answered, Ended
<1>4. ASSUME NEW present, Finally(t, present), Settled(t)' \/ cancel'[t] = "thrown"
      PROVE  Answered(t)'
  BY <1>1, <1>2, <1>4, FinallyLoop DEF Answered
<1>5. ASSUME task'[t] \in {"outcomes", "sealed", "published"}, Settled(t)' PROVE Answered(t)'
  BY <1>1, <1>2, <1>5 DEF Answered
<1>6. CASE Open(t)
  <2>1. CASE Finally(t, FALSE) /\ Fail(t, FALSE)
    BY <1>4, <2>1, FailSettles
  <2>2. CASE task'[t] \in {"raised", "materializing"}
    BY <1>3, <2>2 DEF Ended
  <2> QED BY <1>6, <2>1, <2>2 DEF Open
<1>7. CASE MaterializeFails(t) \/ RecordRaises(t)
  BY <1>4, <1>7, FailSettles DEF MaterializeFails, RecordRaises
<1>8. CASE RecordReturns(t)
  <2>1. PICK r \in RecordResults, present \in BOOLEAN :
          /\ outcomes' = [outcomes EXCEPT ![t].process = r.process, ![t].protocol = r.protocol,
                                          ![t].workspace = Missing(present)]
          /\ Finally(t, present)
    BY <1>8 DEF RecordReturns
  <2>2. outcomes'[t].process = r.process
    BY <2>1
  <2>3. r.process \in {"completed", "failed", "timed_out"}
    OBVIOUS
  <2> QED BY <1>4, <2>1, <2>2, <2>3 DEF Settled
<1>9. CASE CancelMaterializing(t) \/ CancelRecording(t)
  BY <1>4, <1>9 DEF CancelMaterializing, CancelRecording
<1>10. CASE Materialized(t) \/ CancelQueued(t) \/ CancelCapture(t) \/ IndexEpisode(t)
  <2>1. task'[t] \in {"recording"} \cup Ended
    BY <1>10, EndStage DEF Materialized, CancelQueued, CancelCapture, IndexEpisode, Ended
  <2> QED BY <1>3, <2>1
<1>11. CASE CaptureAdd(t)
  BY <1>1, <1>11 DEF CaptureAdd, Answered, Settled
<1>12. CASE CaptureDone(t) \/ CaptureFails(t)
  <2>1. /\ outcomes'[t].process = outcomes[t].process /\ cancel' = cancel
        /\ task'[t] = "finalizing" /\ loop' = t /\ task[t] \in {"capturing", "committing"}
        /\ cancel[t] # "pending"
    BY <1>12 DEF CaptureDone, CaptureFails
  <2> QED BY <1>1, <2>1 DEF Answered, Settled
<1>13. CASE Finalize(t) \/ Seal(t) \/ PublishEpisode(t)
  <2>1. CASE task'[t] \in Ended
    BY <1>3, <2>1
  <2>2. CASE task'[t] \in {"outcomes", "sealed", "published"}
    <3>1. Settled(t)'
      BY <1>1, <1>13, <2>2, EndStage DEF Finalize, Seal, PublishEpisode, Answered, Settled
    <3> QED BY <1>5, <2>2, <3>1
  <2> QED BY <1>13, <2>1, <2>2, EndStage DEF Finalize, Seal, PublishEpisode, Ended
<1> QED BY <1>6, <1>7, <1>8, <1>9, <1>10, <1>11, <1>12, <1>13 DEF Attempt

LEMMA AnswerStep ==
  ASSUME TypeOK, AnswerInv, [Next]_vars
  PROVE  AnswerInv'
<1> USE DEF TypeOK, SchedType
<1>1. CASE Begin \/ BeginRow \/ CloseRun \/ CloseRow \/ Exit \/ UNCHANGED vars
  BY <1>1 DEF Begin, BeginRow, CloseRun, CloseRow, Exit, vars, AnswerInv, Answered, Settled
<1>2. CASE Sweep
  BY <1>2 DEF Sweep, AnswerInv, Answered, Settled, Trials, Idle, Ended
<1>3. CASE Interrupt
  BY <1>3 DEF Interrupt, AnswerInv, Answered, Settled
<1>4. CASE Crash
  BY <1>4 DEF Crash, AnswerInv, Answered, Settled
<1>5. CASE SourceDrift \/ \E t \in Trials : WorkspaceEdited(t)
  BY <1>5 DEF SourceDrift, WorkspaceEdited, AnswerInv, Answered, Settled
<1>6. ASSUME NEW t \in Trials, Attempt(t) PROVE AnswerInv'
  <2>1. \A u \in Trials : Answered(u)'
    BY <1>6, OwnAnswered, OthersAnswered
  <2>2. pc' = pc
    BY <1>6, AttemptLeavesRun
  <2>3. pc = "dead" => CaptureAdd(t)
    <3>1. pc = "dead" => ~LoopFree /\ loop # t
      BY DEF AnswerInv, LoopFree, Trials, Idle
    <3> QED BY <1>6, <3>1 DEF Attempt, Open, Turn, Materialized, MaterializeFails, RecordReturns,
       RecordRaises, CaptureDone, CaptureFails, Finalize, Seal, PublishEpisode, IndexEpisode,
       CancelQueued, CancelMaterializing, CancelRecording, CancelCapture
  <2>4. ~(pc = "dead")
    <3>1. CaptureAdd(t) => pc # "dead"
      BY DEF CaptureAdd, Alive
    <3> QED BY <2>3, <3>1
  <2> QED BY <2>1, <2>2, <2>4 DEF AnswerInv
<1> QED BY <1>1, <1>2, <1>3, <1>4, <1>5, <1>6 DEF Next, System, Environment, Over

-----------------------------------------------------------------------------
(***************************************************************************)
(* What a child starts from.  A workspace is written by its own agent      *)
(* while that is recorded and by what the agent left behind, so without    *)
(* a leftover process the commit, the manifest and the directory are the   *)
(* same tree; and a settled attempt without manifest has a failed capture. *)
(***************************************************************************)

AfterAdd(t) == snapshot[t] = edits[t] \/ (snapshot[t] < edits[t] /\ t \in leftover)
AfterManifest(t) == manifest[t] = edits[t] \/ (manifest[t] < edits[t] /\ t \in leftover)
NoManifest(t) == manifest[t] = Unknown => outcomes[t].workspace = "failed"
Captures == {"finalizing", "outcomes", "sealed", "published"} \cup Ended

Captured(t) ==
  /\ copied[t] # Unknown => files[t] # {}
  /\ manifest[t] # Unknown => task[t] \in Captures /\ AfterManifest(t)
  /\ task[t] = "committing" => AfterAdd(t)
  /\ task[t] \in {"queued", "materializing", "recording"} => ~Settled(t)
  /\ task[t] = "finalizing" /\ Settled(t) => NoManifest(t)
  /\ task[t] \in {"outcomes", "sealed", "published", "returned"} => NoManifest(t)

Versions == ChildInheritsParent /\ \A t \in Trials : Captured(t)

LEMMA FilesStay ==
  ASSUME TypeOK, NEW t \in Trials, Attempt(t)
  PROVE  files[t] # {} => files'[t] # {}
<1> USE DEF TypeOK, EvidenceType
<1>1. CASE Open(t) \/ Finalize(t) \/ Seal(t) \/ PublishEpisode(t) \/ IndexEpisode(t)
  <2>1. PICK x \in {"attempt", "outcomes", "seal", "episode", "row"} :
          files' \in {files, [files EXCEPT ![t] = {x}], [files EXCEPT ![t] = @ \cup {x}]}
    BY <1>1 DEF Open, Finalize, Seal, PublishEpisode, IndexEpisode
  <2>2. files'[t] \in {files[t], {x}, files[t] \cup {x}}
    BY <2>1
  <2> QED BY <2>2
<1>2. CASE \/ Materialized(t) \/ MaterializeFails(t) \/ RecordReturns(t) \/ RecordRaises(t)
           \/ CancelMaterializing(t) \/ CancelRecording(t)
  BY <1>2 DEF Materialized, MaterializeFails, RecordReturns, RecordRaises, CancelMaterializing,
              CancelRecording
<1>3. CASE CaptureAdd(t) \/ CaptureDone(t) \/ CaptureFails(t) \/ CancelQueued(t) \/ CancelCapture(t)
  BY <1>3 DEF CaptureAdd, CaptureDone, CaptureFails, CancelQueued, CancelCapture
<1> QED BY <1>1, <1>2, <1>3 DEF Attempt

\* An attempt after its capture stays after it.
LEMMA AfterCapture ==
  ASSUME TypeOK, NEW t \in Trials, Attempt(t),
         task[t] \in Captures
  PROVE  task'[t] \in Captures
<1> USE DEF TypeOK, SchedType, Ended, Captures
<1>1. CASE Finalize(t) \/ Seal(t) \/ PublishEpisode(t) \/ IndexEpisode(t)
  BY <1>1, EndStage DEF Finalize, Seal, PublishEpisode, IndexEpisode
<1>2. ~Open(t) /\ ~Materialized(t) /\ ~MaterializeFails(t) /\ ~RecordReturns(t) /\ ~RecordRaises(t)
  BY DEF Open, Turn, Materialized, MaterializeFails, RecordReturns, RecordRaises
<1>3. ~CaptureAdd(t) /\ ~CaptureDone(t) /\ ~CaptureFails(t) /\ ~CancelCapture(t)
  BY DEF CaptureAdd, CaptureDone, CaptureFails, CancelCapture
<1>4. ~CancelQueued(t) /\ ~CancelMaterializing(t) /\ ~CancelRecording(t)
  BY DEF CancelQueued, CancelMaterializing, CancelRecording
<1> QED BY <1>1, <1>2, <1>3, <1>4 DEF Attempt

\* Who changes what is known of a workspace.
SpacesOf(u) ==
  /\ leftover \subseteq leftover'
  /\ manifest'[u] = manifest[u] \/ (CaptureDone(u) /\ manifest'[u] = edits[u])
  /\ snapshot'[u] = snapshot[u] \/ (CaptureAdd(u) /\ snapshot'[u] = edits[u])
  /\ copied'[u] = copied[u] \/ (Materialized(u) /\ copied'[u] = SourceVersion(u))
  /\ \/ edits'[u] = edits[u]
     \/ /\ edits'[u] = edits[u] + 1 /\ (task[u] = "recording" \/ u \in leftover)
        /\ UNCHANGED <<task, outcomes, files, copied, snapshot, manifest>>

LEMMA SpacesStep ==
  ASSUME TypeOK, [Next]_vars, NEW u \in Trials
  PROVE  SpacesOf(u)
<1> USE DEF TypeOK, SpaceType
<1>1. CASE UNCHANGED spaces
  BY <1>1 DEF SpacesOf, spaces
<1>2. CASE Begin \/ BeginRow \/ CloseRun \/ CloseRow \/ Sweep \/ Exit
  BY <1>1, <1>2 DEF Begin, BeginRow, CloseRun, CloseRow, Sweep, Exit
<1>3. CASE UNCHANGED vars \/ Interrupt \/ Crash \/ SourceDrift
  BY <1>1, <1>3 DEF vars, Interrupt, Crash, SourceDrift, spaces, SpacesOf
<1>4. CASE \E t \in Trials : WorkspaceEdited(t)
  BY <1>4 DEF WorkspaceEdited, SpacesOf, sched, disk
<1>5. ASSUME NEW t \in Trials, Attempt(t) PROVE SpacesOf(u)
  <2>1. CASE Materialized(t)
    BY <2>1 DEF Materialized, SpacesOf
  <2>2. CASE CaptureAdd(t)
    BY <2>2 DEF CaptureAdd, SpacesOf
  <2>3. CASE CaptureDone(t)
    BY <2>3 DEF CaptureDone, SpacesOf
  <2>4. CASE RecordReturns(t) \/ RecordRaises(t) \/ CancelRecording(t)
    BY <2>4 DEF RecordReturns, RecordRaises, CancelRecording, MayLeave, SpacesOf
  <2>5. CASE Open(t) \/ MaterializeFails(t) \/ CaptureFails(t) \/ Finalize(t) \/ Seal(t)
    BY <1>1, <2>5 DEF Open, MaterializeFails, CaptureFails, Finalize, Seal
  <2>6. CASE \/ PublishEpisode(t) \/ IndexEpisode(t) \/ CancelQueued(t) \/ CancelMaterializing(t)
             \/ CancelCapture(t)
    BY <1>1, <2>6 DEF PublishEpisode, IndexEpisode, CancelQueued, CancelMaterializing, CancelCapture
  <2> QED BY <1>5, <2>1, <2>2, <2>3, <2>4, <2>5, <2>6 DEF Attempt
<1> QED BY <1>2, <1>3, <1>4, <1>5 DEF Next, System, Environment, Over

\* What an attempt's own step makes of its stage and of its workspace outcome.
LEMMA StageAfter ==
  ASSUME TypeOK, AnswerInv, NEW t \in Trials, Attempt(t), Captured(t)
  PROVE  /\ task'[t] = "committing" => CaptureAdd(t)
         /\ task'[t] \in {"queued", "materializing", "recording"} => ~Settled(t)'
         /\ task'[t] = "finalizing" /\ Settled(t)' =>
              outcomes'[t].workspace = "failed" \/ CaptureDone(t)
         /\ task'[t] \in {"outcomes", "sealed", "published", "returned"} =>
              /\ outcomes'[t] = outcomes[t]
              /\ \/ task[t] = "finalizing" /\ Settled(t)
                 \/ task[t] \in {"outcomes", "sealed", "published"}
<1> USE DEF TypeOK, SchedType, EvidenceType
<1>1. CASE Open(t)
  <2>1. task[t] = "queued"
    BY <1>1 DEF Open, Turn
  <2>2. CASE Finally(t, FALSE) /\ Fail(t, FALSE)
    BY <2>2, FinallyStage DEF Fail, Missing
  <2>3. CASE task'[t] = "raised"
    BY <2>3
  <2>4. CASE task'[t] = "materializing" /\ UNCHANGED outcomes
    BY <2>1, <2>4 DEF Captured, Settled
  <2> QED BY <1>1, <2>2, <2>3, <2>4 DEF Open
<1>2. CASE MaterializeFails(t) \/ RecordRaises(t)
  <2>1. PICK present \in BOOLEAN : Finally(t, present) /\ Fail(t, present)
    BY <1>2 DEF MaterializeFails, RecordRaises
  <2>2. task'[t] = IF present THEN "capturing" ELSE "finalizing"
    BY <2>1 DEF Finally
  <2>3. outcomes'[t].workspace = Missing(present)
    BY <2>1 DEF Fail
  <2> QED BY <2>2, <2>3 DEF Missing
<1>3. CASE RecordReturns(t)
  <2>1. PICK r \in RecordResults, present \in BOOLEAN :
          /\ outcomes' = [outcomes EXCEPT ![t].process = r.process, ![t].protocol = r.protocol,
                                          ![t].workspace = Missing(present)]
          /\ Finally(t, present)
    BY <1>3 DEF RecordReturns
  <2>2. task'[t] = IF present THEN "capturing" ELSE "finalizing"
    BY <2>1 DEF Finally
  <2>3. outcomes'[t].workspace = Missing(present)
    BY <2>1
  <2> QED BY <2>2, <2>3 DEF Missing
<1>4. CASE CancelMaterializing(t) \/ CancelRecording(t)
  <2>1. task'[t] \in {"capturing", "finalizing"} /\ UNCHANGED outcomes
    BY <1>4, FinallyStage DEF CancelMaterializing, CancelRecording
  <2>2. ~Settled(t)
    BY <1>4 DEF CancelMaterializing, CancelRecording, Captured
  <2> QED BY <2>1, <2>2 DEF Settled
<1>5. CASE Materialized(t)
  BY <1>5 DEF Materialized, Captured, Settled
<1>6. CASE CaptureAdd(t) \/ CaptureDone(t) \/ CaptureFails(t)
  BY <1>6 DEF CaptureAdd, CaptureDone, CaptureFails
<1>7. CASE Finalize(t)
  <2>1. Settled(t) \/ cancel[t] = "thrown"
    BY <1>7 DEF Finalize, AnswerInv, Answered
  <2>2. task'[t] \in {"raised", "cancelled", "outcomes"} /\ UNCHANGED outcomes /\ task[t] = "finalizing"
    BY <1>7, EndStage DEF Finalize
  <2>3. task'[t] = "outcomes" => cancel[t] # "thrown"
    BY <1>7, EndStage DEF Finalize
  <2> QED BY <2>1, <2>2, <2>3
<1>8. CASE Seal(t) \/ PublishEpisode(t) \/ IndexEpisode(t)
  <2>1. task'[t] \in {"sealed", "published", "returned"} \cup Ended /\ UNCHANGED outcomes
    BY <1>8, EndStage DEF Seal, PublishEpisode, IndexEpisode, Ended
  <2>2. task[t] \in {"outcomes", "sealed", "published"}
    BY <1>8 DEF Seal, PublishEpisode, IndexEpisode
  <2> QED BY <2>1, <2>2 DEF Ended
<1>9. CASE CancelQueued(t) \/ CancelCapture(t)
  <2>1. task'[t] = "cancelled"
    BY <1>9, EndStage DEF CancelQueued, CancelCapture
  <2> QED BY <2>1
<1> QED BY <1>1, <1>2, <1>3, <1>4, <1>5, <1>6, <1>7, <1>8, <1>9 DEF Attempt

LEMMA CapturedStep ==
  ASSUME TypeOK, LifeInv, AnswerInv, [Next]_vars, NEW t \in Trials, Captured(t)
  PROVE  Captured(t)'
<1> USE DEF TypeOK, SpaceType
<1>1. SpacesOf(t)
  BY SpacesStep
<1>2. CASE edits'[t] # edits[t]
  <2>1. /\ edits'[t] = edits[t] + 1 /\ (task[t] = "recording" \/ t \in leftover)
        /\ UNCHANGED <<task, outcomes, files, copied, snapshot, manifest>>
        /\ leftover \subseteq leftover'
    BY <1>1, <1>2 DEF SpacesOf
  <2>2. manifest[t] # Unknown => t \in leftover
    BY <2>1 DEF Captured, Captures, Ended
  <2>3. task[t] = "committing" => t \in leftover
    BY <2>1
  <2>4. manifest[t] # Unknown => AfterManifest(t)'
    BY <2>1, <2>2 DEF Captured, AfterManifest
  <2>5. task[t] = "committing" => AfterAdd(t)'
    BY <2>1, <2>3 DEF Captured, AfterAdd
  <2> QED BY <2>1, <2>4, <2>5 DEF Captured, Settled, NoManifest
<1>3. CASE edits'[t] = edits[t] /\ ~Attempt(t)
  <2>1. UNCHANGED <<task[t], outcomes[t], files[t]>>
    BY <1>3, OwnStep DEF Own
  <2>2. UNCHANGED <<copied[t], snapshot[t], manifest[t], edits[t]>> /\ leftover \subseteq leftover'
    BY <1>1, <1>3 DEF SpacesOf, Attempt
  <2> QED BY <2>1, <2>2 DEF Captured, Settled, NoManifest, AfterManifest, AfterAdd
<1>4. CASE edits'[t] = edits[t] /\ Attempt(t)
  <2>1. copied'[t] # Unknown => files'[t] # {}
    <3>1. Materialized(t) => files[t] # {}
      BY DEF Materialized, LifeInv, Life, InFlight
    <3> QED BY <1>1, <1>4, <3>1, FilesStay DEF SpacesOf, Captured
  <2>2. manifest'[t] # Unknown => task'[t] \in Captures
    <3>1. CaptureDone(t) => task'[t] = "finalizing"
      BY DEF CaptureDone, SchedType
    <3>2. task[t] \in Captures => task'[t] \in Captures
      BY <1>4, AfterCapture
    <3> QED BY <1>1, <3>1, <3>2 DEF SpacesOf, Captured, Captures
  <2>3. manifest'[t] # Unknown => AfterManifest(t)'
    BY <1>1, <1>4 DEF SpacesOf, Captured, AfterManifest
  <2>4. task'[t] = "committing" => AfterAdd(t)'
    <3>1. CaptureAdd(t) => snapshot'[t] = edits[t]
      BY DEF CaptureAdd
    <3> QED BY <1>4, <3>1, StageAfter DEF AfterAdd
  <2>5. task'[t] \in {"queued", "materializing", "recording"} => ~Settled(t)'
    BY <1>4, StageAfter
  <2>6. CaptureDone(t) => manifest'[t] # Unknown
    BY DEF CaptureDone, Unknown
  <2>7. task'[t] = "finalizing" /\ Settled(t)' => NoManifest(t)'
    BY <1>4, <2>6, StageAfter DEF NoManifest
  <2>8. task'[t] \in {"outcomes", "sealed", "published", "returned"} => NoManifest(t)'
    <3>1. task[t] \in {"finalizing", "outcomes", "sealed", "published"} => manifest'[t] = manifest[t]
      BY <1>1 DEF SpacesOf, CaptureDone
    <3> QED BY <1>4, <3>1, StageAfter DEF NoManifest, Captured
  <2> QED BY <2>1, <2>2, <2>3, <2>4, <2>5, <2>7, <2>8 DEF Captured
<1> QED BY <1>2, <1>3, <1>4

LEMMA InheritanceStep ==
  ASSUME TypeOK, LifeInv, LineageInv, Versions, [Next]_vars
  PROVE  ChildInheritsParent'
<1> USE DEF TypeOK, SpaceType
<1>1. ASSUME CarryForward, NEW t \in 2..NTrials, copied'[t] # Unknown
      PROVE  \/ copied'[t] = manifest'[t - 1]
             \/ manifest'[t - 1] # Unknown /\ copied'[t] > manifest'[t - 1] /\ t - 1 \in leftover'
             \/ manifest'[t - 1] = Unknown /\ outcomes'[t - 1].workspace = "failed"
  <2>1. t \in Trials /\ t - 1 \in Trials /\ t - 1 \in 1..(t - 1) /\ t > 1
    BY DEF Trials
  <2>2. SpacesOf(t) /\ SpacesOf(t - 1) /\ Captured(t) /\ Captured(t - 1)
    BY <2>1, SpacesStep DEF Versions
  <2>3. files[t] # {}
    <3>1. Materialized(t) => files[t] # {}
      BY <2>1 DEF Materialized, LifeInv, Life, InFlight
    <3> QED BY <1>1, <2>2, <3>1 DEF SpacesOf, Captured
  <2>4. task[t - 1] = "returned"
    BY <1>1, <2>1, <2>3 DEF LineageInv
  <2>5. outcomes'[t - 1] = outcomes[t - 1]
    BY <2>1, <2>4, ReturnedRests, OwnStep DEF Own
  <2>6. manifest'[t - 1] = manifest[t - 1] /\ leftover \subseteq leftover'
    BY <2>2, <2>4 DEF SpacesOf, CaptureDone
  <2>7. CASE copied'[t] = copied[t]
    BY <1>1, <2>5, <2>6, <2>7 DEF Versions, ChildInheritsParent
  <2>8. CASE Materialized(t) /\ copied'[t] = SourceVersion(t)
    <3>1. copied'[t] = edits[t - 1]
      BY <1>1, <2>1, <2>8 DEF SourceVersion
    <3>2. manifest[t - 1] # Unknown => AfterManifest(t - 1)
      BY <2>2 DEF Captured
    <3>3. manifest[t - 1] = Unknown => outcomes[t - 1].workspace = "failed"
      BY <2>2, <2>4 DEF Captured, NoManifest
    <3> QED BY <2>1, <2>5, <2>6, <3>1, <3>2, <3>3 DEF AfterManifest
  <2> QED BY <2>2, <2>7, <2>8 DEF SpacesOf
<1>2. ASSUME NEW t \in Trials, manifest'[t] # Unknown
      PROVE  \/ manifest'[t] = snapshot'[t]
             \/ manifest'[t] > snapshot'[t] /\ t \in leftover'
  <2>1. SpacesOf(t) /\ Captured(t)
    BY SpacesStep DEF Versions
  <2>2. CASE manifest'[t] = manifest[t]
    <3>1. snapshot'[t] = snapshot[t]
      BY <1>2, <2>1, <2>2 DEF SpacesOf, CaptureAdd, Captured, Captures, Ended
    <3> QED BY <1>2, <2>1, <2>2, <3>1 DEF SpacesOf, Versions, ChildInheritsParent
  <2>3. CASE CaptureDone(t) /\ manifest'[t] = edits[t]
    <3>1. task[t] = "committing" /\ snapshot'[t] = snapshot[t]
      BY <2>3 DEF CaptureDone
    <3> QED BY <2>1, <2>3, <3>1 DEF SpacesOf, Captured, AfterAdd
  <2> QED BY <2>1, <2>2, <2>3 DEF SpacesOf
<1> QED BY <1>1, <1>2 DEF ChildInheritsParent

LEMMA VersionsStep ==
  ASSUME TypeOK, LifeInv, LineageInv, AnswerInv, Versions, [Next]_vars
  PROVE  Versions'
BY InheritanceStep, CapturedStep DEF Versions

\* For lineages of any length: a child starts from exactly the tree its parent was sealed with,
\* and that is the tree that was committed, unless the parent left a process running or its
\* capture failed (runner.py 76, backend.py 145-219).
THEOREM ChildInheritsParentHolds == Spec => []ChildInheritsParent
<1>1. Init => Versions /\ LineageInv
  BY DEF Init, Versions, ChildInheritsParent, Captured, LineageInv, Trials, Unknown, Settled, NoOutcomes
<1>2. Versions => ChildInheritsParent
  BY DEF Versions
<1> QED BY <1>1, <1>2, VersionsStep, LineageStep, LifeAlways, AnswerInit, AnswerStep, PTL DEF Spec

-----------------------------------------------------------------------------
(***************************************************************************)
(* Nobody waits for ever.  The loop is held by the one trial that writes;  *)
(* a run that has no verdict has seen only good ends and lacks one more;   *)
(* and who is still queued when asyncio.run sweeps has been cancelled.     *)
(* Without a trial in flight all permits are back, and the first in the    *)
(* queue can start or be cancelled.                                        *)
(***************************************************************************)

Holder ==
  /\ loop # Idle => loop \in Trials /\ task[loop] \in Writing
  /\ \A t \in Trials : task[t] \in Writing => loop = t \/ pc = "dead"

Waiting ==
  ~CarryForward => \A t \in Trials : task[t] = "queued" =>
    cancel[t] # "thrown" /\ (pc = "swept" => cancel[t] = "pending")

Hopeful ==
  verdict = "pending" =>
    /\ \A t \in Trials : task[t] \in Ended =>
         task[t] = "returned" /\ (CarryForward => status[t] = "completed")
    /\ CarryForward => task[NTrials] \notin Ended
    /\ \E t \in Trials : task[t] \notin Ended

Final == {"completed", "failed", "cancelled"}
Unopened == runRow = "none" /\ \A t \in Trials : task[t] = "queued"
Closed ==
  /\ pc \in {"begin", "begun"} => Unopened
  /\ pc \in {"closing", "returned", "swept"} => run \in Final
  /\ pc = "exited" =>
       /\ \A t \in Trials : task[t] \notin InFlight
       /\ run \in Final \/ (run = "running" /\ Unopened)

LEMMA DeadRests ==
  ASSUME AnswerInv, NEW t \in Trials, Attempt(t)
  PROVE  pc # "dead"
<1>1. pc = "dead" => ~LoopFree /\ loop # t /\ ~Alive
  BY DEF AnswerInv, LoopFree, Alive, Trials, Idle
<1> QED BY <1>1 DEF Attempt, Open, Turn, Materialized, MaterializeFails, RecordReturns,
       RecordRaises, CaptureAdd, CaptureDone, CaptureFails, Finalize, Seal, PublishEpisode,
       IndexEpisode, CancelQueued, CancelMaterializing, CancelRecording, CancelCapture

(* A step of a trial begins and ends with the loop free or its own, but    *)
(* for the worker thread that captures.                                    *)
LEMMA HolderMoves ==
  ASSUME TypeOK, NEW t \in Trials, Attempt(t)
  PROVE  \/ /\ loop \in {t, Idle}
            /\ \/ loop' = t /\ task'[t] \in Writing
               \/ loop' = Idle /\ task'[t] \notin Writing
         \/ CaptureAdd(t)
<1> USE DEF Writing
<1>1. ASSUME NEW present, Finally(t, present), LoopFree
      PROVE  /\ loop = Idle
             /\ \/ loop' = t /\ task'[t] \in Writing
                \/ loop' = Idle /\ task'[t] \notin Writing
  BY <1>1 DEF Finally, LoopFree, TypeOK, SchedType
<1>2. CASE Open(t)
  <2>1. LoopFree
    BY <1>2 DEF Open, Turn
  <2>2. CASE Finally(t, FALSE)
    BY <1>1, <2>1, <2>2
  <2>3. CASE task' \in {[task EXCEPT ![t] = "raised"], [task EXCEPT ![t] = "materializing"]} /\ UNCHANGED loop
    BY <2>1, <2>3 DEF LoopFree, TypeOK, SchedType
  <2> QED BY <1>2, <2>2, <2>3 DEF Open
<1>3. CASE MaterializeFails(t) \/ RecordReturns(t) \/ RecordRaises(t)
  BY <1>1, <1>3 DEF MaterializeFails, RecordReturns, RecordRaises
<1>4. CASE CancelMaterializing(t) \/ CancelRecording(t)
  BY <1>1, <1>4 DEF CancelMaterializing, CancelRecording
<1>5. CASE Materialized(t) \/ CaptureDone(t) \/ CaptureFails(t) \/ CancelQueued(t)
  BY <1>5 DEF Materialized, CaptureDone, CaptureFails, CancelQueued, LoopFree, TypeOK, SchedType
<1>6. ASSUME NEW how \in Ended, End(t, how) PROVE loop' = Idle /\ task'[t] \notin Writing
  BY <1>6, EndStage DEF End, Ended
<1>7. CASE Finalize(t) \/ Seal(t)
  BY <1>6, <1>7 DEF Finalize, Seal, Ended, TypeOK, SchedType
<1>8. CASE IndexEpisode(t) \/ CancelCapture(t)
  BY <1>6, <1>8 DEF IndexEpisode, CancelCapture, LoopFree, Ended
<1>9. CASE PublishEpisode(t)
  BY <1>9 DEF PublishEpisode, TypeOK, SchedType
<1> QED BY <1>2, <1>3, <1>4, <1>5, <1>7, <1>8, <1>9 DEF Attempt

LEMMA HolderStep ==
  ASSUME TypeOK, AnswerInv, Holder, [Next]_vars
  PROVE  Holder'
<1>1. ASSUME NEW t \in Trials, Attempt(t) PROVE Holder'
  <2>1. pc # "dead" /\ pc' = pc
    BY <1>1, DeadRests, AttemptLeavesRun
  <2>2. \A u \in Trials \ {t} : task'[u] = task[u]
    BY <1>1, OthersAlone DEF Own
  <2>3. t # Idle
    BY DEF Trials, Idle
  <2>4. CASE CaptureAdd(t)
    <3>1. loop' = loop /\ task[t] \notin Writing /\ task'[t] \notin Writing
      BY <2>4 DEF CaptureAdd, Writing, TypeOK, SchedType
    <3> QED BY <2>1, <2>2, <3>1 DEF Holder
  <2>5. CASE /\ loop \in {t, Idle}
             /\ \/ loop' = t /\ task'[t] \in Writing
                \/ loop' = Idle /\ task'[t] \notin Writing
    <3>1. \A u \in Trials \ {t} : task'[u] \notin Writing
      BY <2>1, <2>2, <2>3, <2>5 DEF Holder, Trials, Idle
    <3> QED BY <2>1, <2>3, <2>5, <3>1 DEF Holder
  <2> QED BY <1>1, <2>4, <2>5, HolderMoves
<1>2. CASE Begin \/ BeginRow \/ CloseRun \/ CloseRow \/ Sweep \/ Exit
  <2>1. pc # "dead" /\ UNCHANGED <<task, loop>>
    BY <1>2 DEF Begin, BeginRow, CloseRun, CloseRow, Sweep, Exit
  <2> QED BY <2>1 DEF Holder
<1>3. CASE Crash
  BY <1>3 DEF Crash, Holder
<1>4. CASE Interrupt \/ SourceDrift \/ \E t \in Trials : WorkspaceEdited(t)
  BY <1>4 DEF Interrupt, SourceDrift, WorkspaceEdited, Holder
<1>5. CASE UNCHANGED vars
  BY <1>5 DEF vars, Holder
<1> QED BY <1>1, <1>2, <1>3, <1>4, <1>5 DEF Next, System, Environment, Over

LEMMA WaitingStep ==
  ASSUME TypeOK, Waiting, [Next]_vars
  PROVE  Waiting'
<1> USE DEF TypeOK, SchedType
<1>1. ASSUME NEW t \in Trials, Open(t) \/ CancelQueued(t) PROVE Waiting'
  <2>1. pc' = pc /\ \A u \in Trials \ {t} : task'[u] = task[u] /\ cancel'[u] = cancel[u]
    BY <1>1, AttemptLeavesRun, OthersAlone DEF Attempt, Own, Open, CancelQueued
  <2>2. task'[t] # "queued"
    <3>1. CASE Finally(t, FALSE)
      BY <3>1, FinallyLoop
    <3> QED BY <1>1, <3>1 DEF Open, CancelQueued
  <2> QED BY <2>1, <2>2 DEF Waiting
<1>2. ASSUME NEW t \in Trials, Attempt(t), ~Open(t), ~CancelQueued(t) PROVE Waiting'
  BY <1>2, AttemptQueue, AttemptLeavesRun DEF QueueRests, WaitersKeep, Waiting
<1>3. CASE Begin \/ BeginRow \/ CloseRun \/ CloseRow \/ Exit
  BY <1>3 DEF Begin, BeginRow, CloseRun, CloseRow, Exit, Waiting
<1>4. CASE Sweep
  BY <1>4 DEF Sweep, Waiting, Ended
<1>5. CASE Interrupt
  BY <1>5 DEF Interrupt, Waiting
<1>6. CASE Crash \/ SourceDrift \/ \E t \in Trials : WorkspaceEdited(t)
  BY <1>6 DEF Crash, SourceDrift, WorkspaceEdited, Waiting
<1>7. CASE UNCHANGED vars
  BY <1>7 DEF vars, Waiting
<1> QED BY <1>1, <1>2, <1>3, <1>4, <1>5, <1>6, <1>7 DEF Next, System, Environment, Over

(* A trial that leaves the run without a verdict goes on, or has returned  *)
(* and is not the last that was waited for.                                *)
LastOne(t) == IF CarryForward THEN t = NTrials \/ status[t] # "completed"
              ELSE \A u \in Others(t) : task[u] = "returned"

LEMMA HopeMoves ==
  ASSUME TypeOK, NEW t \in Trials, Attempt(t), verdict' = "pending"
  PROVE  /\ verdict = "pending"
         /\ task'[t] \in Ended =>
              task'[t] = "returned" /\ status'[t] = status[t] /\ ~LastOne(t)
<1>1. ASSUME NEW how, NEW st, VerdictAfter(t, how, st) = "pending"
      PROVE  /\ verdict = "pending" /\ how \notin {"raised", "cancelled"}
             /\ st = status[t] => ~LastOne(t)
  BY <1>1 DEF VerdictAfter, LastOne
<1>2. ASSUME NEW how \in Ended, End(t, how)
      PROVE  verdict = "pending" /\ how = "returned" /\ task'[t] = "returned" /\ ~LastOne(t)
  <2>1. VerdictAfter(t, how, status[t]) = "pending"
    BY <1>2 DEF End
  <2> QED BY <1>1, <1>2, <2>1, EndStage DEF Ended
<1>3. CASE Open(t)
  <2>1. CASE verdict' = VerdictAfter(t, "raised", status[t])
    BY <1>1, <2>1
  <2>2. CASE Finally(t, FALSE) /\ UNCHANGED verdict
    BY <2>2, FinallyLoop DEF Ended
  <2>3. CASE task' = [task EXCEPT ![t] = "materializing"] /\ UNCHANGED verdict
    BY <2>3 DEF Ended, TypeOK, SchedType
  <2> QED BY <1>3, <2>1, <2>2, <2>3 DEF Open
<1>4. CASE MaterializeFails(t) \/ RecordReturns(t) \/ RecordRaises(t)
  BY <1>4, FinallyLoop DEF MaterializeFails, RecordReturns, RecordRaises, Ended
<1>5. CASE CancelMaterializing(t) \/ CancelRecording(t)
  BY <1>5, FinallyLoop DEF CancelMaterializing, CancelRecording, Ended
<1>6. CASE Materialized(t) \/ CaptureAdd(t) \/ CaptureDone(t) \/ CaptureFails(t) \/ PublishEpisode(t)
  BY <1>6 DEF Materialized, CaptureAdd, CaptureDone, CaptureFails, PublishEpisode, Ended, TypeOK,
              SchedType
<1>7. CASE Finalize(t)
  BY <1>2, <1>7 DEF Finalize, Ended, TypeOK, SchedType
<1>8. CASE Seal(t)
  BY <1>2, <1>8 DEF Seal, Ended, TypeOK, SchedType
<1>9. CASE CancelQueued(t)
  BY <1>1, <1>9 DEF CancelQueued
<1>10. CASE CancelCapture(t)
  BY <1>2, <1>10 DEF CancelCapture, Ended
<1>11. CASE IndexEpisode(t)
  <2>1. PICK how \in Ended : End(t, how)
    BY <1>11 DEF IndexEpisode, Ended
  <2>2. status' = status
    BY <1>11 DEF IndexEpisode
  <2> QED BY <1>2, <2>1, <2>2
<1> QED BY <1>3, <1>4, <1>5, <1>6, <1>7, <1>8, <1>9, <1>10, <1>11 DEF Attempt

LEMMA HopefulStep ==
  ASSUME TypeOK, Hopeful, [Next]_vars
  PROVE  Hopeful'
<1>1. ASSUME NEW t \in Trials, Attempt(t) PROVE Hopeful'
  <2> SUFFICES ASSUME verdict' = "pending" PROVE Hopeful'
    BY DEF Hopeful
  <2>1. \A u \in Trials \ {t} : task'[u] = task[u] /\ status'[u] = status[u]
    BY <1>1, OthersAlone DEF Own
  <2>2. /\ verdict = "pending"
        /\ task'[t] \in Ended =>
              task'[t] = "returned" /\ status'[t] = status[t] /\ ~LastOne(t)
    BY <1>1, HopeMoves
  <2>3. NTrials \in Trials
    BY DEF Trials
  <2>4. \A u \in Trials : task'[u] \in Ended =>
          task'[u] = "returned" /\ (CarryForward => status'[u] = "completed")
    BY <2>1, <2>2 DEF Hopeful, LastOne
  <2>5. CarryForward => task'[NTrials] \notin Ended
    BY <2>1, <2>2, <2>3 DEF Hopeful, LastOne
  <2>6. \E u \in Trials : task'[u] \notin Ended
    <3>1. CASE task'[t] \notin Ended
      BY <3>1
    <3>2. CASE CarryForward
      BY <2>3, <2>5, <3>2
    <3>3. CASE task'[t] \in Ended /\ ~CarryForward
      <4>1. PICK u \in Others(t) : task[u] # "returned"
        BY <2>2, <3>3 DEF LastOne
      <4> QED BY <2>1, <2>2, <4>1 DEF Hopeful, Others
    <3> QED BY <3>1, <3>2, <3>3
  <2> QED BY <2>4, <2>5, <2>6 DEF Hopeful
<1>2. CASE Begin \/ BeginRow \/ CloseRun \/ CloseRow \/ Sweep \/ Exit
  BY <1>2 DEF Begin, BeginRow, CloseRun, CloseRow, Sweep, Exit, Hopeful
<1>3. CASE Environment
  BY <1>3 DEF Environment, Interrupt, Crash, SourceDrift, WorkspaceEdited, Hopeful
<1>4. CASE UNCHANGED vars
  BY <1>4 DEF vars, Hopeful
<1> QED BY <1>1, <1>2, <1>3, <1>4 DEF Next, System, Over

LEMMA ClosedStep ==
  ASSUME TypeOK, AnswerInv, Holder, RunFile, Closed, [Next]_vars
  PROVE  Closed'
<1> USE DEF Closed, Unopened, Final
<1>1. ASSUME NEW t \in Trials, Attempt(t) PROVE Closed'
  <2>1. UNCHANGED <<pc, run, runRow>>
    BY <1>1, AttemptLeavesRun
  <2>2. pc \notin {"begin", "begun", "exited"}
    <3> SUFFICES ASSUME pc \in {"begin", "begun", "exited"} PROVE FALSE
      OBVIOUS
    <3>1. ~LoopFree /\ task[t] \notin InFlight
      BY DEF LoopFree, InFlight
    <3> QED BY <1>1, <3>1 DEF Attempt, Open, Turn, Materialized, MaterializeFails, RecordReturns,
       RecordRaises, CaptureAdd, CaptureDone, CaptureFails, Finalize, Seal, PublishEpisode,
       IndexEpisode, CancelQueued, CancelMaterializing, CancelRecording, CancelCapture, InFlight
  <2> QED BY <2>1, <2>2
<1>2. CASE Begin \/ BeginRow
  BY <1>2 DEF Begin, BeginRow, RunFile, InFlight
<1>3. CASE CloseRun
  BY <1>3, RunStatusIsFinal DEF CloseRun
<1>4. CASE CloseRow \/ Sweep
  BY <1>4 DEF CloseRow, Sweep
<1>5. CASE Exit
  BY <1>5 DEF Exit, Ended, InFlight
<1>6. CASE Environment
  BY <1>6 DEF Environment, Interrupt, Crash, SourceDrift, WorkspaceEdited
<1>7. CASE UNCHANGED vars
  BY <1>7 DEF vars
<1> QED BY <1>1, <1>2, <1>3, <1>4, <1>5, <1>6, <1>7 DEF Next, System, Over

LEMMA InitMoves == Init => Holder /\ Waiting /\ Hopeful /\ Closed
<1> SUFFICES ASSUME Init PROVE Holder /\ Waiting /\ Hopeful /\ Closed
  OBVIOUS
<1>1. NTrials \in Trials
  BY DEF Trials
<1> QED BY <1>1 DEF Init, Holder, Waiting, Hopeful, Closed, Unopened, Writing, Ended

-----------------------------------------------------------------------------
LEMMA AllPermitsAreBack ==
  ASSUME PermitInv, \A t \in Trials : task[t] \notin InFlight
  PROVE  permits = Concurrency
<1>1. In(InFlight) = {}
  BY DEF In
<1> QED BY <1>1, FS_EmptySet DEF PermitInv

LEMMA FirstInQueue ==
  ASSUME TypeOK, DispatchInv, NEW t \in Trials, Startable(t)
  PROVE  \E n \in Trials : Startable(n) /\ \A u \in 1..(n - 1) : task[u] # "queued"
<1>1. \A u \in Trials : task[u] = "queued" <=> u > dispatchCount
  BY DEF DispatchInv, DispatchOrder
<1>2. dispatchCount \in Nat /\ t > dispatchCount
  BY <1>1 DEF Startable, TypeOK, SchedType
<1>3. PICK n \in Trials : n = dispatchCount + 1
  BY <1>2 DEF Trials
<1>4. task[n] = "queued" /\ \A u \in 1..(n - 1) : u \in Trials /\ task[u] # "queued"
  BY <1>1, <1>2, <1>3 DEF Trials
<1>5. Startable(n)
  BY <1>4 DEF Startable, DispatchInv, SameFate
<1> QED BY <1>4, <1>5

LEMMA SomebodyCanMove ==
  ASSUME TypeOK, PermitInv, DispatchInv, Holder, Waiting, Hopeful
  PROVE  NeverStuck
<1> SUFFICES ASSUME pc \notin {"exited", "dead"}, ~RunReady
             PROVE  \E t \in Trials : AttemptReady(t)
  BY DEF NeverStuck
<1>1. pc \in {"await", "returned", "swept"}
  BY DEF RunReady, TypeOK, EngineType
<1>2. CASE loop # Idle
  BY <1>2 DEF Holder, AttemptReady
<1>3. CASE loop = Idle
  <2>1. LoopFree /\ pc # "returned"
    BY <1>1, <1>3 DEF LoopFree, RunReady
  <2>2. ASSUME NEW t \in Trials, task[t] \in InFlight PROVE AttemptReady(t)
    <3>1. task[t] \notin Writing
      BY <1>3 DEF Holder, Trials, Idle
    <3> QED BY <2>1, <2>2, <3>1 DEF AttemptReady
  <2>3. CASE \A t \in Trials : task[t] \notin InFlight
    <3>1. permits > 0
      BY <2>3, AllPermitsAreBack
    <3>2. \A t \in Trials : task[t] \in Ended \/ task[t] = "queued"
      BY <2>3 DEF TypeOK, SchedType
    <3>3. CASE pc = "swept"
      <4>1. PICK t \in Trials : task[t] \notin Ended /\ ~(CarryForward /\ task[t] = "queued")
        BY <3>3 DEF RunReady
      <4> QED BY <2>1, <3>2, <3>3, <4>1 DEF Waiting, AttemptReady
    <3>4. CASE pc = "await"
      <4>1. verdict = "pending"
        BY <1>3, <3>4 DEF RunReady
      <4>2. PICK t \in Trials : task[t] = "queued"
        BY <3>2, <4>1 DEF Hopeful
      <4>3. CASE ~Startable(t)
        BY <2>1, <4>2, <4>3 DEF Startable, Waiting, AttemptReady, TypeOK, SchedType
      <4>4. CASE Startable(t)
        <5>1. PICK n \in Trials : Startable(n) /\ \A u \in 1..(n - 1) : task[u] # "queued"
          BY <4>4, FirstInQueue
        <5>2. \A u \in 1..(n - 1) : u \in Trials
          BY DEF Trials
        <5>3. CarryForward =>
                \A u \in 1..(n - 1) : task[u] = "returned" /\ status[u] = "completed"
          BY <3>2, <4>1, <5>1, <5>2 DEF Hopeful
        <5>4. Turn(n)
          BY <2>1, <3>1, <4>1, <5>1, <5>3 DEF Turn, Startable
        <5> QED BY <5>4 DEF AttemptReady
      <4> QED BY <4>3, <4>4
    <3> QED BY <1>1, <2>1, <3>3, <3>4
  <2> QED BY <2>2, <2>3
<1> QED BY <1>2, <1>3

LEMMA EndIsClean ==
  ASSUME LifeInv, PermitInv, Closed
  PROVE  EndsClean
<1> SUFFICES ASSUME pc = "exited" PROVE EndsClean
  BY DEF EndsClean
<1>1. \A t \in Trials : task[t] \notin InFlight
  BY DEF Closed
<1>2. Flying = {} /\ permits = Concurrency
  BY <1>1, AllPermitsAreBack DEF Flying
<1>3. Unopened => \A t \in Trials : files[t] = {}
  BY DEF Unopened, LifeInv, Life
<1> QED BY <1>2, <1>3 DEF EndsClean, Closed, Final, Unopened

(* Every step of a trial moves it on.                                      *)
LEMMA TrialMovesOn ==
  ASSUME TypeOK, NEW t \in Trials, Attempt(t)
  PROVE  TrialLeft(task'[t]) < TrialLeft(task[t])
<1> USE DEF TypeOK, SchedType, TrialLeft
<1>1. CASE Open(t)
  <2>1. task[t] = "queued"
    BY <1>1 DEF Open, Turn
  <2>2. task'[t] \in {"raised", "capturing", "finalizing", "materializing"}
    BY <1>1, FinallyLoop DEF Open
  <2> QED BY <2>1, <2>2
<1>2. CASE MaterializeFails(t) \/ RecordReturns(t) \/ RecordRaises(t)
  <2>1. task[t] \in {"materializing", "recording"} /\ task'[t] \in {"capturing", "finalizing"}
    BY <1>2, FinallyLoop DEF MaterializeFails, RecordReturns, RecordRaises
  <2> QED BY <2>1
<1>3. CASE CancelMaterializing(t) \/ CancelRecording(t)
  <2>1. task[t] \in {"materializing", "recording"} /\ task'[t] \in {"capturing", "finalizing"}
    BY <1>3, FinallyLoop DEF CancelMaterializing, CancelRecording
  <2> QED BY <2>1
<1>4. CASE Materialized(t) \/ CaptureAdd(t) \/ CaptureDone(t) \/ CaptureFails(t)
  BY <1>4 DEF Materialized, CaptureAdd, CaptureDone, CaptureFails
<1>5. CASE PublishEpisode(t) \/ CancelQueued(t)
  BY <1>5 DEF PublishEpisode, CancelQueued
<1>6. CASE Finalize(t) \/ Seal(t) \/ IndexEpisode(t) \/ CancelCapture(t)
  <2>1. \/ task[t] = "finalizing" /\ task'[t] \in {"outcomes"} \cup Ended
        \/ task[t] = "outcomes" /\ task'[t] \in {"sealed"} \cup Ended
        \/ task[t] \in {"published", "capturing", "committing"} /\ task'[t] \in Ended
    BY <1>6, EndStage DEF Finalize, Seal, IndexEpisode, CancelCapture, Ended
  <2> QED BY <2>1 DEF Ended
<1> QED BY <1>1, <1>2, <1>3, <1>4, <1>5, <1>6 DEF Attempt

LEMMA NoStepBack ==
  ASSUME TypeOK, [Next]_vars
  PROVE  Forward
<1>1. \A at : RunLeft(at) \in Nat /\ TrialLeft(at) \in Nat
  BY DEF RunLeft, TrialLeft
<1>2. ASSUME NEW t \in Trials, Attempt(t)
      PROVE  /\ pc' = pc /\ TrialLeft(task'[t]) < TrialLeft(task[t])
             /\ \A u \in Trials : TrialLeft(task'[u]) <= TrialLeft(task[u])
  <2>1. pc' = pc /\ TrialLeft(task'[t]) < TrialLeft(task[t])
    BY <1>2, TrialMovesOn, AttemptLeavesRun
  <2>2. \A u \in Trials \ {t} : task'[u] = task[u]
    BY <1>2, OthersAlone DEF Own
  <2> QED BY <1>1, <2>1, <2>2
<1>3. CASE Begin \/ BeginRow \/ CloseRun \/ CloseRow \/ Sweep \/ Exit
  <2>1. RunLeft(pc') < RunLeft(pc)
    BY <1>3 DEF Begin, BeginRow, CloseRun, CloseRow, Sweep, Exit, RunLeft
  <2>2. task' = task
    BY <1>3 DEF Begin, BeginRow, CloseRun, CloseRow, Sweep, Exit
  <2> QED BY <1>1, <2>1, <2>2 DEF Forward
<1>4. CASE \E t \in Trials : Attempt(t)
  BY <1>1, <1>2, <1>4 DEF Forward
<1>5. CASE System
  BY <1>3, <1>4, <1>5 DEF System
<1>6. CASE ~System
  <2>1. task' = task /\ (pc' = pc \/ pc' = "dead")
    BY <1>6 DEF Next, Environment, Interrupt, Crash, SourceDrift, WorkspaceEdited, Over, vars
  <2>2. RunLeft("dead") = 0
    BY DEF RunLeft
  <2> QED BY <1>1, <1>6, <2>1, <2>2 DEF Forward
<1> QED BY <1>5, <1>6

\* However many trials share however many permits, and whatever fails, is cancelled or is left
\* behind: the command is never stuck, goes only forward, and ends clean (runner.py 66-105).
\* Under fairness of the event loop this is why it ends.
THEOREM MovesUntilItEndsHolds == Spec => MovesUntilItEnds
<1>1. Spec => [](TypeOK /\ LifeInv /\ RunFile)
  BY LifeAlways, RunFileAlways, PTL
<1>2. Spec => [](PermitInv /\ DispatchInv)
  BY PermitInit, PermitStep, DispatchInit, DispatchStep, LifeAlways, PTL DEF Spec
<1>3. Spec => []AnswerInv
  BY AnswerInit, AnswerStep, LifeAlways, PTL DEF Spec
<1>4. Spec => [](Holder /\ Waiting /\ Hopeful /\ Closed)
  BY <1>1, <1>3, InitMoves, HolderStep, WaitingStep, HopefulStep, ClosedStep, PTL DEF Spec
<1>5. Spec => [](NeverStuck /\ EndsClean)
  BY <1>1, <1>2, <1>4, SomebodyCanMove, EndIsClean, PTL
<1>6. TypeOK /\ [Next]_vars => [Forward]_vars
  BY NoStepBack
<1>7. Spec => [][Forward]_vars
  BY <1>1, <1>6, PTL DEF Spec
<1> QED BY <1>5, <1>7 DEF MovesUntilItEnds

-----------------------------------------------------------------------------
(* The refinement                                                          *)

Stages == [t \in Trials |-> Stage(t)]

LEMMA StageMoves ==
  ASSUME TypeOK, NEW t \in Trials, Attempt(t), NEW to, Stage(t)' = to
  PROVE  Stages' = [Stages EXCEPT ![t] = to]
<1>1. \A u \in Trials \ {t} : Stage(u)' = Stage(u)
  BY OthersAlone DEF Own, Stage
<1> QED BY <1>1 DEF Stages

LedgerStep == Ledger!Next \/ UNCHANGED Ledger!vars

LEMMA SameLedger ==
  ASSUME UNCHANGED <<files, status, run, runEpisodes>>
  PROVE  LedgerStep
BY DEF LedgerStep, Ledger!vars, Stage

LEMMA OpenAdvances ==
  ASSUME TypeOK, LifeInv, RunFile, NEW t \in Trials, Open(t)
  PROVE  LedgerStep
<1> USE DEF TypeOK, EvidenceType
<1>1. Attempt(t) /\ UNCHANGED <<status, run, runEpisodes>>
  BY DEF Open, Attempt
<1>2. files[t] = {} /\ files'[t] = {"attempt"}
  BY DEF Open, Turn, LifeInv, Life
<1>3. Stage(t) = "absent" /\ Stage(t)' = "attempted" /\ run # "none"
  BY <1>2 DEF Stage, Open, Turn, LoopFree, RunFile
<1>4. Stages' = [Stages EXCEPT ![t] = "attempted"]
  BY <1>1, <1>3, StageMoves
<1>5. CarryForward => \A u \in 1..(t - 1) : Stages[u] = "published" /\ status[u] = "completed"
  BY DEF Open, Turn, LifeInv, Life, Stages, Stage, Trials
<1>6. Ledger!Attempt(t)
  BY <1>1, <1>3, <1>4, <1>5 DEF Ledger!Attempt, Ledger!Advance, Stages
<1> QED BY <1>6 DEF LedgerStep, Ledger!Next, Ledger!Trials, Trials

LEMMA SealAdvances ==
  ASSUME TypeOK, LifeInv, RunFile, NEW t \in Trials, Seal(t)
  PROVE  LedgerStep
<1> USE DEF TypeOK, EvidenceType
<1>1. Attempt(t) /\ UNCHANGED <<status, run, runEpisodes>>
  BY DEF Seal, Attempt
<1>2. CASE UNCHANGED files
  BY <1>1, <1>2, SameLedger
<1>3. CASE files' = [files EXCEPT ![t] = @ \cup {"seal"}]
  <2>1. /\ "seal" \notin files[t] /\ "episode" \notin files[t] /\ files[t] # {}
        /\ files'[t] = files[t] \cup {"seal"} /\ run # "none"
    BY <1>3 DEF Seal, LifeInv, Life, InFlight, Ended, RunFile
  <2>2. Stage(t) = "attempted" /\ Stage(t)' = "sealed"
    BY <2>1 DEF Stage
  <2>3. Stages' = [Stages EXCEPT ![t] = "sealed"]
    BY <1>1, <2>2, StageMoves
  <2>4. Ledger!Seal(t)
    BY <1>1, <2>1, <2>2, <2>3 DEF Ledger!Seal, Ledger!Advance, Stages
  <2> QED BY <2>4 DEF LedgerStep, Ledger!Next, Ledger!Trials, Trials
<1> QED BY <1>2, <1>3 DEF Seal

LEMMA PublishAdvances ==
  ASSUME TypeOK, LifeInv, RunFile, AnswerInv, NEW t \in Trials, PublishEpisode(t)
  PROVE  LedgerStep
<1> USE DEF TypeOK, EvidenceType
<1>1. Attempt(t) /\ UNCHANGED <<run, runEpisodes>>
  BY DEF PublishEpisode, Attempt
<1>2. /\ "seal" \in files[t] /\ "episode" \notin files[t] /\ run # "none"
      /\ files'[t] = files[t] \cup {"episode"}
  BY DEF PublishEpisode, LifeInv, Life, Ended, RunFile
<1>3. Stage(t) = "sealed" /\ Stage(t)' = "published"
  BY <1>2 DEF Stage
<1>4. Stages' = [Stages EXCEPT ![t] = "published"]
  BY <1>1, <1>3, StageMoves
<1>5. EpisodeStatus(outcomes[t]) \in {"completed", "failed", "timed_out"}
  BY DEF EpisodeStatus, PublishEpisode, AnswerInv, Answered, Settled
<1>6. status' = [status EXCEPT ![t] = EpisodeStatus(outcomes[t])]
  BY DEF PublishEpisode
<1>7. Ledger!Publish(t)
  BY <1>1, <1>2, <1>3, <1>4, <1>5, <1>6 DEF Ledger!Publish, Ledger!Advance, Stages
<1> QED BY <1>7 DEF LedgerStep, Ledger!Next, Ledger!Trials, Trials

\* outcomes.json and the row are no stages of their own.
LEMMA OtherAttempts ==
  ASSUME TypeOK, LifeInv, NEW t \in Trials, Attempt(t), ~Open(t), ~Seal(t), ~PublishEpisode(t)
  PROVE  LedgerStep
<1> USE DEF TypeOK, EvidenceType
<1>1. UNCHANGED <<status, run, runEpisodes>>
  BY DEF Attempt, Materialized, MaterializeFails, RecordReturns, RecordRaises, CaptureAdd,
       CaptureDone, CaptureFails, Finalize, IndexEpisode, CancelQueued, CancelMaterializing,
       CancelRecording, CancelCapture
<1>2. CASE UNCHANGED files
  BY <1>1, <1>2, SameLedger
<1>3. ASSUME Stage(t)' = Stage(t) PROVE LedgerStep
  <2>1. Stages' = [Stages EXCEPT ![t] = Stage(t)]
    BY <1>3, StageMoves
  <2>2. Stages' = Stages
    BY <2>1 DEF Stages
  <2> QED BY <1>1, <2>2 DEF LedgerStep, Ledger!vars, Stages
<1>4. CASE Finalize(t)
  <2>1. files'[t] \in {files[t], files[t] \cup {"outcomes"}} /\ files[t] # {}
    BY <1>4 DEF Finalize, LifeInv, Life, InFlight
  <2> QED BY <1>3, <2>1 DEF Stage
<1>5. CASE IndexEpisode(t)
  <2>1. files'[t] \in {files[t], files[t] \cup {"row"}} /\ "episode" \in files[t]
    BY <1>5 DEF IndexEpisode, LifeInv, Life
  <2> QED BY <1>3, <2>1 DEF Stage
<1>6. ~Finalize(t) /\ ~IndexEpisode(t) => UNCHANGED files
  BY DEF Attempt, Materialized, MaterializeFails, RecordReturns, RecordRaises, CaptureAdd,
       CaptureDone, CaptureFails, CancelQueued, CancelMaterializing, CancelRecording, CancelCapture
<1> QED BY <1>2, <1>4, <1>5, <1>6

LEMMA CloseRunAdvances ==
  ASSUME TypeOK, LifeInv, RunFile, Closing, CloseRun
  PROVE  LedgerStep
<1>1. /\ run = "running" /\ run' = RunStatus /\ runEpisodes' = Results
      /\ UNCHANGED <<files, status>> /\ verdict # "pending"
  BY DEF CloseRun, RunFile
<1>2. Stages' = Stages
  BY <1>1 DEF Stages, Stage
<1>3. \A t \in Results : t \in Trials /\ task[t] = "returned"
  BY DEF Results, Closing
<1>4. \A t \in Trials : task[t] = "returned" => Stages[t] = "published"
  BY DEF LifeInv, Life, Stages, Stage
<1>5. /\ RunStatus \in {"completed", "failed", "cancelled"}
      /\ RunStatus = "completed" =>
           \A t \in Trials : Stages[t] = "published" /\ status[t] = "completed"
  BY <1>1, <1>3, <1>4, RunStatusIsFinal
<1>6. runEpisodes' \in SUBSET {t \in Trials : Stages[t] = "published"}
  BY <1>1, <1>3, <1>4
<1>7. Ledger!CloseRun
  BY <1>1, <1>2, <1>5, <1>6 DEF Ledger!CloseRun, Ledger!Trials, Stages, Trials
<1> QED BY <1>7 DEF LedgerStep, Ledger!Next

LEMMA EveryStepIsInTheLedger ==
  ASSUME TypeOK, LifeInv, RunFile, Closing, AnswerInv, [Next]_vars
  PROVE  LedgerStep
<1>1. CASE Begin
  <2>1. Ledger!OpenRun
    BY <1>1 DEF Begin, RunFile, Ledger!OpenRun, Stage
  <2> QED BY <2>1 DEF LedgerStep, Ledger!Next
<1>2. CASE BeginRow \/ CloseRow \/ Sweep \/ Exit \/ UNCHANGED vars
  BY <1>2, SameLedger DEF BeginRow, CloseRow, Sweep, Exit, vars
<1>3. CASE CloseRun
  BY <1>3, CloseRunAdvances
<1>4. CASE \E t \in Trials : Attempt(t)
  BY <1>4, OpenAdvances, SealAdvances, PublishAdvances, OtherAttempts
<1>5. CASE Environment
  BY <1>5, SameLedger DEF Environment, Interrupt, Crash, SourceDrift, WorkspaceEdited
<1> QED BY <1>1, <1>2, <1>3, <1>4, <1>5 DEF Next, System, Over

\* The files of a run behave as EvidenceLedger promises a reader, at every crash point and under
\* every interleaving, failure and cancellation: stages of evidence only grow, a dependent trial
\* is attempted only after completed ones, and the run is closed once, with a status its
\* published episodes justify.
THEOREM ImplementsLedgerHolds == Spec => ImplementsLedger
<1>1. Init => Ledger!Init
  BY DEF Init, Ledger!Init, Ledger!Trials, Stage, Trials
<1>2. TypeOK /\ LifeInv /\ RunFile /\ Closing /\ AnswerInv /\ [Next]_vars
        => Ledger!Next \/ UNCHANGED Ledger!vars
  BY EveryStepIsInTheLedger DEF LedgerStep
<1> QED BY <1>1, <1>2, LifeAlways, RunFileAlways, ClosingAlways, AnswerInit, AnswerStep,
           TypeOKInit, TypeOKStep, PTL DEF Spec, ImplementsLedger, Ledger!Spec
==============================================================================
