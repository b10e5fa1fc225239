--------------------------- MODULE ResearchProofs ---------------------------
(***************************************************************************)
(* A published evaluation is for good, and what rests on it: datasets stay *)
(* grounded and the blinding map comes last.  For every number of planned  *)
(* episodes and repetitions, every number of processes, datasets and       *)
(* faults, and every set of results.                                       *)
(*                                                                         *)
(* evaluate.lock makes the evaluator unique, and only it writes directories*)
(* of evaluations: it clears one without a manifest, and what it scores    *)
(* and publishes afterwards is that same one.  So no step touches a        *)
(* directory with a manifest (FinalIsForGood), what a scan has read stays  *)
(* true, and an evaluator knows that the slots behind it are final.        *)
(***************************************************************************)
EXTENDS Research, FiniteSetTheorems, WellFoundedInduction, TLAPS

USE ResearchAssumption DEF files

-----------------------------------------------------------------------------
(* The state                                                               *)

EvaluationType ==
  evaluation \in [Slots -> [stage : {"none", "empty", "record", "manifest"}, nth : Nat,
                            result : Results \cup {"none"}]]

(* What a process carries in the stages the invariants speak of.           *)
ProcType ==
  /\ proc = [p \in Procs |-> proc[p]]
  /\ \A p \in Procs :
       /\ Holds(p, Evaluating) =>
            proc[p] = [at |-> proc[p].at, episodes |-> proc[p].episodes, todo |-> proc[p].todo]
       /\ Holds(p, Building) =>
            proc[p] = [at |-> proc[p].at, goal |-> proc[p].goal, episodes |-> proc[p].episodes,
                       left |-> proc[p].left, found |-> proc[p].found]
       /\ Holds(p, Inferring) =>
            proc[p] = [at |-> proc[p].at, dataset |-> proc[p].dataset]

OneEvaluator ==
  \A p, q \in Procs : Holds(p, Evaluating) /\ Holds(q, Evaluating) => p = q

(* The evaluator has made final what it left behind, and works on a        *)
(* directory that is not, until it publishes it.                           *)
Progress ==
  \A p \in Procs :
    /\ Holds(p, Evaluating) => \A k \in SlotsOf(proc[p].episodes) \ proc[p].todo : Final(k)
    /\ Holds(p, {"score", "publish"}) /\ Slot(p) \in Slots => ~Final(Slot(p))
    /\ Holds(p, {"check"}) /\ Slot(p) \in Slots => Final(Slot(p))

(* What was read of an evaluation, and is still so.                        *)
True(x) == x.slot \in Slots /\ Final(x.slot) /\ Read(x.slot) = x
Scans ==
  \A p \in Procs : Holds(p, Building) =>
    /\ proc[p].episodes \subseteq published
    /\ \A x \in proc[p].found : True(x)
Grounded ==
  \A d \in datasets : d.bundles \subseteq published /\ \A x \in d.evaluations : True(x)

EvidenceInv == EvaluationType /\ ProcType /\ OneEvaluator /\ Progress
ResearchInv == EvidenceInv /\ Scans /\ Grounded /\ BlindingMapIsLast

-----------------------------------------------------------------------------
LEMMA InitResearch == Init => ResearchInv
<1> SUFFICES ASSUME Init PROVE ResearchInv
  OBVIOUS
<1>1. EvaluationType
  BY DEF Init, EvaluationType, NoFiles
<1>2. \A p \in Procs : proc[p].at = "idle"
  BY DEF Init, Idle
<1>3. ProcType /\ OneEvaluator /\ Progress /\ Scans
  BY <1>2 DEF Init, ProcType, OneEvaluator, Progress, Scans, Holds, Evaluating, Building,
              Inferring
<1>4. Grounded /\ BlindingMapIsLast
  BY DEF Init, Grounded, BlindingMapIsLast
<1> QED
  BY <1>1, <1>3, <1>4 DEF ResearchInv, EvidenceInv

LEMMA GrowsWithFactor ==
  ASSUME NEW c \in Nat, NEW x \in Int, NEW y \in Int, x >= y
  PROVE  c * x >= c * y
  OBVIOUS

(* Every slot belongs to a planned episode.                                *)
LEMMA SlotsArePlanned == SlotsOf(Trials) = Slots
<1>1. ASSUME NEW k \in Slots PROVE EpisodeOf(k) \in Trials
  <2> DEFINE q == (k - 1) \div Reps
  <2>1. q \in Int /\ Reps * q <= k - 1 /\ k - 1 < Reps * (q + 1)
    BY DEF Slots
  <2>2. k \in Int /\ k - 1 < Reps * NTrials /\ k - 1 >= 0
    BY DEF Slots
  <2> HIDE DEF q
  <2>3. ~(q >= NTrials)
    <3>1. q >= NTrials => Reps * q >= Reps * NTrials
      BY <2>1, GrowsWithFactor
    <3> QED
      BY <2>1, <2>2, <3>1
  <2>4. ~(q + 1 <= 0)
    <3>1. q + 1 <= 0 => Reps * 0 >= Reps * (q + 1)
      BY <2>1, GrowsWithFactor
    <3> QED
      BY <2>1, <2>2, <3>1
  <2>5. q + 1 \in Trials
    BY <2>1, <2>3, <2>4 DEF Trials
  <2> QED
    BY <2>5 DEF EpisodeOf, q
<1> QED
  BY <1>1 DEF SlotsOf

-----------------------------------------------------------------------------
(* One process moves on                                                    *)

Shaped(s) ==
  /\ s.at \in Evaluating => s = [at |-> s.at, episodes |-> s.episodes, todo |-> s.todo]
  /\ s.at \in Building =>
       s = [at |-> s.at, goal |-> s.goal, episodes |-> s.episodes, left |-> s.left,
            found |-> s.found]
  /\ s.at \in Inferring => s = [at |-> s.at, dataset |-> s.dataset]

LEMMA Becomes ==
  ASSUME ProcType, NEW p \in Procs, NEW s, Become(p, s)
  PROVE  /\ proc' = [q \in Procs |-> proc'[q]]
         /\ proc'[p] = s /\ \A q \in Procs \ {p} : proc'[q] = proc[q]
  BY DEF ProcType, Become

LEMMA BecomesShaped ==
  ASSUME ProcType, NEW p \in Procs, NEW s, Become(p, s), Shaped(s)
  PROVE  ProcType'
  BY Becomes DEF ProcType, Holds, Shaped

LEMMA EvaluatorMoves ==
  ASSUME ProcType, NEW p \in Procs, Holds(p, Evaluating), NEW a, At(p, a)
  PROVE  /\ proc'[p] = [at |-> a, episodes |-> proc[p].episodes, todo |-> proc[p].todo]
         /\ \A q \in Procs \ {p} : proc'[q] = proc[q]
         /\ a \in Evaluating => ProcType'
<1>1. [proc[p] EXCEPT !.at = a] =
        [at |-> a, episodes |-> proc[p].episodes, todo |-> proc[p].todo]
  BY DEF ProcType
<1>2. Become(p, [at |-> a, episodes |-> proc[p].episodes, todo |-> proc[p].todo])
  BY <1>1 DEF At
<1>3. a \in Evaluating =>
        Shaped([at |-> a, episodes |-> proc[p].episodes, todo |-> proc[p].todo])
  BY DEF Shaped, Evaluating, Building, Inferring
<1> QED
  BY <1>2, <1>3, Becomes, BecomesShaped

(* A step of a process that evaluates neither before nor after it, or that *)
(* stops evaluating, and writes no evaluation.                             *)
LEMMA OutsideEvaluation ==
  ASSUME EvidenceInv, NEW p \in Procs, NEW s, Become(p, s), Shaped(s),
         s.at \notin Evaluating, UNCHANGED evaluation
  PROVE  EvidenceInv'
<1>1. EvaluationType'
  BY DEF EvidenceInv, EvaluationType
<1>2. ProcType'
  BY BecomesShaped DEF EvidenceInv
<1>3. \A q \in Procs : Holds(q, Evaluating)' => q # p /\ Holds(q, Evaluating)
  BY Becomes DEF EvidenceInv, Holds
<1>4. OneEvaluator'
  BY <1>3 DEF EvidenceInv, OneEvaluator
<1>5. \A q \in Procs \ {p} : proc'[q] = proc[q]
  BY Becomes DEF EvidenceInv
<1>6. Progress'
  BY <1>3, <1>5 DEF EvidenceInv, Progress, Holds, Final, Slot, Evaluating
<1> QED
  BY <1>1, <1>2, <1>4, <1>6 DEF EvidenceInv

(* An evaluator goes on to its next slot, the last one being final.        *)
LEMMA DoneKeeps ==
  ASSUME EvidenceInv, NEW p \in Procs, Holds(p, Evaluating), Done(p),
         Slot(p) \in Slots => Final(Slot(p)), UNCHANGED evaluation
  PROVE  EvidenceInv'
<1> DEFINE s == [at |-> "next", episodes |-> proc[p].episodes, todo |-> proc[p].todo \ {Slot(p)}]
<1>1. Become(p, s)
  BY DEF Done
<1>2. Shaped(s)
  BY DEF Shaped, Evaluating, Building, Inferring
<1>3. proc'[p] = s /\ \A q \in Procs \ {p} : proc'[q] = proc[q]
  BY <1>1, Becomes DEF EvidenceInv
<1>4. ProcType'
  BY <1>1, <1>2, BecomesShaped DEF EvidenceInv
<1>5. OneEvaluator'
  BY <1>3 DEF EvidenceInv, OneEvaluator, Holds
<1>6. \A k \in SlotsOf(s.episodes) \ s.todo : Final(k)
  BY DEF EvidenceInv, Progress, SlotsOf
<1>7. Progress'
  BY <1>3, <1>6 DEF EvidenceInv, Progress, Holds, Final, Slot, Evaluating
<1> QED
  BY <1>4, <1>5, <1>7 DEF EvidenceInv, EvaluationType

-----------------------------------------------------------------------------
(* The steps of the evaluator                                              *)

LEMMA EvaluateKeeps ==
  ASSUME EvidenceInv, NEW p \in Procs, Evaluate(p)
  PROVE  EvidenceInv'
<1> DEFINE s == [at |-> "next", episodes |-> published, todo |-> SlotsOf(published)]
<1>1. Become(p, s) /\ UNCHANGED evaluation
  BY DEF Evaluate
<1>2. Shaped(s)
  BY DEF Shaped, Evaluating, Building, Inferring
<1>3. proc'[p] = s /\ \A q \in Procs \ {p} : proc'[q] = proc[q]
  BY <1>1, Becomes DEF EvidenceInv
<1>4. ProcType'
  BY <1>1, <1>2, BecomesShaped DEF EvidenceInv
<1>5. OneEvaluator'
  BY <1>3 DEF Evaluate, Free, OneEvaluator, Holds
<1>6. Progress'
  BY <1>1, <1>3 DEF EvidenceInv, Progress, Holds, Final, Slot, Evaluating
<1> QED
  BY <1>1, <1>4, <1>5, <1>6 DEF EvidenceInv, EvaluationType

(* It writes the directory of its slot, which is not final before.         *)
LEMMA WorksOnSlot ==
  ASSUME EvidenceInv, NEW p \in Procs, Holds(p, Evaluating), NEW a \in Evaluating, At(p, a),
         EvaluationType', \A k \in Slots \ {Slot(p)} : evaluation'[k] = evaluation[k],
         Slot(p) \in Slots =>
           /\ ~Final(Slot(p))
           /\ a \in {"score", "publish"} => evaluation'[Slot(p)].stage # "manifest"
           /\ a = "check" => evaluation'[Slot(p)].stage = "manifest"
  PROVE  EvidenceInv' /\ \A k \in Slots : Final(k) => evaluation'[k] = evaluation[k]
<1>1. /\ proc'[p] = [at |-> a, episodes |-> proc[p].episodes, todo |-> proc[p].todo]
      /\ \A q \in Procs \ {p} : proc'[q] = proc[q]
      /\ ProcType'
  BY EvaluatorMoves DEF EvidenceInv
<1>2. OneEvaluator'
  BY <1>1 DEF EvidenceInv, OneEvaluator, Holds
<1>3. \A q \in Procs \ {p} : ~Holds(q, Evaluating)
  BY DEF EvidenceInv, OneEvaluator
<1>4. \A k \in Slots : Final(k) => evaluation'[k] = evaluation[k]
  OBVIOUS
<1>5. \A k \in SlotsOf(proc[p].episodes) \ proc[p].todo : Final(k)'
  BY <1>4 DEF EvidenceInv, Progress, SlotsOf, Final
<1>6. Slot(p)' = Slot(p)
  BY <1>1 DEF Slot
<1>7. Progress'
  BY <1>1, <1>3, <1>5, <1>6 DEF Progress, Holds, Evaluating, Final
<1> QED
  BY <1>1, <1>2, <1>4, <1>7 DEF EvidenceInv

(* Reuse and IndexEvaluation leave a final slot behind.                    *)
LEMMA LeavesFinal ==
  ASSUME EvidenceInv, NEW p \in Procs, Reuse(p) \/ IndexEvaluation(p)
  PROVE  EvidenceInv' /\ UNCHANGED evaluation
<1>1. Holds(p, Evaluating) /\ Done(p) /\ UNCHANGED evaluation
  BY DEF Reuse, IndexEvaluation, Holds, Evaluating
<1>2. Slot(p) \in Slots => Final(Slot(p))
  BY DEF Reuse, IndexEvaluation, EvidenceInv, Progress, Holds
<1> QED
  BY <1>1, <1>2, DoneKeeps

LEMMA ClearKeeps ==
  ASSUME EvidenceInv, NEW p \in Procs, Clear(p)
  PROVE  EvidenceInv' /\ \A k \in Slots : Final(k) => evaluation'[k] = evaluation[k]
<1>1. Holds(p, Evaluating) /\ At(p, "score") /\ ~Final(Slot(p)) /\ "score" \in Evaluating
  BY DEF Clear, Holds, Evaluating
<1>2. EvaluationType' /\ \A k \in Slots \ {Slot(p)} : evaluation'[k] = evaluation[k]
  BY DEF Clear, EvidenceInv, EvaluationType
<1>3. Slot(p) \in Slots => evaluation'[Slot(p)].stage # "manifest"
  BY DEF Clear, EvidenceInv, EvaluationType
<1> QED
  BY <1>1, <1>2, <1>3, WorksOnSlot

LEMMA ScoreKeeps ==
  ASSUME EvidenceInv, NEW p \in Procs, Score(p)
  PROVE  EvidenceInv' /\ \A k \in Slots : Final(k) => evaluation'[k] = evaluation[k]
<1>1. Holds(p, Evaluating) /\ At(p, "publish") /\ "publish" \in Evaluating
  BY DEF Score, Holds, Evaluating
<1>2. Slot(p) \in Slots => ~Final(Slot(p))
  BY DEF Score, EvidenceInv, Progress, Holds
<1>3. PICK r \in Results :
        evaluation' = [evaluation EXCEPT
          ![Slot(p)] = [stage |-> "record", nth |-> evaluation[Slot(p)].nth + 1, result |-> r]]
  BY DEF Score
<1>4. EvaluationType' /\ \A k \in Slots \ {Slot(p)} : evaluation'[k] = evaluation[k]
  <2>1. CASE Slot(p) \in Slots
    <3>1. evaluation[Slot(p)].nth + 1 \in Nat
      BY <2>1 DEF EvidenceInv, EvaluationType
    <3> QED
      BY <1>3, <2>1, <3>1 DEF EvidenceInv, EvaluationType
  <2>2. CASE Slot(p) \notin Slots
    BY <1>3, <2>2 DEF EvidenceInv, EvaluationType
  <2> QED
    BY <2>1, <2>2
<1>5. Slot(p) \in Slots => evaluation'[Slot(p)].stage # "manifest"
  BY <1>3 DEF EvidenceInv, EvaluationType
<1> QED
  BY <1>1, <1>2, <1>4, <1>5, WorksOnSlot

LEMMA PublishKeeps ==
  ASSUME EvidenceInv, NEW p \in Procs, Publish(p)
  PROVE  EvidenceInv' /\ \A k \in Slots : Final(k) => evaluation'[k] = evaluation[k]
<1>1. Holds(p, Evaluating) /\ At(p, "check") /\ "check" \in Evaluating
  BY DEF Publish, Holds, Evaluating
<1>2. Slot(p) \in Slots => ~Final(Slot(p))
  BY DEF Publish, EvidenceInv, Progress, Holds
<1>3. EvaluationType' /\ \A k \in Slots \ {Slot(p)} : evaluation'[k] = evaluation[k]
  BY DEF Publish, EvidenceInv, EvaluationType
<1>4. Slot(p) \in Slots => evaluation'[Slot(p)].stage = "manifest"
  BY DEF Publish, EvidenceInv, EvaluationType
<1> QED
  BY <1>1, <1>2, <1>3, <1>4, WorksOnSlot

LEMMA WriteMapKeeps ==
  ASSUME EvidenceInv, NEW p \in Procs, WriteMap(p)
  PROVE  EvidenceInv' /\ UNCHANGED evaluation
<1>1. Holds(p, Evaluating) /\ At(p, "summary") /\ UNCHANGED evaluation
  BY DEF WriteMap, Holds, Evaluating
<1>2. /\ proc'[p] = [at |-> "summary", episodes |-> proc[p].episodes, todo |-> proc[p].todo]
      /\ \A q \in Procs \ {p} : proc'[q] = proc[q]
      /\ ProcType'
  BY <1>1, EvaluatorMoves DEF EvidenceInv, Evaluating
<1>3. OneEvaluator'
  BY <1>1, <1>2 DEF EvidenceInv, OneEvaluator, Holds
<1>4. Progress'
  BY <1>1, <1>2 DEF EvidenceInv, Progress, Holds, Evaluating, Final, Slot
<1> QED
  BY <1>1, <1>2, <1>3, <1>4 DEF EvidenceInv, EvaluationType

-----------------------------------------------------------------------------
(* Every step                                                              *)

(* The steps that write no evaluation and end no evaluator but by its end. *)
LEMMA OthersKeep ==
  ASSUME EvidenceInv, NEW p \in Procs,
         \/ Summarise(p) \/ OpenDataset(p) \/ ScanEpisode(p) \/ PublishDataset(p)
         \/ Infer(p) \/ WriteResults(p) \/ WriteManifest(p) \/ IndexAnalysis(p)
         \/ RebuildReport(p) \/ RewriteManifest(p)
         \/ Reindex(p) \/ ReindexReads(p) \/ ReindexWrites(p) \/ ReindexAnalyses(p)
         \/ Fail(p)
  PROVE  EvidenceInv' /\ UNCHANGED evaluation
<1> USE DEF Shaped, Evaluating, Building, Inferring
<1>1. CASE Summarise(p) \/ IndexAnalysis(p) \/ RewriteManifest(p) \/ ReindexAnalyses(p) \/ Fail(p)
  BY <1>1, OutsideEvaluation DEF Summarise, IndexAnalysis, RewriteManifest, ReindexAnalyses, Fail,
     Idle
<1>2. CASE OpenDataset(p)
  BY <1>2, OutsideEvaluation DEF OpenDataset
<1>3. CASE ScanEpisode(p)
  BY <1>3, OutsideEvaluation DEF ScanEpisode
<1>4. CASE PublishDataset(p)
  BY <1>4, OutsideEvaluation DEF PublishDataset, Idle
<1>5. CASE Infer(p)
  BY <1>5, OutsideEvaluation DEF Infer, Idle
<1>6. CASE WriteResults(p)
  <2>1. [proc[p] EXCEPT !.at = "manifest"] = [at |-> "manifest", dataset |-> proc[p].dataset]
    BY <1>6 DEF WriteResults, EvidenceInv, ProcType, Holds
  <2> QED
    BY <1>6, <2>1, OutsideEvaluation DEF WriteResults, At
<1>7. CASE WriteManifest(p)
  <2>1. [proc[p] EXCEPT !.at = "index"] = [at |-> "index", dataset |-> proc[p].dataset]
    BY <1>7 DEF WriteManifest, EvidenceInv, ProcType, Holds
  <2> QED
    BY <1>7, <2>1, OutsideEvaluation DEF WriteManifest, At
<1>8. CASE Reindex(p)
  BY <1>8, OutsideEvaluation DEF Reindex
<1>9. CASE ReindexReads(p)
  BY <1>9, OutsideEvaluation DEF ReindexReads
<1>10. CASE ReindexWrites(p)
  BY <1>10, OutsideEvaluation DEF ReindexWrites
<1>11. CASE RebuildReport(p)
  BY <1>11, OutsideEvaluation DEF RebuildReport
<1> QED
  BY <1>1, <1>2, <1>3, <1>4, <1>5, <1>6, <1>7, <1>8, <1>9, <1>10, <1>11

LEMMA StepEvidence ==
  ASSUME EvidenceInv, [Next]_vars
  PROVE  EvidenceInv' /\ \A k \in Slots : Final(k) => evaluation'[k] = evaluation[k]
<1>1. CASE UNCHANGED vars
  BY <1>1 DEF vars, EvidenceInv, EvaluationType, ProcType, OneEvaluator, Progress, Holds, Final,
              Slot
<1>2. CASE \E e \in Trials : EpisodePublished(e)
  BY <1>2 DEF EpisodePublished, EvidenceInv, EvaluationType, ProcType, OneEvaluator, Progress,
              Holds, Final, Slot
<1>3. ASSUME NEW p \in Procs, Step(p)
      PROVE  EvidenceInv' /\ \A k \in Slots : Final(k) => evaluation'[k] = evaluation[k]
  <2>1. CASE Evaluate(p)
    BY <2>1, EvaluateKeeps DEF Evaluate
  <2>2. CASE Reuse(p) \/ IndexEvaluation(p)
    BY <2>2, LeavesFinal
  <2>3. CASE Clear(p)
    BY <2>3, ClearKeeps
  <2>4. CASE Score(p)
    BY <2>4, ScoreKeeps
  <2>5. CASE Publish(p)
    BY <2>5, PublishKeeps
  <2>6. CASE WriteMap(p)
    BY <2>6, WriteMapKeeps
  <2> QED
    BY <1>3, <2>1, <2>2, <2>3, <2>4, <2>5, <2>6, OthersKeep DEF Step
<1> QED
  BY <1>1, <1>2, <1>3 DEF Next

LEMMA PublishedGrows ==
  ASSUME [Next]_vars
  PROVE  published \subseteq published'
<1> USE DEF EpisodePublished, Evaluate, Reuse, Clear, Score, Publish, IndexEvaluation, WriteMap,
            Summarise, OpenDataset, ScanEpisode, PublishDataset, Infer, WriteResults,
            WriteManifest, IndexAnalysis, RebuildReport, RewriteManifest, Reindex,
            ReindexReads, ReindexWrites, ReindexAnalyses, Fail
<1>1. CASE UNCHANGED vars
  BY <1>1 DEF vars
<1>2. CASE \E e \in Trials : EpisodePublished(e)
  BY <1>2
<1>3. CASE \E p \in Procs : Step(p)
  BY <1>3 DEF Step
<1> QED
  BY <1>1, <1>2, <1>3 DEF Next

(* How a process comes to build a dataset, to infer, or to rebuild a report.*)
Later == Building \cup Inferring \cup {"infer", "report"}

LEMMA WhoComesLater ==
  ASSUME EvidenceInv, NEW p \in Procs, Step(p), NEW q \in Procs, Holds(q, Later)'
  PROVE  \/ proc'[q] = proc[q]
         \/ OpenDataset(q) \/ ScanEpisode(q) \/ PublishDataset(q)
         \/ Infer(q) \/ WriteResults(q) \/ WriteManifest(q) \/ RebuildReport(q)
<1> DEFINE Goes == \/ OpenDataset(p) \/ ScanEpisode(p) \/ PublishDataset(p)
                   \/ Infer(p) \/ WriteResults(p) \/ WriteManifest(p) \/ RebuildReport(p)
<1> USE DEF Holds, Later, Building, Inferring
<1>1. CASE Clear(p) \/ Score(p) \/ Publish(p) \/ WriteMap(p)
  <2>1. PICK a \in {"score", "publish", "check", "summary"} : At(p, a)
    BY <1>1 DEF Clear, Score, Publish, WriteMap
  <2>2. Holds(p, Evaluating)
    BY <1>1 DEF Clear, Score, Publish, WriteMap, Evaluating
  <2>3. /\ proc'[p] = [at |-> a, episodes |-> proc[p].episodes, todo |-> proc[p].todo]
        /\ \A r \in Procs \ {p} : proc'[r] = proc[r]
    BY <2>1, <2>2, EvaluatorMoves DEF EvidenceInv
  <2> QED
    BY <2>1, <2>3
<1>2. CASE Evaluate(p) \/ Reuse(p) \/ IndexEvaluation(p)
  BY <1>2, Becomes DEF Evaluate, Reuse, IndexEvaluation, Done, EvidenceInv
<1>3. CASE Summarise(p) \/ IndexAnalysis(p) \/ RewriteManifest(p) \/ ReindexAnalyses(p) \/ Fail(p)
  BY <1>3, Becomes DEF Summarise, IndexAnalysis, RewriteManifest, ReindexAnalyses, Fail, Idle,
     EvidenceInv
<1>4. CASE Reindex(p) \/ ReindexReads(p) \/ ReindexWrites(p)
  BY <1>4, Becomes DEF Reindex, ReindexReads, ReindexWrites, EvidenceInv
<1>5. CASE Goes
  <2>1. PICK s : Become(p, s)
    BY <1>5 DEF OpenDataset, ScanEpisode, PublishDataset, Infer, WriteResults, WriteManifest,
       RebuildReport, At
  <2>2. q # p => proc'[q] = proc[q]
    BY <2>1, Becomes DEF EvidenceInv
  <2> QED
    BY <1>5, <2>2
<1> QED
  BY <1>1, <1>2, <1>3, <1>4, <1>5 DEF Step

(* What those steps make of the process.                                   *)
LEMMA LaterMoves ==
  ASSUME EvidenceInv, NEW q \in Procs
  PROVE  /\ PublishDataset(q) => \/ proc'[q].at = "idle"
                                \/ /\ proc'[q].at = "infer"
                                   /\ proc'[q].dataset = Inputs(proc[q].episodes, proc[q].found)
         /\ Infer(q) => \/ proc'[q].at = "idle"
                       \/ /\ proc'[q].at = "results" /\ proc'[q].dataset = proc[q].dataset
                          /\ AnalysisOf(Rows(proc[q].dataset)).input = {}
         /\ WriteResults(q) => proc'[q].at = "manifest" /\ proc'[q].dataset = proc[q].dataset
         /\ WriteManifest(q) => proc'[q].at = "index" /\ proc'[q].dataset = proc[q].dataset
         /\ RebuildReport(q) => /\ proc'[q].at = "report" /\ proc'[q].input # {}
                                /\ AnalysisOf(proc'[q].of).input = proc'[q].input
<1>1. PublishDataset(q) =>
        \/ proc'[q].at = "idle"
        \/ /\ proc'[q].at = "infer"
           /\ proc'[q].dataset = Inputs(proc[q].episodes, proc[q].found)
  <2> DEFINE d == Inputs(proc[q].episodes, proc[q].found)
  <2> SUFFICES ASSUME Become(q, Idle) \/ Become(q, [at |-> "infer", dataset |-> d])
               PROVE  proc'[q] = Idle \/ proc'[q] = [at |-> "infer", dataset |-> d]
    BY DEF PublishDataset, Idle
  <2> QED
    BY Becomes DEF EvidenceInv
<1>2. Infer(q) =>
        \/ proc'[q].at = "idle"
        \/ /\ proc'[q].at = "results" /\ proc'[q].dataset = proc[q].dataset
           /\ AnalysisOf(Rows(proc[q].dataset)).input = {}
  <2> DEFINE d == proc[q].dataset
  <2>1. Infer(q) => \/ Become(q, Idle)
                   \/ /\ Become(q, [at |-> "results", dataset |-> d])
                      /\ AnalysisOf(Rows(d)).input = {}
    BY DEF Infer
  <2>2. Become(q, Idle) => proc'[q] = Idle
    BY Becomes DEF EvidenceInv
  <2>3. Become(q, [at |-> "results", dataset |-> d]) => proc'[q] = [at |-> "results", dataset |-> d]
    BY Becomes DEF EvidenceInv
  <2> QED
    BY <2>1, <2>2, <2>3 DEF Idle
<1>3. ASSUME NEW a \in {"manifest", "index"}, At(q, a), Holds(q, Inferring)
      PROVE  proc'[q].at = a /\ proc'[q].dataset = proc[q].dataset
  <2>1. [proc[q] EXCEPT !.at = a] = [at |-> a, dataset |-> proc[q].dataset]
    BY <1>3 DEF EvidenceInv, ProcType
  <2>2. Become(q, [at |-> a, dataset |-> proc[q].dataset])
    BY <1>3, <2>1 DEF At
  <2> QED
    BY <2>2, Becomes DEF EvidenceInv
<1>4. WriteResults(q) => At(q, "manifest") /\ Holds(q, Inferring)
  BY DEF WriteResults, Holds, Inferring
<1>5. WriteManifest(q) => At(q, "index") /\ Holds(q, Inferring)
  BY DEF WriteManifest, Holds, Inferring
<1>6. ASSUME RebuildReport(q)
      PROVE  /\ proc'[q].at = "report" /\ proc'[q].input # {}
             /\ AnalysisOf(proc'[q].of).input = proc'[q].input
  <2>1. PICK a \in Analyses :
          /\ analysis[a].input # {}
          /\ Become(q, [at |-> "report", of |-> a, input |-> analysis[a].input])
    BY <1>6 DEF RebuildReport
  <2>2. proc'[q] = [at |-> "report", of |-> a, input |-> analysis[a].input]
    BY <2>1, Becomes DEF EvidenceInv
  <2> QED
    BY <2>1, <2>2 DEF AnalysisOf
<1> QED
  BY <1>1, <1>2, <1>3, <1>4, <1>5, <1>6

LEMMA TrueForGood ==
  ASSUME EvidenceInv, [Next]_vars, NEW x, True(x)
  PROVE  True(x)'
  BY StepEvidence DEF True, Final, Read

LEMMA StepScans ==
  ASSUME EvidenceInv, Scans, [Next]_vars
  PROVE  Scans'
<1>1. CASE UNCHANGED proc
  BY <1>1, TrueForGood, PublishedGrows DEF Scans, Holds
<1>2. ASSUME NEW p \in Procs, Step(p) PROVE Scans'
  <2> SUFFICES ASSUME NEW q \in Procs, Holds(q, Building)'
               PROVE  proc'[q].episodes \subseteq published' /\ \A x \in proc'[q].found : True(x)'
    BY DEF Scans
  <2>1. CASE proc'[q] = proc[q]
    BY <2>1, TrueForGood, PublishedGrows DEF Scans, Holds
  <2>2. CASE OpenDataset(q)
    BY <2>2, Becomes DEF OpenDataset, EvidenceInv
  <2>3. CASE ScanEpisode(q)
    <3> DEFINE R == {Read(k) : k \in {k \in SlotsOf({Min(proc[q].left)}) : Final(k)}}
    <3>1. /\ proc'[q].episodes = proc[q].episodes
          /\ proc'[q].found = proc[q].found \cup R
      <4> DEFINE s == [at |-> "scan", goal |-> proc[q].goal, episodes |-> proc[q].episodes,
                       left |-> proc[q].left \ {Min(proc[q].left)},
                       found |-> proc[q].found \cup R]
      <4>1. Become(q, s)
        BY <2>3 DEF ScanEpisode
      <4>2. proc'[q] = s
        BY <4>1, Becomes DEF EvidenceInv
      <4> QED
        BY <4>2
    <3>2. \A x \in R : True(x)
      BY DEF True, Read, SlotsOf
    <3>3. Holds(q, Building)
      BY <2>3 DEF ScanEpisode, Holds, Building
    <3> HIDE DEF R
    <3> QED
      BY <3>1, <3>2, <3>3, TrueForGood, PublishedGrows DEF Scans
  <2>4. CASE \/ PublishDataset(q) \/ Infer(q) \/ WriteResults(q) \/ WriteManifest(q)
             \/ RebuildReport(q)
    <3>1. proc'[q].at \notin Building
      BY <2>4, LaterMoves DEF Building
    <3> QED
      BY <3>1 DEF Holds
  <2>5. Holds(q, Later)'
    BY DEF Holds, Later
  <2> QED
    BY <1>2, <2>1, <2>2, <2>3, <2>4, <2>5, WhoComesLater
<1> QED
  BY <1>1, <1>2 DEF Next, vars, EpisodePublished

LEMMA StepGrounded ==
  ASSUME EvidenceInv, Scans, Grounded, [Next]_vars
  PROVE  Grounded'
<1>1. CASE UNCHANGED datasets
  BY <1>1, TrueForGood, PublishedGrows DEF Grounded
<1>2. ASSUME NEW p \in Procs, PublishDataset(p) PROVE Grounded'
  <2>1. datasets' = datasets \cup {Inputs(proc[p].episodes, proc[p].found)}
    BY <1>2 DEF PublishDataset
  <2>2. proc[p].episodes \subseteq published /\ \A x \in proc[p].found : True(x)
    BY <1>2 DEF PublishDataset, Scans, Holds, Building
  <2> QED
    BY <2>1, <2>2, TrueForGood, PublishedGrows DEF Grounded, Inputs
<1> QED
  BY <1>1, <1>2 DEF Next, Step, vars, EpisodePublished, Evaluate, Reuse, Clear, Score, Publish,
     IndexEvaluation, WriteMap, Summarise, OpenDataset, ScanEpisode, Infer, WriteResults,
     WriteManifest, IndexAnalysis, RebuildReport, RewriteManifest, Reindex, ReindexReads,
     ReindexWrites, ReindexAnalyses, Fail

LEMMA StepBlinding ==
  ASSUME EvidenceInv, BlindingMapIsLast, [Next]_vars
  PROVE  BlindingMapIsLast'
<1>1. CASE UNCHANGED blinding
  BY <1>1, StepEvidence DEF BlindingMapIsLast, Final
<1>2. ASSUME NEW p \in Procs, WriteMap(p) PROVE BlindingMapIsLast'
  <2>1. proc[p].episodes = Trials => \A k \in Slots : Final(k)
    BY <1>2, SlotsArePlanned DEF WriteMap, EvidenceInv, Progress, Holds, Evaluating
  <2> QED
    BY <1>2, <2>1, StepEvidence DEF WriteMap, BlindingMapIsLast, Final
<1> QED
  BY <1>1, <1>2 DEF Next, Step, vars, EpisodePublished, Evaluate, Reuse, Clear, Score, Publish,
     IndexEvaluation, Summarise, OpenDataset, ScanEpisode, PublishDataset, Infer, WriteResults,
     WriteManifest, IndexAnalysis, RebuildReport, RewriteManifest, Reindex, ReindexReads,
     ReindexWrites, ReindexAnalyses, Fail

LEMMA StepResearch == ResearchInv /\ [Next]_vars => ResearchInv'
  BY StepEvidence, StepScans, StepGrounded, StepBlinding DEF ResearchInv

LEMMA ResearchInvHolds == Spec => []ResearchInv
  BY InitResearch, StepResearch, PTL DEF Spec

-----------------------------------------------------------------------------
(* Whatever evaluate_run deletes, retries or reuses, every published       *)
(* dataset can be rebuilt from what is on disk.                            *)
THEOREM DatasetsStayGroundedHolds == Spec => []DatasetsStayGrounded
<1>1. ResearchInv => DatasetsStayGrounded
  BY DEF ResearchInv, Grounded, True, Read, DatasetsStayGrounded
<1> QED
  BY <1>1, ResearchInvHolds, PTL

(* The blinding map is written only when every planned evaluation has      *)
(* ended, and none is undone afterwards.                                   *)
THEOREM BlindingMapIsLastHolds == Spec => []BlindingMapIsLast
<1>1. ResearchInv => BlindingMapIsLast
  BY DEF ResearchInv
<1> QED
  BY <1>1, ResearchInvHolds, PTL

-----------------------------------------------------------------------------
(***************************************************************************)
(* An evaluator that has gone through its slots leaves the index in accord *)
(* with the evaluations, for every number of planned episodes,             *)
(* repetitions, processes and faults, and whatever reindex does meanwhile. *)
(*                                                                         *)
(* The slots behind the evaluator are final, so their attempt changes no   *)
(* more, and reindex, which holds no lock, records in stale each row it    *)
(* sets to another attempt.                                                *)
(***************************************************************************)

Current(k) == row[k] = evaluation[k].nth \/ k \in stale

Behind ==
  /\ row = [k \in Slots |-> row[k]]
  /\ \A p \in Procs :
       /\ Holds(p, Evaluating) => \A k \in SlotsOf(proc[p].episodes) \ proc[p].todo : Current(k)
       /\ Holds(p, {"summary"}) => proc[p].todo = {}

LEMMA InitBehind == Init => Behind
<1> SUFFICES ASSUME Init PROVE Behind
  OBVIOUS
<1>1. \A p \in Procs : proc[p].at = "idle"
  BY DEF Init, Idle
<1> QED
  BY <1>1 DEF Init, Behind, Holds, Evaluating

(* A step that keeps what is current, and takes no slot from an evaluator. *)
LEMMA Behindhand ==
  ASSUME Behind, row' = [k \in Slots |-> row'[k]], NEW p \in Procs,
         \A k \in Slots : Current(k) => Current(k)' \/ ~Final(k),
         EvidenceInv,
         \A q \in Procs \ {p} : proc'[q] = proc[q],
         Holds(p, Evaluating)' =>
           /\ \A k \in SlotsOf(proc'[p].episodes) \ proc'[p].todo : Current(k)'
           /\ Holds(p, {"summary"})' => proc'[p].todo = {}
  PROVE  Behind'
<1>1. ASSUME NEW q \in Procs \ {p}, Holds(q, Evaluating)'
      PROVE  \A k \in SlotsOf(proc'[q].episodes) \ proc'[q].todo : Current(k)'
  <2>1. proc'[q] = proc[q] /\ Holds(q, Evaluating)
    BY <1>1 DEF Holds
  <2>2. \A k \in SlotsOf(proc[q].episodes) \ proc[q].todo : k \in Slots /\ Current(k) /\ Final(k)
    BY <2>1 DEF Behind, EvidenceInv, Progress, SlotsOf
  <2> QED
    BY <2>1, <2>2
<1>2. \A q \in Procs \ {p} : Holds(q, {"summary"})' => proc'[q].todo = {}
  BY DEF Behind, Holds
<1>3. \A q \in Procs : Holds(q, Evaluating)' =>
        \A k \in SlotsOf(proc'[q].episodes) \ proc'[q].todo : Current(k)'
  BY <1>1
<1>4. \A q \in Procs : Holds(q, {"summary"})' => proc'[q].todo = {}
  BY <1>2 DEF Holds, Evaluating
<1> QED
  BY <1>3, <1>4 DEF Behind, Holds, SlotsOf

(* A step of a process that does not evaluate afterwards.                  *)
LEMMA NotEvaluating ==
  ASSUME Behind, EvidenceInv, NEW p \in Procs, NEW s, Become(p, s), s.at \notin Evaluating,
         UNCHANGED <<row, evaluation, stale>>
  PROVE  Behind'
<1>1. proc'[p] = s /\ \A q \in Procs \ {p} : proc'[q] = proc[q]
  BY Becomes DEF EvidenceInv
<1>2. row' = [k \in Slots |-> row'[k]] /\ \A k \in Slots : Current(k) => Current(k)'
  BY DEF Behind, Current
<1>3. ~Holds(p, Evaluating)'
  BY <1>1 DEF Holds
<1> QED
  BY <1>1, <1>2, <1>3, Behindhand

(* The evaluator goes on with the same slots ahead of it.                  *)
LEMMA StillAhead ==
  ASSUME Behind, EvidenceInv, NEW p \in Procs, NEW a, Holds(p, Evaluating), At(p, a),
         UNCHANGED <<row, stale>>,
         \A k \in Slots : Final(k) => evaluation'[k] = evaluation[k],
         a = "summary" => proc[p].todo = {}
  PROVE  Behind'
<1>1. /\ proc'[p] = [at |-> a, episodes |-> proc[p].episodes, todo |-> proc[p].todo]
      /\ \A q \in Procs \ {p} : proc'[q] = proc[q]
  BY EvaluatorMoves DEF EvidenceInv
<1>2. row' = [k \in Slots |-> row'[k]]
  BY DEF Behind
<1>3. \A k \in Slots : Current(k) => Current(k)' \/ ~Final(k)
  BY DEF Current
<1>4. \A k \in SlotsOf(proc[p].episodes) \ proc[p].todo : Current(k)'
  BY <1>3 DEF Behind, EvidenceInv, Progress, SlotsOf
<1>5. /\ proc'[p].episodes = proc[p].episodes /\ proc'[p].todo = proc[p].todo
      /\ Holds(p, {"summary"})' => proc'[p].todo = {}
  BY <1>1 DEF Holds
<1> QED
  BY <1>1, <1>2, <1>3, <1>4, <1>5, Behindhand

(* Reuse and IndexEvaluation write the row of the slot they leave.         *)
LEMMA RowWritten ==
  ASSUME Behind, EvidenceInv, NEW p \in Procs, Reuse(p) \/ IndexEvaluation(p)
  PROVE  Behind'
<1> DEFINE s == [at |-> "next", episodes |-> proc[p].episodes, todo |-> proc[p].todo \ {Slot(p)}]
<1>1. /\ row' = [row EXCEPT ![Slot(p)] = evaluation[Slot(p)].nth]
      /\ stale' = stale \ {Slot(p)} /\ UNCHANGED evaluation /\ Holds(p, Evaluating)
  BY DEF Reuse, IndexEvaluation, Holds, Evaluating
<1>2. proc'[p] = s /\ \A q \in Procs \ {p} : proc'[q] = proc[q]
  <2>1. Become(p, s)
    BY DEF Reuse, IndexEvaluation, Done
  <2> QED
    BY <2>1, Becomes DEF EvidenceInv
<1>3. row' = [k \in Slots |-> row'[k]]
  BY <1>1 DEF Behind
<1>4. \A k \in Slots : Current(k) \/ k = Slot(p) => Current(k)'
  BY <1>1 DEF Behind, Current
<1>5. \A k \in SlotsOf(s.episodes) \ s.todo : Current(k)'
  BY <1>1, <1>4 DEF Behind, SlotsOf
<1>6. /\ proc'[p].episodes = s.episodes /\ proc'[p].todo = s.todo /\ ~Holds(p, {"summary"})'
  BY <1>2 DEF Holds
<1> HIDE DEF s
<1> QED
  BY <1>2, <1>3, <1>4, <1>5, <1>6, Behindhand

LEMMA ReindexWritesRow ==
  ASSUME Behind, EvidenceInv, NEW p \in Procs, ReindexWrites(p)
  PROVE  Behind'
<1>1. row' = [k \in Slots |-> row'[k]] /\ UNCHANGED evaluation
  BY DEF ReindexWrites, Behind
<1>2. \A k \in Slots : Current(k) => Current(k)'
  BY DEF ReindexWrites, Behind, Current
<1>3. /\ proc'[p] = [at |-> "read", todo |-> proc[p].todo \ {Slot(p)}]
      /\ \A q \in Procs \ {p} : proc'[q] = proc[q]
  BY Becomes DEF ReindexWrites, EvidenceInv
<1>4. ~Holds(p, Evaluating)'
  BY <1>3 DEF Holds, Evaluating
<1> QED
  BY <1>1, <1>2, <1>3, <1>4, Behindhand

LEMMA EvaluateBegins ==
  ASSUME Behind, EvidenceInv, NEW p \in Procs, Evaluate(p)
  PROVE  Behind'
<1>1. /\ proc'[p] = [at |-> "next", episodes |-> published, todo |-> SlotsOf(published)]
      /\ \A q \in Procs \ {p} : proc'[q] = proc[q]
  BY Becomes DEF Evaluate, EvidenceInv
<1>2. row' = [k \in Slots |-> row'[k]] /\ \A k \in Slots : Current(k) => Current(k)'
  BY DEF Evaluate, Behind, Current
<1>3. SlotsOf(proc'[p].episodes) \ proc'[p].todo = {} /\ ~Holds(p, {"summary"})'
  BY <1>1 DEF Holds
<1> QED
  BY <1>1, <1>2, <1>3, Behindhand

LEMMA StepBehind ==
  ASSUME Behind, EvidenceInv, [Next]_vars
  PROVE  Behind'
<1>1. CASE UNCHANGED <<proc, row, evaluation, stale>>
  BY <1>1 DEF Behind, Current, Holds
<1>2. ASSUME NEW p \in Procs, Step(p) PROVE Behind'
  <2> USE DEF Evaluating
  <2>1. CASE Evaluate(p)
    BY <2>1, EvaluateBegins
  <2>2. CASE Reuse(p) \/ IndexEvaluation(p)
    BY <2>2, RowWritten
  <2>3. CASE Clear(p) \/ Score(p) \/ Publish(p) \/ WriteMap(p)
    <3>1. PICK a \in {"score", "publish", "check", "summary"} :
            At(p, a) /\ (a = "summary" => proc[p].todo = {})
      BY <2>3 DEF Clear, Score, Publish, WriteMap
    <3>2. Holds(p, Evaluating) /\ UNCHANGED <<row, stale>>
      BY <2>3 DEF Clear, Score, Publish, WriteMap, Holds
    <3> QED
      BY <3>1, <3>2, StepEvidence, StillAhead
  <2>4. CASE Summarise(p) \/ IndexAnalysis(p) \/ RewriteManifest(p) \/ ReindexAnalyses(p) \/ Fail(p)
    BY <2>4, NotEvaluating DEF Summarise, IndexAnalysis, RewriteManifest, ReindexAnalyses, Fail,
       Idle
  <2>5. CASE OpenDataset(p)
    BY <2>5, NotEvaluating DEF OpenDataset
  <2>6. CASE ScanEpisode(p)
    BY <2>6, NotEvaluating DEF ScanEpisode
  <2>7. CASE PublishDataset(p)
    BY <2>7, NotEvaluating DEF PublishDataset, Idle
  <2>8. CASE Infer(p)
    BY <2>8, NotEvaluating DEF Infer, Idle
  <2>9. CASE WriteResults(p) \/ WriteManifest(p)
    <3>1. PICK a \in {"manifest", "index"} : At(p, a)
      BY <2>9 DEF WriteResults, WriteManifest
    <3>2. Holds(p, Inferring) /\ UNCHANGED <<row, evaluation, stale>>
      BY <2>9 DEF WriteResults, WriteManifest, Holds, Inferring
    <3>3. [proc[p] EXCEPT !.at = a] = [at |-> a, dataset |-> proc[p].dataset]
      BY <3>2 DEF EvidenceInv, ProcType
    <3>4. Become(p, [at |-> a, dataset |-> proc[p].dataset])
      BY <3>1, <3>3 DEF At
    <3> QED
      BY <3>2, <3>4, NotEvaluating
  <2>10. CASE Reindex(p)
    BY <2>10, NotEvaluating DEF Reindex
  <2>11. CASE ReindexReads(p)
    BY <2>11, NotEvaluating DEF ReindexReads
  <2>12. CASE ReindexWrites(p)
    BY <2>12, ReindexWritesRow
  <2>13. CASE RebuildReport(p)
    BY <2>13, NotEvaluating DEF RebuildReport
  <2> QED
    BY <1>2, <2>1, <2>2, <2>3, <2>4, <2>5, <2>6, <2>7, <2>8, <2>9, <2>10, <2>11, <2>12, <2>13
       DEF Step
<1> QED
  BY <1>1, <1>2 DEF Next, vars, EpisodePublished

-----------------------------------------------------------------------------
(* When an evaluator has gone through its slots, every row describes the   *)
(* evaluation on disk, unless a reindex that read an older record wrote it.*)
THEOREM RowsFollowEvaluationsHolds == Spec => []RowsFollowEvaluations
<1>1. Init => Behind
  BY InitBehind
<1>2. ResearchInv /\ Behind /\ [Next]_vars => Behind'
  BY StepBehind DEF ResearchInv
<1>3. Behind => RowsFollowEvaluations
  BY DEF Behind, RowsFollowEvaluations, Current, Holds, Evaluating
<1> QED
  BY <1>1, <1>2, <1>3, ResearchInvHolds, PTL DEF Spec
-----------------------------------------------------------------------------
(***************************************************************************)
(* Types, and how often a slot can be scored: an attempt beyond the first  *)
(* needs an evaluator that died or raised before it published the last     *)
(* one.  A slot whose attempts outnumber the faults is therefore final or  *)
(* about to be; and what reindex has read of a slot is never ahead of it.  *)
(***************************************************************************)

Stages == Evaluating \cup Building \cup Inferring
            \cup {"idle", "infer", "report", "read", "write"}

Placed(s) ==
  /\ s.at \in Stages
  /\ s.at \in Evaluating \cup {"read", "write"} => s.todo \subseteq Slots
  /\ s.at \in {"score", "publish", "check", "write"} => s.todo # {}
  /\ s.at = "write" => s.nth \in Nat /\ s.nth <= evaluation[Min(s.todo)].nth
Places == \A p \in Procs : Placed(proc[p])

Publishing(k) == \E p \in Procs : proc[p].at = "publish" /\ Slot(p) = k
Attempts ==
  /\ row = [k \in Slots |-> row[k]]
  /\ faults \in 0..MaxFaults
  /\ \A k \in Slots :
       /\ row[k] \in 0..evaluation[k].nth
       /\ evaluation[k].nth <= faults + 1
       /\ Final(k) \/ evaluation[k].nth <= faults \/ Publishing(k)

Plain ==
  /\ confirmatory \in BOOLEAN /\ blinding \in BOOLEAN
  /\ published \subseteq Trials /\ stale \subseteq Slots

LEMMA LeastSlot ==
  ASSUME NEW S \in SUBSET Slots, S # {}
  PROVE  Min(S) \in S
<1>1. S \subseteq Nat
  BY DEF Slots
<1>2. PICK m \in S : \A n \in S : <<n, m>> \notin OpToRel(<, Nat)
  BY <1>1, WFMin, NatLessThanWellFounded, Zenon
<1>3. \A n \in S : m <= n
  <2> SUFFICES ASSUME NEW n \in S PROVE m <= n
    OBVIOUS
  <2>1. n \in Nat /\ m \in Nat
    BY <1>1
  <2>2. ~(n < m)
    BY <1>2, <2>1, Zenon DEF OpToRel
  <2> QED
    BY <2>1, <2>2
<1> QED
  BY <1>3 DEF Min

LEMMA InitTypes == Init => Places /\ Attempts /\ Plain
<1> SUFFICES ASSUME Init PROVE Places /\ Attempts /\ Plain
  OBVIOUS
<1>1. \A p \in Procs : proc[p].at = "idle"
  BY DEF Init, Idle
<1>2. Places
  BY <1>1 DEF Places, Placed, Stages, Evaluating
<1>3. Attempts
  BY DEF Init, Attempts, NoFiles
<1> QED
  BY <1>2, <1>3 DEF Init, Plain

(* No attempt is ever taken back.                                          *)
LEMMA AttemptsGrow ==
  ASSUME EvidenceInv, [Next]_vars
  PROVE  \A k \in Slots : evaluation'[k].nth >= evaluation[k].nth /\ evaluation[k].nth \in Nat
<1>1. \A k \in Slots : evaluation[k].nth \in Nat
  BY DEF EvidenceInv, EvaluationType
<1>2. CASE UNCHANGED evaluation
  BY <1>1, <1>2
<1>3. ASSUME NEW p \in Procs, Clear(p) \/ Score(p) \/ Publish(p)
      PROVE  \A k \in Slots : evaluation'[k].nth >= evaluation[k].nth
  <2> SUFFICES ASSUME NEW k \in Slots PROVE evaluation'[k].nth >= evaluation[k].nth
    OBVIOUS
  <2>1. evaluation'[k].nth \in {evaluation[k].nth, evaluation[k].nth + 1}
    BY <1>3 DEF Clear, Score, Publish, EvidenceInv, EvaluationType
  <2> QED
    BY <1>1, <2>1
<1> QED
  BY <1>1, <1>2, <1>3 DEF Next, Step, vars, EpisodePublished, Evaluate, Reuse, IndexEvaluation,
     WriteMap, Summarise, OpenDataset, ScanEpisode, PublishDataset, Infer, WriteResults,
     WriteManifest, IndexAnalysis, RebuildReport, RewriteManifest, Reindex, ReindexReads,
     ReindexWrites, ReindexAnalyses, Fail

LEMMA OthersStayPlaced ==
  ASSUME EvidenceInv, Places, [Next]_vars, NEW q \in Procs, proc'[q] = proc[q]
  PROVE  Placed(proc[q])'
<1>1. \A k \in Slots : evaluation'[k].nth >= evaluation[k].nth /\ evaluation[k].nth \in Nat
                       /\ evaluation'[k].nth \in Nat
  BY AttemptsGrow, StepEvidence DEF EvidenceInv, EvaluationType
<1>2. proc[q].at = "write" => Min(proc[q].todo) \in Slots
  BY LeastSlot DEF Places, Placed
<1> QED
  BY <1>1, <1>2 DEF Places, Placed

(* Where a process goes.                                                   *)
LEMMA MovesToPlace ==
  ASSUME EvidenceInv, Places, NEW p \in Procs, Step(p)
  PROVE  Placed(proc[p])' /\ \A q \in Procs \ {p} : proc'[q] = proc[q]
<1> DEFINE Goal == Placed(proc[p])' /\ \A q \in Procs \ {p} : proc'[q] = proc[q]
<1>1. ASSUME NEW a \in {"score", "publish", "check", "summary"}, At(p, a), Holds(p, Evaluating),
             a # "summary" => proc[p].todo # {}
      PROVE  Goal
  <2>1. /\ proc'[p] = [at |-> a, episodes |-> proc[p].episodes, todo |-> proc[p].todo]
        /\ \A q \in Procs \ {p} : proc'[q] = proc[q]
    BY <1>1, EvaluatorMoves DEF EvidenceInv
  <2> QED
    BY <1>1, <2>1 DEF Places, Placed, Holds, Stages, Evaluating
<1>2. ASSUME NEW s, Become(p, s), s.at \in Stages \ {"score", "publish", "check", "write"},
             s.at \in Evaluating \cup {"read"} => s.todo \subseteq Slots
      PROVE  Goal
  <2>1. proc'[p] = s /\ \A q \in Procs \ {p} : proc'[q] = proc[q]
    BY <1>2, Becomes DEF EvidenceInv
  <2> QED
    BY <1>2, <2>1 DEF Placed, Evaluating
<1> USE DEF Stages, Evaluating, Building, Inferring
<1>3. CASE Clear(p) \/ Score(p) \/ Publish(p) \/ WriteMap(p)
  <2>1. PICK a \in {"score", "publish", "check", "summary"} :
          At(p, a) /\ (a # "summary" => proc[p].todo # {})
    BY <1>3 DEF Clear, Score, Publish, WriteMap, Places, Placed
  <2>2. Holds(p, Evaluating)
    BY <1>3 DEF Clear, Score, Publish, WriteMap, Holds
  <2> QED
    BY <1>1, <2>1, <2>2
<1>4. CASE Evaluate(p) \/ Reindex(p)
  <2>1. SlotsOf(published) \subseteq Slots
    BY DEF SlotsOf
  <2> QED
    BY <1>2, <1>4, <2>1 DEF Evaluate, Reindex
<1>5. CASE Reuse(p) \/ IndexEvaluation(p)
  <2>1. proc[p].todo \subseteq Slots
    BY <1>5 DEF Reuse, IndexEvaluation, Places, Placed
  <2> QED
    BY <1>2, <1>5, <2>1 DEF Reuse, IndexEvaluation, Done
<1>6. CASE Summarise(p) \/ IndexAnalysis(p) \/ RewriteManifest(p) \/ ReindexAnalyses(p) \/ Fail(p)
  BY <1>2, <1>6 DEF Summarise, IndexAnalysis, RewriteManifest, ReindexAnalyses, Fail, Idle
<1>7. CASE OpenDataset(p)
  BY <1>2, <1>7 DEF OpenDataset
<1>8. CASE ScanEpisode(p)
  BY <1>2, <1>8 DEF ScanEpisode
<1>9. CASE PublishDataset(p)
  BY <1>2, <1>9 DEF PublishDataset, Idle
<1>10. CASE Infer(p)
  BY <1>2, <1>10 DEF Infer, Idle
<1>11. CASE WriteResults(p) \/ WriteManifest(p)
  <2>1. PICK a \in {"manifest", "index"} : At(p, a)
    BY <1>11 DEF WriteResults, WriteManifest
  <2>2. [proc[p] EXCEPT !.at = a] = [at |-> a, dataset |-> proc[p].dataset]
    BY <1>11 DEF WriteResults, WriteManifest, EvidenceInv, ProcType, Holds
  <2>3. Become(p, [at |-> a, dataset |-> proc[p].dataset])
    BY <2>1, <2>2 DEF At
  <2> QED
    BY <1>2, <2>3
<1>12. CASE ReindexReads(p)
  <2>1. proc[p].todo \subseteq Slots /\ proc[p].todo # {} /\ Slot(p) \in Slots
    BY <1>12, LeastSlot DEF ReindexReads, Places, Placed, Slot
  <2>2. CASE Become(p, [at |-> "read", todo |-> proc[p].todo \ {Slot(p)}])
    BY <1>2, <2>1, <2>2
  <2>3. CASE Become(p, [at |-> "write", todo |-> proc[p].todo, nth |-> evaluation[Slot(p)].nth])
    <3>1. /\ proc'[p] = [at |-> "write", todo |-> proc[p].todo, nth |-> evaluation[Slot(p)].nth]
          /\ \A q \in Procs \ {p} : proc'[q] = proc[q]
      BY <2>3, Becomes DEF EvidenceInv
    <3>2. evaluation' = evaluation /\ evaluation[Slot(p)].nth \in Nat
      BY <1>12, <2>1 DEF ReindexReads, EvidenceInv, EvaluationType
    <3> QED
      BY <2>1, <3>1, <3>2 DEF Placed, Slot
  <2> QED
    BY <1>12, <2>2, <2>3 DEF ReindexReads
<1>13. CASE ReindexWrites(p)
  <2>1. proc[p].todo \subseteq Slots
    BY <1>13 DEF ReindexWrites, Places, Placed
  <2> QED
    BY <1>2, <1>13, <2>1 DEF ReindexWrites
<1>14. CASE RebuildReport(p)
  BY <1>2, <1>14 DEF RebuildReport
<1> QED
  BY <1>3, <1>4, <1>5, <1>6, <1>7, <1>8, <1>9, <1>10, <1>11, <1>12, <1>13, <1>14 DEF Step

LEMMA StepPlaces ==
  ASSUME EvidenceInv, Places, [Next]_vars
  PROVE  Places'
<1>1. CASE UNCHANGED proc
  BY <1>1, OthersStayPlaced DEF Places
<1>2. CASE \E p \in Procs : Step(p)
  BY <1>2, MovesToPlace, OthersStayPlaced DEF Places
<1> QED
  BY <1>1, <1>2 DEF Next, vars, EpisodePublished

-----------------------------------------------------------------------------
(* Only scoring adds an attempt, and only publishing or a fault ends the   *)
(* stage in which one may be in excess.                                    *)

LEMMA SameAttempts ==
  ASSUME Attempts, UNCHANGED <<row, evaluation, faults>>,
         \A q \in Procs : proc[q].at = "publish" => proc'[q] = proc[q]
  PROVE  Attempts'
<1>1. \A k \in Slots : Publishing(k) => Publishing(k)'
  BY DEF Publishing, Slot
<1> QED
  BY <1>1 DEF Attempts, Final

(* A row is written with an attempt that was made.                         *)
LEMMA RowOfAnAttempt ==
  ASSUME Attempts, NEW k \in Slots, NEW n \in 0..evaluation[k].nth, EvaluationType,
         row' = [row EXCEPT ![k] = n], UNCHANGED <<evaluation, faults>>,
         \A q \in Procs : proc[q].at = "publish" => proc'[q] = proc[q]
  PROVE  Attempts'
<1>1. \A j \in Slots : Publishing(j) => Publishing(j)'
  BY DEF Publishing, Slot
<1> QED
  BY <1>1 DEF Attempts, Final

(* The evaluator works on its slot, alone.                                 *)
LEMMA AttemptOnSlot ==
  ASSUME EvidenceInv, Places, Attempts, NEW p \in Procs, Clear(p) \/ Score(p) \/ Publish(p)
  PROVE  Attempts'
<1>1. Holds(p, Evaluating) /\ UNCHANGED <<row, faults>>
  BY DEF Clear, Score, Publish, Holds, Evaluating
<1>2. PICK k \in Slots : k = Slot(p)
  BY LeastSlot DEF Clear, Score, Publish, Places, Placed, Slot, Evaluating
<1>3. \A j \in Slots : Publishing(j) => proc[p].at = "publish" /\ j = k
  BY <1>1, <1>2 DEF Publishing, EvidenceInv, OneEvaluator, Holds, Evaluating
<1>4. ~Final(k)
  BY <1>2 DEF Clear, Score, Publish, EvidenceInv, Progress, Holds
<1>5. \A j \in Slots \ {k} : evaluation'[j] = evaluation[j]
  BY <1>2 DEF Clear, Score, Publish, EvidenceInv, EvaluationType
<1>6. \A j \in Slots \ {k} : Final(j) \/ evaluation[j].nth <= faults
  BY <1>3 DEF Attempts
<1>7. evaluation[k].nth \in Nat /\ faults \in Nat /\ MaxFaults \in Nat
  BY <1>2 DEF EvidenceInv, EvaluationType, Attempts
<1>8. CASE Clear(p)
  <2>1. evaluation'[k].nth = evaluation[k].nth
    BY <1>2, <1>8 DEF Clear, EvidenceInv, EvaluationType
  <2>2. evaluation[k].nth <= faults
    BY <1>2, <1>3, <1>4, <1>8 DEF Clear, Attempts
  <2> QED
    BY <1>1, <1>2, <1>5, <1>6, <2>1, <2>2 DEF Attempts, Final
<1>9. CASE Score(p)
  <2>1. evaluation'[k].nth = evaluation[k].nth + 1
    BY <1>2, <1>9 DEF Score, EvidenceInv, EvaluationType
  <2>2. evaluation[k].nth <= faults
    BY <1>2, <1>3, <1>4, <1>9 DEF Score, Attempts
  <2>3. proc'[p] = [at |-> "publish", episodes |-> proc[p].episodes, todo |-> proc[p].todo]
    BY <1>1, <1>9, EvaluatorMoves DEF Score, EvidenceInv
  <2>4. Publishing(k)'
    BY <1>2, <2>3 DEF Publishing, Slot
  <2>5. /\ row'[k] \in 0..evaluation'[k].nth
        /\ evaluation'[k].nth <= faults' + 1
    BY <1>1, <1>2, <1>7, <2>1, <2>2 DEF Attempts
  <2> QED
    BY <1>1, <1>2, <1>5, <1>6, <2>4, <2>5 DEF Attempts, Final
<1>10. CASE Publish(p)
  <2>1. evaluation'[k].nth = evaluation[k].nth /\ evaluation'[k].stage = "manifest"
    BY <1>2, <1>10 DEF Publish, EvidenceInv, EvaluationType
  <2> QED
    BY <1>1, <1>2, <1>5, <1>6, <2>1 DEF Attempts, Final
<1> QED
  BY <1>8, <1>9, <1>10

LEMMA AttemptFails ==
  ASSUME EvidenceInv, Attempts, NEW p \in Procs, Fail(p)
  PROVE  Attempts'
<1>1. \A k \in Slots : evaluation[k].nth \in Nat
  BY DEF EvidenceInv, EvaluationType
<1>2. faults' = faults + 1 /\ faults' \in 0..MaxFaults /\ UNCHANGED <<row, evaluation>>
  BY DEF Fail, Attempts
<1>3. \A k \in Slots : evaluation[k].nth <= faults' /\ evaluation[k].nth <= faults' + 1
  BY <1>1, <1>2 DEF Attempts
<1> QED
  BY <1>2, <1>3 DEF Attempts

LEMMA StepAttempts ==
  ASSUME EvidenceInv, Places, Attempts, [Next]_vars
  PROVE  Attempts'
<1>1. CASE UNCHANGED <<proc, row, evaluation, faults>>
  BY <1>1, SameAttempts
<1>2. ASSUME NEW p \in Procs, Step(p) PROVE Attempts'
  <2>1. proc[p].at # "publish" => \A q \in Procs : proc[q].at = "publish" => proc'[q] = proc[q]
    BY <1>2, MovesToPlace
  <2>2. CASE Clear(p) \/ Score(p) \/ Publish(p)
    BY <2>2, AttemptOnSlot
  <2>3. CASE Fail(p)
    BY <2>3, AttemptFails
  <2>4. CASE Reuse(p) \/ IndexEvaluation(p)
    <3>1. Slot(p) \in Slots /\ proc[p].at # "publish"
      BY <2>4, LeastSlot DEF Reuse, IndexEvaluation, Places, Placed, Slot, Evaluating
    <3>2. /\ row' = [row EXCEPT ![Slot(p)] = evaluation[Slot(p)].nth]
          /\ UNCHANGED <<evaluation, faults>>
      BY <2>4 DEF Reuse, IndexEvaluation
    <3>3. evaluation[Slot(p)].nth \in 0..evaluation[Slot(p)].nth
      BY <3>1 DEF EvidenceInv, EvaluationType
    <3> QED
      BY <2>1, <3>1, <3>2, <3>3, RowOfAnAttempt DEF EvidenceInv
  <2>5. CASE ReindexWrites(p)
    <3>1. Slot(p) \in Slots /\ proc[p].at # "publish"
      BY <2>5, LeastSlot DEF ReindexWrites, Places, Placed, Slot
    <3>2. row' = [row EXCEPT ![Slot(p)] = proc[p].nth] /\ UNCHANGED <<evaluation, faults>>
      BY <2>5 DEF ReindexWrites
    <3>3. proc[p].nth \in 0..evaluation[Slot(p)].nth
      <4>1. proc[p].nth \in Nat /\ proc[p].nth <= evaluation[Slot(p)].nth
        BY <2>5 DEF ReindexWrites, Places, Placed, Slot
      <4>2. evaluation[Slot(p)].nth \in Nat
        BY <3>1 DEF EvidenceInv, EvaluationType
      <4> QED
        BY <4>1, <4>2
    <3> QED
      BY <2>1, <3>1, <3>2, <3>3, RowOfAnAttempt DEF EvidenceInv
  <2>6. CASE \/ Evaluate(p) \/ WriteMap(p) \/ Summarise(p)
             \/ OpenDataset(p) \/ ScanEpisode(p) \/ PublishDataset(p)
             \/ Infer(p) \/ WriteResults(p) \/ WriteManifest(p) \/ IndexAnalysis(p)
             \/ RebuildReport(p) \/ RewriteManifest(p)
             \/ Reindex(p) \/ ReindexReads(p) \/ ReindexAnalyses(p)
    <3>1. proc[p].at # "publish" /\ UNCHANGED <<row, evaluation, faults>>
      BY <2>6 DEF Evaluate, WriteMap, Summarise, OpenDataset, ScanEpisode, PublishDataset, Infer,
         WriteResults, WriteManifest, IndexAnalysis, RebuildReport, RewriteManifest, Reindex,
         ReindexReads, ReindexAnalyses, Idle
    <3> QED
      BY <2>1, <3>1, SameAttempts
  <2> QED
    BY <1>2, <2>2, <2>3, <2>4, <2>5, <2>6 DEF Step
<1> QED
  BY <1>1, <1>2 DEF Next, vars, EpisodePublished

LEMMA StepPlain ==
  ASSUME Plain, Places, [Next]_vars
  PROVE  Plain'
<1>1. CASE UNCHANGED vars
  BY <1>1 DEF vars, Plain
<1>2. CASE \E e \in Trials : EpisodePublished(e)
  BY <1>2 DEF EpisodePublished, Plain
<1>3. ASSUME NEW p \in Procs, Step(p) PROVE Plain'
  <2>1. CASE ReindexWrites(p)
    <3>1. Slot(p) \in Slots
      BY <2>1, LeastSlot DEF ReindexWrites, Places, Placed, Slot
    <3> QED
      BY <2>1, <3>1 DEF ReindexWrites, Plain
  <2>2. CASE WriteMap(p)
    BY <2>2 DEF WriteMap, Plain
  <2>3. CASE Reuse(p) \/ IndexEvaluation(p)
    BY <2>3 DEF Reuse, IndexEvaluation, Plain
  <2> QED
    BY <1>3, <2>1, <2>2, <2>3 DEF Step, Plain, Evaluate, Clear, Score, Publish, Summarise,
       OpenDataset, ScanEpisode, PublishDataset, Infer, WriteResults, WriteManifest,
       IndexAnalysis, RebuildReport, RewriteManifest, Reindex, ReindexReads, ReindexAnalyses, Fail
<1> QED
  BY <1>1, <1>2, <1>3 DEF Next

-----------------------------------------------------------------------------
(* Every variable keeps its type, no slot is scored more often than once   *)
(* plus once per fault, and no row names an attempt that was not made.     *)
THEOREM ResearchTypeCorrect == Spec => []TypeOK
<1>1. Init => Places /\ Attempts /\ Plain
  BY InitTypes
<1>2. ResearchInv /\ (Places /\ Attempts /\ Plain) /\ [Next]_vars => (Places /\ Attempts /\ Plain)'
  BY StepPlaces, StepAttempts, StepPlain DEF ResearchInv
<1>3. ResearchInv /\ (Places /\ Attempts /\ Plain) => TypeOK
  <2> SUFFICES ASSUME ResearchInv, Places, Attempts, Plain PROVE TypeOK
    OBVIOUS
  <2>1. ASSUME NEW k \in Slots
        PROVE  /\ evaluation[k].stage \in {"none", "empty", "record", "manifest"}
               /\ evaluation[k].nth \in 0..(MaxFaults + 1)
               /\ evaluation[k].result \in Results \cup {"none"}
               /\ row[k] \in 0..evaluation[k].nth
    <3>1. evaluation[k] \in [stage : {"none", "empty", "record", "manifest"}, nth : Nat,
                             result : Results \cup {"none"}]
      BY DEF ResearchInv, EvidenceInv, EvaluationType
    <3>2. evaluation[k].nth <= MaxFaults + 1
      BY <3>1 DEF Attempts
    <3> QED
      BY <3>1, <3>2 DEF Attempts
  <2> QED
    BY <2>1 DEF TypeOK, Plain, Attempts, Places, Placed, Stages
<1> QED
  BY <1>1, <1>2, <1>3, ResearchInvHolds, PTL DEF Spec

-----------------------------------------------------------------------------
(***************************************************************************)
(* A published analysis holds the results of the dataset its manifest      *)
(* names, for every number of processes, faults and datasets, also of      *)
(* datasets that share an analysis because their rows are the same.        *)
(*                                                                         *)
(* analysis.lock makes the process that infers unique.  It begins only if  *)
(* no manifest is there, so results.json may be replaced; the manifest     *)
(* follows while the results are still its own (UnderWay).  `research      *)
(* report` holds no lock, but the manifest it has read is for good, so it  *)
(* writes back what is there.                                              *)
(***************************************************************************)

OneInferrer ==
  \A p, q \in Procs : Holds(p, Inferring) /\ Holds(q, Inferring) => p = q

(* The files of the analysis a process is working on.                      *)
UnderWay(p) ==
  LET d == proc[p].dataset
      f == AnalysisOf(Rows(d))
  IN  /\ Holds(p, Inferring \cup {"infer"}) => d \in datasets
      /\ Holds(p, {"results", "manifest"}) => f.input = {}
      /\ Holds(p, {"manifest"}) => f.results = {d}
      /\ Holds(p, {"index"}) => f.input # {}
      /\ Holds(p, {"report"}) =>
           proc[p].input # {} /\ AnalysisOf(proc[p].of).input = proc[p].input

Matches(a) ==
  LET f == AnalysisOf(a)
  IN  f.input # {} => /\ f.results = f.input /\ f.input \subseteq datasets
                      /\ \A d \in f.input : Rows(d) = a

Files(f) == f = [results |-> f.results, input |-> f.input]
FilesType ==
  analysis = [a \in Analyses |-> analysis[a]] /\ \A a \in Analyses : Files(analysis[a])

AnalysisInv ==
  /\ OneInferrer
  /\ \A p \in Procs : UnderWay(p)
  /\ \A a \in Analyses : Matches(a)
  /\ \A a \in indexed : AnalysisOf(a).input # {}

LEMMA InitAnalysis == Init => AnalysisInv /\ FilesType
<1> SUFFICES ASSUME Init PROVE AnalysisInv /\ FilesType
  OBVIOUS
<1>1. \A p \in Procs : proc[p].at = "idle"
  BY DEF Init, Idle
<1>2. Analyses = {} /\ indexed = {} /\ analysis = [a \in Analyses |-> analysis[a]]
  BY DEF Init, Analyses
<1> QED
  BY <1>1, <1>2 DEF AnalysisInv, FilesType, OneInferrer, UnderWay, Holds, Inferring

-----------------------------------------------------------------------------
(* Writing an analysis                                                     *)

LEMMA ShapeOfFiles ==
  ASSUME FilesType, NEW a
  PROVE  Files(AnalysisOf(a))
  BY DEF FilesType, Files, AnalysisOf, NoAnalysis

LEMMA Written ==
  ASSUME NEW a, NEW f, analysis' = WithAnalysis(a, f)
  PROVE  /\ Analyses' = Analyses \cup {a} /\ AnalysisOf(a)' = f
         /\ \A b : b # a => AnalysisOf(b)' = AnalysisOf(b)
         /\ FilesType /\ Files(f) => FilesType'
<1>1. /\ Analyses' = Analyses \cup {a}
      /\ \A b \in Analyses \cup {a} : analysis'[b] = IF b = a THEN f ELSE analysis[b]
      /\ analysis' = [b \in Analyses' |-> analysis'[b]]
  BY DEF WithAnalysis, Analyses
<1> QED
  BY <1>1 DEF AnalysisOf, FilesType

LEMMA RewriteIsSilent ==
  ASSUME AnalysisInv, FilesType, NEW p \in Procs, RewriteManifest(p)
  PROVE  UNCHANGED <<analysis, datasets, indexed>>
<1> DEFINE a == proc[p].of
<1>1. AnalysisOf(a).input = proc[p].input /\ proc[p].input # {}
  BY DEF RewriteManifest, AnalysisInv, UnderWay, Holds
<1>2. a \in Analyses
  BY <1>1 DEF AnalysisOf, NoAnalysis
<1>3. [AnalysisOf(a) EXCEPT !.input = proc[p].input] = analysis[a]
  <2>1. AnalysisOf(a) = analysis[a] /\ Files(analysis[a])
    BY <1>2 DEF AnalysisOf, FilesType
  <2> QED
    BY <1>1, <2>1 DEF Files
<1>4. analysis' = WithAnalysis(a, analysis[a])
  BY <1>3 DEF RewriteManifest
<1>5. Analyses \cup {a} = Analyses
  BY <1>2
<1>6. WithAnalysis(a, analysis[a]) = [b \in Analyses |-> analysis[b]]
  BY <1>5 DEF WithAnalysis
<1> QED
  BY <1>4, <1>6 DEF FilesType, RewriteManifest

LEMMA WriteResultsKeeps ==
  ASSUME EvidenceInv, FilesType, AnalysisInv, NEW p \in Procs, WriteResults(p),
         NEW d, d = proc[p].dataset, NEW a, a = Rows(d)
  PROVE  AnalysisInv' /\ FilesType'
<1>1. /\ analysis' = WithAnalysis(a, [AnalysisOf(a) EXCEPT !.results = {d}])
      /\ Holds(p, Inferring) /\ Holds(p, {"results"}) /\ UNCHANGED <<datasets, indexed>>
  BY DEF WriteResults, Holds, Inferring
<1>2. AnalysisOf(a).input = {} /\ d \in datasets
  BY <1>1 DEF AnalysisInv, UnderWay, Holds
<1>3. AnalysisOf(a) = [results |-> AnalysisOf(a).results, input |-> {}]
  BY <1>2, ShapeOfFiles DEF Files
<1>4. /\ Analyses' = Analyses \cup {a} /\ AnalysisOf(a)' = [results |-> {d}, input |-> {}]
      /\ \A b : b # a => AnalysisOf(b)' = AnalysisOf(b)
      /\ FilesType'
  <2>1. [AnalysisOf(a) EXCEPT !.results = {d}] = [results |-> {d}, input |-> {}]
    BY <1>3
  <2> QED
    BY <1>1, <2>1, Written DEF Files
<1>5. /\ proc'[p].at = "manifest" /\ proc'[p].dataset = d
      /\ \A q \in Procs \ {p} : proc'[q] = proc[q] /\ ~Holds(q, Inferring)
  <2>1. \A q \in Procs \ {p} : proc'[q] = proc[q]
    BY Becomes DEF WriteResults, At, EvidenceInv
  <2> QED
    BY <1>1, <2>1, LaterMoves DEF AnalysisInv, OneInferrer
<1>6. OneInferrer'
  BY <1>5 DEF OneInferrer, Holds
<1>7. UnderWay(p)'
  <2>1. Rows(proc[p].dataset)' = a
    BY <1>5 DEF Rows
  <2> QED
    BY <1>1, <1>2, <1>4, <1>5, <2>1 DEF UnderWay, Holds
<1>8. ASSUME NEW q \in Procs \ {p} PROVE UnderWay(q)'
  <2>1. CASE Holds(q, {"report"})
    <3>1. UnderWay(q) /\ proc[q].at = "report" /\ proc'[q] = proc[q]
      BY <1>5, <2>1 DEF AnalysisInv, Holds
    <3>2. proc[q].input # {} /\ AnalysisOf(proc[q].of).input = proc[q].input
      BY <2>1, <3>1 DEF UnderWay
    <3>3. AnalysisOf(proc[q].of)' = AnalysisOf(proc[q].of)
      BY <1>2, <1>4, <3>1, <3>2
    <3> QED
      BY <3>1, <3>2, <3>3 DEF UnderWay, Holds, Inferring
  <2>2. CASE ~Holds(q, {"report"})
    BY <1>1, <1>5, <2>2 DEF AnalysisInv, UnderWay, Holds, Inferring
  <2> QED
    BY <2>1, <2>2
<1>9. ASSUME NEW b \in Analyses' PROVE Matches(b)'
  <2>1. CASE b = a
    BY <1>4, <2>1 DEF Matches
  <2>2. CASE b # a
    <3>1. Matches(b) /\ AnalysisOf(b)' = AnalysisOf(b)
      BY <1>4, <2>2 DEF AnalysisInv
    <3> QED
      BY <1>1, <3>1 DEF Matches, Rows
  <2> QED
    BY <2>1, <2>2
<1>10. \A b \in indexed' : AnalysisOf(b)'.input # {}
  BY <1>1, <1>2, <1>4 DEF AnalysisInv
<1> QED
  BY <1>4, <1>6, <1>7, <1>8, <1>9, <1>10 DEF AnalysisInv

LEMMA WriteManifestKeeps ==
  ASSUME EvidenceInv, FilesType, AnalysisInv, NEW p \in Procs, WriteManifest(p),
         NEW d, d = proc[p].dataset, NEW a, a = Rows(d)
  PROVE  AnalysisInv' /\ FilesType'
<1>1. /\ analysis' = WithAnalysis(a, [AnalysisOf(a) EXCEPT !.input = {d}])
      /\ Holds(p, Inferring) /\ Holds(p, {"manifest"}) /\ Holds(p, {"results", "manifest"})
      /\ UNCHANGED <<datasets, indexed>>
  BY DEF WriteManifest, Holds, Inferring
<1>2. AnalysisOf(a).results = {d} /\ AnalysisOf(a).input = {} /\ d \in datasets
  BY <1>1 DEF AnalysisInv, UnderWay, Holds
<1>3. AnalysisOf(a) = [results |-> {d}, input |-> {}]
  BY <1>2, ShapeOfFiles DEF Files
<1>4. /\ Analyses' = Analyses \cup {a} /\ AnalysisOf(a)' = [results |-> {d}, input |-> {d}]
      /\ \A b : b # a => AnalysisOf(b)' = AnalysisOf(b)
      /\ FilesType'
  <2>1. [AnalysisOf(a) EXCEPT !.input = {d}] = [results |-> {d}, input |-> {d}]
    BY <1>3
  <2> QED
    BY <1>1, <2>1, Written DEF Files
<1>5. /\ proc'[p].at = "index" /\ proc'[p].dataset = d
      /\ \A q \in Procs \ {p} : proc'[q] = proc[q] /\ ~Holds(q, Inferring)
  <2>1. \A q \in Procs \ {p} : proc'[q] = proc[q]
    BY Becomes DEF WriteManifest, At, EvidenceInv
  <2> QED
    BY <1>1, <2>1, LaterMoves DEF AnalysisInv, OneInferrer
<1>6. OneInferrer'
  BY <1>5 DEF OneInferrer, Holds
<1>7. UnderWay(p)'
  <2>1. Rows(proc[p].dataset)' = a
    BY <1>5 DEF Rows
  <2> QED
    BY <1>1, <1>2, <1>4, <1>5, <2>1 DEF UnderWay, Holds
<1>8. ASSUME NEW q \in Procs \ {p} PROVE UnderWay(q)'
  <2>1. CASE Holds(q, {"report"})
    <3>1. UnderWay(q) /\ proc[q].at = "report" /\ proc'[q] = proc[q]
      BY <1>5, <2>1 DEF AnalysisInv, Holds
    <3>2. proc[q].input # {} /\ AnalysisOf(proc[q].of).input = proc[q].input
      BY <2>1, <3>1 DEF UnderWay
    <3>3. AnalysisOf(proc[q].of)' = AnalysisOf(proc[q].of)
      BY <1>2, <1>4, <3>1, <3>2
    <3> QED
      BY <3>1, <3>2, <3>3 DEF UnderWay, Holds, Inferring
  <2>2. CASE ~Holds(q, {"report"})
    BY <1>1, <1>5, <2>2 DEF AnalysisInv, UnderWay, Holds, Inferring
  <2> QED
    BY <2>1, <2>2
<1>9. ASSUME NEW b \in Analyses' PROVE Matches(b)'
  <2>1. CASE b = a
    <3>1. AnalysisOf(b)' = [results |-> {d}, input |-> {d}] /\ d \in datasets'
      BY <1>1, <1>2, <1>4, <2>1
    <3>2. \A x : Rows(x)' = Rows(x)
      BY DEF Rows
    <3> QED
      BY <2>1, <3>1, <3>2 DEF Matches
  <2>2. CASE b # a
    <3>1. Matches(b) /\ AnalysisOf(b)' = AnalysisOf(b)
      BY <1>4, <2>2 DEF AnalysisInv
    <3> QED
      BY <1>1, <3>1 DEF Matches, Rows
  <2> QED
    BY <2>1, <2>2
<1>10. \A b \in indexed' : AnalysisOf(b)'.input # {}
  BY <1>1, <1>4 DEF AnalysisInv
<1> QED
  BY <1>4, <1>6, <1>7, <1>8, <1>9, <1>10 DEF AnalysisInv

-----------------------------------------------------------------------------
(* The steps that write no analysis                                        *)

LEMMA Scanning ==
  ASSUME EvidenceInv, NEW q \in Procs, OpenDataset(q) \/ ScanEpisode(q)
  PROVE  proc'[q].at = "scan"
<1>1. ASSUME NEW g, NEW E, NEW L, NEW F,
             Become(q, [at |-> "scan", goal |-> g, episodes |-> E, left |-> L, found |-> F])
      PROVE  proc'[q].at = "scan"
  BY <1>1, Becomes DEF EvidenceInv
<1>2. CASE OpenDataset(q)
  BY <1>1, <1>2 DEF OpenDataset
<1>3. CASE ScanEpisode(q)
  BY <1>1, <1>3 DEF ScanEpisode
<1> QED
  BY <1>2, <1>3

LEMMA LockKeepsOneInferrer ==
  ASSUME EvidenceInv, OneInferrer, NEW p \in Procs, Step(p)
  PROVE  OneInferrer'
<1>1. ASSUME NEW q \in Procs, Holds(q, Inferring)', ~Infer(q)
      PROVE  Holds(q, Inferring)
  <2>1. Holds(q, Later)'
    BY <1>1 DEF Holds, Later
  <2>2. CASE proc'[q] = proc[q]
    BY <1>1, <2>2 DEF Holds
  <2>3. CASE OpenDataset(q) \/ ScanEpisode(q)
    BY <1>1, <2>3, Scanning DEF Holds, Inferring
  <2>4. CASE PublishDataset(q) \/ RebuildReport(q)
    BY <1>1, <2>4, LaterMoves DEF Holds, Inferring
  <2>5. CASE WriteResults(q) \/ WriteManifest(q)
    BY <2>5 DEF WriteResults, WriteManifest, Holds, Inferring
  <2> QED
    BY <1>1, <2>1, <2>2, <2>3, <2>4, <2>5, WhoComesLater
<1>2. ASSUME NEW q \in Procs, Infer(q), NEW r \in Procs \ {q}
      PROVE  ~Holds(r, Inferring)'
  <2>1. ~Holds(r, Inferring)
    BY <1>2 DEF Infer, Free
  <2>2. proc'[r] = proc[r]
    BY <1>2, Becomes DEF Infer, EvidenceInv
  <2> QED
    BY <2>1, <2>2 DEF Holds
<1> QED
  BY <1>1, <1>2 DEF OneInferrer

(* A process other than those that write stays within what is on disk.     *)
LEMMA OthersStayUnderWay ==
  ASSUME EvidenceInv, AnalysisInv, NEW p \in Procs, Step(p), UNCHANGED analysis,
         datasets \subseteq datasets', NEW q \in Procs, ~WriteResults(q), ~WriteManifest(q)
  PROVE  UnderWay(q)'
<1>1. \A x : Rows(x)' = Rows(x) /\ AnalysisOf(x)' = AnalysisOf(x)
  BY DEF Rows, AnalysisOf, Analyses
<1>2. CASE ~Holds(q, Later)'
  BY <1>2 DEF UnderWay, Holds, Later, Inferring
<1>3. CASE proc'[q] = proc[q]
  BY <1>1, <1>3 DEF AnalysisInv, UnderWay, Holds, Inferring
<1>4. CASE OpenDataset(q) \/ ScanEpisode(q)
  <2>1. proc'[q].at = "scan"
    BY <1>4, Scanning
  <2> QED
    BY <2>1 DEF UnderWay, Holds, Inferring
<1>5. CASE PublishDataset(q)
  <2>1. Inputs(proc[q].episodes, proc[q].found) \in datasets'
    BY <1>5 DEF PublishDataset
  <2> QED
    BY <1>5, <2>1, LaterMoves DEF UnderWay, Holds, Inferring
<1>6. CASE Infer(q)
  <2>1. proc[q].dataset \in datasets
    BY <1>6 DEF Infer, AnalysisInv, UnderWay, Holds
  <2>2. CASE proc'[q].at = "idle"
    BY <2>2 DEF UnderWay, Holds, Inferring
  <2>3. CASE /\ proc'[q].at = "results" /\ proc'[q].dataset = proc[q].dataset
             /\ AnalysisOf(Rows(proc[q].dataset)).input = {}
    BY <1>1, <2>1, <2>3 DEF UnderWay, Holds, Inferring
  <2> QED
    BY <1>6, <2>2, <2>3, LaterMoves
<1>7. CASE RebuildReport(q)
  BY <1>1, <1>7, LaterMoves DEF UnderWay, Holds, Inferring
<1> QED
  BY <1>2, <1>3, <1>4, <1>5, <1>6, <1>7, WhoComesLater

(* A step that writes no analysis, and adds to the table only what is      *)
(* published.                                                              *)
LEMMA OthersKeepAnalyses ==
  ASSUME EvidenceInv, AnalysisInv, FilesType, NEW p \in Procs, Step(p), UNCHANGED analysis,
         datasets \subseteq datasets', \A a \in indexed' \ indexed : AnalysisOf(a).input # {},
         \A q \in Procs : ~WriteResults(q) /\ ~WriteManifest(q)
  PROVE  AnalysisInv' /\ FilesType'
<1>1. \A x : Rows(x)' = Rows(x) /\ AnalysisOf(x)' = AnalysisOf(x)
  BY DEF Rows, AnalysisOf, Analyses
<1>2. \A a \in Analyses' : Matches(a)'
  BY <1>1 DEF AnalysisInv, Matches, Analyses
<1>3. \A a \in indexed' : AnalysisOf(a)'.input # {}
  BY <1>1 DEF AnalysisInv
<1>4. OneInferrer' /\ \A q \in Procs : UnderWay(q)'
  BY LockKeepsOneInferrer, OthersStayUnderWay DEF AnalysisInv
<1>5. FilesType'
  BY DEF FilesType, Files, Analyses
<1> QED
  BY <1>2, <1>3, <1>4, <1>5 DEF AnalysisInv

LEMMA StepAnalysis ==
  ASSUME EvidenceInv, AnalysisInv, FilesType, [Next]_vars
  PROVE  AnalysisInv' /\ FilesType'
<1>1. CASE UNCHANGED <<proc, analysis, datasets, indexed>>
  <2>1. \A x : Rows(x)' = Rows(x) /\ AnalysisOf(x)' = AnalysisOf(x)
    BY <1>1 DEF Rows, AnalysisOf, Analyses
  <2>2. OneInferrer' /\ \A q \in Procs : UnderWay(q)'
    BY <1>1, <2>1 DEF AnalysisInv, OneInferrer, UnderWay, Holds
  <2>3. \A a \in Analyses' : Matches(a)'
    BY <1>1, <2>1 DEF AnalysisInv, Matches, Analyses
  <2>4. FilesType' /\ \A a \in indexed' : AnalysisOf(a)'.input # {}
    BY <1>1, <2>1 DEF AnalysisInv, FilesType, Files, Analyses
  <2> QED
    BY <2>2, <2>3, <2>4 DEF AnalysisInv
<1>2. CASE \E q \in Procs : WriteResults(q)
  BY <1>2, WriteResultsKeeps
<1>3. CASE \E q \in Procs : WriteManifest(q)
  BY <1>3, WriteManifestKeeps
<1>4. ASSUME NEW p \in Procs, Step(p), \A q \in Procs : ~WriteResults(q) /\ ~WriteManifest(q)
      PROVE  AnalysisInv' /\ FilesType'
  <2>1. UNCHANGED analysis /\ datasets \subseteq datasets'
    <3>1. CASE PublishDataset(p)
      BY <3>1 DEF PublishDataset
    <3>3. CASE RewriteManifest(p)
      BY <3>3, RewriteIsSilent
    <3>2. CASE ~PublishDataset(p) /\ ~RewriteManifest(p)
      <4>1. ~WriteResults(p) /\ ~WriteManifest(p)
        BY <1>4
      <4> QED
        BY <1>4, <3>2, <4>1 DEF Step, Evaluate, Reuse, Clear, Score, Publish, IndexEvaluation,
           WriteMap, Summarise, OpenDataset, ScanEpisode, Infer, IndexAnalysis, RebuildReport,
           Reindex, ReindexReads, ReindexWrites, ReindexAnalyses, Fail
    <3> QED
      BY <3>1, <3>2, <3>3
  <2>2. \A a \in indexed' \ indexed : AnalysisOf(a).input # {}
    <3>1. CASE IndexAnalysis(p)
      <4>1. indexed' = indexed \cup {Rows(proc[p].dataset)}
        BY <3>1 DEF IndexAnalysis, UpsertAnalyses
      <4>2. AnalysisOf(Rows(proc[p].dataset)).input # {}
        BY <3>1 DEF IndexAnalysis, AnalysisInv, UnderWay, Holds
      <4> QED
        BY <4>1, <4>2
    <3>2. CASE ReindexAnalyses(p)
      BY <3>2 DEF ReindexAnalyses, UpsertAnalyses, AnalysisOf
    <3>3. CASE UNCHANGED indexed
      BY <3>3
    <3> QED
      BY <1>4, <3>1, <3>2, <3>3 DEF Step, Evaluate, Reuse, Clear, Score, Publish,
         IndexEvaluation, WriteMap, Summarise, OpenDataset, ScanEpisode, PublishDataset, Infer,
         WriteResults, WriteManifest, RebuildReport, RewriteManifest, Reindex, ReindexReads,
         ReindexWrites, Fail
  <2> QED
    BY <1>4, <2>1, <2>2, OthersKeepAnalyses
<1>5. CASE UNCHANGED vars \/ \E e \in Trials : EpisodePublished(e)
  BY <1>1, <1>5 DEF vars, EpisodePublished
<1>6. CASE \E p \in Procs : Step(p)
  BY <1>2, <1>3, <1>4, <1>6
<1> QED
  BY <1>5, <1>6 DEF Next

LEMMA AnalysisInvHolds == Spec => [](AnalysisInv /\ FilesType)
<1>1. Init => AnalysisInv /\ FilesType
  BY InitAnalysis
<1>2. ResearchInv /\ AnalysisInv /\ FilesType /\ [Next]_vars => (AnalysisInv /\ FilesType)'
  BY StepAnalysis DEF ResearchInv
<1> QED
  BY <1>1, <1>2, ResearchInvHolds, PTL DEF Spec

-----------------------------------------------------------------------------
(* Whichever processes infer, crash and infer again, a published analysis  *)
(* holds the results of the published dataset its manifest names, and the  *)
(* analyses table lists only published ones.                               *)
THEOREM AnalysisMatchesItsDatasetHolds == Spec => []AnalysisMatchesItsDataset
<1>1. AnalysisInv => AnalysisMatchesItsDataset
  BY DEF AnalysisInv, Matches, AnalysisOf, AnalysisMatchesItsDataset
<1> QED
  BY <1>1, AnalysisInvHolds, PTL

LEMMA AnalysesStay ==
  ASSUME AnalysisInv, FilesType, [Next]_vars, NEW a \in Analyses, analysis[a].input # {}
  PROVE  AnalysisOf(a)' = analysis[a]
<1>1. AnalysisOf(a) = analysis[a]
  BY DEF AnalysisOf
<1>2. CASE UNCHANGED analysis
  BY <1>1, <1>2 DEF AnalysisOf, Analyses
<1>3. ASSUME NEW p \in Procs, WriteResults(p) \/ WriteManifest(p) PROVE AnalysisOf(a)' = analysis[a]
  <2>1. PICK d, f : d = proc[p].dataset /\ analysis' = WithAnalysis(Rows(d), f)
    BY <1>3 DEF WriteResults, WriteManifest
  <2>2. AnalysisOf(Rows(d)).input = {}
    BY <1>3, <2>1 DEF WriteResults, WriteManifest, AnalysisInv, UnderWay, Holds
  <2>3. Rows(d) # a
    BY <1>1, <2>2
  <2>4. \A b : b # Rows(d) => AnalysisOf(b)' = AnalysisOf(b)
    BY <2>1, Written
  <2> QED
    BY <1>1, <2>3, <2>4
<1>4. CASE \E e \in Trials : EpisodePublished(e)
  BY <1>2, <1>4 DEF EpisodePublished
<1>5. ASSUME NEW p \in Procs, Step(p), ~WriteResults(p), ~WriteManifest(p)
      PROVE  UNCHANGED analysis
  BY <1>5, RewriteIsSilent DEF Step, Evaluate, Reuse, Clear, Score, Publish, IndexEvaluation,
     WriteMap, Summarise, OpenDataset, ScanEpisode, PublishDataset, Infer, IndexAnalysis,
     RebuildReport, Reindex, ReindexReads, ReindexWrites, ReindexAnalyses, Fail
<1> QED
  BY <1>2, <1>3, <1>4, <1>5 DEF Next, vars

(* No command, crash or retry changes an evaluation that has its manifest, *)
(* or the results of an analysis that has one and the dataset it names:    *)
(* the evaluator clears and scores only directories that have none, only   *)
(* the process that found none writes results, and `research report` gives *)
(* the manifest back the dataset it read there.                            *)
THEOREM PublishedIsFinalHolds == Spec => PublishedIsFinal
<1>1. ResearchInv /\ AnalysisInv /\ FilesType /\ [Next]_vars
      => [/\ \A k \in Slots : Final(k) => evaluation'[k] = evaluation[k]
          /\ \A a \in Analyses : analysis[a].input # {} =>
               AnalysisOf(a)'.results = analysis[a].results /\ AnalysisOf(a)'.input = analysis[a].input]_vars
  BY StepEvidence, AnalysesStay DEF ResearchInv
<1> QED
  BY <1>1, ResearchInvHolds, AnalysisInvHolds, PTL DEF Spec, PublishedIsFinal

-----------------------------------------------------------------------------
(***************************************************************************)
(* A confirmatory run has at most one analysis, of everything it planned,  *)
(* for every number of planned episodes, repetitions, processes, faults    *)
(* and datasets.                                                           *)
(*                                                                         *)
(* A dataset reads each evaluation at most once, and only evaluations of   *)
(* the episodes it lists (Scope).  So one that lacks none of the planned   *)
(* number has read every slot, and because what it read is still true of   *)
(* the files (Grounded) two such datasets have the same rows.  Nothing     *)
(* else gets past infer_run's refusal of unscored evaluations (Accepted).  *)
(***************************************************************************)

Planned(E, R) == E \subseteq Trials /\ \A x \in R : EpisodeOf(x.slot) \in E

Scope ==
  /\ published \subseteq Trials
  /\ \A p \in Procs : Holds(p, Building) =>
       proc[p].left \subseteq proc[p].episodes /\ Planned(proc[p].episodes, proc[p].found)
  /\ \A d \in datasets : Planned(d.bundles, d.evaluations)

Complete(d) == d \in datasets /\ Unscored(d) = 0

Accepted ==
  confirmatory =>
    /\ \A p \in Procs : Holds(p, Inferring) => Complete(proc[p].dataset)
    /\ \A a \in Analyses :
         /\ \E d \in datasets : Complete(d) /\ Rows(d) = a
         /\ \A d \in analysis[a].results \cup analysis[a].input : Complete(d)

-----------------------------------------------------------------------------
(* A complete dataset has read everything                                  *)

LEMMA MinIsMember ==
  ASSUME NEW S, S \subseteq Nat, S # {}
  PROVE  Min(S) \in S
<1> DEFINE R == {s \in Nat \X Nat : s[1] < s[2]}
<1>1. IsWellFoundedOn(R, Nat)
  <2>1. R = OpToRel(<, Nat)
    BY Zenon DEF OpToRel
  <2> QED
    BY <2>1, NatLessThanWellFounded
<1>2. \A x, y \in Nat : y < x => <<y, x>> \in R
  OBVIOUS
<1> HIDE DEF R
<1>3. PICK x \in S : \A y \in S : ~(<<y, x>> \in R)
  BY <1>1, WFMin
<1>4. \A y \in S : x <= y
  <2> SUFFICES ASSUME NEW y \in S PROVE x <= y
    OBVIOUS
  <2>1. ~(y < x)
    BY <1>2, <1>3
  <2> QED
    BY <2>1
<1> QED
  BY <1>4 DEF Min

LEMMA NumberOfSlots ==
  IsFiniteSet(Slots) /\ Cardinality(Slots) = NTrials * Reps /\ Cardinality(Slots) \in Nat
<1>1. NTrials * Reps \in Nat /\ 1 \in Int
  OBVIOUS
<1>2. NTrials * Reps >= 1
  <2>1. NTrials * Reps >= NTrials * 1
    BY GrowsWithFactor
  <2> QED
    BY <2>1
<1> QED
  BY <1>1, <1>2, FS_Interval DEF Slots

(* Every planned episode has a slot, its first.                            *)
LEMMA EpisodesHaveSlots ==
  ASSUME NEW e \in Trials
  PROVE  \E k \in Slots : EpisodeOf(k) = e
<1> DEFINE n == e - 1
           k == Reps * n + 1
           q == (k - 1) \div Reps
<1>1. n \in Nat /\ n + 1 <= NTrials
  BY DEF Trials
<1>2. Reps * n \in Nat /\ Reps * (n + 1) = Reps * n + Reps
  BY <1>1
<1>3. Reps * NTrials >= Reps * (n + 1)
  BY <1>1, GrowsWithFactor
<1>4. NTrials * Reps = Reps * NTrials
  OBVIOUS
<1>5. k \in Slots
  BY <1>2, <1>3, <1>4 DEF Slots
<1>6. q \in Int /\ Reps * q <= Reps * n /\ Reps * n < Reps * (q + 1)
  BY <1>2
<1> HIDE DEF q
<1>7. ~(q >= n + 1)
  <2>1. q >= n + 1 => Reps * q >= Reps * (n + 1)
    BY <1>1, <1>6, GrowsWithFactor
  <2> QED
    BY <1>2, <1>6, <2>1
<1>8. ~(n >= q + 1)
  <2>1. n >= q + 1 => Reps * n >= Reps * (q + 1)
    BY <1>1, <1>6, GrowsWithFactor
  <2> QED
    BY <1>2, <1>6, <2>1
<1>9. q = n
  BY <1>1, <1>6, <1>7, <1>8
<1>10. EpisodeOf(k) = e
  <2>1. q + 1 = e
    BY <1>1, <1>9 DEF Trials
  <2> QED
    BY <2>1 DEF EpisodeOf, q
<1> QED
  BY <1>5, <1>10

Everything == {Read(k) : k \in Slots}

LEMMA CompleteIsEverything ==
  ASSUME Grounded, Scope, NEW d, Complete(d)
  PROVE  d.bundles = Trials /\ d.evaluations = Everything
<1>1. /\ \A x \in d.evaluations : True(x)
      /\ Planned(d.bundles, d.evaluations)
  BY DEF Complete, Grounded, Scope
<1>2. IsFiniteSet(Everything) /\ Cardinality(Everything) = Cardinality(Slots)
  <2> DEFINE f == [k \in Slots |-> Read(k)]
  <2>1. \A j, k \in Slots : f[j] = f[k] => j = k
    BY DEF Read
  <2>2. f \in Bijection(Slots, Everything)
    <3>1. f \in [Slots -> Everything] /\ \A x \in Everything : \E k \in Slots : f[k] = x
      BY DEF Everything
    <3> HIDE DEF f
    <3> QED
      BY <2>1, <3>1, Zenon DEF Bijection, Injection, Surjection, IsInjective
  <2>3. ExistsBijection(Slots, Everything)
    BY <2>2, Zenon DEF ExistsBijection
  <2> QED
    BY <2>3, NumberOfSlots, FS_Bijection
<1>3. d.evaluations \in SUBSET Everything
  BY <1>1 DEF True, Everything
<1>4. IsFiniteSet(d.evaluations) /\ Cardinality(d.evaluations) = Cardinality(Slots)
  <2>1. IsFiniteSet(d.evaluations)
    BY <1>2, <1>3, FS_Subset
  <2>2. Cardinality(d.evaluations) \in Nat
    BY <2>1, FS_CardinalityType
  <2> QED
    BY <2>1, <2>2, NumberOfSlots DEF Complete, Unscored
<1>5. d.evaluations = Everything
  BY <1>2, <1>3, <1>4, FS_Subset
<1>6. Trials \subseteq d.bundles
  <2> SUFFICES ASSUME NEW e \in Trials PROVE e \in d.bundles
    OBVIOUS
  <2>1. PICK k \in Slots : EpisodeOf(k) = e
    BY EpisodesHaveSlots
  <2>2. Read(k) \in d.evaluations /\ Read(k).slot = k
    BY <1>5 DEF Everything, Read
  <2> QED
    BY <1>1, <2>1, <2>2 DEF Planned
<1> QED
  BY <1>1, <1>5, <1>6 DEF Planned

-----------------------------------------------------------------------------
(* What a dataset reads                                                    *)

LEMMA InitScope == Init => Scope /\ Accepted
<1> SUFFICES ASSUME Init PROVE Scope /\ Accepted
  OBVIOUS
<1>1. \A p \in Procs : proc[p].at = "idle"
  BY DEF Init, Idle
<1>2. Analyses = {}
  BY DEF Init, Analyses
<1> QED
  BY <1>1, <1>2 DEF Init, Scope, Accepted, Holds, Building, Inferring

(* What no step changes, and what only PublishDataset and the writes do.   *)
LEMMA Frame ==
  ASSUME [Next]_vars
  PROVE  /\ confirmatory' = confirmatory
         /\ published \subseteq Trials => published' \subseteq Trials
         /\ (\E p \in Procs : PublishDataset(p)) \/ UNCHANGED datasets
         /\ (\E p \in Procs : WriteResults(p) \/ WriteManifest(p) \/ RewriteManifest(p))
              \/ UNCHANGED analysis
<1> USE DEF EpisodePublished, Evaluate, Reuse, Clear, Score, Publish, IndexEvaluation, WriteMap,
            Summarise, OpenDataset, ScanEpisode, Infer, IndexAnalysis, RebuildReport, Reindex,
            ReindexReads, ReindexWrites, ReindexAnalyses, Fail
<1>1. CASE UNCHANGED vars
  BY <1>1 DEF vars
<1>2. CASE \E e \in Trials : EpisodePublished(e)
  BY <1>2
<1>3. CASE \E p \in Procs : PublishDataset(p)
  BY <1>3 DEF PublishDataset
<1>4. CASE \E p \in Procs : WriteResults(p) \/ WriteManifest(p) \/ RewriteManifest(p)
  BY <1>4 DEF WriteResults, WriteManifest, RewriteManifest
<1>5. ASSUME NEW p \in Procs, Step(p), ~PublishDataset(p), ~WriteResults(p), ~WriteManifest(p),
             ~RewriteManifest(p)
      PROVE  UNCHANGED <<confirmatory, published, datasets, analysis>>
  BY <1>5 DEF Step
<1> QED
  BY <1>1, <1>2, <1>3, <1>4, <1>5 DEF Next

LEMMA ScanKeepsScope ==
  ASSUME EvidenceInv, Scope, NEW q \in Procs, ScanEpisode(q)
  PROVE  /\ proc'[q].left \subseteq proc'[q].episodes
         /\ Planned(proc'[q].episodes, proc'[q].found)
<1> DEFINE e == Min(proc[q].left)
           R == {Read(k) : k \in {k \in SlotsOf({e}) : Final(k)}}
           s == [at |-> "scan", goal |-> proc[q].goal, episodes |-> proc[q].episodes,
                 left |-> proc[q].left \ {e}, found |-> proc[q].found \cup R]
<1>1. /\ proc[q].left \subseteq proc[q].episodes
      /\ Planned(proc[q].episodes, proc[q].found) /\ proc[q].left # {}
  BY DEF ScanEpisode, Scope, Holds, Building
<1>2. e \in proc[q].episodes
  <2>1. proc[q].left \subseteq Nat
    BY <1>1 DEF Planned, Trials
  <2> QED
    BY <1>1, <2>1, MinIsMember
<1>3. \A x \in R : EpisodeOf(x.slot) = e
  BY DEF Read, SlotsOf
<1>4. proc'[q] = s
  <2>1. Become(q, s)
    BY DEF ScanEpisode
  <2> QED
    BY <2>1, Becomes DEF EvidenceInv
<1>5. /\ proc'[q].left \subseteq proc[q].left /\ proc'[q].episodes = proc[q].episodes
      /\ proc'[q].found = proc[q].found \cup R
  BY <1>4
<1> HIDE DEF e, R
<1> QED
  BY <1>1, <1>2, <1>3, <1>5 DEF Planned

LEMMA StepScope ==
  ASSUME EvidenceInv, Scope, [Next]_vars
  PROVE  Scope'
<1>1. published' \subseteq Trials
  BY Frame DEF Scope
<1>2. \A d \in datasets' : Planned(d.bundles, d.evaluations)
  <2>1. CASE UNCHANGED datasets
    BY <2>1 DEF Scope
  <2>2. ASSUME NEW p \in Procs, PublishDataset(p)
        PROVE  \A d \in datasets' : Planned(d.bundles, d.evaluations)
    <3>1. Planned(proc[p].episodes, proc[p].found)
      BY <2>2 DEF PublishDataset, Scope, Holds, Building
    <3>2. datasets' = datasets \cup {Inputs(proc[p].episodes, proc[p].found)}
      BY <2>2 DEF PublishDataset
    <3> QED
      BY <3>1, <3>2 DEF Scope, Inputs
  <2> QED
    BY <2>1, <2>2, Frame
<1>3. ASSUME NEW q \in Procs, Holds(q, Building)'
      PROVE  /\ proc'[q].left \subseteq proc'[q].episodes
             /\ Planned(proc'[q].episodes, proc'[q].found)
  <2>1. CASE proc'[q] = proc[q]
    BY <1>3, <2>1 DEF Scope, Holds
  <2>2. CASE OpenDataset(q)
    <3>1. PICK goal \in Goals :
            Become(q, [at |-> "scan", goal |-> goal, episodes |-> published,
                       left |-> published, found |-> {}])
      BY <2>2 DEF OpenDataset
    <3>2. proc'[q] = [at |-> "scan", goal |-> goal, episodes |-> published,
                      left |-> published, found |-> {}]
      BY <3>1, Becomes DEF EvidenceInv
    <3> QED
      BY <3>2 DEF Scope, Planned
  <2>3. CASE ScanEpisode(q)
    BY <2>3, ScanKeepsScope
  <2>4. CASE \/ PublishDataset(q) \/ Infer(q) \/ WriteResults(q) \/ WriteManifest(q)
             \/ RebuildReport(q)
    BY <1>3, <2>4, LaterMoves DEF Holds, Building
  <2>5. CASE \E p \in Procs : Step(p)
    <3>1. Holds(q, Later)'
      BY <1>3 DEF Holds, Later
    <3> QED
      BY <2>1, <2>2, <2>3, <2>4, <2>5, <3>1, WhoComesLater
  <2>6. CASE UNCHANGED vars \/ \E e \in Trials : EpisodePublished(e)
    BY <2>1, <2>6 DEF vars, EpisodePublished
  <2> QED
    BY <2>5, <2>6 DEF Next
<1>4. \A q \in Procs : Holds(q, Building)' =>
        /\ (proc[q].left)' \subseteq (proc[q].episodes)'
        /\ Planned((proc[q].episodes)', (proc[q].found)')
  BY <1>3
<1> QED
  BY <1>1, <1>2, <1>4 DEF Scope, Planned

-----------------------------------------------------------------------------
(* Nothing incomplete is analysed                                          *)

LEMMA CompleteForGood ==
  ASSUME [Next]_vars, NEW d, Complete(d)
  PROVE  Complete(d)'
  BY Frame DEF Complete, Unscored, PublishDataset

LEMMA InferAccepts ==
  ASSUME EvidenceInv, NEW q \in Procs, Infer(q), Holds(q, Inferring)'
  PROVE  Accepts(proc[q].dataset) /\ proc'[q].dataset = proc[q].dataset
<1>1. ~Become(q, Idle)
  BY Becomes DEF EvidenceInv, Holds, Inferring, Idle
<1> QED
  BY <1>1, LaterMoves DEF Infer, Holds, Inferring

LEMMA InferrersStayAccepted ==
  ASSUME EvidenceInv, AnalysisInv, Accepted, confirmatory, [Next]_vars,
         NEW q \in Procs, Holds(q, Inferring)'
  PROVE  Complete(proc[q].dataset)'
<1>1. CASE proc'[q] = proc[q]
  <2>1. Complete(proc[q].dataset)
    BY <1>1 DEF Accepted, Holds
  <2> DEFINE d == proc[q].dataset
  <2>2. proc'[q].dataset = d /\ Complete(d)
    BY <1>1, <2>1
  <2> HIDE DEF d
  <2> QED
    BY <2>2, CompleteForGood DEF Complete, Unscored
<1>2. ASSUME NEW d, d = proc[q].dataset, Complete(d), proc'[q].dataset = d
      PROVE  Complete(proc[q].dataset)'
  BY <1>2, CompleteForGood DEF Complete, Unscored
<1>3. CASE Infer(q)
  <2>1. Accepts(proc[q].dataset) /\ proc'[q].dataset = proc[q].dataset
    BY <1>3, InferAccepts
  <2>2. proc[q].dataset \in datasets
    BY <1>3 DEF Infer, AnalysisInv, UnderWay, Holds
  <2>3. Complete(proc[q].dataset)
    BY <2>1, <2>2 DEF Complete, Accepts
  <2> QED
    BY <1>2, <2>1, <2>3
<1>4. CASE WriteResults(q) \/ WriteManifest(q)
  <2>1. Complete(proc[q].dataset)
    BY <1>4 DEF WriteResults, WriteManifest, Accepted, Holds, Inferring
  <2> QED
    BY <1>2, <1>4, <2>1, LaterMoves
<1>5. CASE OpenDataset(q) \/ ScanEpisode(q)
  BY <1>5, Scanning DEF Holds, Inferring
<1>6. CASE PublishDataset(q) \/ RebuildReport(q)
  BY <1>6, LaterMoves DEF Holds, Inferring
<1>7. CASE \E p \in Procs : Step(p)
  <2>1. Holds(q, Later)'
    BY DEF Holds, Later
  <2> QED
    BY <1>1, <1>3, <1>4, <1>5, <1>6, <1>7, <2>1, WhoComesLater
<1>8. CASE UNCHANGED vars \/ \E e \in Trials : EpisodePublished(e)
  BY <1>1, <1>8 DEF vars, EpisodePublished
<1> QED
  BY <1>7, <1>8 DEF Next

AnalysedComplete(a) ==
  /\ \E d \in datasets : Complete(d) /\ Rows(d) = a
  /\ \A d \in AnalysisOf(a).results \cup AnalysisOf(a).input : Complete(d)

LEMMA KeptAnalysis ==
  ASSUME [Next]_vars, NEW b, AnalysedComplete(b), AnalysisOf(b)' = AnalysisOf(b)
  PROVE  AnalysedComplete(b)'
<1>1. \A x : Rows(x)' = Rows(x)
  BY DEF Rows
<1>2. \A x : Complete(x) => Complete(x)'
  BY CompleteForGood
<1> QED
  BY <1>1, <1>2 DEF AnalysedComplete, Complete

LEMMA WrittenAnalysis ==
  ASSUME [Next]_vars, FilesType, NEW d, Complete(d), NEW f,
         \A x \in AnalysisOf(Rows(d)).results \cup AnalysisOf(Rows(d)).input : Complete(x),
         f.results \cup f.input \subseteq
           AnalysisOf(Rows(d)).results \cup AnalysisOf(Rows(d)).input \cup {d},
         NEW a, a = Rows(d), analysis' = WithAnalysis(a, f),
         \A b \in Analyses : AnalysedComplete(b)
  PROVE  \A b \in Analyses' : AnalysedComplete(b)'
<1>1. /\ Analyses' = Analyses \cup {a} /\ AnalysisOf(a)' = f
      /\ \A b : b # a => AnalysisOf(b)' = AnalysisOf(b)
  BY Written
<1>2. \A x : Complete(x) => Complete(x)'
  BY CompleteForGood
<1>3. AnalysedComplete(a)'
  <2>1. Rows(d)' = a
    BY DEF Rows
  <2>2. d \in datasets' /\ Complete(d)'
    BY <1>2 DEF Complete
  <2>3. \A x \in f.results \cup f.input : Complete(x)'
    BY <1>2
  <2> QED
    BY <1>1, <2>1, <2>2, <2>3 DEF AnalysedComplete
<1> QED
  BY <1>1, <1>3, KeptAnalysis

LEMMA AnalysesStayComplete ==
  ASSUME EvidenceInv, AnalysisInv, FilesType, [Next]_vars,
         \A p \in Procs : Holds(p, Inferring) => Complete(proc[p].dataset),
         \A b \in Analyses : AnalysedComplete(b)
  PROVE  \A b \in Analyses' : AnalysedComplete(b)'
<1>1. CASE UNCHANGED analysis
  <2>1. Analyses' = Analyses /\ \A b : AnalysisOf(b)' = AnalysisOf(b)
    BY <1>1 DEF Analyses, AnalysisOf
  <2> QED
    BY <2>1, KeptAnalysis
<1>2. ASSUME NEW p \in Procs, WriteResults(p) \/ WriteManifest(p)
      PROVE  \A b \in Analyses' : AnalysedComplete(b)'
  <2> DEFINE d == proc[p].dataset
             a == Rows(d)
             g == AnalysisOf(a)
  <2>1. Complete(d)
    BY <1>2 DEF WriteResults, WriteManifest, Holds, Inferring
  <2>2. g = [results |-> g.results, input |-> g.input]
    BY ShapeOfFiles DEF Files
  <2>3. \A x \in g.results \cup g.input : Complete(x)
    <3>1. CASE a \in Analyses
      BY <3>1 DEF AnalysedComplete
    <3>2. CASE a \notin Analyses
      BY <3>2 DEF AnalysisOf, NoAnalysis
    <3> QED
      BY <3>1, <3>2
  <2>4. \/ analysis' = WithAnalysis(a, [g EXCEPT !.results = {d}])
        \/ analysis' = WithAnalysis(a, [g EXCEPT !.input = {d}])
    BY <1>2 DEF WriteResults, WriteManifest
  <2>5. PICK f : /\ analysis' = WithAnalysis(a, f)
                 /\ f.results \cup f.input \subseteq g.results \cup g.input \cup {d}
    <3> HIDE DEF g, a, d
    <3>1. [g EXCEPT !.results = {d}] = [results |-> {d}, input |-> g.input]
      BY <2>2
    <3>2. [g EXCEPT !.input = {d}] = [results |-> g.results, input |-> {d}]
      BY <2>2
    <3> QED
      BY <2>4, <3>1, <3>2
  <2> HIDE DEF d
  <2> QED
    BY <2>1, <2>3, <2>5, WrittenAnalysis
<1>3. CASE \E p \in Procs : RewriteManifest(p)
  BY <1>1, <1>3, RewriteIsSilent
<1> QED
  BY <1>1, <1>2, <1>3, Frame

LEMMA AcceptedAnalyses ==
  Accepted <=>
    (confirmatory =>
       /\ \A p \in Procs : Holds(p, Inferring) => Complete(proc[p].dataset)
       /\ \A b \in Analyses : AnalysedComplete(b))
  BY DEF Accepted, AnalysedComplete, AnalysisOf

LEMMA StepAccepted ==
  ASSUME EvidenceInv, AnalysisInv, FilesType, Accepted, [Next]_vars
  PROVE  Accepted'
<1>1. confirmatory' = confirmatory
  BY Frame
<1>2. ASSUME confirmatory
      PROVE  /\ \A p \in Procs : Holds(p, Inferring)' => Complete(proc[p].dataset)'
             /\ \A b \in Analyses' : AnalysedComplete(b)'
  BY <1>2, AcceptedAnalyses, InferrersStayAccepted, AnalysesStayComplete
<1> QED
  BY <1>1, <1>2 DEF Accepted, AnalysedComplete, AnalysisOf

-----------------------------------------------------------------------------
(* Two complete datasets have the same rows.                               *)
LEMMA UniqueByScope ==
  ASSUME Grounded, Scope, Accepted
  PROVE  ConfirmatoryAnalysisIsUnique
<1> SUFFICES ASSUME confirmatory
             PROVE  /\ Cardinality(Analyses) <= 1
                    /\ \A a \in Analyses : \A d \in analysis[a].results \cup analysis[a].input :
                         d.bundles = Trials /\ Unscored(d) = 0
  BY DEF ConfirmatoryAnalysisIsUnique
<1>1. \A a, b \in Analyses : a = b
  <2> SUFFICES ASSUME NEW a \in Analyses, NEW b \in Analyses PROVE a = b
    OBVIOUS
  <2>1. PICK d : Complete(d) /\ Rows(d) = a
    BY DEF Accepted
  <2>2. PICK e : Complete(e) /\ Rows(e) = b
    BY DEF Accepted
  <2>3. d.bundles = e.bundles /\ d.evaluations = e.evaluations
    BY <2>1, <2>2, CompleteIsEverything
  <2> QED
    BY <2>1, <2>2, <2>3 DEF Rows
<1>2. Cardinality(Analyses) <= 1
  <2>1. CASE Analyses = {}
    BY <2>1, FS_EmptySet
  <2>2. CASE Analyses # {}
    <3>1. PICK a : Analyses = {a}
      BY <1>1, <2>2
    <3> QED
      BY <3>1, FS_Singleton
  <2> QED
    BY <2>1, <2>2
<1> QED
  BY <1>2, CompleteIsEverything DEF Accepted, Complete

(* Whatever commands run beside the engine and beside each other, crash    *)
(* and run again, a confirmatory run has one analysis at most, and it      *)
(* covers every planned episode and evaluation.                            *)
THEOREM ConfirmatoryAnalysisIsUniqueHolds == Spec => []ConfirmatoryAnalysisIsUnique
<1>1. Init => Scope /\ Accepted
  BY InitScope
<1>2. ResearchInv /\ AnalysisInv /\ FilesType /\ Scope /\ Accepted /\ [Next]_vars
        => (Scope /\ Accepted)'
  BY StepScope, StepAccepted DEF ResearchInv
<1>3. ResearchInv /\ Scope /\ Accepted => ConfirmatoryAnalysisIsUnique
  BY UniqueByScope DEF ResearchInv
<1> QED
  BY <1>1, <1>2, <1>3, ResearchInvHolds, AnalysisInvHolds, PTL DEF Spec

=============================================================================
