------------------------------ MODULE Research ------------------------------
(***************************************************************************)
(* What happens to a run after its episodes are sealed: `lsm evaluate      *)
(* run`, `lsm research dataset`, `infer` and `report` and `lsm store       *)
(* reindex`, as processes that share the run's directory, beside an engine *)
(* that may still be publishing episodes.  Evaluation, dataset and         *)
(* analysis each hold a file lock of their own; report and reindex hold    *)
(* none.                                                                   *)
(*                                                                         *)
(* An evaluation is named by its slot, a planned (episode, repetition)     *)
(* pair: its id is a digest of the bundle, the scorer and the repetition.  *)
(* What tells two scorings of a slot apart (time stamps, output) is the    *)
(* number of the attempt.  A dataset is named by its inputs, an analysis   *)
(* by the rows of its dataset.                                             *)
(***************************************************************************)
EXTENDS Naturals, Integers, FiniteSets, FiniteSetsExt

CONSTANTS
  NTrials,      \* planned episodes
  Reps,         \* planned repetitions of the scorer
  Procs,        \* processes that run commands
  Results,      \* what scoring can come to, see below
  MaxFaults,    \* bound: crashes and exceptions
  MaxDatasets   \* bound: no further dataset is begun once so many exist

ASSUME ResearchAssumption ==
  /\ NTrials \in Nat \ {0}
  /\ Reps \in Nat \ {0}
  /\ Results \subseteq {"scored", "omitted", "failed"}
  /\ MaxFaults \in Nat /\ MaxDatasets \in Nat

Trials == 1..NTrials
Slots == 1..(NTrials * Reps)
EpisodeOf(k) == ((k - 1) \div Reps) + 1
SlotsOf(E) == {k \in Slots : EpisodeOf(k) \in E}

VARIABLES
  confirmatory, \* the plan's study mode
  published,    \* episodes with an episode.json
  evaluation,   \* what each slot's directory holds
  row,          \* the evaluations table: the attempt each row describes
  blinding,     \* blinding/map.json exists
  datasets,     \* datasets with a manifest
  analysis,     \* for each set of rows, the files of its analysis
  indexed,      \* the analyses table
  proc,         \* what each process is doing
  faults,       \* crashes and exceptions so far
  stale         \* slots whose row reindex set to an older attempt (history)
files == <<evaluation, blinding, datasets, analysis>>
vars == <<confirmatory, published, files, row, indexed, proc, faults, stale>>

-----------------------------------------------------------------------------
(* Evaluation directories.  A result is "omitted" when scoring completed   *)
(* without an optional metric.                                             *)

NoFiles == [stage |-> "none", nth |-> 0, result |-> "none"]
Final(k) == evaluation[k].stage = "manifest"

(* A dataset's inputs, the number of its unscored slots, and its rows: per *)
(* episode, whether it was published and how many values it has, or why    *)
(* none.                                                                   *)
Inputs(E, R) == [bundles |-> E, evaluations |-> R]
Unscored(d) == Cardinality(Slots) - Cardinality(d.evaluations)
Rows(d) ==
  [e \in Trials |->
     LET of(r) == {x \in d.evaluations : EpisodeOf(x.slot) = e /\ x.result = r}
     IN  [started |-> e \in d.bundles,
          values  |-> Cardinality(of("scored")),
          error   |-> of("scored") = {} /\ of("failed") # {}]]

NoAnalysis == [results |-> {}, input |-> {}]
Analyses == DOMAIN analysis
AnalysisOf(a) == IF a \in Analyses THEN analysis[a] ELSE NoAnalysis
WithAnalysis(a, files_) ==
  [b \in Analyses \cup {a} |-> IF b = a THEN files_ ELSE analysis[b]]

Idle == [at |-> "idle"]
Holds(p, stages) == proc[p].at \in stages
Free(stages) == \A p \in Procs : ~Holds(p, stages)

(* The stages under evaluate.lock, dataset.lock and analysis.lock.         *)
Evaluating == {"next", "score", "publish", "check", "map", "summary"}
Building == {"scan"}
Inferring == {"results", "manifest", "index"}

Init ==
  /\ confirmatory \in BOOLEAN
  /\ published = {}
  /\ evaluation = [k \in Slots |-> NoFiles]
  /\ row = [k \in Slots |-> 0]
  /\ blinding = FALSE
  /\ datasets = {}
  /\ analysis = <<>>
  /\ indexed = {}
  /\ proc = [p \in Procs |-> Idle]
  /\ faults = 0
  /\ stale = {}

Become(p, s) == proc' = [proc EXCEPT ![p] = s]
At(p, s) == Become(p, [proc[p] EXCEPT !.at = s])

(* The engine publishes an episode.                                        *)
EpisodePublished(e) ==
  /\ e \notin published
  /\ published' = published \cup {e}
  /\ UNCHANGED <<confirmatory, files, row, indexed, proc, faults, stale>>

-----------------------------------------------------------------------------
(* evaluate_run.  The set of episodes is read once, at the start.          *)

\* mutant: no file lock around the command
EvaluateUnlocked(p) ==
  /\ proc[p] = Idle
  /\ Become(p, [at |-> "next", episodes |-> published, todo |-> SlotsOf(published)])
  /\ UNCHANGED <<confirmatory, published, files, row, indexed, faults, stale>>
Evaluate(p) ==
  /\ proc[p] = Idle /\ Free(Evaluating)
  /\ Become(p, [at |-> "next", episodes |-> published, todo |-> SlotsOf(published)])
  /\ UNCHANGED <<confirmatory, published, files, row, indexed, faults, stale>>

Slot(p) == Min(proc[p].todo)
Done(p) == Become(p, [at |-> "next", episodes |-> proc[p].episodes,
                      todo |-> proc[p].todo \ {Slot(p)}])

\* mutant: a reused evaluation is not indexed again
ReuseOnly(p) ==
  /\ proc[p].at = "next" /\ proc[p].todo # {} /\ Final(Slot(p))
  /\ Done(p)
  /\ UNCHANGED <<confirmatory, published, files, row, indexed, faults, stale>>
Reuse(p) ==
  /\ proc[p].at = "next" /\ proc[p].todo # {} /\ Final(Slot(p))
  /\ row' = [row EXCEPT ![Slot(p)] = evaluation[Slot(p)].nth]
  /\ stale' = stale \ {Slot(p)}
  /\ Done(p)
  /\ UNCHANGED <<confirmatory, published, files, indexed, faults>>

(* A directory without a manifest is removed and made again.               *)
Clear(p) ==
  /\ proc[p].at = "next" /\ proc[p].todo # {} /\ ~Final(Slot(p))
  /\ evaluation' = [evaluation EXCEPT ![Slot(p)].stage = "empty"]
  /\ At(p, "score")
  /\ UNCHANGED <<confirmatory, published, row, blinding, datasets, analysis, indexed,
                 faults, stale>>

(* The scorer's result, or the failure it is turned into, becomes          *)
(* evaluation.json; stdout.raw and stderr.raw follow.                      *)
Score(p) ==
  /\ proc[p].at = "score"
  /\ \E r \in Results :
       evaluation' = [evaluation EXCEPT
         ![Slot(p)] = [stage |-> "record", nth |-> @.nth + 1, result |-> r]]
  /\ At(p, "publish")
  /\ UNCHANGED <<confirmatory, published, row, blinding, datasets, analysis, indexed,
                 faults, stale>>

Publish(p) ==
  /\ proc[p].at = "publish"
  /\ evaluation' = [evaluation EXCEPT ![Slot(p)].stage = "manifest"]
  /\ At(p, "check")
  /\ UNCHANGED <<confirmatory, published, row, blinding, datasets, analysis, indexed,
                 faults, stale>>

(* The seal is verified again after the manifest is there, then the row.   *)
IndexEvaluation(p) ==
  /\ proc[p].at = "check"
  /\ row' = [row EXCEPT ![Slot(p)] = evaluation[Slot(p)].nth]
  /\ stale' = stale \ {Slot(p)}
  /\ Done(p)
  /\ UNCHANGED <<confirmatory, published, files, indexed, faults>>

(* The map from blind ids to arms is written only when nothing is missing. *)
\* mutant: completeness is judged by the episodes that were found
WriteMapOfFound(p) ==
  /\ proc[p].at = "next" /\ proc[p].todo = {}
  /\ blinding' = (blinding \/ proc[p].episodes # {})
  /\ At(p, "summary")
  /\ UNCHANGED <<confirmatory, published, evaluation, datasets, analysis, row, indexed,
                 faults, stale>>
WriteMap(p) ==
  /\ proc[p].at = "next" /\ proc[p].todo = {}
  /\ blinding' = (blinding \/ proc[p].episodes = Trials)
  /\ At(p, "summary")
  /\ UNCHANGED <<confirmatory, published, evaluation, datasets, analysis, row, indexed,
                 faults, stale>>

Summarise(p) ==
  /\ proc[p].at = "summary"
  /\ Become(p, Idle)
  /\ UNCHANGED <<confirmatory, published, files, row, indexed, faults, stale>>

-----------------------------------------------------------------------------
(* build_dataset, alone or as the first half of `research infer`.  The     *)
(* evaluations of one episode after another are read while evaluate_run    *)
(* may be adding to them.                                                  *)

Goals == {"dataset", "infer"}
OpenDataset(p) ==
  /\ proc[p] = Idle /\ Free(Building) /\ Cardinality(datasets) < MaxDatasets
  /\ \E goal \in Goals :
       Become(p, [at |-> "scan", goal |-> goal, episodes |-> published,
                  left |-> published, found |-> {}])
  /\ UNCHANGED <<confirmatory, published, files, row, indexed, faults, stale>>

Read(k) == [slot |-> k, nth |-> evaluation[k].nth, result |-> evaluation[k].result]
ScanEpisode(p) ==
  /\ proc[p].at = "scan" /\ proc[p].left # {}
  /\ LET e == Min(proc[p].left)
         R == {Read(k) : k \in {k \in SlotsOf({e}) : Final(k)}}
     IN  Become(p, [at |-> "scan", goal |-> proc[p].goal, episodes |-> proc[p].episodes,
                    left |-> proc[p].left \ {e}, found |-> proc[p].found \cup R])
  /\ UNCHANGED <<confirmatory, published, files, row, indexed, faults, stale>>

(* A dataset with these inputs is reused, or written, its manifest last:   *)
(* before it the directory is invisible to every reader.                   *)
PublishDataset(p) ==
  /\ proc[p].at = "scan" /\ proc[p].left = {}
  /\ LET d == Inputs(proc[p].episodes, proc[p].found)
     IN  /\ datasets' = datasets \cup {d}
         /\ Become(p, IF proc[p].goal = "dataset" THEN Idle
                      ELSE [at |-> "infer", dataset |-> d])
  /\ UNCHANGED <<confirmatory, published, evaluation, blinding, analysis, row, indexed,
                 faults, stale>>

-----------------------------------------------------------------------------
(* infer_run.                                                              *)

\* mutant: the refusal of unscored evaluations is dropped
AcceptsAny(d) == TRUE
Accepts(d) == confirmatory => Unscored(d) = 0

(* The digest of the rows names the analysis.  A published one is returned *)
(* if it is of the same dataset and its files are as its manifest lists    *)
(* them, and otherwise refused: either way the command ends, and no row is *)
(* written.                                                                *)
\* mutant: no file lock around the analysis
InferUnlocked(p) ==
  /\ proc[p].at = "infer"
  /\ LET d == proc[p].dataset
     IN  Become(p, IF Accepts(d) /\ AnalysisOf(Rows(d)).input = {}
                   THEN [at |-> "results", dataset |-> d] ELSE Idle)
  /\ UNCHANGED <<confirmatory, published, files, row, indexed, faults, stale>>
Infer(p) ==
  /\ proc[p].at = "infer" /\ Free(Inferring)
  /\ LET d == proc[p].dataset
     IN  Become(p, IF Accepts(d) /\ AnalysisOf(Rows(d)).input = {}
                   THEN [at |-> "results", dataset |-> d] ELSE Idle)
  /\ UNCHANGED <<confirmatory, published, files, row, indexed, faults, stale>>

WriteResults(p) ==
  /\ proc[p].at = "results"
  /\ LET d == proc[p].dataset
     IN  analysis' = WithAnalysis(Rows(d), [AnalysisOf(Rows(d)) EXCEPT !.results = {d}])
  /\ At(p, "manifest")
  /\ UNCHANGED <<confirmatory, published, evaluation, blinding, datasets, row, indexed,
                 faults, stale>>

WriteManifest(p) ==
  /\ proc[p].at = "manifest"
  /\ LET d == proc[p].dataset
     IN  analysis' = WithAnalysis(Rows(d), [AnalysisOf(Rows(d)) EXCEPT !.input = {d}])
  /\ At(p, "index")
  /\ UNCHANGED <<confirmatory, published, evaluation, blinding, datasets, row, indexed,
                 faults, stale>>

UpsertAnalyses(A) == indexed' = indexed \cup A
IndexAnalysis(p) ==
  /\ proc[p].at = "index"
  /\ UpsertAnalyses({Rows(proc[p].dataset)})
  /\ Become(p, Idle)
  /\ UNCHANGED <<confirmatory, published, files, row, faults, stale>>

(* rebuild_report takes no lock: it reads the manifest, writes report.md   *)
(* anew from the results, and then writes back the manifest it has read,   *)
(* with the digest of the new report.  The text of a report is not told    *)
(* apart, nor are files a person has changed.                              *)
RebuildReport(p) ==
  /\ proc[p] = Idle
  /\ \E a \in Analyses :
       /\ analysis[a].input # {}
       /\ Become(p, [at |-> "report", of |-> a, input |-> analysis[a].input])
  /\ UNCHANGED <<confirmatory, published, files, row, indexed, faults, stale>>

RewriteManifest(p) ==
  /\ proc[p].at = "report"
  /\ LET a == proc[p].of
     IN  analysis' = WithAnalysis(a, [AnalysisOf(a) EXCEPT !.input = proc[p].input])
  /\ Become(p, Idle)
  /\ UNCHANGED <<confirmatory, published, evaluation, blinding, datasets, row, indexed,
                 faults, stale>>

-----------------------------------------------------------------------------
(* IndexStore.reindex: a record is read, then its row is written.          *)

Reindex(p) ==
  /\ proc[p] = Idle
  /\ Become(p, [at |-> "read", todo |-> SlotsOf(published)])
  /\ UNCHANGED <<confirmatory, published, files, row, indexed, faults, stale>>

ReindexReads(p) ==
  /\ proc[p].at = "read" /\ proc[p].todo # {}
  /\ Become(p, IF evaluation[Slot(p)].stage \in {"record", "manifest"}
               THEN [at |-> "write", todo |-> proc[p].todo, nth |-> evaluation[Slot(p)].nth]
               ELSE [at |-> "read", todo |-> proc[p].todo \ {Slot(p)}])
  /\ UNCHANGED <<confirmatory, published, files, row, indexed, faults, stale>>

ReindexWrites(p) ==
  /\ proc[p].at = "write"
  /\ row' = [row EXCEPT ![Slot(p)] = proc[p].nth]
  /\ stale' = IF proc[p].nth # evaluation[Slot(p)].nth THEN stale \cup {Slot(p)}
              ELSE stale \ {Slot(p)}
  /\ Become(p, [at |-> "read", todo |-> proc[p].todo \ {Slot(p)}])
  /\ UNCHANGED <<confirmatory, published, files, indexed, faults>>

ReindexAnalyses(p) ==
  /\ proc[p].at = "read" /\ proc[p].todo = {}
  /\ UpsertAnalyses({a \in Analyses : analysis[a].input # {}})
  /\ Become(p, Idle)
  /\ UNCHANGED <<confirmatory, published, files, row, faults, stale>>

-----------------------------------------------------------------------------
(* A process is killed, or a step raises: a scorer's staging, a locked     *)
(* index, a seal that no longer verifies.  The locks go with the process.  *)
Fail(p) ==
  /\ proc[p] # Idle
  /\ faults < MaxFaults
  /\ faults' = faults + 1
  /\ Become(p, Idle)
  /\ UNCHANGED <<confirmatory, published, files, row, indexed, stale>>

Step(p) ==
  \/ Evaluate(p) \/ Reuse(p) \/ Clear(p) \/ Score(p) \/ Publish(p)
  \/ IndexEvaluation(p) \/ WriteMap(p) \/ Summarise(p)
  \/ OpenDataset(p) \/ ScanEpisode(p) \/ PublishDataset(p)
  \/ Infer(p) \/ WriteResults(p) \/ WriteManifest(p) \/ IndexAnalysis(p)
  \/ RebuildReport(p) \/ RewriteManifest(p)
  \/ Reindex(p) \/ ReindexReads(p) \/ ReindexWrites(p) \/ ReindexAnalyses(p)
  \/ Fail(p)

Next == (\E e \in Trials : EpisodePublished(e)) \/ (\E p \in Procs : Step(p))

Spec == Init /\ [][Next]_vars

-----------------------------------------------------------------------------
(* Every published dataset stays reproducible: what it was built from is   *)
(* still there and is still the attempt it names, whatever evaluate_run    *)
(* deletes, retries or reuses afterwards.                                  *)
DatasetsStayGrounded ==
  \A d \in datasets :
    /\ d.bundles \subseteq published
    /\ \A x \in d.evaluations :
         /\ Final(x.slot)
         /\ evaluation[x.slot].nth = x.nth /\ evaluation[x.slot].result = x.result

(* docs/how-it-works.md: the blinding map appears only after every planned *)
(* evaluation has ended, also when the run was still publishing episodes.  *)
BlindingMapIsLast == blinding => \A k \in Slots : Final(k)

(* A confirmatory run has at most one analysis ever, of the one dataset    *)
(* that covers every planned episode and evaluation: nobody can look at    *)
(* partial results or choose between two.                                  *)
ConfirmatoryAnalysisIsUnique ==
  confirmatory =>
    /\ Cardinality(Analyses) <= 1
    /\ \A a \in Analyses : \A d \in analysis[a].results \cup analysis[a].input :
         d.bundles = Trials /\ Unscored(d) = 0

(* A published analysis holds the results of the dataset its manifest      *)
(* names, and that dataset is published, although two datasets may share   *)
(* the analysis's name.                                                    *)
AnalysisMatchesItsDataset ==
  /\ \A a \in Analyses :
       analysis[a].input # {} =>
         /\ analysis[a].results = analysis[a].input
         /\ analysis[a].input \subseteq datasets
         /\ \A d \in analysis[a].input : Rows(d) = a
  /\ \A a \in indexed : AnalysisOf(a).input # {}

(* What has its manifest is for good: no command, crash or retry scores a  *)
(* published evaluation again or clears its directory, and none replaces   *)
(* the results of a published analysis or the dataset it names.  (The      *)
(* report and its digest in the manifest may be written again.)            *)
PublishedIsFinal ==
  [][/\ \A k \in Slots : Final(k) => evaluation'[k] = evaluation[k]
     /\ \A a \in Analyses : analysis[a].input # {} =>
          AnalysisOf(a)'.results = analysis[a].results /\ AnalysisOf(a)'.input = analysis[a].input]_vars

(* When evaluate_run has gone through its slots, the index describes the   *)
(* evaluations that are on disk, also those an earlier command published   *)
(* and failed to index; only a reindex that read an older record may have  *)
(* overwritten a row.                                                      *)
RowsFollowEvaluations ==
  \A p \in Procs : proc[p].at = "summary" =>
    \A k \in SlotsOf(proc[p].episodes) : row[k] = evaluation[k].nth \/ k \in stale

(* The variables keep their types, every process is in a known stage and   *)
(* only the directory a process works on is without its files.             *)
TypeOK ==
  /\ confirmatory \in BOOLEAN /\ blinding \in BOOLEAN
  /\ published \subseteq Trials /\ stale \subseteq Slots
  /\ faults \in 0..MaxFaults
  /\ \A k \in Slots :
       /\ evaluation[k].stage \in {"none", "empty", "record", "manifest"}
       /\ evaluation[k].nth \in 0..(MaxFaults + 1)
       /\ evaluation[k].result \in Results \cup {"none"}
       /\ row[k] \in 0..evaluation[k].nth
  /\ \A p \in Procs : proc[p].at \in Evaluating \cup Building \cup Inferring
                                     \cup {"idle", "infer", "report", "read", "write"}
=============================================================================
