----------------------------- MODULE IndexStore ------------------------------
(***************************************************************************)
(* The query index .lsm/index.sqlite3 (storage/index.py) beside the files  *)
(* it is derived from: runs that write run.json and episode.json and then  *)
(* the matching row, `lsm store reindex` that rebuilds the rows from the   *)
(* files, and `lsm run reconcile` that looks for runs nobody finishes.     *)
(*                                                                         *)
(* Every upsert is a transaction of its own and SQLite serialises them;    *)
(* nothing keeps a command from running beside a live run.  Trial ids are  *)
(* a function of the plan, so two runs of one plan publish episodes with   *)
(* the same id.                                                            *)
(***************************************************************************)
EXTENDS Integers, FiniteSets

CONSTANTS
  Runs, NTrials,
  PlanOf,      \* plan of each run
  Faults,      \* a subset of {"crash", "locked", "lost_index"}
  MaxCommands  \* bound: reindex commands

\* "none" stands for a run that is not there
ASSUME RunsAssumption == "none" \notin Runs
ASSUME NTrialsAssumption == NTrials \in Nat \ {0}
ASSUME PlanOfAssumption == DOMAIN PlanOf = Runs
ASSUME FaultsAssumption == Faults \subseteq {"crash", "locked", "lost_index"}
ASSUME BoundAssumption == MaxCommands \in Nat

Plans == {PlanOf[r] : r \in Runs}
Trials == 1..NTrials

EpisodeId(r, t) == <<PlanOf[r], t>>
EpisodeIds == Plans \X Trials
NoRow == [run |-> "none", body |-> "none"]

VARIABLES
  proc,       \* process of each run: "idle", "opened", "running", "failing", "closed",
              \* "leaving", "ended", "dead"
  runJson,    \* status in run.json
  episodes,   \* trials with an episode.json
  unindexed,  \* trials whose episode.json is written and whose row comes next, at most one
  runRow,     \* status in the runs table
  episodeRow, \* episodes table, by id: run_id column, run the body and the path come from
  todo,       \* reindex: runs it has not read
  current,    \* reindex: [run, status it read, episodes to upsert], or Nobody
  commands,   \* reindex commands so far
  quiet,      \* history: no run process has been live since the reindex started
  raced,      \* history: runs that closed their row while a reindex held their old status
  rebuilt,    \* history: the last step ended a quiet reindex
  reconcile,  \* "idle", "done", "raised"
  orphans     \* history: runs that were dead and "running" when reconcile started

files   == <<proc, runJson, episodes, unindexed>>
index   == <<runRow, episodeRow>>
walk    == <<todo, current, commands, quiet>>
repair  == <<reconcile, orphans>>
vars    == <<files, index, walk, raced, rebuilt, repair>>

Nobody == [run |-> "none", status |-> "none", left |-> {}]
Live == {r \in Runs : proc[r] \notin {"idle", "ended", "dead"}}

(* The coroutines of a run seal episodes while it runs, after one of them  *)
(* has raised, and also after run.json and its row are written, until the  *)
(* event loop has let go of the last of them.                              *)
Working == {"running", "failing", "leaving"}

Init ==
  /\ proc = [r \in Runs |-> "idle"] /\ runJson = [r \in Runs |-> "none"]
  /\ episodes = [r \in Runs |-> {}] /\ unindexed = [r \in Runs |-> {}]
  /\ runRow = [r \in Runs |-> "none"]
  /\ episodeRow = [e \in EpisodeIds |-> NoRow]
  /\ todo = {} /\ current = Nobody /\ commands = 0 /\ quiet = FALSE
  /\ raced = {} /\ rebuilt = FALSE
  /\ reconcile = "idle" /\ orphans = {}

-----------------------------------------------------------------------------
(* upsert_run and upsert_episode                                           *)

UpsertRun(r, status) == runRow' = [runRow EXCEPT ![r] = status]

\* on conflict(id) the status, path and body are replaced; run_id and ordinal stay
UpsertEpisode(r, t) ==
  episodeRow' = [episodeRow EXCEPT ![EpisodeId(r, t)] =
                   [run |-> IF @ = NoRow THEN r ELSE @.run, body |-> r]]

-----------------------------------------------------------------------------
(* A run, as RunEngine sees its own directory and rows                     *)

OpenRun(r) ==
  /\ proc[r] = "idle"
  /\ proc' = [proc EXCEPT ![r] = "opened"]
  /\ runJson' = [runJson EXCEPT ![r] = "running"]
  /\ quiet' = FALSE /\ rebuilt' = FALSE
  /\ UNCHANGED <<episodes, unindexed, index, todo, current, commands, raced, repair>>

OpenRow(r) ==
  /\ proc[r] = "opened"
  /\ proc' = [proc EXCEPT ![r] = "running"]
  /\ UpsertRun(r, "running")
  /\ UNCHANGED <<runJson, episodes, unindexed, episodeRow, walk, raced, rebuilt, repair>>

Publish(r, t) ==
  /\ proc[r] \in Working /\ unindexed[r] = {} /\ t \notin episodes[r]
  /\ episodes' = [episodes EXCEPT ![r] = @ \cup {t}]
  /\ unindexed' = [unindexed EXCEPT ![r] = {t}]
  /\ UNCHANGED <<proc, runJson, index, walk, raced, rebuilt, repair>>

IndexEpisode(r) ==
  /\ proc[r] \in Working
  /\ \E t \in unindexed[r] : UpsertEpisode(r, t)
  /\ unindexed' = [unindexed EXCEPT ![r] = {}]
  /\ UNCHANGED <<proc, runJson, episodes, runRow, walk, raced, rebuilt, repair>>

\* the row is lost and the trial raises: if gather still waits, it propagates the exception
IndexFails(r) ==
  /\ "locked" \in Faults /\ proc[r] \in Working /\ unindexed[r] # {}
  /\ unindexed' = [unindexed EXCEPT ![r] = {}]
  /\ proc' = [proc EXCEPT ![r] = IF @ = "running" THEN "failing" ELSE @]
  /\ UNCHANGED <<runJson, episodes, index, walk, raced, rebuilt, repair>>

\* "failed" stands for "cancelled" too
CloseRun(r) ==
  /\ proc[r] \in {"running", "failing"} /\ unindexed[r] = {}
  /\ \E status \in {"completed", "failed"} :
       /\ status = "completed" => proc[r] = "running" /\ episodes[r] = Trials
       /\ runJson' = [runJson EXCEPT ![r] = status]
  /\ proc' = [proc EXCEPT ![r] = "closed"]
  /\ UNCHANGED <<episodes, unindexed, index, walk, raced, rebuilt, repair>>

\* mutants: the row always says "completed"; it is only written when the run has completed
CloseRowOptimistic(r) ==
  /\ proc[r] = "closed"
  /\ proc' = [proc EXCEPT ![r] = "leaving"]
  /\ UpsertRun(r, "completed")
  /\ UNCHANGED <<runJson, episodes, unindexed, episodeRow, walk, raced, rebuilt, repair>>

CloseRowOnSuccess(r) ==
  /\ proc[r] = "closed"
  /\ proc' = [proc EXCEPT ![r] = "leaving"]
  /\ IF runJson[r] = "completed" THEN UpsertRun(r, "completed") ELSE UNCHANGED runRow
  /\ UNCHANGED <<runJson, episodes, unindexed, episodeRow, walk, raced, rebuilt, repair>>

CloseRow(r) ==
  /\ proc[r] = "closed"
  /\ proc' = [proc EXCEPT ![r] = "leaving"]
  /\ UpsertRun(r, runJson[r])
  /\ raced' = IF current.run = r /\ r \in todo THEN raced \cup {r} ELSE raced
  /\ UNCHANGED <<runJson, episodes, unindexed, episodeRow, walk, rebuilt, repair>>

Leave(r) ==
  /\ proc[r] = "leaving" /\ unindexed[r] = {}
  /\ proc' = [proc EXCEPT ![r] = "ended"]
  /\ UNCHANGED <<runJson, episodes, unindexed, index, walk, raced, rebuilt, repair>>

\* the process is killed, or its own write of the run's row raises
Crash(r) ==
  /\ "crash" \in Faults /\ r \in Live
  /\ proc' = [proc EXCEPT ![r] = "dead"]
  /\ UNCHANGED <<runJson, episodes, unindexed, index, walk, raced, rebuilt, repair>>

-----------------------------------------------------------------------------
(* lsm store reindex: one upsert per file, other processes in between      *)

NoCommand == todo = {} /\ current = Nobody

StartReindex ==
  /\ NoCommand /\ commands < MaxCommands
  /\ todo' = {r \in Runs : runJson[r] # "none"}
  /\ todo' # {}
  /\ commands' = commands + 1
  /\ quiet' = (Live = {}) /\ rebuilt' = FALSE
  /\ UNCHANGED <<files, index, current, raced, repair>>

ReadRun(r) ==
  /\ current = Nobody /\ r \in todo
  /\ current' = [run |-> r, status |-> runJson[r], left |-> {}]
  /\ UNCHANGED <<files, index, todo, commands, quiet, raced, rebuilt, repair>>

\* mutant: only completed runs have their episodes restored

ReindexCompletedRun ==
  /\ current # Nobody /\ current.run \in todo
  /\ UpsertRun(current.run, current.status)
  /\ todo' = todo \ {current.run}
  /\ current' = [current EXCEPT !.left = IF current.status = "completed" THEN episodes[current.run] ELSE {}]
  /\ UNCHANGED <<files, episodeRow, commands, quiet, raced, rebuilt, repair>>

ReindexRun ==
  /\ current # Nobody /\ current.run \in todo
  /\ UpsertRun(current.run, current.status)
  /\ todo' = todo \ {current.run}
  /\ current' = [current EXCEPT !.left = episodes[current.run]]
  /\ UNCHANGED <<files, episodeRow, commands, quiet, raced, rebuilt, repair>>

ReindexEpisode ==
  /\ current # Nobody /\ current.run \notin todo
  /\ \E t \in current.left :
       /\ \A u \in current.left : t <= u
       /\ UpsertEpisode(current.run, t)
       /\ current' = [current EXCEPT !.left = @ \ {t}]
  /\ UNCHANGED <<files, runRow, todo, commands, quiet, raced, rebuilt, repair>>

NextRun ==
  /\ current # Nobody /\ current.run \notin todo /\ current.left = {}
  /\ current' = Nobody
  /\ rebuilt' = (todo = {} /\ quiet)
  /\ UNCHANGED <<files, index, todo, commands, quiet, raced, repair>>

\* sqlite3.OperationalError is not among the errors a run is skipped for
ReindexAborts ==
  /\ "locked" \in Faults /\ current # Nobody
  /\ current' = Nobody /\ todo' = {}
  /\ UNCHANGED <<files, index, commands, quiet, raced, rebuilt, repair>>

\* somebody deletes the database, which the documents call rebuildable
LoseIndex ==
  /\ "lost_index" \in Faults /\ NoCommand /\ Live = {}
  /\ runRow' = [r \in Runs |-> "none"]
  /\ episodeRow' = [e \in EpisodeIds |-> NoRow]
  /\ rebuilt' = FALSE
  /\ UNCHANGED <<files, walk, raced, repair>>

-----------------------------------------------------------------------------
\* lsm run reconcile: the body of a runs row has no "path", so the first running row ends
\* the command with a KeyError before anything is written
Reconcile ==
  /\ reconcile = "idle"
  /\ orphans' = {r \in Runs : proc[r] = "dead" /\ runRow[r] = "running"}
  /\ reconcile' = IF \E r \in Runs : runRow[r] = "running" THEN "raised" ELSE "done"
  /\ UNCHANGED <<files, index, walk, raced, rebuilt>>

Over ==
  /\ NoCommand /\ \A r \in Runs : proc[r] \in {"ended", "dead"}
  /\ UNCHANGED vars

RunSteps(r) ==
  \/ OpenRun(r) \/ OpenRow(r) \/ IndexEpisode(r) \/ IndexFails(r) \/ CloseRun(r) \/ CloseRow(r)
  \/ Leave(r) \/ Crash(r)
  \/ \E t \in Trials : Publish(r, t)

Reindex ==
  \/ StartReindex \/ ReindexRun \/ ReindexEpisode \/ NextRun \/ ReindexAborts
  \/ \E r \in Runs : ReadRun(r)

Next == (\E r \in Runs : RunSteps(r)) \/ Reindex \/ LoseIndex \/ Reconcile \/ Over

Spec == Init /\ [][Next]_vars

-----------------------------------------------------------------------------
(* Properties                                                              *)

\* The index never shows what the files do not: a row's status is one run.json had, an
\* episode row stands for an episode.json on disk, and its run is in the index too.
IndexShowsOnlyFiles ==
  /\ \A r \in Runs : runRow[r] \notin {"none", "running"} => runRow[r] = runJson[r]
  /\ \A e \in EpisodeIds : episodeRow[e] # NoRow =>
       LET r == episodeRow[e].body
       IN  PlanOf[r] = e[1] /\ e[2] \in episodes[r]
             /\ runRow[r] # "none" /\ runRow[episodeRow[e].run] # "none"

\* A reindex that no live run disturbed leaves the runs table equal to the run.json files,
\* whatever crashed before and even from an empty database, and every published episode with
\* a row: its own, or, if its plan has been run more than once, that of an episode of the same
\* ordinal which one of these runs has published (trial ids do not depend on the run).
Alone(r) == \A q \in Runs : PlanOf[q] = PlanOf[r] => q = r
ReindexRestores ==
  rebuilt => \A r \in Runs :
    /\ runRow[r] = runJson[r]
    /\ \A t \in episodes[r] :
         LET row == episodeRow[EpisodeId(r, t)]
         IN  /\ row # NoRow /\ PlanOf[row.body] = PlanOf[r] /\ t \in episodes[row.body]
             /\ Alone(r) => row = [run |-> r, body |-> r]

\* A row of a finished run is behind its run.json only when a reindex that had read the old
\* run.json was still under way as the run wrote its last row (index.py 162-163).
RowLagsOnlyAfterRace ==
  \A r \in Runs :
    proc[r] \in {"leaving", "ended"} /\ runRow[r] # "none" /\ r \notin raced => runRow[r] = runJson[r]

==============================================================================
