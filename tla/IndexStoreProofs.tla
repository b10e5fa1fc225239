--------------------------- MODULE IndexStoreProofs ---------------------------
(***************************************************************************)
(* The index of IndexStore beside its files, for every number of runs and  *)
(* trials, every assignment of plans to runs, any number of reindex        *)
(* commands and every set of faults: its rows never say what the files do  *)
(* not, a reindex nobody disturbs restores it, and a row lags behind its   *)
(* file only after the one race the code leaves open.                      *)
(***************************************************************************)
EXTENDS IndexStore, TLAPS

USE RunsAssumption DEF files, index, walk, repair, Working

RunStatus == {"running", "completed", "failed"}
Row == [run : Runs, body : Runs]

IndexType ==
  /\ proc \in [Runs -> {"idle", "opened", "running", "failing", "closed", "leaving", "ended", "dead"}]
  /\ runJson \in [Runs -> RunStatus \cup {"none"}]
  /\ episodes \in [Runs -> SUBSET Trials] /\ unindexed \in [Runs -> SUBSET Trials]
  /\ runRow \in [Runs -> RunStatus \cup {"none"}]
  /\ episodeRow \in [EpisodeIds -> Row \cup {NoRow}]
  /\ todo \subseteq Runs
  /\ current \in [run : Runs, status : RunStatus, left : SUBSET Trials] \cup {Nobody}
  /\ quiet \in BOOLEAN /\ rebuilt \in BOOLEAN

(* What a run has written at each stage of its process, and what its row   *)
(* may show then.                                                          *)
Life(r) ==
  /\ proc[r] = "idle" => runJson[r] = "none" /\ episodes[r] = {}
  /\ proc[r] \in {"opened", "running", "failing"} => runJson[r] = "running"
  /\ proc[r] \in {"closed", "leaving", "ended"} => runJson[r] \in {"completed", "failed"}
  /\ proc[r] = "dead" => runJson[r] # "none"
  /\ proc[r] \in Working => runRow[r] # "none"
  /\ runRow[r] # "none" => runJson[r] # "none"
  /\ runRow[r] \in {"none", "running", runJson[r]}
  /\ unindexed[r] \subseteq episodes[r]

(* What the reindex command holds was in the files.                        *)
Walk ==
  /\ \A r \in todo : runJson[r] # "none"
  /\ current # Nobody =>
       /\ runJson[current.run] # "none"
       /\ current.status \in {"running", runJson[current.run]}
       /\ current.left \subseteq episodes[current.run]
       /\ current.run \notin todo => runRow[current.run] # "none"

RowsAreReal ==
  \A e \in EpisodeIds : episodeRow[e] # NoRow =>
    /\ PlanOf[episodeRow[e].run] = e[1] /\ runRow[episodeRow[e].run] # "none"
    /\ PlanOf[episodeRow[e].body] = e[1] /\ runRow[episodeRow[e].body] # "none"
    /\ e[2] \in episodes[episodeRow[e].body]

IndexInv == IndexType /\ (\A r \in Runs : Life(r)) /\ Walk /\ RowsAreReal

(* Rows after an upsert: one episode's row is replaced, and if it had one  *)
(* already it keeps its run.                                               *)
LEMMA Upserted ==
  ASSUME IndexType, NEW r \in Runs, NEW t \in Trials, UpsertEpisode(r, t)
  PROVE  /\ EpisodeId(r, t) \in EpisodeIds
         /\ episodeRow' \in [EpisodeIds -> Row \cup {NoRow}]
         /\ \A e \in EpisodeIds : e # EpisodeId(r, t) => episodeRow'[e] = episodeRow[e]
         /\ episodeRow'[EpisodeId(r, t)] # NoRow
         /\ episodeRow'[EpisodeId(r, t)].body = r
         /\ episodeRow'[EpisodeId(r, t)].run =
              IF episodeRow[EpisodeId(r, t)] = NoRow THEN r ELSE episodeRow[EpisodeId(r, t)].run
<1>1. EpisodeId(r, t) \in EpisodeIds
  BY DEF EpisodeId, EpisodeIds, Plans
<1> DEFINE e == EpisodeId(r, t)
           new == [run |-> IF episodeRow[e] = NoRow THEN r ELSE episodeRow[e].run, body |-> r]
<1>2. episodeRow' = [episodeRow EXCEPT ![e] = new]
  BY DEF UpsertEpisode
<1>3. new \in Row /\ new # NoRow /\ new.body = r
  BY <1>1 DEF IndexType, Row, NoRow
<1> HIDE DEF new
<1>4. /\ episodeRow' \in [EpisodeIds -> Row \cup {NoRow}]
      /\ episodeRow'[e] = new
      /\ \A d \in EpisodeIds : d # e => episodeRow'[d] = episodeRow[d]
  BY <1>1, <1>2, <1>3 DEF IndexType
<1> QED
  BY <1>1, <1>3, <1>4 DEF new

-----------------------------------------------------------------------------
LEMMA InitIndex == Init => IndexInv
<1> SUFFICES ASSUME Init PROVE IndexInv
  OBVIOUS
<1>1. IndexType
  BY DEF Init, IndexType, NoCommand
<1>2. \A r \in Runs : Life(r)
  BY DEF Init, Life
<1>3. Walk /\ RowsAreReal
  BY DEF Init, Walk, RowsAreReal
<1> QED
  BY <1>1, <1>2, <1>3 DEF IndexInv

LEMMA StepType == IndexType /\ Walk /\ [Next]_vars => IndexType'
<1> SUFFICES ASSUME IndexType, Walk, [Next]_vars PROVE IndexType'
  OBVIOUS
<1> USE DEF IndexType, RunStatus, UpsertRun
<1>1. ASSUME NEW r \in Runs, RunSteps(r) PROVE IndexType'
  <2>1. CASE OpenRun(r) \/ OpenRow(r)
    BY <2>1 DEF OpenRun, OpenRow
  <2>2. CASE \E t \in Trials : Publish(r, t)
    BY <2>2 DEF Publish
  <2>3. CASE IndexEpisode(r)
    <3>1. PICK t \in unindexed[r] : UpsertEpisode(r, t)
      BY <2>3 DEF IndexEpisode
    <3>2. episodeRow' \in [EpisodeIds -> Row \cup {NoRow}]
      BY <3>1, Upserted
    <3> QED
      BY <2>3, <3>2 DEF IndexEpisode
  <2>4. CASE IndexFails(r) \/ CloseRun(r)
    BY <2>4 DEF IndexFails, CloseRun
  <2>5. CASE CloseRow(r) \/ Leave(r) \/ Crash(r)
    BY <2>5 DEF CloseRow, Leave, Crash
  <2> QED
    BY <1>1, <2>1, <2>2, <2>3, <2>4, <2>5 DEF RunSteps
<1>2. CASE StartReindex \/ ReindexAborts
  BY <1>2 DEF StartReindex, ReindexAborts
<1>3. ASSUME NEW r \in Runs, ReadRun(r) PROVE IndexType'
  BY <1>3 DEF ReadRun, Walk
<1>4. CASE ReindexRun
  BY <1>4 DEF ReindexRun
<1>5. CASE ReindexEpisode
  <2>1. PICK t \in current.left : UpsertEpisode(current.run, t)
                                  /\ current' = [current EXCEPT !.left = @ \ {t}]
    BY <1>5 DEF ReindexEpisode
  <2>2. current.run \in Runs /\ t \in Trials
    BY <1>5, <2>1 DEF ReindexEpisode
  <2>3. episodeRow' \in [EpisodeIds -> Row \cup {NoRow}]
    BY <2>1, <2>2, Upserted
  <2> QED
    BY <1>5, <2>1, <2>3 DEF ReindexEpisode
<1>6. CASE NextRun
  BY <1>6 DEF NextRun
<1>7. CASE LoseIndex
  BY <1>7 DEF LoseIndex
<1>8. CASE Reconcile \/ Over \/ UNCHANGED vars
  BY <1>8 DEF Reconcile, Over, vars
<1> QED
  BY <1>1, <1>2, <1>3, <1>4, <1>5, <1>6, <1>7, <1>8 DEF Next, Reindex

LEMMA StepLife == IndexInv /\ [Next]_vars => \A q \in Runs : Life(q)'
<1> SUFFICES ASSUME IndexInv, [Next]_vars, NEW q \in Runs PROVE Life(q)'
  OBVIOUS
<1>0. Life(q) /\ IndexType /\ Walk
  BY DEF IndexInv
<1> USE <1>0 DEF Life, IndexType, RunStatus, UpsertRun
<1>1. ASSUME NEW r \in Runs, RunSteps(r) PROVE Life(q)'
  <2>1. CASE OpenRun(r)
    BY <2>1 DEF OpenRun
  <2>2. CASE OpenRow(r)
    BY <2>2 DEF OpenRow
  <2>3. CASE \E t \in Trials : Publish(r, t)
    BY <2>3 DEF Publish
  <2>4. CASE IndexEpisode(r)
    BY <2>4 DEF IndexEpisode
  <2>5. CASE IndexFails(r) \/ CloseRun(r)
    BY <2>5 DEF IndexFails, CloseRun
  <2>6. CASE CloseRow(r)
    BY <2>6 DEF CloseRow
  <2>7. CASE Leave(r) \/ Crash(r)
    BY <2>7 DEF Leave, Crash, Live
  <2> QED
    BY <1>1, <2>1, <2>2, <2>3, <2>4, <2>5, <2>6, <2>7 DEF RunSteps
<1>2. CASE StartReindex \/ ReindexAborts \/ ReindexEpisode \/ NextRun
  BY <1>2 DEF StartReindex, ReindexAborts, ReindexEpisode, NextRun
<1>3. ASSUME NEW r \in Runs, ReadRun(r) PROVE Life(q)'
  BY <1>3 DEF ReadRun
<1>4. CASE ReindexRun
  BY <1>4 DEF ReindexRun, Walk
<1>5. CASE LoseIndex
  BY <1>5 DEF LoseIndex, Live
<1>6. CASE Reconcile \/ Over \/ UNCHANGED vars
  BY <1>6 DEF Reconcile, Over, vars
<1> QED
  BY <1>1, <1>2, <1>3, <1>4, <1>5, <1>6 DEF Next, Reindex

(* Files only grow, and what a run has closed stays as it is.              *)
LEMMA FilesGrow ==
  ASSUME IndexInv, [Next]_vars, NEW r \in Runs
  PROVE  /\ episodes[r] \subseteq episodes'[r]
         /\ runJson[r] # "none" => runJson'[r] \in {runJson[r], "completed", "failed"}
         /\ runJson[r] \in {"completed", "failed"} => runJson'[r] = runJson[r]
<1>0. Life(r) /\ IndexType
  BY DEF IndexInv
<1> USE <1>0 DEF Life, IndexType
<1>1. ASSUME NEW q \in Runs, RunSteps(q) PROVE UNCHANGED <<runJson[r], episodes[r]>> \/ q = r
  BY <1>1 DEF RunSteps, OpenRun, OpenRow, Publish, IndexEpisode, IndexFails, CloseRun, CloseRow, Leave, Crash
<1>2. CASE RunSteps(r)
  BY <1>2 DEF RunSteps, OpenRun, OpenRow, Publish, IndexEpisode, IndexFails, CloseRun, CloseRow, Leave, Crash
<1>3. CASE Reindex \/ LoseIndex \/ Reconcile \/ Over \/ UNCHANGED vars
  BY <1>3 DEF Reindex, StartReindex, ReadRun, ReindexRun, ReindexEpisode, NextRun, ReindexAborts,
              LoseIndex, Reconcile, Over, vars
<1> QED
  BY <1>1, <1>2, <1>3 DEF Next

(* A row that is there stays while a run or a command is at work.          *)
LEMMA RowsStay ==
  ASSUME IndexInv, [Next]_vars, ~LoseIndex, NEW r \in Runs, runRow[r] # "none"
  PROVE  runRow'[r] # "none"
<1>0. IndexType /\ Walk /\ \A q \in Runs : Life(q)
  BY DEF IndexInv
<1> USE <1>0 DEF IndexType, RunStatus, UpsertRun
<1>1. ASSUME NEW q \in Runs, RunSteps(q) PROVE runRow'[r] # "none"
  BY <1>1 DEF RunSteps, OpenRun, OpenRow, Publish, IndexEpisode, IndexFails, CloseRun, CloseRow,
              Leave, Crash, Life
<1>2. CASE ReindexRun
  BY <1>2 DEF ReindexRun, Walk
<1>3. CASE UNCHANGED runRow
  BY <1>3
<1> QED
  BY <1>1, <1>2, <1>3 DEF Next, Reindex, StartReindex, ReadRun, ReindexEpisode, NextRun,
                          ReindexAborts, Reconcile, Over, vars

LEMMA StepWalk == IndexInv /\ [Next]_vars => Walk'
<1> SUFFICES ASSUME IndexInv, [Next]_vars PROVE Walk'
  OBVIOUS
<1>0. IndexType /\ Walk /\ \A q \in Runs : Life(q)
  BY DEF IndexInv
<1> USE <1>0 DEF Walk, IndexType
<1>1. ASSUME UNCHANGED <<todo, current>>, ~LoseIndex PROVE Walk'
  <2>1. \A r \in todo : runJson'[r] # "none"
    BY FilesGrow
  <2>2. ASSUME current # Nobody
        PROVE  /\ runJson'[current.run] # "none"
               /\ current.status \in {"running", runJson'[current.run]}
               /\ current.left \subseteq episodes'[current.run]
               /\ current.run \notin todo => runRow'[current.run] # "none"
    BY <1>1, <2>2, FilesGrow, RowsStay DEF RunStatus
  <2> QED
    BY <1>1, <2>1, <2>2
<1>2. CASE StartReindex \/ ReindexAborts \/ NextRun
  BY <1>2 DEF StartReindex, ReindexAborts, NextRun, NoCommand
<1>3. ASSUME NEW r \in Runs, ReadRun(r) PROVE Walk'
  BY <1>3 DEF ReadRun, Nobody
<1>4. CASE ReindexRun
  <2>1. runRow'[current.run] # "none"
    BY <1>4 DEF ReindexRun, UpsertRun, RunStatus
  <2>2. current'.run = current.run /\ current'.status = current.status
        /\ current'.left = episodes[current.run]
    BY <1>4 DEF ReindexRun
  <2> QED
    BY <1>4, <2>1, <2>2 DEF ReindexRun
<1>5. CASE ReindexEpisode
  <2>1. current'.run = current.run /\ current'.status = current.status
        /\ current'.left \subseteq current.left
    BY <1>5 DEF ReindexEpisode
  <2> QED
    BY <1>5, <2>1 DEF ReindexEpisode
<1>6. CASE LoseIndex
  BY <1>6 DEF LoseIndex, NoCommand
<1> QED
  BY <1>1, <1>2, <1>3, <1>4, <1>5, <1>6
     DEF Next, Reindex, RunSteps, OpenRun, OpenRow, Publish, IndexEpisode, IndexFails, CloseRun,
         CloseRow, Leave, Crash, Reconcile, Over, vars

LEMMA StepRows == IndexInv /\ [Next]_vars => RowsAreReal'
<1> SUFFICES ASSUME IndexInv, [Next]_vars PROVE RowsAreReal'
  OBVIOUS
<1>0. IndexType /\ Walk /\ RowsAreReal /\ \A q \in Runs : Life(q)
  BY DEF IndexInv
<1>1. ASSUME NEW e \in EpisodeIds, episodeRow[e] # NoRow, episodeRow'[e] = episodeRow[e], ~LoseIndex
      PROVE  /\ PlanOf[episodeRow'[e].run] = e[1] /\ runRow'[episodeRow'[e].run] # "none"
             /\ PlanOf[episodeRow'[e].body] = e[1] /\ runRow'[episodeRow'[e].body] # "none"
             /\ e[2] \in episodes'[episodeRow'[e].body]
  BY <1>0, <1>1, RowsStay, FilesGrow DEF RowsAreReal, IndexType, Row
<1>2. ASSUME NEW r \in Runs, NEW t \in Trials, UpsertEpisode(r, t), ~LoseIndex,
             runRow[r] # "none", t \in episodes[r]
      PROVE  RowsAreReal'
  <2> SUFFICES ASSUME NEW e \in EpisodeIds, episodeRow'[e] # NoRow
               PROVE  /\ PlanOf[episodeRow'[e].run] = e[1] /\ runRow'[episodeRow'[e].run] # "none"
                      /\ PlanOf[episodeRow'[e].body] = e[1] /\ runRow'[episodeRow'[e].body] # "none"
                      /\ e[2] \in episodes'[episodeRow'[e].body]
    BY DEF RowsAreReal
  <2>1. CASE e # EpisodeId(r, t)
    BY <1>0, <1>1, <1>2, <2>1, Upserted
  <2>2. CASE e = EpisodeId(r, t)
    <3>1. episodeRow'[e].body = r /\ e[1] = PlanOf[r] /\ e[2] = t
      BY <1>0, <1>2, <2>2, Upserted DEF EpisodeId
    <3>2. runRow'[r] # "none" /\ t \in episodes'[r]
      BY <1>2, RowsStay, FilesGrow
    <3>3. /\ PlanOf[episodeRow'[e].run] = e[1] /\ runRow[episodeRow'[e].run] # "none"
          /\ episodeRow'[e].run \in Runs
      BY <1>0, <1>2, <2>2, <3>1, Upserted DEF RowsAreReal, IndexType, Row
    <3> QED
      BY <1>2, <3>1, <3>2, <3>3, RowsStay
  <2> QED
    BY <2>1, <2>2
<1>3. CASE \E r \in Runs : IndexEpisode(r)
  <2>0. PICK r \in Runs : IndexEpisode(r)
    BY <1>3
  <2>1. PICK t \in unindexed[r] : proc[r] \in Working /\ UpsertEpisode(r, t)
    BY <2>0 DEF IndexEpisode
  <2>2. t \in Trials /\ t \in episodes[r] /\ runRow[r] # "none" /\ ~LoseIndex
    BY <1>0, <2>1 DEF Life, IndexType, LoseIndex, Live
  <2> QED
    BY <1>2, <2>1, <2>2
<1>4. CASE ReindexEpisode
  <2>1. PICK t \in current.left : UpsertEpisode(current.run, t)
    BY <1>4 DEF ReindexEpisode
  <2>2. /\ current # Nobody /\ current.run \in Runs /\ t \in Trials /\ ~LoseIndex
        /\ runRow[current.run] # "none" /\ t \in episodes[current.run]
    BY <1>0, <1>4 DEF ReindexEpisode, IndexType, Walk, LoseIndex, NoCommand
  <2> QED
    BY <1>2, <2>1, <2>2
<1>5. CASE LoseIndex
  BY <1>5 DEF LoseIndex, RowsAreReal
<1>6. CASE UNCHANGED episodeRow /\ ~LoseIndex
  BY <1>1, <1>6 DEF RowsAreReal
<1> QED
  BY <1>3, <1>4, <1>5, <1>6
     DEF Next, Reindex, StartReindex, ReadRun, ReindexRun, NextRun, ReindexAborts,
         RunSteps, OpenRun, OpenRow, Publish, IndexFails, CloseRun, CloseRow, Leave, Crash, Reconcile,
         Over, vars

LEMMA IndexInvHolds == Spec => []IndexInv
<1>1. IndexInv /\ [Next]_vars => IndexInv'
  <2> SUFFICES ASSUME IndexInv, [Next]_vars PROVE IndexInv'
    OBVIOUS
  <2>1. IndexType'
    BY StepType DEF IndexInv
  <2> QED
    BY <2>1, StepLife, StepWalk, StepRows DEF IndexInv
<1> QED
  BY <1>1, InitIndex, PTL DEF Spec

-----------------------------------------------------------------------------
(* A row's status is one its run.json had, an episode row stands for an    *)
(* episode.json on disk, and its run is in the index too, whatever runs,   *)
(* reindexes, crashes and lost databases come together (index.py 56-117).  *)
THEOREM IndexShowsOnlyFilesHolds == Spec => []IndexShowsOnlyFiles
<1>1. IndexInv => IndexShowsOnlyFiles
  BY DEF IndexInv, Life, RowsAreReal, IndexShowsOnlyFiles
<1> QED
  BY <1>1, IndexInvHolds, PTL

-----------------------------------------------------------------------------
(* A row that lags                                                         *)

(* What a command is about to write over the row of an ended run is what   *)
(* the run ended with, unless the run closed its row in between.           *)
LagInv ==
  /\ RowLagsOnlyAfterRace
  /\ \A r \in Runs :
       proc[r] \in {"leaving", "ended"} /\ current.run = r /\ r \in todo /\ r \notin raced =>
         current.status = runJson[r]

LEMMA StepLag == IndexInv /\ LagInv /\ [Next]_vars => LagInv'
<1> SUFFICES ASSUME IndexInv, LagInv, [Next]_vars PROVE LagInv'
  OBVIOUS
<1>0. IndexType /\ \A q \in Runs : Life(q)
  BY DEF IndexInv
<1> USE <1>0 DEF LagInv, RowLagsOnlyAfterRace, IndexType, UpsertRun
<1>1. ASSUME NEW r \in Runs, RunSteps(r) PROVE LagInv'
  <2>1. CASE OpenRun(r)
    BY <2>1 DEF OpenRun
  <2>2. CASE OpenRow(r)
    BY <2>2 DEF OpenRow
  <2>3. CASE \E t \in Trials : Publish(r, t)
    BY <2>3 DEF Publish
  <2>4. CASE IndexEpisode(r)
    BY <2>4 DEF IndexEpisode
  <2>5. CASE IndexFails(r) \/ CloseRun(r)
    BY <2>5 DEF IndexFails, CloseRun
  <2>6. CASE CloseRow(r)
    BY <2>6 DEF CloseRow
  <2>7. CASE Leave(r) \/ Crash(r)
    BY <2>7 DEF Leave, Crash
  <2> QED
    BY <1>1, <2>1, <2>2, <2>3, <2>4, <2>5, <2>6, <2>7 DEF RunSteps
<1>2. CASE StartReindex \/ ReindexAborts \/ NextRun
  BY <1>2 DEF StartReindex, ReindexAborts, NextRun, NoCommand, Nobody
<1>3. ASSUME NEW r \in Runs, ReadRun(r) PROVE LagInv'
  BY <1>3 DEF ReadRun
<1>4. CASE ReindexRun
  <2>1. current'.run = current.run /\ current.run \notin todo'
    BY <1>4 DEF ReindexRun
  <2> QED
    BY <1>4, <2>1 DEF ReindexRun
<1>5. CASE ReindexEpisode
  <2>1. current'.run = current.run /\ current.run \notin todo
    BY <1>5 DEF ReindexEpisode
  <2> QED
    BY <1>5, <2>1 DEF ReindexEpisode
<1>6. CASE LoseIndex
  BY <1>6 DEF LoseIndex
<1>7. CASE Reconcile \/ Over \/ UNCHANGED vars
  BY <1>7 DEF Reconcile, Over, vars
<1> QED
  BY <1>1, <1>2, <1>3, <1>4, <1>5, <1>6, <1>7 DEF Next, Reindex

(* The row of a run that has ended differs from its run.json only if a     *)
(* reindex that had read the old run.json was under way as it ended        *)
(* (index.py 162-163).                                                     *)
THEOREM RowLagsOnlyAfterRaceHolds == Spec => []RowLagsOnlyAfterRace
<1>1. Init => LagInv
  BY DEF Init, LagInv, RowLagsOnlyAfterRace
<1>2. LagInv => RowLagsOnlyAfterRace
  BY DEF LagInv
<1> QED
  BY <1>1, <1>2, StepLag, IndexInvHolds, PTL DEF Spec

-----------------------------------------------------------------------------
(* What a reindex restores                                                 *)

(* The row of an episode that is on disk: it is there, and the row of the  *)
(* episode's own run unless its plan has been run more than once.          *)
Shown(r, t) ==
  /\ episodeRow[EpisodeId(r, t)] # NoRow
  /\ Alone(r) => episodeRow[EpisodeId(r, t)] = [run |-> r, body |-> r]
Holding(r, t) == current.run = r /\ t \in current.left

RunsRestored == rebuilt => \A r \in Runs : runRow[r] = runJson[r]

(* While nobody runs, the command has restored the runs it has left and    *)
(* of the run it is at all but the episodes it still holds.                *)
RestoreInv ==
  /\ quiet \/ rebuilt => Live = {}
  /\ rebuilt => /\ NoCommand /\ RunsRestored
                /\ \A r \in Runs : \A t \in episodes[r] : Shown(r, t)
  /\ quiet /\ ~NoCommand =>
       /\ current # Nobody => current.status = runJson[current.run]
       /\ \A r \in Runs \ todo :
            /\ runRow[r] = runJson[r]
            /\ \A t \in episodes[r] : Shown(r, t) \/ Holding(r, t)

LEMMA ShownStays ==
  ASSUME IndexInv, NEW q \in Runs, NEW t \in Trials, UpsertEpisode(q, t)
  PROVE  /\ Shown(q, t)'
         /\ \A r \in Runs : \A u \in episodes[r] : Shown(r, u) => Shown(r, u)'
<1>0. IndexType /\ RowsAreReal
  BY DEF IndexInv
<1>1. Shown(q, t)'
  <2> DEFINE e == EpisodeId(q, t)
  <2>1. episodeRow'[e].body = q /\ e \in EpisodeIds /\ e[1] = PlanOf[q]
        /\ episodeRow'[e] \in Row /\ episodeRow'[e] # NoRow
    BY <1>0, Upserted DEF EpisodeId
  <2>2. ASSUME Alone(q), episodeRow[e] # NoRow PROVE episodeRow[e].run = q
    <3>1. PlanOf[episodeRow[e].run] = PlanOf[q] /\ episodeRow[e].run \in Runs
      BY <1>0, <2>1, <2>2 DEF RowsAreReal, IndexType, Row
    <3> QED
      BY <2>2, <3>1 DEF Alone
  <2>3. Alone(q) => episodeRow'[e].run = q
    BY <1>0, <2>2, Upserted
  <2> QED
    BY <2>1, <2>3 DEF Row, Shown, EpisodeId, Alone
<1>2. ASSUME NEW r \in Runs, NEW u \in episodes[r], Shown(r, u) PROVE Shown(r, u)'
  <2>1. EpisodeId(r, u) \in EpisodeIds
    BY <1>0 DEF EpisodeId, EpisodeIds, Plans, IndexType
  <2>2. CASE EpisodeId(r, u) = EpisodeId(q, t)
    <3>1. PlanOf[q] = PlanOf[r] /\ u = t
      BY <2>2 DEF EpisodeId
    <3>2. Alone(r) => q = r
      BY <3>1 DEF Alone
    <3>3. episodeRow'[EpisodeId(r, u)] # NoRow
      BY <1>0, <2>2, Upserted
    <3> QED
      BY <1>1, <3>1, <3>2, <3>3 DEF Shown, EpisodeId, Alone
  <2>3. CASE EpisodeId(r, u) # EpisodeId(q, t)
    <3>1. episodeRow'[EpisodeId(r, u)] = episodeRow[EpisodeId(r, u)]
      BY <1>0, <2>1, <2>3, Upserted
    <3> QED
      BY <1>2, <3>1 DEF Shown, EpisodeId, Alone
  <2> QED
    BY <2>2, <2>3
<1> QED
  BY <1>1, <1>2

LEMMA StepRestore == IndexInv /\ RestoreInv /\ [Next]_vars => RestoreInv'
<1> SUFFICES ASSUME IndexInv, RestoreInv, [Next]_vars PROVE RestoreInv'
  OBVIOUS
<1>0. IndexType /\ Walk /\ \A q \in Runs : Life(q)
  BY DEF IndexInv
<1>1. ASSUME NEW r \in Runs, RunSteps(r) PROVE RestoreInv'
  <2>1. CASE OpenRun(r)
    BY <2>1 DEF OpenRun, RestoreInv
  <2>2. CASE ~OpenRun(r)
    <3>1. r \in Live
      BY <1>1, <2>2 DEF RunSteps, OpenRow, Publish, IndexEpisode, IndexFails, CloseRun, CloseRow,
                        Leave, Crash, Live
    <3>2. ~quiet /\ ~rebuilt /\ UNCHANGED <<quiet, rebuilt>>
      BY <1>0, <1>1, <2>2, <3>1
         DEF RestoreInv, IndexType, RunSteps, OpenRow, Publish, IndexEpisode, IndexFails, CloseRun,
             CloseRow, Leave, Crash
    <3> QED
      BY <3>2 DEF RestoreInv
  <2> QED
    BY <2>1, <2>2
<1> USE DEF Shown, Alone, EpisodeId, RunsRestored, Holding
<1>2. CASE StartReindex
  <2>1. ~rebuilt' /\ (quiet' => Live' = {}) /\ current' = Nobody
        /\ UNCHANGED <<runRow, runJson, episodes>>
    BY <1>2 DEF StartReindex, Live, NoCommand
  <2>2. \A r \in Runs \ todo' : runJson[r] = "none" /\ runRow[r] = "none" /\ episodes[r] = {}
    BY <1>0, <1>2 DEF StartReindex, Life, IndexType
  <2> QED
    BY <2>1, <2>2 DEF RestoreInv
<1>3. ASSUME NEW r \in Runs, ReadRun(r) PROVE RestoreInv'
  <2>1. current = Nobody /\ current'.run = r /\ current'.status = runJson[r]
        /\ r \in todo /\ ~NoCommand
        /\ UNCHANGED <<files, index, todo, quiet, rebuilt>>
    BY <1>3 DEF ReadRun, NoCommand
  <2>2. \A q \in Runs : \A t : ~Holding(q, t)
    BY <2>1 DEF Nobody
  <2> QED
    BY <2>1, <2>2 DEF RestoreInv, Live
<1>4. CASE ReindexRun
  <2>1. PICK r \in Runs : r = current.run
    BY <1>0, <1>4 DEF ReindexRun, IndexType
  <2>2. /\ ~NoCommand /\ current # Nobody /\ todo' = todo \ {r}
        /\ UNCHANGED <<quiet, rebuilt, files, episodeRow>>
        /\ current'.run = r /\ current'.status = current.status /\ current'.left = episodes[r]
        /\ runRow'[r] = current.status /\ \A q \in Runs \ {r} : runRow'[q] = runRow[q]
    BY <1>0, <1>4, <2>1 DEF ReindexRun, NoCommand, UpsertRun, IndexType
  <2> QED
    BY <2>1, <2>2 DEF RestoreInv, Live
<1>5. CASE ReindexEpisode
  <2>1. PICK r \in Runs : r = current.run
    BY <1>0, <1>5 DEF ReindexEpisode, IndexType
  <2>2. PICK t \in current.left :
          UpsertEpisode(r, t) /\ current' = [current EXCEPT !.left = @ \ {t}]
    BY <1>5, <2>1 DEF ReindexEpisode
  <2>3. /\ r \notin todo /\ t \in Trials /\ ~NoCommand /\ current # Nobody
        /\ UNCHANGED <<runRow, files, quiet, rebuilt, todo>>
        /\ current'.run = r /\ current'.status = current.status /\ current'.left = current.left \ {t}
    BY <1>0, <1>5, <2>1, <2>2 DEF ReindexEpisode, NoCommand, IndexType
  <2>4. Shown(r, t)' /\ \A q \in Runs : \A u \in episodes[q] : Shown(q, u) => Shown(q, u)'
    BY <2>2, <2>3, ShownStays
  <2> HIDE DEF Shown, Alone
  <2> QED
    BY <2>1, <2>3, <2>4 DEF RestoreInv, Live
<1>6. CASE NextRun
  <2>1. /\ current # Nobody /\ current.run \notin todo /\ current.left = {} /\ current' = Nobody
        /\ UNCHANGED <<files, index, todo, quiet>> /\ rebuilt' = (todo = {} /\ quiet)
    BY <1>6 DEF NextRun
  <2> QED
    BY <2>1 DEF RestoreInv, Live, NoCommand
<1>7. CASE ReindexAborts
  BY <1>7 DEF ReindexAborts, RestoreInv, NoCommand, Live
<1>8. CASE LoseIndex
  BY <1>8 DEF LoseIndex, RestoreInv, NoCommand, Live
<1>9. CASE Reconcile \/ Over \/ UNCHANGED vars
  BY <1>9 DEF Reconcile, Over, vars, RestoreInv, NoCommand, Live
<1> QED
  BY <1>1, <1>2, <1>3, <1>4, <1>5, <1>6, <1>7, <1>8, <1>9 DEF Next, Reindex

LEMMA RestoreInvHolds == Spec => []RestoreInv
<1>1. Init => RestoreInv
  BY DEF Init, RestoreInv, Live, NoCommand
<1> QED
  BY <1>1, StepRestore, IndexInvHolds, PTL DEF Spec

(* A reindex beside which no run was live leaves every row of a run equal  *)
(* to its run.json, also after crashes and from an empty database: the     *)
(* half of ReindexRestores that speaks of the runs table.                  *)
THEOREM RunsRestoredHolds == Spec => []RunsRestored
<1>1. RestoreInv => RunsRestored
  BY DEF RestoreInv, RunsRestored
<1> QED
  BY <1>1, RestoreInvHolds, PTL

(* And every published episode has a row: of a run of its plan that has an *)
(* episode.json for that ordinal, whichever of them was indexed last, and  *)
(* of its own run unless the plan has been run again (trial ids do not     *)
(* depend on the run, compiler.py:290-296).                                *)
THEOREM ReindexRestoresHolds == Spec => []ReindexRestores
<1>1. IndexInv /\ RestoreInv => ReindexRestores
  <2> SUFFICES ASSUME IndexInv, RestoreInv, rebuilt, NEW r \in Runs
               PROVE  /\ runRow[r] = runJson[r]
                      /\ \A t \in episodes[r] :
                           LET row == episodeRow[EpisodeId(r, t)]
                           IN  /\ row # NoRow /\ PlanOf[row.body] = PlanOf[r]
                               /\ t \in episodes[row.body]
                               /\ Alone(r) => row = [run |-> r, body |-> r]
    BY DEF ReindexRestores
  <2>1. runRow[r] = runJson[r]
    BY DEF RestoreInv, RunsRestored
  <2>2. ASSUME NEW t \in episodes[r]
        PROVE  LET row == episodeRow[EpisodeId(r, t)]
               IN  /\ row # NoRow /\ PlanOf[row.body] = PlanOf[r] /\ t \in episodes[row.body]
                   /\ Alone(r) => row = [run |-> r, body |-> r]
    <3>1. EpisodeId(r, t) \in EpisodeIds /\ EpisodeId(r, t)[1] = PlanOf[r] /\ EpisodeId(r, t)[2] = t
      BY DEF IndexInv, IndexType, EpisodeId, EpisodeIds, Plans
    <3>2. Shown(r, t)
      BY DEF RestoreInv
    <3> QED
      BY <3>1, <3>2 DEF Shown, IndexInv, RowsAreReal
  <2> QED
    BY <2>1, <2>2
<1> QED
  BY <1>1, IndexInvHolds, RestoreInvHolds, PTL
===============================================================================
