--------------------------- MODULE EvidenceProofs ---------------------------
(***************************************************************************)
(* What the initial manifest describes and what a score was given to, for  *)
(* every set of paths, every node an editor or an agent may make of them,  *)
(* and every number of edits.                                              *)
(*                                                                         *)
(* Up to the launch only the copy writes the workspace, and its manifest is *)
(* that of the copy; the snapshot a scorer is given is held against the    *)
(* sealed manifest before it starts; and the streams, which only grow, were *)
(* counted between the seal and the check that they are as sealed.         *)
(***************************************************************************)
EXTENDS Evidence, TLAPS

USE EvidenceAssumption
USE DEF repository, history, attempt

Bundles == [initial : Trees, final : Trees, commit : Trees, captured : BOOLEAN,
            changed : SUBSET Paths, sealed : [artifact : Artifacts, streams : Nat]]
Scorers == [kind : {"command", "execution_integrity"}, snapshot : Trees, given : Trees,
            counted : Nat, alive : BOOLEAN, stubborn : BOOLEAN, kin : BOOLEAN, timedOut : BOOLEAN,
            code : {0, 1}, reply : Replies]

TreeType == source \in Trees /\ workspace \in Trees /\ head \in Trees /\ index \in Trees
StateType == TreeType /\ loose \in LooseFiles /\ bundle \in Bundles /\ scorer \in Scorers

BeforeLaunch == {"baseline", "copy", "launch"}
Scored == {"start", "scoring", "term", "judge"}

CopyInv ==
  /\ at \in BeforeLaunch => agent = "none"
  /\ at = "launch" => bundle.initial = workspace
  /\ at = "recording" => agent # "none"
  /\ InitialIsWhatTheAgentFound

ScoreInv ==
  /\ at \in Scored => scorer.given = bundle.final
  /\ at \in {"publish", "check"} /\ result = "completed" /\ scorer.kind = "command" =>
       scorer.given = bundle.final

AfterSeal == {"sealed", "export", "start", "scoring", "term", "judge", "publish", "check", "done"}

StreamInv ==
  /\ at \in AfterSeal => bundle.sealed.streams <= loose.streams
  /\ at \in {"publish", "check"} /\ scorer.kind = "execution_integrity" =>
       bundle.sealed.streams <= scorer.counted /\ scorer.counted <= loose.streams
  /\ scorer.kind = "execution_integrity" => at \in {"publish", "check", "done", "refused"}

EvidenceInv == StateType /\ CopyInv /\ ScoreInv /\ StreamInv

-----------------------------------------------------------------------------
LEMMA EmptyIsTree == Empty \in Trees
  BY DEF Empty, Trees, Nodes, Ordinary

LEMMA StagedIsTree ==
  ASSUME NEW t \in Trees
  PROVE  Staged(t) \in Trees /\ Exported(t) \in Trees
  BY DEF Staged, Exported, Trees, Nodes, Ordinary

LEMMA InitEvidence == Init => EvidenceInv
<1> SUFFICES ASSUME Init PROVE EvidenceInv
  OBVIOUS
<1>1. TreeType
  BY EmptyIsTree DEF Init, TreeType, Trees
<1>2. bundle \in Bundles /\ loose \in LooseFiles
  BY EmptyIsTree DEF Init, Fresh, Bundles, Artifacts, LooseFiles
<1>3. scorer \in Scorers
  BY EmptyIsTree DEF Init, NoScorer, Scorers, Replies
<1>4. CopyInv /\ ScoreInv /\ StreamInv
  BY DEF Init, NoScorer, CopyInv, ScoreInv, StreamInv, InitialIsWhatTheAgentFound, Scored, BeforeLaunch,
         AfterSeal
<1> QED
  BY <1>1, <1>2, <1>3, <1>4 DEF EvidenceInv, StateType

-----------------------------------------------------------------------------
(* Types                                                                   *)

LEMMA EngineTypes == StateType /\ Engine => StateType'
<1> SUFFICES ASSUME StateType, Engine PROVE StateType'
  OBVIOUS
<1> USE StagedIsTree, EmptyIsTree DEF StateType, TreeType
<1>1. CASE Baseline \/ Launch \/ Return \/ ListArtifacts
  BY <1>1 DEF Baseline, Launch, Return, ListArtifacts
<1>2. ASSUME NEW p \in Paths, Copy(p) PROVE StateType'
  BY <1>2 DEF Copy, Trees, Nodes, Ordinary
<1>3. CASE CommitInitial
  BY <1>3 DEF CommitInitial, Bundles
<1>4. CASE Add
  <2>1. Differ(head, Staged(workspace)) \subseteq Paths
    BY DEF Differ
  <2> QED
    BY <1>4, <2>1 DEF Add, Bundles
<1>5. CASE ListFinal
  BY <1>5 DEF ListFinal, Bundles
<1>6. CASE CommitFinal
  BY <1>6 DEF CommitFinal, Bundles
<1>7. CASE Seal
  BY <1>7 DEF Seal, Covered, LooseFiles, Bundles
<1> QED
  BY <1>1, <1>2, <1>3, <1>4, <1>5, <1>6, <1>7 DEF Engine

LEMMA EvaluationTypes == StateType /\ Evaluation => StateType'
<1> SUFFICES ASSUME StateType, Evaluation PROVE StateType'
  OBVIOUS
<1> USE DEF StateType, TreeType
<1>1. CASE Validate \/ Judge \/ Publish \/ Check \/ ProtectFails
  BY <1>1 DEF Validate, Judge, Publish, Check, ProtectFails
<1>2. CASE Export
  <2>1. Exported(bundle.commit) \in Trees
    BY StagedIsTree DEF Bundles
  <2> QED
    BY <1>2, <2>1 DEF Export, Scorers
<1>3. CASE Start
  BY <1>3 DEF Start, Scorers
<1>4. CASE Deadline \/ Kill
  BY <1>4 DEF Deadline, Kill, Scorers
<1>5. CASE ReadOutput
  BY <1>5 DEF ReadOutput, Scorers
<1> QED
  BY <1>1, <1>2, <1>3, <1>4, <1>5 DEF Evaluation

LEMMA OtherTypes == StateType /\ Others => StateType'
<1> SUFFICES ASSUME StateType, Others PROVE StateType'
  OBVIOUS
<1> USE DEF StateType, TreeType
<1>1. CASE AgentWrites \/ SourceEdited
  BY <1>1 DEF AgentWrites, SourceEdited, Acts, Trees
<1>2. CASE AgentCommits \/ AgentMovesPointer
  BY <1>2, StagedIsTree DEF AgentCommits, AgentMovesPointer, Acts
<1>5. CASE AgentLeavesArtifact
  BY <1>5 DEF AgentLeavesArtifact, Acts, LooseFiles
<1>3. CASE PinsDrifted
  BY <1>3 DEF PinsDrifted
<1>4. CASE ExecutionIntegrity \/ ScorerTampers \/ ScorerForks \/ ScorerExits
  BY <1>4, EmptyIsTree DEF ExecutionIntegrity, ScorerTampers, ScorerForks, ScorerExits, Scorers,
                           LooseFiles
<1> QED
  BY <1>1, <1>2, <1>3, <1>4, <1>5 DEF Others

LEMMA StepTypes == StateType /\ [Next]_vars => StateType'
<1>1. StateType /\ UNCHANGED vars => StateType'
  BY DEF vars, StateType, TreeType
<1> QED
  BY <1>1, EngineTypes, EvaluationTypes, OtherTypes DEF Next, Stop

-----------------------------------------------------------------------------
(* The copy                                                                *)

LEMMA StepCopy == StateType /\ CopyInv /\ [Next]_vars => CopyInv'
<1> SUFFICES ASSUME StateType, CopyInv, [Next]_vars PROVE CopyInv'
  OBVIOUS
<1> USE DEF CopyInv, InitialIsWhatTheAgentFound, BeforeLaunch
<1>1. CASE Engine
  <2>1. CASE Baseline \/ ListArtifacts \/ \E p \in Paths : Copy(p)
    BY <1>1, <2>1 DEF Baseline, ListArtifacts, Copy
  <2>2. CASE CommitInitial
    BY <2>2 DEF CommitInitial, StateType, Bundles
  <2>3. CASE Launch \/ Return
    BY <2>3 DEF Launch, Return
  <2>4. CASE Add
    BY <2>4 DEF Add, StateType, Bundles
  <2>5. CASE ListFinal \/ Seal
    BY <2>5 DEF ListFinal, Seal, StateType, Bundles
  <2>6. CASE CommitFinal
    BY <2>6 DEF CommitFinal, StateType, Bundles
  <2> QED
    BY <1>1, <2>1, <2>2, <2>3, <2>4, <2>5, <2>6 DEF Engine
<1>2. CASE Evaluation
  BY <1>2 DEF Evaluation, Validate, Export, ProtectFails, Start, Deadline, Kill, ReadOutput, Judge, Publish,
              Check
<1>3. CASE Others
  BY <1>3 DEF Others, Acts, AgentWrites, AgentCommits, AgentMovesPointer, AgentLeavesArtifact,
              SourceEdited, PinsDrifted, ExecutionIntegrity, ScorerTampers, ScorerForks,
              ScorerExits
<1>4. CASE UNCHANGED vars
  BY <1>4 DEF vars
<1> QED
  BY <1>1, <1>2, <1>3, <1>4 DEF Next, Stop

-----------------------------------------------------------------------------
(* The score                                                               *)

LEMMA StepScore == StateType /\ ScoreInv /\ [Next]_vars => ScoreInv'
<1> SUFFICES ASSUME StateType, ScoreInv, [Next]_vars PROVE ScoreInv'
  OBVIOUS
<1> USE DEF ScoreInv, Scored
<1>1. CASE Engine
  <2>1. at' \notin Scored \cup {"publish", "check"}
    BY <1>1 DEF Engine, Baseline, Copy, CommitInitial, Launch, Return, Add, ListFinal,
                CommitFinal, ListArtifacts, Seal
  <2> QED
    BY <2>1
<1>2. CASE Validate \/ Publish \/ Check
  BY <1>2 DEF Validate, Publish, Check
<1>3. CASE Export
  BY <1>3 DEF Export, Matches, StateType, Scorers
<1>4. CASE Start \/ ProtectFails
  BY <1>4 DEF Start, ProtectFails, StateType, Scorers
<1>5. CASE Deadline \/ Kill \/ ReadOutput
  BY <1>5 DEF Deadline, Kill, ReadOutput, StateType, Scorers
<1>6. CASE Judge
  BY <1>6 DEF Judge
<1>7. CASE PinsDrifted \/ ExecutionIntegrity
  BY <1>7 DEF PinsDrifted, ExecutionIntegrity, StateType, Scorers
<1>8. CASE ScorerTampers \/ ScorerForks \/ ScorerExits
  BY <1>8 DEF ScorerTampers, ScorerForks, ScorerExits, StateType, Scorers
<1>9. CASE AgentWrites \/ AgentCommits \/ AgentMovesPointer \/ AgentLeavesArtifact
           \/ SourceEdited \/ UNCHANGED vars
  BY <1>9 DEF Acts, AgentWrites, AgentCommits, AgentMovesPointer, AgentLeavesArtifact,
              SourceEdited, vars
<1> QED
  BY <1>1, <1>2, <1>3, <1>4, <1>5, <1>6, <1>7, <1>8, <1>9 DEF Next, Stop, Evaluation, Others

-----------------------------------------------------------------------------
(* The streams                                                             *)

LEMMA StepStreams == StateType /\ StreamInv /\ [Next]_vars => StreamInv'
<1> SUFFICES ASSUME StateType, StreamInv, [Next]_vars PROVE StreamInv'
  OBVIOUS
<1>0. /\ bundle.sealed.streams \in Nat /\ loose.streams \in Nat /\ loose \in LooseFiles
      /\ bundle \in Bundles /\ scorer \in Scorers
  BY DEF StateType, Bundles, LooseFiles
<1> USE DEF StreamInv, AfterSeal
<1>1. CASE Engine
  <2>1. CASE Seal
    <3>1. /\ bundle'.sealed.streams = loose.streams /\ loose' = loose /\ scorer' = scorer
          /\ at = "seal" /\ at' \in {"unsealed", "sealed"}
      BY <1>0, <2>1 DEF Seal, Covered, Bundles
    <3> QED BY <1>0, <3>1
  <2>2. CASE ~Seal
    <3>1. /\ at' \notin AfterSeal /\ scorer' = scorer
          /\ at \notin {"publish", "check", "done", "refused"}
      BY <1>1, <2>2 DEF Engine, Baseline, Copy, CommitInitial, Launch, Return, Add, ListFinal,
                        CommitFinal, ListArtifacts
    <3> QED BY <3>1
  <2> QED BY <2>1, <2>2
<1>2. CASE Validate \/ Publish \/ Check
  <2>1. /\ UNCHANGED <<bundle, loose, scorer>>
        /\ at' \in AfterSeal => at \in AfterSeal
        /\ at' \in {"publish", "check"} => at \in {"publish", "check"}
        /\ at \in {"publish", "check", "done", "refused"} => at' \in {"publish", "check", "done", "refused"}
    BY <1>2 DEF Validate, Publish, Check
  <2> QED BY <2>1
<1>3. CASE PinsDrifted \/ Export \/ ProtectFails \/ Start \/ Deadline \/ Kill \/ ReadOutput \/ Judge
           \/ ScorerTampers \/ ScorerForks \/ ScorerExits
  <2>1. UNCHANGED <<bundle, loose>> /\ (at' \in AfterSeal => at \in AfterSeal)
    BY <1>3 DEF PinsDrifted, Export, ProtectFails, Start, Deadline, Kill, ReadOutput, Judge,
                ScorerTampers, ScorerForks, ScorerExits
  <2>2. scorer'.kind = scorer.kind
    <3>1. CASE Export
      <4>1. scorer' = scorer \/ scorer' = [scorer EXCEPT !.snapshot = Exported(bundle.commit),
                                                        !.given = Exported(bundle.commit)]
        BY <3>1 DEF Export
      <4> QED BY <1>0, <4>1 DEF Scorers
    <3>2. CASE PinsDrifted \/ ProtectFails \/ Judge
      BY <3>2 DEF PinsDrifted, ProtectFails, Judge
    <3>3. CASE Start \/ Deadline \/ Kill
      BY <1>0, <3>3 DEF Start, Deadline, Kill, Scorers
    <3>4. CASE ReadOutput
      BY <1>0, <3>4 DEF ReadOutput, Scorers
    <3>5. CASE ScorerTampers \/ ScorerForks
      BY <1>0, <3>5 DEF ScorerTampers, ScorerForks, Scorers
    <3>6. CASE ScorerExits
      <4>1. PICK code \in {0, 1}, y \in Replies :
              scorer' = [scorer EXCEPT !.alive = FALSE, !.code = code, !.reply = y]
        BY <3>6 DEF ScorerExits
      <4> QED BY <1>0, <4>1 DEF Scorers
    <3> QED BY <1>3, <3>1, <3>2, <3>3, <3>4, <3>5, <3>6
  <2>3. at \in Scored \cup {"export"}
    BY <1>3 DEF PinsDrifted, Export, ProtectFails, Start, Deadline, Kill, ReadOutput, Judge,
                ScorerTampers, ScorerForks, ScorerExits, Scored
  <2> QED BY <2>1, <2>2, <2>3 DEF Scored
<1>4. CASE ExecutionIntegrity
  <2>1. /\ at = "export" /\ at' = "publish" /\ UNCHANGED <<bundle, loose>>
        /\ scorer'.counted = loose.streams
    BY <1>0, <1>4 DEF ExecutionIntegrity, Scorers
  <2> QED BY <1>0, <2>1
<1>5. CASE AgentLeavesArtifact
  <2>1. loose'.streams \in {loose.streams, loose.streams + 1}
    BY <1>0, <1>5 DEF AgentLeavesArtifact, LooseFiles
  <2>2. UNCHANGED <<at, bundle, scorer>>
    BY <1>5 DEF AgentLeavesArtifact, Acts
  <2>3. bundle.sealed.streams <= loose.streams => bundle.sealed.streams <= loose'.streams
    BY <1>0, <2>1
  <2>4. scorer.counted \in Nat
    BY <1>0 DEF Scorers
  <2>5. scorer.counted <= loose.streams => scorer.counted <= loose'.streams
    BY <1>0, <2>1, <2>4
  <2> QED BY <2>2, <2>3, <2>5
<1>6. CASE AgentWrites \/ AgentCommits \/ AgentMovesPointer \/ SourceEdited \/ UNCHANGED vars
  <2>1. UNCHANGED <<at, bundle, scorer, loose>>
    BY <1>6 DEF Acts, AgentWrites, AgentCommits, AgentMovesPointer, SourceEdited, vars
  <2> QED BY <2>1
<1> QED
  BY <1>1, <1>2, <1>3, <1>4, <1>5, <1>6 DEF Next, Stop, Evaluation, Others

LEMMA EvidenceInvHolds == Spec => []EvidenceInv
<1>1. EvidenceInv /\ [Next]_vars => EvidenceInv'
  BY StepTypes, StepCopy, StepScore, StepStreams DEF EvidenceInv
<1> QED
  BY <1>1, InitEvidence, PTL DEF Spec

-----------------------------------------------------------------------------
(* The agent starts on the tree the initial manifest describes, whenever   *)
(* the source was edited.                                                  *)
THEOREM InitialIsWhatTheAgentFoundHolds == Spec => []InitialIsWhatTheAgentFound
<1>1. EvidenceInv => InitialIsWhatTheAgentFound
  BY DEF EvidenceInv, CopyInv
<1> QED
  BY <1>1, EvidenceInvHolds, PTL

(* What counts was scored on the sealed tree, or counted in the streams as *)
(* they were sealed, and every file the seal lists is still as it was.     *)
THEOREM CountsAsSealedHolds == Spec => CountsAsSealed
<1> DEFINE Counts ==
      at' = "done" /\ at # "done" /\ result = "completed" =>
        /\ scorer.kind = "command" => scorer.given = bundle.final
        /\ scorer.kind = "execution_integrity" => scorer.counted = bundle.sealed.streams
        /\ Covered = bundle.sealed
<1>1. EvidenceInv /\ [Next]_vars => [Counts]_vars
  <2> SUFFICES ASSUME EvidenceInv, Next, at' = "done", at # "done", result = "completed"
               PROVE  /\ scorer.kind = "command" => scorer.given = bundle.final
                      /\ scorer.kind = "execution_integrity" => scorer.counted = bundle.sealed.streams
                      /\ Covered = bundle.sealed
    OBVIOUS
  <2>1. Check
    BY DEF Next, Stop, vars, Engine, Baseline, Copy, CommitInitial, Launch, Return, Add,
           ListFinal, CommitFinal, ListArtifacts, Seal, Evaluation, Validate, Export, ProtectFails, Start,
           Deadline, Kill, ReadOutput, Judge, Publish, Others, Acts, AgentWrites, AgentCommits,
           AgentMovesPointer, AgentLeavesArtifact, SourceEdited, PinsDrifted,
           ExecutionIntegrity, ScorerTampers, ScorerForks, ScorerExits
  <2>2. at = "check" /\ Covered = bundle.sealed
    BY <2>1 DEF Check, SealIsValid
  <2>3. loose.streams = bundle.sealed.streams
    BY <2>2 DEF Covered
  <2>4. loose.streams \in Nat /\ bundle.sealed.streams \in Nat /\ scorer.counted \in Nat
    BY DEF EvidenceInv, StateType, LooseFiles, Bundles, Scorers
  <2>5. scorer.kind = "execution_integrity" => scorer.counted = bundle.sealed.streams
    BY <2>2, <2>3, <2>4 DEF EvidenceInv, StreamInv
  <2> QED
    BY <2>2, <2>5 DEF EvidenceInv, ScoreInv
<1> QED
  BY <1>1, EvidenceInvHolds, PTL DEF Spec, CountsAsSealed

-----------------------------------------------------------------------------
(* An attempt nobody interfered with.  The agent acts while it is recorded *)
(* and nobody after it, so the staging area, the final manifest and the    *)
(* commit are all taken from the same tree; Git neither drops nor rewrites *)
(* anything of an ordinary one.                                            *)

BeforeScoring == BeforeLaunch \cup {"recording", "add", "list", "commit", "artifacts", "seal",
                                    "sealed", "export", "start"}
AfterCapture == AfterSeal \cup {"artifacts", "seal", "unsealed"}

Undisturbed ==
  /\ OrdinaryTree(source) /\ OrdinaryTree(workspace)
  /\ at \notin {"baseline", "copy"} => pointer
  /\ at \in {"list", "commit"} => index = workspace
  /\ at = "commit" => bundle.final = workspace
  /\ at \in AfterCapture =>
       bundle.captured /\ bundle.commit = bundle.final /\ OrdinaryTree(bundle.final)
  /\ at \in AfterSeal => SealIsValid
  /\ at \notin {"refused", "aborted"}

Judged ==
  /\ at \in BeforeScoring => scorer.reply.status = "none"
  /\ at \in {"publish", "check", "done"} /\ WellBehaved => result = "completed"

HonestInv ==
  /\ agent = "running" => at = "recording"
  /\ Judged
  /\ quiet => Undisturbed

(* Git takes an ordinary tree as it is.                                    *)
LEMMA OrdinaryIsKept ==
  ASSUME NEW t \in Trees, OrdinaryTree(t)
  PROVE  Staged(t) = t /\ Exported(t) = t /\ Addable(t) /\ ~Escapes(t)
<1>1. \A p \in Paths : t[p] \in Ordinary
  BY DEF OrdinaryTree
<1>2. Staged(t) = t
  BY <1>1 DEF Staged, Trees, Ordinary
<1>3. Exported(t) = t
  BY <1>1 DEF Exported, Trees, Ordinary
<1>4. Addable(t) /\ ~Escapes(t)
  BY <1>1 DEF Addable, Escapes, Ordinary
<1> QED
  BY <1>2, <1>3, <1>4

LEMMA InitHonest == Init => HonestInv
<1> SUFFICES ASSUME Init PROVE HonestInv
  OBVIOUS
<1>1. at = "baseline" /\ agent = "none" /\ workspace = Empty /\ scorer.reply.status = "none"
      /\ quiet = OrdinaryTree(source)
  BY DEF Init, NoScorer
<1>2. OrdinaryTree(Empty)
  BY DEF OrdinaryTree, Empty, Ordinary
<1> QED
  BY <1>1, <1>2 DEF HonestInv, Judged, Undisturbed, AfterSeal, AfterCapture

LEMMA StepJudged == StateType /\ Judged /\ [Next]_vars => Judged'
<1> SUFFICES ASSUME StateType, Judged, [Next]_vars PROVE Judged'
  OBVIOUS
<1> USE DEF Judged, BeforeScoring, BeforeLaunch
<1>1. CASE Engine \/ AgentWrites \/ AgentCommits \/ AgentMovesPointer \/ AgentLeavesArtifact
           \/ SourceEdited \/ Validate \/ Publish \/ Check \/ UNCHANGED vars
  <2>1. /\ UNCHANGED <<scorer, result>>
        /\ at' \in BeforeScoring => at \in BeforeScoring
        /\ at' \in {"publish", "check", "done"} => at \in {"publish", "check", "done"}
    BY <1>1 DEF Engine, Baseline, Copy, CommitInitial, Launch, Return, Add, ListFinal, CommitFinal,
                ListArtifacts, Seal, Acts, AgentWrites, AgentCommits, AgentMovesPointer,
                AgentLeavesArtifact, SourceEdited, Validate, Publish, Check, vars
  <2> QED
    BY <2>1 DEF WellBehaved
<1>2. CASE PinsDrifted \/ ExecutionIntegrity \/ Export
  <2>1. at' \in {"publish", "start", "aborted"} /\ at = "export"
        /\ scorer'.reply = scorer.reply
    BY <1>2 DEF PinsDrifted, ExecutionIntegrity, Export, StateType, Scorers
  <2> QED
    BY <2>1 DEF WellBehaved
<1>6. CASE ProtectFails
  BY <1>6 DEF ProtectFails, WellBehaved
<1>3. CASE Start \/ Deadline \/ Kill \/ ReadOutput
  <2>1. at' \in {"scoring", "term", "judge"}
    BY <1>3 DEF Start, Deadline, Kill, ReadOutput
  <2> QED
    BY <2>1
<1>4. CASE ScorerTampers \/ ScorerForks \/ ScorerExits
  <2>1. at' \in {"scoring", "term"}
    BY <1>4 DEF ScorerTampers, ScorerForks, ScorerExits
  <2> QED
    BY <2>1
<1>5. CASE Judge
  BY <1>5 DEF Judge, WellBehaved, Strict
<1> QED
  BY <1>1, <1>2, <1>3, <1>4, <1>5, <1>6 DEF Next, Stop, Evaluation, Others

LEMMA StepHonest == StateType /\ HonestInv /\ [Next]_vars => HonestInv'
<1> SUFFICES ASSUME StateType, HonestInv, [Next]_vars PROVE HonestInv'
  OBVIOUS
<1>1. Judged'
  BY StepJudged DEF HonestInv
<1>2. agent' = "running" => at' = "recording"
  BY DEF HonestInv, Next, Stop, vars, Engine, Baseline, Copy, CommitInitial, Launch, Return, Add,
         ListFinal, CommitFinal, ListArtifacts, Seal, Evaluation, Validate, Export, ProtectFails, Start,
         Deadline, Kill, ReadOutput, Judge, Publish, Check, Others, Acts, AgentWrites, AgentCommits,
         AgentMovesPointer, AgentLeavesArtifact, SourceEdited, PinsDrifted,
         ExecutionIntegrity, ScorerTampers, ScorerForks, ScorerExits
<1>3. ASSUME quiet' PROVE Undisturbed'
  <2> USE DEF AfterSeal, AfterCapture
  <2>0. /\ source \in Trees /\ workspace \in Trees /\ index \in Trees /\ bundle \in Bundles
        /\ bundle.final \in Trees /\ bundle.commit \in Trees
    BY DEF StateType, TreeType, Bundles
  <2>1. CASE AgentWrites \/ AgentCommits \/ AgentMovesPointer \/ AgentLeavesArtifact
    <3>1. /\ quiet /\ agent = "running" /\ at = "recording" /\ at' = at /\ source' = source
          /\ pointer' = pointer
          /\ \/ workspace' = workspace
             \/ \E p \in Paths, n \in Ordinary : workspace' = [workspace EXCEPT ![p] = n]
      BY <1>3, <2>1 DEF HonestInv, Acts, AgentWrites, AgentCommits, AgentMovesPointer,
                        AgentLeavesArtifact
    <3>2. Undisturbed
      BY <3>1 DEF HonestInv
    <3>3. OrdinaryTree(workspace)'
      BY <2>0, <3>1, <3>2 DEF Undisturbed, OrdinaryTree, Trees
    <3> QED
      BY <3>1, <3>2, <3>3 DEF Undisturbed, OrdinaryTree
  <2>2. CASE SourceEdited
    <3>1. /\ quiet /\ at = "copy" /\ at' = at /\ workspace' = workspace
          /\ \E p \in Paths, n \in Ordinary : source' = [source EXCEPT ![p] = n]
      BY <1>3, <2>2 DEF SourceEdited
    <3>2. Undisturbed
      BY <3>1 DEF HonestInv
    <3>3. OrdinaryTree(source)'
      BY <2>0, <3>1, <3>2 DEF Undisturbed, OrdinaryTree, Trees
    <3> QED
      BY <3>1, <3>2, <3>3 DEF Undisturbed, OrdinaryTree
  <2>3. CASE Engine \/ Evaluation \/ PinsDrifted \/ ExecutionIntegrity \/ ScorerTampers
             \/ ScorerForks \/ ScorerExits \/ UNCHANGED vars
    <3>1. quiet /\ source' = source
      BY <1>3, <2>3 DEF Engine, Baseline, Copy, CommitInitial, Launch, Return, Add, ListFinal,
           CommitFinal, ListArtifacts, Seal, Evaluation, Validate, Export, ProtectFails, Start, Deadline, Kill,
           ReadOutput, Judge, Publish, Check, PinsDrifted, ExecutionIntegrity, ScorerTampers,
           ScorerForks, ScorerExits, vars
    <3>2. Undisturbed
      BY <3>1 DEF HonestInv
    <3>3. /\ OrdinaryTree(source) /\ OrdinaryTree(workspace)
          /\ ~Escapes(source) /\ Staged(workspace) = workspace /\ Addable(workspace)
      BY <2>0, <3>2, OrdinaryIsKept DEF Undisturbed
    <3>4. OrdinaryTree(source)'
      BY <3>1, <3>3
    <3> USE DEF Undisturbed
    <3>5. CASE Baseline \/ Launch \/ Return \/ ListArtifacts
      <4>1. workspace' = workspace /\ bundle' = bundle /\ index' = index /\ pointer' = pointer
        BY <3>5 DEF Baseline, Launch, Return, ListArtifacts
      <4> QED
        BY <3>2, <3>3, <3>4, <3>5, <4>1 DEF Baseline, Launch, Return, ListArtifacts, OrdinaryTree
    <3>6. ASSUME NEW p \in Paths, Copy(p) PROVE Undisturbed'
      <4>1. source[p] \in Ordinary /\ source[p] # "fifo"
        BY <3>3 DEF OrdinaryTree, Ordinary
      <4>2. workspace' = [workspace EXCEPT ![p] = source[p]] /\ at' = "copy"
        BY <3>6, <4>1 DEF Copy
      <4>3. OrdinaryTree(workspace)'
        BY <2>0, <3>3, <4>1, <4>2 DEF OrdinaryTree, Trees
      <4> QED
        BY <3>4, <4>2, <4>3
    <3>7. CASE CommitInitial
      <4>1. workspace' = workspace /\ pointer' /\ at' = "launch"
        BY <3>3, <3>7 DEF CommitInitial
      <4> QED
        BY <3>3, <3>4, <4>1 DEF OrdinaryTree
    <3>8. CASE Add
      <4>1. workspace' = workspace /\ pointer' /\ at' = "list" /\ index' = workspace
        BY <3>2, <3>3, <3>8 DEF Add
      <4> QED
        BY <3>3, <3>4, <4>1 DEF OrdinaryTree
    <3>9. CASE ListFinal
      <4>1. workspace' = workspace /\ pointer' /\ at' = "commit" /\ index' = workspace
            /\ bundle'.final = workspace
        BY <2>0, <3>2, <3>9 DEF ListFinal, Bundles
      <4> QED
        BY <3>3, <3>4, <4>1 DEF OrdinaryTree
    <3>10. CASE CommitFinal
      <4>1. workspace' = workspace /\ pointer' /\ at' = "artifacts" /\ bundle'.final = workspace
            /\ bundle'.commit = workspace /\ bundle'.captured
        BY <2>0, <3>2, <3>10 DEF CommitFinal, Bundles
      <4> QED
        BY <3>3, <3>4, <4>1 DEF OrdinaryTree
    <3>11. CASE Seal
      <4>1. workspace' = workspace /\ pointer' = pointer /\ at' \in {"unsealed", "sealed"} /\ at = "seal"
            /\ bundle'.final = bundle.final /\ bundle'.commit = bundle.commit
            /\ bundle'.captured = bundle.captured /\ bundle'.sealed = Covered /\ loose' = loose
        BY <2>0, <3>11 DEF Seal, Bundles
      <4>2. SealIsValid'
        BY <4>1 DEF SealIsValid, Covered
      <4> QED
        BY <3>2, <3>3, <3>4, <4>1, <4>2 DEF OrdinaryTree
    <3>12. CASE Evaluation \/ PinsDrifted \/ ExecutionIntegrity \/ ScorerTampers
                \/ ScorerForks \/ ScorerExits \/ UNCHANGED vars
      <4>1. workspace' = workspace /\ bundle' = bundle /\ index' = index /\ pointer' = pointer
            /\ loose' = loose
        BY <3>12 DEF Evaluation, Validate, Export, ProtectFails, Start, Deadline, Kill,
             ReadOutput, Judge, Publish, Check, PinsDrifted, ExecutionIntegrity, ScorerTampers,
             ScorerForks, ScorerExits, vars
      <4>2. at' = at \/ (at \in AfterSeal /\ at' \in AfterSeal)
        <5>1. CASE Validate \/ Check
          BY <3>2, <5>1 DEF Validate, Check, SealIsValid
        <5>2. CASE Export
          <6>1. bundle.captured /\ at = "export"
            BY <3>2, <5>2 DEF Export
          <6> QED
            BY <5>2, <6>1 DEF Export
        <5>3. CASE ProtectFails \/ Start \/ Deadline \/ Kill \/ ReadOutput \/ Judge \/ Publish
          BY <5>3 DEF ProtectFails, Start, Deadline, Kill, ReadOutput, Judge, Publish
        <5>4. CASE PinsDrifted \/ ExecutionIntegrity
          BY <5>4 DEF PinsDrifted, ExecutionIntegrity
        <5>5. CASE ScorerTampers \/ ScorerForks \/ ScorerExits
          BY <5>5 DEF ScorerTampers, ScorerForks, ScorerExits
        <5>6. CASE UNCHANGED vars
          BY <5>6 DEF vars
        <5> QED
          BY <3>12, <5>1, <5>2, <5>3, <5>4, <5>5, <5>6 DEF Evaluation
      <4>3. SealIsValid' = SealIsValid
        BY <4>1 DEF SealIsValid, Covered
      <4> QED
        BY <3>2, <3>3, <3>4, <4>1, <4>2, <4>3 DEF OrdinaryTree
    <3> QED
      BY <2>3, <3>5, <3>6, <3>7, <3>8, <3>9, <3>10, <3>11, <3>12 DEF Engine
  <2> QED
    BY <2>1, <2>2, <2>3 DEF Next, Stop, Others
<1> QED
  BY <1>1, <1>2, <1>3 DEF HonestInv

(* On ordinary files an attempt that nobody interferes with is neither     *)
(* refused nor aborted; what is exported is the tree that was sealed, and  *)
(* is accepted exactly when the two orders of its paths agree; and the     *)
(* value of a well-behaved scorer counts.                                  *)
THEOREM HonestAttemptCountsHolds == Spec => []HonestAttemptCounts
<1>1. ASSUME StateType, HonestInv PROVE HonestAttemptCounts
  <2> SUFFICES ASSUME quiet PROVE HonestAttemptCounts
    BY DEF HonestAttemptCounts
  <2>1. Undisturbed /\ Judged
    BY <1>1 DEF HonestInv
  <2>2. ASSUME at = "export"
        PROVE  /\ pointer /\ Exported(bundle.commit) = bundle.final
               /\ Matches(Exported(bundle.commit)) <=> SameOrder(bundle.final)
    <3>1. pointer /\ bundle.commit = bundle.final /\ OrdinaryTree(bundle.final)
      BY <2>1, <2>2 DEF Undisturbed, AfterCapture, AfterSeal
    <3>2. Exported(bundle.commit) = bundle.final
      BY <1>1, <3>1, OrdinaryIsKept DEF StateType, Bundles
    <3> QED
      BY <3>1, <3>2 DEF Matches
  <2> QED
    BY <2>1, <2>2 DEF HonestAttemptCounts, Undisturbed, Judged
<1>2. StateType /\ HonestInv /\ [Next]_vars => (StateType /\ HonestInv)'
  BY StepTypes, StepHonest
<1>3. Init => StateType /\ HonestInv
  BY InitEvidence, InitHonest DEF EvidenceInv
<1> QED
  BY <1>1, <1>2, <1>3, PTL DEF Spec
=============================================================================
