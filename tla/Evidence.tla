------------------------------ MODULE Evidence ------------------------------
(***************************************************************************)
(* The evidence of one attempt, from the source workspace to a score:      *)
(* WorkspaceBackend copies the source and commits it, the agent works,     *)
(* capture_final commits and lists what it finds, RawBundle.seal lists the *)
(* files of the bundle, and `lsm evaluate run` exports the commit, holds   *)
(* it against the sealed list and gives it to a scorer process.            *)
(*                                                                         *)
(* Others work beside the code: an editor of the source, the agent and     *)
(* what it leaves running, the scorer and what it leaves running.          *)
(* MaxEdits bounds what the first two do.                                  *)
(*                                                                         *)
(* A tree gives every path a node.  A path is the sequence of its          *)
(* characters, numbers in their order with Slash among them.               *)
(***************************************************************************)
EXTENDS Naturals, Sequences, FiniteSets

CONSTANTS
  Paths, Slash,
  SourceNodes,  \* what an entry of the source may be
  AgentNodes,   \* what the agent may make of an entry
  MaxEdits      \* bound: edits of the source, and acts of the agent

(* "one" and "two" are plain files; "link" is a symlink to a file of the   *)
(* tree, "dangling" one to a place in it where nothing is, and "escape" one *)
(* that leaves it; "fifo" any special file; "nested" and  *)
(* "unborn" files below a Git repository of their own, with and without a  *)
(* commit; "unexported" has the attribute export-ignore and "rewritten" is *)
(* a file whose line ends Git normalises.                                  *)
Ordinary == {"absent", "one", "two", "link"}
Nodes == Ordinary \cup {"dangling", "escape", "fifo", "nested", "unborn", "unexported",
                     "rewritten", "gitlink", "normalised"}
Trees == [Paths -> Nodes]

(* What may still be written beside the files RawBundle itself writes: a   *)
(* file below artifacts/, one below artifacts/ that is named seal.json, and *)
(* stdout.raw, stderr.raw and transcript.jsonl, which only grow.           *)
Artifacts == {"absent", "one", "link"}
LooseFiles == [artifact : Artifacts, hidden : Artifacts, streams : Nat]

ASSUME EvidenceAssumption ==
  /\ Paths \subseteq Seq(Nat) /\ Slash \in Nat
  /\ SourceNodes \subseteq Nodes /\ AgentNodes \subseteq Nodes
  /\ MaxEdits \in Nat

VARIABLES
  at,         \* the next step of the attempt, then of its evaluation
  source, workspace,
  pointer,    \* workspace/.git names the repository beside the workspace
  head, index,\* the trees of the last commit and of the staging area
  loose,      \* the loose files of the bundle
  bundle,     \* evidence: manifests, commits, changed files, what is sealed
  uncopied,   \* paths copytree has not reached yet
  agent,      \* "none", "running", "left" behind (or a pump is), "gone"
  scorer,     \* the scorer process and what it was given
  result,     \* of the evaluation
  edits,
  found,      \* history: the tree the agent started on
  quiet       \* history: nobody interfered, all entries were Ordinary from the beginning
repository == <<pointer, head, index>>
history == <<edits, found, quiet>>
attempt == <<source, workspace, repository, loose, bundle, uncopied, agent, history>>
vars == <<at, attempt, scorer, result>>

Empty == [p \in Paths |-> "absent"]
Fresh == [initial |-> Empty, final |-> Empty, commit |-> Empty,
          captured |-> FALSE, changed |-> {},
          sealed |-> [artifact |-> "absent", streams |-> 0]]
NoScorer == [kind |-> "command", snapshot |-> Empty, given |-> Empty, counted |-> 0,
             alive |-> FALSE, stubborn |-> FALSE, kin |-> FALSE, timedOut |-> FALSE, code |-> 0,
             reply |-> [status |-> "none", value |-> "missing"]]
OrdinaryTree(t) == \A p \in Paths : t[p] \in Ordinary

Init ==
  /\ at = "baseline"
  /\ source \in [Paths -> SourceNodes]
  /\ workspace = Empty /\ pointer = FALSE /\ head = Empty /\ index = Empty
  /\ loose = [artifact |-> "absent", hidden |-> "absent", streams |-> 0]
  /\ bundle = Fresh /\ uncopied = Paths
  /\ agent = "none" /\ scorer = NoScorer /\ result = "none"
  /\ edits = 0 /\ found = Empty /\ quiet = OrdinaryTree(source)

-----------------------------------------------------------------------------
(* Materialisation.  A source with a link that leaves it is refused; the   *)
(* digest of the source is checked once, and then path after path is       *)
(* copied.  The manifest is that of the copy.                              *)

Escapes(t) == \E p \in Paths : t[p] = "escape"
Baseline ==
  /\ at = "baseline"
  /\ at' = IF Escapes(source) THEN "artifacts" ELSE "copy"
  /\ UNCHANGED <<attempt, scorer, result>>

Copy(p) ==
  /\ at = "copy" /\ p \in uncopied
  /\ uncopied' = uncopied \ {p}
  /\ workspace' = [workspace EXCEPT ![p] = IF source[p] = "fifo" THEN "absent" ELSE source[p]]
  /\ at' = IF source[p] = "fifo" THEN "artifacts" ELSE at
  /\ UNCHANGED <<source, repository, loose, bundle, agent, history, scorer, result>>

(* git add: a special file is passed over, a nested repository becomes a   *)
(* reference to its commit, and without a commit the command fails.        *)
Staged(t) ==
  [p \in Paths |-> CASE t[p] = "fifo" -> "absent" [] t[p] = "nested" -> "gitlink"
                     [] OTHER -> t[p]]
Addable(t) == \A p \in Paths : t[p] # "unborn"

\* mutant: the initial manifest is computed from the source
CommitInitialOfSource ==
  /\ at = "copy" /\ uncopied = {}
  /\ pointer' = TRUE
  /\ IF Addable(workspace)
       THEN /\ bundle' = [bundle EXCEPT !.initial = source]
            /\ head' = Staged(workspace) /\ index' = Staged(workspace) /\ at' = "launch"
       ELSE /\ at' = "add" /\ UNCHANGED <<bundle, head, index>>
  /\ UNCHANGED <<source, workspace, loose, uncopied, agent, history, scorer, result>>
CommitInitial ==
  /\ at = "copy" /\ uncopied = {}
  /\ pointer' = TRUE
  /\ IF Addable(workspace)
       THEN /\ bundle' = [bundle EXCEPT !.initial = workspace]
            /\ head' = Staged(workspace) /\ index' = Staged(workspace) /\ at' = "launch"
       ELSE /\ at' = "add" /\ UNCHANGED <<bundle, head, index>>
  /\ UNCHANGED <<source, workspace, loose, uncopied, agent, history, scorer, result>>

-----------------------------------------------------------------------------
(* The agent, and the editor of the source.                                *)

Launch ==
  /\ at = "launch"
  /\ at' = "recording" /\ agent' = "running" /\ found' = workspace
  /\ UNCHANGED <<source, workspace, repository, loose, bundle, uncopied, edits, quiet,
                 scorer, result>>
Return ==
  /\ at = "recording"
  /\ at' = "add"
  /\ \E a \in {"left", "gone"} : agent' = a
  /\ UNCHANGED <<source, workspace, repository, loose, bundle, uncopied, history,
                 scorer, result>>

Acts ==
  /\ agent \in {"running", "left"} /\ edits < MaxEdits
  /\ edits' = edits + 1
  /\ UNCHANGED <<at, source, bundle, uncopied, agent, found, scorer, result>>
AgentWrites ==
  /\ Acts
  /\ \E p \in Paths, n \in AgentNodes :
       /\ workspace' = [workspace EXCEPT ![p] = n]
       /\ quiet' = (quiet /\ agent = "running" /\ n \in Ordinary)
  /\ UNCHANGED <<repository, loose>>
AgentCommits ==
  /\ Acts /\ pointer /\ Addable(workspace)
  /\ head' = Staged(workspace) /\ index' = Staged(workspace)
  /\ quiet' = (quiet /\ agent = "running")
  /\ UNCHANGED <<workspace, pointer, loose>>
AgentMovesPointer ==
  /\ Acts
  /\ pointer' = ~pointer /\ quiet' = FALSE
  /\ UNCHANGED <<workspace, head, index, loose>>
(* A pump that outlives its call goes on as what is left behind writes.    *)
AgentLeavesArtifact ==
  /\ Acts
  /\ \E a \in Artifacts :
       \/ loose' = [loose EXCEPT !.artifact = a]
       \/ loose' = [loose EXCEPT !.hidden = a]
       \/ loose' = [loose EXCEPT !.streams = @ + 1]
  /\ quiet' = (quiet /\ agent = "running")
  /\ UNCHANGED <<workspace, repository>>

SourceEdited ==
  /\ at = "copy" /\ edits < MaxEdits
  /\ edits' = edits + 1
  /\ \E p \in Paths, n \in AgentNodes :
       /\ source' = [source EXCEPT ![p] = n]
       /\ quiet' = (quiet /\ n \in Ordinary)
  /\ UNCHANGED <<at, workspace, repository, loose, bundle, uncopied, agent, found, scorer,
                 result>>

-----------------------------------------------------------------------------
(* capture_final.  Every Git command first checks the pointer.             *)

Differ(s, t) == {p \in Paths : s[p] # t[p]}

(* git add, git diff --cached and git status.                              *)
\* mutant: what changed is reported but not staged
AddNothing ==
  /\ at = "add"
  /\ IF pointer /\ Addable(workspace)
       THEN /\ index' = index
            /\ bundle' = [bundle EXCEPT !.changed = Differ(head, Staged(workspace))]
            /\ at' = "list"
       ELSE at' = "artifacts" /\ UNCHANGED <<index, bundle>>
  /\ UNCHANGED <<source, workspace, pointer, head, loose, uncopied, agent, history,
                 scorer, result>>
Add ==
  /\ at = "add"
  /\ IF pointer /\ Addable(workspace)
       THEN /\ index' = Staged(workspace)
            /\ bundle' = [bundle EXCEPT !.changed = Differ(head, Staged(workspace))]
            /\ at' = "list"
       ELSE at' = "artifacts" /\ UNCHANGED <<index, bundle>>
  /\ UNCHANGED <<source, workspace, pointer, head, loose, uncopied, agent, history,
                 scorer, result>>
ListFinal ==
  /\ at = "list"
  /\ bundle' = [bundle EXCEPT !.final = workspace]
  /\ at' = "commit"
  /\ UNCHANGED <<source, workspace, repository, loose, uncopied, agent, history, scorer,
                 result>>
(* An exception discards manifest, changed files and diff.                 *)
CommitFinal ==
  /\ at = "commit"
  /\ IF pointer
       THEN head' = index /\ bundle' = [bundle EXCEPT !.commit = index, !.captured = TRUE]
       ELSE bundle' = [bundle EXCEPT !.final = Empty, !.changed = {}] /\ UNCHANGED head
  /\ at' = "artifacts"
  /\ UNCHANGED <<source, workspace, pointer, index, loose, uncopied, agent, history,
                 scorer, result>>

(* artifacts.json and the seal walk the same directory, one after the      *)
(* other; a link among the artifacts ends the attempt without a seal.  The *)
(* seal passes over every file of its own name, wherever it lies.          *)
ListArtifacts ==
  /\ at = "artifacts"
  /\ at' = IF "link" \in {loose.artifact, loose.hidden} THEN "unsealed" ELSE "seal"
  /\ UNCHANGED <<attempt, scorer, result>>
Covered == [artifact |-> loose.artifact, streams |-> loose.streams]
Seal ==
  /\ at = "seal"
  /\ bundle' = [bundle EXCEPT !.sealed = Covered]
  /\ at' = IF loose.artifact = "link" THEN "unsealed" ELSE "sealed"
  /\ UNCHANGED <<source, workspace, repository, loose, uncopied, agent, history, scorer,
                 result>>

(* Every file the seal lists is as it was.                                 *)
\* mutant: it is enough that there is a seal
HasSeal == TRUE
SealIsValid == bundle.sealed = Covered

-----------------------------------------------------------------------------
(* Scoring: the seal is validated, the pins of the scorer are compared,    *)
(* and the final commit is exported.                                       *)

Validate ==
  /\ at = "sealed"
  /\ at' = IF SealIsValid THEN "export" ELSE "refused"
  /\ UNCHANGED <<attempt, scorer, result>>
PinsDrifted ==
  /\ at = "export"
  /\ at' = "publish" /\ result' = "failed"
  /\ UNCHANGED <<attempt, scorer>>

(* The built-in scorer counts the records of the transcript as it finds it *)
(* and exports nothing; its result is judged like any other.               *)
ExecutionIntegrity ==
  /\ at = "export"
  /\ at' = "publish" /\ result' \in {"completed", "failed"}
  /\ scorer' = [scorer EXCEPT !.kind = "execution_integrity", !.counted = loose.streams]
  /\ UNCHANGED attempt

(* git archive, by way of the workspace's own pointer, and extraction.     *)
Exported(t) ==
  [p \in Paths |-> CASE t[p] \in {"gitlink", "unexported"} -> "absent"
                     [] t[p] = "rewritten" -> "normalised" [] OTHER -> t[p]]

(* The exported entries are in the order of path components, in which      *)
(* Slash comes first, and the sealed ones in the order of strings; the two *)
(* lists are compared.                                                     *)
Before(p, q, Rank(_)) ==
  \E n \in 0..Len(p) :
    /\ n < Len(q) /\ SubSeq(p, 1, n) = SubSeq(q, 1, n)
    /\ n = Len(p) \/ Rank(p[n + 1]) < Rank(q[n + 1])
ByString(c) == c + 1
ByComponent(c) == IF c = Slash THEN 0 ELSE c + 1
SameOrder(t) ==
  \A p, q \in {p \in Paths : t[p] # "absent"} :
    Before(p, q, ByString) <=> Before(p, q, ByComponent)

\* mutant: only the paths are compared
PathsMatch(t) ==
  {p \in Paths : t[p] # "absent"} = {p \in Paths : bundle.final[p] # "absent"}
Matches(t) == t = bundle.final /\ SameOrder(t)

(* A bundle whose final state was not captured names no commit: the        *)
(* KeyError is none of the exceptions that make a failed evaluation.       *)
Export ==
  /\ at = "export"
  /\ LET t == Exported(bundle.commit)
         ok == pointer /\ ~Escapes(t) /\ Matches(t)
     IN  /\ at' = IF ~bundle.captured THEN "aborted" ELSE IF ok THEN "start" ELSE "publish"
         /\ result' = IF bundle.captured /\ ~ok THEN "failed" ELSE result
         /\ scorer' = IF bundle.captured /\ ok
                      THEN [scorer EXCEPT !.snapshot = t, !.given = t] ELSE scorer
  /\ UNCHANGED attempt

(* The snapshot is made read-only file by file; that follows links, and    *)
(* fails on one that leads nowhere.                                        *)
Dangling(t) == \E p \in Paths : t[p] = "dangling"
ProtectFails ==
  /\ at = "start" /\ Dangling(scorer.snapshot)
  /\ at' = "publish" /\ result' = "failed"
  /\ UNCHANGED <<attempt, scorer>>
Start ==
  /\ at = "start" /\ ~Dangling(scorer.snapshot)
  /\ at' = "scoring"
  /\ \E stubborn \in BOOLEAN :
       scorer' = [scorer EXCEPT !.alive = TRUE, !.stubborn = stubborn]
  /\ UNCHANGED <<attempt, result>>

(* The scorer may make its snapshot writable again, and leave processes.   *)
Replies == [status : {"completed", "failed"}, value : {"in", "out", "nan", "missing"}]
           \cup {[status |-> "none", value |-> "missing"]}
ScorerTampers ==
  /\ at \in {"scoring", "term"} /\ (scorer.alive \/ scorer.kin)
  /\ scorer' = [scorer EXCEPT !.snapshot = Empty]
  /\ UNCHANGED <<at, attempt, result>>
ScorerForks ==
  /\ at = "scoring" /\ scorer.alive /\ ~scorer.kin
  /\ scorer' = [scorer EXCEPT !.kin = TRUE]
  /\ UNCHANGED <<at, attempt, result>>
ScorerExits ==
  /\ at \in {"scoring", "term"} /\ scorer.alive
  /\ \E code \in {0, 1}, r \in Replies :
       scorer' = [scorer EXCEPT !.alive = FALSE, !.code = code, !.reply = r]
  /\ UNCHANGED <<at, attempt, result>>

(* The deadline: SIGTERM to the group, two seconds, SIGKILL to the group.  *)
(* A descendant may have left the group.                                   *)
Deadline ==
  /\ at = "scoring" /\ scorer.alive
  /\ at' = "term"
  /\ \E kin \in {scorer.kin, FALSE} :
       scorer' = [scorer EXCEPT !.timedOut = TRUE, !.kin = kin, !.alive = scorer.stubborn,
                                !.code = 1]
  /\ UNCHANGED <<attempt, result>>
\* mutant: the second signal is SIGTERM again
KillGently ==
  /\ at = "term" /\ scorer.alive
  /\ scorer' = [scorer EXCEPT !.alive = scorer.stubborn]
  /\ UNCHANGED <<at, attempt, result>>
Kill ==
  /\ at = "term" /\ scorer.alive
  /\ \E kin \in {scorer.kin, FALSE} :
       scorer' = [scorer EXCEPT !.alive = FALSE, !.kin = kin, !.code = 1]
  /\ UNCHANGED <<at, attempt, result>>

(* Standard output is a file whose offset the descendants share: what is   *)
(* read while one lives may be theirs.                                     *)
ReadOutput ==
  /\ at \in {"scoring", "term"} /\ ~scorer.alive
  /\ at' = "judge"
  /\ \E r \in IF scorer.kin THEN Replies ELSE {scorer.reply} :
       scorer' = [scorer EXCEPT !.reply = r]
  /\ UNCHANGED <<attempt, result>>

(* NaN is neither below a lower nor above an upper bound.                  *)
Strict(r) ==
  IF r.value = "out" \/ (r.status = "completed" /\ r.value = "missing")
  THEN "failed" ELSE r.status
Judge ==
  /\ at = "judge"
  /\ result' = IF /\ scorer.snapshot = scorer.given
                  /\ ~scorer.timedOut /\ scorer.code = 0
                  /\ Strict(scorer.reply) = "completed"
               THEN "completed" ELSE "failed"
  /\ at' = "publish"
  /\ UNCHANGED <<attempt, scorer>>
Publish ==
  /\ at = "publish"
  /\ at' = "check"
  /\ UNCHANGED <<attempt, scorer, result>>
Check ==
  /\ at = "check"
  /\ at' = IF SealIsValid THEN "done" ELSE "refused"
  /\ UNCHANGED <<attempt, scorer, result>>

Ended == {"unsealed", "refused", "aborted", "done"}
Stop == at \in Ended /\ UNCHANGED vars

Engine ==
  \/ Baseline \/ (\E p \in Paths : Copy(p)) \/ CommitInitial \/ Launch \/ Return
  \/ Add \/ ListFinal \/ CommitFinal \/ ListArtifacts \/ Seal
Evaluation ==
  \/ Validate \/ Export \/ ProtectFails \/ Start \/ Deadline \/ Kill \/ ReadOutput \/ Judge \/ Publish \/ Check
Others ==
  \/ AgentWrites \/ AgentCommits \/ AgentMovesPointer \/ AgentLeavesArtifact \/ SourceEdited
  \/ PinsDrifted \/ ExecutionIntegrity \/ ScorerTampers \/ ScorerForks \/ ScorerExits
Next == Engine \/ Evaluation \/ Others \/ Stop

(* Timers expire and a killed process dies; nothing is assumed of agents,  *)
(* scorers and editors.                                                    *)
Spec == Init /\ [][Next]_vars /\ WF_vars(Evaluation)

-----------------------------------------------------------------------------
(* The initial manifest describes the tree the agent started on, also when *)
(* the source is edited after its digest was checked and while it is being *)
(* copied.  (materialize computes it from the copy.)                       *)
InitialIsWhatTheAgentFound == agent # "none" => bundle.initial = found

(* A score that counts was given to exactly the tree the sealed manifest   *)
(* lists, or counted in the streams as they were sealed, on a bundle whose *)
(* every listed file is as it was sealed, whatever a process or a pump left *)
(* behind does to workspace, repository, artifacts and streams between and *)
(* after the steps of capture_final, and whatever the scorer does to its   *)
(* snapshot.  (bundle.py 38 lists no file named seal.json: of one below    *)
(* artifacts/ nothing is claimed.)                                         *)
CountsAsSealed ==
  [][at' = "done" /\ at # "done" /\ result = "completed" =>
       /\ scorer.kind = "command" => scorer.given = bundle.final
       /\ scorer.kind = "execution_integrity" => scorer.counted = bundle.sealed.streams
       /\ Covered = bundle.sealed]_vars

(* An attempt nobody interfered with, on ordinary files, is neither        *)
(* refused nor does it abort the evaluation; Git gives back exactly the    *)
(* tree its manifest sealed; the value of a well-behaved scorer counts.    *)
(* That intact export is nevertheless not accepted when the orders of its  *)
(* paths disagree, and only then (evaluation/runner.py 203-208).           *)
WellBehaved ==
  /\ scorer.given = scorer.snapshot /\ ~scorer.timedOut /\ scorer.code = 0
  /\ scorer.reply = [status |-> "completed", value |-> "in"]
HonestAttemptCounts ==
  quiet =>
    /\ at \notin {"refused", "aborted"}
    /\ at = "export" =>
         /\ pointer /\ Exported(bundle.commit) = bundle.final
         /\ Matches(Exported(bundle.commit)) <=> SameOrder(bundle.final)
    /\ at = "done" /\ WellBehaved => result = "completed"

(* Every evaluation that started its scorer ends, though the scorer may    *)
(* ignore SIGTERM and leave descendants: output goes to files, so nobody   *)
(* waits for a pipe to be closed.                                          *)
ScoringEnds == (at = "scoring") ~> (at \in Ended)

(* What the agent changed in an ordinary tree is listed as changed.        *)
ChangesAreListed ==
  quiet /\ bundle.captured => Differ(bundle.initial, bundle.final) \subseteq bundle.changed
=============================================================================
