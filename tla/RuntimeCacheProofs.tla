------------------------- MODULE RuntimeCacheProofs -------------------------
(***************************************************************************)
(* The cache of RuntimeCache never shows a part of a runtime, hands out no *)
(* file its writer has not finished, and loses none that it handed out:    *)
(* for every number of processes, deaths and power losses.                 *)
(*                                                                         *)
(* The argument is one inductive invariant.  The lock keeps every process  *)
(* between "look" and "chmod" alone; its temporary file is synced before   *)
(* the rename, so a power loss leaves the target absent or whole; and the  *)
(* directory is synced before chmod, so a target that runs is durable.     *)
(***************************************************************************)
EXTENDS RuntimeCache, TLAPS

Files == {Absent, File("whole", FALSE), File("whole", TRUE)}
Critical == {"look", "sync", "rename", "syncdir", "chmod"}
Stages == Critical \cup {"idle", "verify", "returned"}

CacheType ==
  /\ target \in durable /\ durable \subseteq Files
  /\ temporary \in [Procs -> {"none", "unsynced", "synced"}]
  /\ at \in [Procs -> Stages]
  /\ lock \subseteq Procs /\ crashes \in Nat

Exclusive == \A p \in Procs : at[p] \in Critical => lock = {p}

Written ==
  \A p \in Procs :
    /\ at[p] \in {"sync", "rename"} => target = Absent
    /\ at[p] = "rename" => temporary[p] = "synced"
    /\ at[p] \in {"syncdir", "chmod"} => target.content = "whole"

Kept ==
  /\ target = Absent => durable = {Absent}
  /\ target.runs => Absent \notin durable
  /\ \A p \in Procs : at[p] \in {"chmod", "returned"} => Absent \notin durable

Finished ==
  crashes = 0 =>
    /\ target = File("whole", FALSE) => \E p \in Procs : at[p] \in {"syncdir", "chmod"}
    /\ \A p \in Procs : at[p] \in {"verify", "returned"} => target.runs

CacheInv == CacheType /\ Exclusive /\ Written /\ Kept /\ Finished

-----------------------------------------------------------------------------
LEMMA InitCache == Init => CacheInv
  BY DEF Init, CacheInv, CacheType, Exclusive, Written, Kept, Finished, Files, Critical,
         Stages, Absent, File

(* Files differ in their two fields.                                       *)
LEMMA FilesDiffer ==
  /\ \A f \in Files : f = Absent \/ f = File("whole", FALSE) \/ f = File("whole", TRUE)
  /\ \A f \in Files : f.runs => f = File("whole", TRUE)
  /\ \A f \in Files : f # Absent => f.content = "whole"
  /\ \A f \in Files : f.content \in {"absent", "whole"}
  /\ \A f \in Files : f.content = "whole" => f # Absent
  /\ ~Absent.runs /\ Absent.content # "whole"
  /\ File("whole", TRUE) \in Files /\ File("whole", FALSE) \in Files
  /\ File("whole", TRUE) # Absent /\ File("whole", FALSE) # Absent
  /\ File("whole", TRUE).runs /\ ~File("whole", FALSE).runs
  /\ File("whole", TRUE).content = "whole" /\ File("whole", FALSE).content = "whole"
  /\ File("whole", TRUE) # File("whole", FALSE)
  BY DEF Files, Absent, File

LEMMA StepCache == CacheInv /\ [Next]_vars => CacheInv'
<1> SUFFICES ASSUME CacheInv, [Next]_vars PROVE CacheInv'
  OBVIOUS
<1> USE FilesDiffer DEF CacheInv, CacheType, Exclusive, Written, Kept, Finished
<1>1. ASSUME NEW p \in Procs, Acquire(p) PROVE CacheInv'
  BY <1>1 DEF Acquire, Go, Critical, Stages
<1>2. ASSUME NEW p \in Procs, Found(p) PROVE CacheInv'
  <2>1. CacheType'
    BY <1>2 DEF Found, Release, Go, Critical, Stages
  <2>2. Exclusive'
    BY <1>2 DEF Found, Release, Go, Critical, Stages
  <2>3. Written'
    BY <1>2 DEF Found, Release, Go, Critical, Stages
  <2>4. Kept'
    BY <1>2 DEF Found, Release, Go, Critical, Stages
  <2>5. Finished'
    <3> SUFFICES ASSUME crashes = 0 PROVE Finished'
      BY <1>2 DEF Found
    <3>1. target # File("whole", FALSE)
      BY <1>2 DEF Found, Critical
    <3>2. target.runs
      BY <1>2, <3>1 DEF Found
    <3> QED
      BY <1>2, <3>1, <3>2 DEF Found, Go
  <2> QED
    BY <2>1, <2>2, <2>3, <2>4, <2>5
<1>3. ASSUME NEW p \in Procs, NotFetched(p) PROVE CacheInv'
  BY <1>3 DEF NotFetched, Release, Go, Critical, Stages
<1>4. ASSUME NEW p \in Procs, Download(p) PROVE CacheInv'
  BY <1>4 DEF Download, Go, Critical, Stages
<1>5. ASSUME NEW p \in Procs, Sync(p) PROVE CacheInv'
  BY <1>5 DEF Sync, Go, Critical, Stages
<1>6. ASSUME NEW p \in Procs, Rename(p) PROVE CacheInv'
  <2>1. CacheType'
    BY <1>6 DEF Rename, Go, Critical, Stages
  <2>2. Exclusive'
    BY <1>6 DEF Rename, Go, Critical, Stages
  <2>3. Written'
    BY <1>6 DEF Rename, Go, Critical, Stages
  <2>4. Kept'
    BY <1>6 DEF Rename, Go, Critical, Stages
  <2>5. Finished'
    BY <1>6 DEF Rename, Go, Critical, Stages
  <2> QED
    BY <2>1, <2>2, <2>3, <2>4, <2>5
<1>7. ASSUME NEW p \in Procs, SyncDirectory(p) PROVE CacheInv'
  BY <1>7 DEF SyncDirectory, Go, Critical, Stages
<1>8. ASSUME NEW p \in Procs, Chmod(p) PROVE CacheInv'
  <2>1. CacheType'
    BY <1>8 DEF Chmod, Release, Go, Critical, Stages
  <2>2. Exclusive'
    BY <1>8 DEF Chmod, Release, Go, Critical, Stages
  <2>3. Written'
    BY <1>8 DEF Chmod, Release, Go, Critical, Stages
  <2>4. Kept'
    BY <1>8 DEF Chmod, Release, Go, Critical, Stages
  <2>5. Finished'
    BY <1>8 DEF Chmod, Release, Go, Critical, Stages
  <2> QED
    BY <2>1, <2>2, <2>3, <2>4, <2>5
<1>9. ASSUME NEW p \in Procs, Verify(p) PROVE CacheInv'
  BY <1>9 DEF Verify, LockRuntime, Go, Critical, Stages
<1>10. ASSUME NEW p \in Procs, Again(p) PROVE CacheInv'
  BY <1>10 DEF Again, Go, Critical, Stages
<1>11. ASSUME NEW p \in Procs, Die(p) PROVE CacheInv'
  <2>1. CacheType'
    BY <1>11 DEF Die, Release, Go, Critical, Stages
  <2>2. Exclusive'
    BY <1>11 DEF Die, Release, Go, Critical, Stages
  <2>3. Written'
    BY <1>11 DEF Die, Release, Go, Critical, Stages
  <2>4. Kept'
    BY <1>11 DEF Die, Release, Go, Critical, Stages
  <2>5. Finished'
    BY <1>11 DEF Die, Release, Go, Critical, Stages
  <2> QED
    BY <2>1, <2>2, <2>3, <2>4, <2>5
<1>12. CASE PowerLoss
  <2>1. CacheType'
    BY <1>12 DEF PowerLoss, Critical, Stages
  <2>2. Exclusive'
    BY <1>12 DEF PowerLoss, Critical, Stages
  <2>3. Written'
    BY <1>12 DEF PowerLoss, Critical, Stages
  <2>4. Kept'
    BY <1>12 DEF PowerLoss, Critical, Stages
  <2>5. Finished'
    BY <1>12 DEF PowerLoss, Critical, Stages
  <2> QED
    BY <2>1, <2>2, <2>3, <2>4, <2>5
<1>13. CASE UNCHANGED vars
  BY <1>13 DEF vars
<1> QED
  BY <1>1, <1>2, <1>3, <1>4, <1>5, <1>6, <1>7, <1>8, <1>9, <1>10, <1>11, <1>12, <1>13
     DEF Next

LEMMA CacheInvHolds == Spec => []CacheInv
  BY InitCache, StepCache, PTL DEF Spec

-----------------------------------------------------------------------------
(* Readers never see a part of the runtime, whatever dies.                 *)
THEOREM TargetIsWholeHolds == Spec => []TargetIsWhole
<1>1. CacheInv => TargetIsWhole
  BY FilesDiffer DEF CacheInv, CacheType, TargetIsWhole
<1> QED
  BY <1>1, CacheInvHolds, PTL

(* Without deaths nobody finds a runtime before it may be executed.        *)
THEOREM FoundMeansRunnableHolds == Spec => []FoundMeansRunnable
<1>1. CacheInv => FoundMeansRunnable
  BY DEF CacheInv, Finished, FoundMeansRunnable
<1> QED
  BY <1>1, CacheInvHolds, PTL

(* A runtime that was returned survives every later power loss.            *)
THEOREM ReturnedSurvivesHolds == Spec => []ReturnedSurvives
<1>1. CacheInv => ReturnedSurvives
  BY FilesDiffer DEF CacheInv, CacheType, Kept, ReturnedSurvives
<1> QED
  BY <1>1, CacheInvHolds, PTL

-----------------------------------------------------------------------------
(***************************************************************************)
(* The cache as its users see it.  Only a rename publishes the object,     *)
(* only the synchronisation of its directory settles it, and a process is  *)
(* handed the object only after that: it runs, so it was settled (Kept).   *)
(***************************************************************************)
ObjectStep == Object!Next \/ UNCHANGED Object!vars

LEMMA Seen ==
  ASSUME CacheInv
  PROVE  /\ target = Absent => ObjectSeen = "absent"
         /\ target # Absent /\ Absent \in durable => ObjectSeen = "published"
         /\ target # Absent /\ Absent \notin durable => ObjectSeen = "permanent"
BY FilesDiffer DEF CacheInv, CacheType, ObjectSeen, Absent, File

LEMMA SeenNext ==
  ASSUME CacheInv'
  PROVE  /\ target' = Absent => ObjectSeen' = "absent"
         /\ target' # Absent /\ Absent \in durable' => ObjectSeen' = "published"
         /\ target' # Absent /\ Absent \notin durable' => ObjectSeen' = "permanent"
BY FilesDiffer DEF CacheInv, CacheType, ObjectSeen, Absent, File

(* A step that neither changes the file nor starts or ends a use.          *)
LEMMA Unseen ==
  ASSUME UNCHANGED <<target, durable, Users>>
  PROVE  ObjectStep
BY DEF ObjectStep, Object!vars, ObjectSeen

LEMMA UnseenMove ==
  ASSUME NEW p \in Procs, NEW s, CacheType, at[p] # "returned", s # "returned", Go(p, s)
  PROVE  Users' = Users
BY DEF CacheType, Users, Go

LEMMA StepIsOfTheObject ==
  ASSUME CacheInv, CacheInv', [Next]_vars
  PROVE  ObjectStep
<1> USE DEF ObjectStep, Object!Next
<1>0. CacheType
  BY DEF CacheInv
<1>1. ASSUME NEW p \in Procs, Acquire(p) PROVE ObjectStep
  BY <1>0, <1>1, UnseenMove, Unseen DEF Acquire
<1>2. ASSUME NEW p \in Procs, Found(p) PROVE ObjectStep
  BY <1>0, <1>2, UnseenMove, Unseen DEF Found
<1>3. ASSUME NEW p \in Procs, NotFetched(p) PROVE ObjectStep
  BY <1>0, <1>3, UnseenMove, Unseen DEF NotFetched
<1>4. ASSUME NEW p \in Procs, Download(p) PROVE ObjectStep
  BY <1>0, <1>4, UnseenMove, Unseen DEF Download
<1>5. ASSUME NEW p \in Procs, Sync(p) PROVE ObjectStep
  BY <1>0, <1>5, UnseenMove, Unseen DEF Sync
<1>6. ASSUME NEW p \in Procs, Rename(p) PROVE ObjectStep
  <2>1. Users' = Users
    BY <1>0, <1>6, UnseenMove DEF Rename
  <2>2. target = Absent /\ Absent \in durable
    BY <1>6 DEF CacheInv, CacheType, Written, Rename
  <2>3. target' # Absent /\ Absent \in durable'
    BY <1>6, <2>2, FilesDiffer DEF Rename
  <2>4. Object!Publish
    BY <2>1, <2>2, <2>3, Seen, SeenNext DEF Object!Publish
  <2> QED
    BY <2>4
<1>7. ASSUME NEW p \in Procs, SyncDirectory(p) PROVE ObjectStep
  <2>1. Users' = Users
    BY <1>0, <1>7, UnseenMove DEF SyncDirectory
  <2>2. target # Absent
    BY <1>7, FilesDiffer DEF CacheInv, Written, SyncDirectory
  <2>3. target' # Absent /\ Absent \notin durable'
    BY <1>7, <2>2 DEF SyncDirectory
  <2>4. CASE Absent \in durable
    <3>1. Object!Settle
      BY <2>1, <2>2, <2>3, <2>4, Seen, SeenNext DEF Object!Settle
    <3> QED
      BY <3>1
  <2>5. CASE Absent \notin durable
    BY <2>1, <2>2, <2>3, <2>5, Seen, SeenNext DEF Object!vars
  <2> QED
    BY <2>4, <2>5
<1>8. ASSUME NEW p \in Procs, Chmod(p) PROVE ObjectStep
  <2>1. Users' = Users
    BY <1>0, <1>8, UnseenMove DEF Chmod
  <2>2. target # Absent /\ Absent \notin durable
    BY <1>8, FilesDiffer DEF CacheInv, Written, Kept, Chmod
  <2>3. target' # Absent /\ Absent \notin durable'
    BY <1>8, <2>2, FilesDiffer DEF CacheInv, CacheType, Written, Chmod
  <2> QED
    BY <2>1, <2>2, <2>3, Seen, SeenNext DEF Object!vars
<1>9. ASSUME NEW p \in Procs, Verify(p) PROVE ObjectStep
  <2>1. PICK s \in {"returned", "idle"} : Go(p, s) /\ (s = "returned" => target.runs)
    BY <1>9 DEF Verify, LockRuntime
  <2>2. UNCHANGED <<target, durable>>
    BY <1>9 DEF Verify
  <2>3. CASE s = "idle"
    BY <1>0, <1>9, <2>1, <2>2, <2>3, UnseenMove, Unseen DEF Verify
  <2>4. CASE s = "returned"
    <3>1. target # Absent /\ Absent \notin durable
      BY <2>1, <2>4, FilesDiffer DEF CacheInv, Kept
    <3>2. Users' = Users \cup {p}
      BY <1>0, <2>1, <2>4 DEF CacheType, Users, Go
    <3>3. ObjectSeen = "permanent" /\ ObjectSeen' = "permanent"
      BY <2>2, <3>1, Seen, SeenNext
    <3>4. Object!Hand(p)
      BY <3>2, <3>3 DEF Object!Hand
    <3> QED
      BY <3>4
  <2> QED
    BY <2>1, <2>3, <2>4
<1>10. ASSUME NEW p \in Procs, Again(p) PROVE ObjectStep
  <2>1. Users' = Users \ {p}
    BY <1>0, <1>10 DEF CacheType, Users, Again, Go
  <2>2. Object!Drop(p)
    BY <1>10, <2>1 DEF Object!Drop, Again, ObjectSeen
  <2> QED
    BY <2>2
<1>11. ASSUME NEW p \in Procs, Die(p) PROVE ObjectStep
  <2>1. Users' = Users \ {p}
    BY <1>0, <1>11 DEF CacheType, Users, Die, Go
  <2>2. Object!Drop(p)
    BY <1>11, <2>1 DEF Object!Drop, Die, ObjectSeen
  <2> QED
    BY <2>2
<1>12. CASE PowerLoss
  <2>1. Users' = {}
    BY <1>12 DEF PowerLoss, Users
  <2>2. target' \in durable /\ durable' = {target'}
    BY <1>12 DEF PowerLoss
  <2>3. CASE target = Absent
    <3>1. target' = Absent
      BY <2>2, <2>3 DEF CacheInv, Kept
    <3>2. Object!PowerLoss
      BY <2>1, <2>3, <3>1, Seen, SeenNext DEF Object!PowerLoss
    <3> QED
      BY <3>2
  <2>4. CASE target # Absent /\ Absent \in durable
    <3>1. ObjectSeen' \in {"absent", "permanent"}
      BY <2>2, SeenNext
    <3>2. Object!PowerLoss
      BY <2>1, <2>4, <3>1, Seen DEF Object!PowerLoss
    <3> QED
      BY <3>2
  <2>5. CASE target # Absent /\ Absent \notin durable
    <3>1. target' # Absent /\ Absent \notin durable'
      BY <2>2, <2>5
    <3>2. Object!PowerLoss
      BY <2>1, <2>5, <3>1, Seen, SeenNext DEF Object!PowerLoss
    <3> QED
      BY <3>2
  <2> QED
    BY <2>3, <2>4, <2>5
<1>13. CASE UNCHANGED vars
  BY <1>13, Unseen DEF vars, Users
<1> QED
  BY <1>1, <1>2, <1>3, <1>4, <1>5, <1>6, <1>7, <1>8, <1>9, <1>10, <1>11, <1>12, <1>13
     DEF Next

(* A fetch is one publication of the whole object to the users of the      *)
(* cache, and what a power loss leaves includes all they were handed.      *)
THEOREM ImplementsCachedObjectHolds == Spec => ImplementsCachedObject
<1>1. Init => Object!Init
  BY FilesDiffer DEF Init, Object!Init, ObjectSeen, Users, Absent, File
<1>2. CacheInv /\ CacheInv' /\ [Next]_vars => Object!Next \/ UNCHANGED Object!vars
  BY StepIsOfTheObject DEF ObjectStep
<1> QED
  BY <1>1, <1>2, CacheInvHolds, PTL DEF Spec, ImplementsCachedObject, Object!Spec
=============================================================================
