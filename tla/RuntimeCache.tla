---------------------------- MODULE RuntimeCache ----------------------------
(***************************************************************************)
(* fetch_runtime: processes that fetch one pinned runtime into one cache.  *)
(* A file lock covers the look at the target, the download, atomic_write   *)
(* (temporary file, fsync, rename, fsync of the directory) and chmod; the  *)
(* digest, the mode and the version are checked after it is released.      *)
(*                                                                         *)
(* A process may die at every step, and the machine may lose power: of a   *)
(* file that was not synced any part may be lost, and of a rename or a     *)
(* chmod that was not synced all or nothing.  Syncing a directory is taken *)
(* to keep the path that leads to it, which is what journalling file       *)
(* systems do; the code syncs no other directory.                          *)
(***************************************************************************)
EXTENDS Naturals

CONSTANTS
  Procs,
  MaxCrashes   \* bound: deaths of a process and power losses

ASSUME RuntimeCacheAssumption == MaxCrashes \in Nat

VARIABLES
  target,    \* what readers see of objects/<sha256>/runtime
  durable,   \* what a power loss may leave of it
  temporary, \* each process's temporary file
  lock,      \* processes that hold the file lock
  at,        \* the next step of each process
  crashes
vars == <<target, durable, temporary, lock, at, crashes>>

(* "whole" is content with the pinned digest, "torn" a part of it.  A      *)
(* temporary file is "unsynced" until fsync.                               *)
File(content, runs) == [content |-> content, runs |-> runs]
Absent == File("absent", FALSE)

Init ==
  /\ target = Absent /\ durable = {Absent}
  /\ temporary = [p \in Procs |-> "none"]
  /\ lock = {} /\ at = [p \in Procs |-> "idle"]
  /\ crashes = 0

Go(p, s) == at' = [at EXCEPT ![p] = s]

(* The lock is granted, or after 120 seconds refused.                      *)
\* mutant: no file lock around the download
AcquireAlways(p) ==
  /\ at[p] = "idle"
  /\ lock' = lock \cup {p} /\ Go(p, "look")
  /\ UNCHANGED <<target, durable, temporary, crashes>>
Acquire(p) ==
  /\ at[p] = "idle" /\ lock = {}
  /\ lock' = {p} /\ Go(p, "look")
  /\ UNCHANGED <<target, durable, temporary, crashes>>

Release(p) == lock' = lock \ {p}

Found(p) ==
  /\ at[p] = "look" /\ target # Absent
  /\ Release(p) /\ Go(p, "verify")
  /\ UNCHANGED <<target, durable, temporary, crashes>>
(* Offline, an error of the network, or content with another digest.       *)
NotFetched(p) ==
  /\ at[p] = "look" /\ target = Absent
  /\ Release(p) /\ Go(p, "idle")
  /\ UNCHANGED <<target, durable, temporary, crashes>>
Download(p) ==
  /\ at[p] = "look" /\ target = Absent
  /\ temporary' = [temporary EXCEPT ![p] = "unsynced"]
  /\ Go(p, "sync")
  /\ UNCHANGED <<target, durable, lock, crashes>>

\* mutant: the temporary file is not synced before the rename
SyncNothing(p) ==
  /\ at[p] = "sync"
  /\ Go(p, "rename")
  /\ UNCHANGED <<target, durable, temporary, lock, crashes>>
Sync(p) ==
  /\ at[p] = "sync"
  /\ temporary' = [temporary EXCEPT ![p] = "synced"]
  /\ Go(p, "rename")
  /\ UNCHANGED <<target, durable, lock, crashes>>
(* mkstemp makes files that nobody may execute.                            *)
Rename(p) ==
  /\ at[p] = "rename"
  /\ target' = File("whole", FALSE)
  /\ durable' = durable \cup {target'}
                \cup (IF temporary[p] = "synced" THEN {} ELSE {File("torn", FALSE)})
  /\ temporary' = [temporary EXCEPT ![p] = "none"]
  /\ Go(p, "syncdir")
  /\ UNCHANGED <<lock, crashes>>
\* mutant: the rename is not synced
SyncNoDirectory(p) ==
  /\ at[p] = "syncdir"
  /\ Go(p, "chmod")
  /\ UNCHANGED <<target, durable, temporary, lock, crashes>>
SyncDirectory(p) ==
  /\ at[p] = "syncdir"
  /\ durable' = durable \ {Absent}
  /\ Go(p, "chmod")
  /\ UNCHANGED <<target, temporary, lock, crashes>>
Chmod(p) ==
  /\ at[p] = "chmod"
  /\ target' = File(target.content, TRUE)
  /\ durable' = durable \cup {target'}
  /\ Release(p) /\ Go(p, "verify")
  /\ UNCHANGED <<temporary, crashes>>

(* lock_runtime refuses by the mode or by the version the executable       *)
(* prints; Verify compares the digest first.                               *)
LockRuntime == IF target.runs THEN {"returned", "idle"} ELSE {"idle"}
Verify(p) ==
  /\ at[p] = "verify"
  /\ \E s \in IF target.content = "whole" THEN LockRuntime ELSE {"idle"} : Go(p, s)
  /\ UNCHANGED <<target, durable, temporary, lock, crashes>>
Again(p) ==
  /\ at[p] = "returned"
  /\ Go(p, "idle")
  /\ UNCHANGED <<target, durable, temporary, lock, crashes>>

(* A dead process leaves its temporary file, under a name nobody reads.    *)
Die(p) ==
  /\ at[p] # "idle" /\ crashes < MaxCrashes
  /\ crashes' = crashes + 1
  /\ Release(p) /\ Go(p, "idle")
  /\ temporary' = [temporary EXCEPT ![p] = "none"]
  /\ UNCHANGED <<target, durable>>
PowerLoss ==
  /\ crashes < MaxCrashes
  /\ crashes' = crashes + 1
  /\ target' \in durable /\ durable' = {target'}
  /\ temporary' = [p \in Procs |-> "none"]
  /\ lock' = {} /\ at' = [p \in Procs |-> "idle"]

Next ==
  \/ \E p \in Procs :
       \/ Acquire(p) \/ Found(p) \/ NotFetched(p) \/ Download(p) \/ Sync(p) \/ Rename(p)
       \/ SyncDirectory(p) \/ Chmod(p) \/ Verify(p) \/ Again(p) \/ Die(p)
  \/ PowerLoss
Spec == Init /\ [][Next]_vars

-----------------------------------------------------------------------------
(* Whatever dies and whenever power is lost, the target is absent or has   *)
(* the pinned content; a part of it is never seen, so the cache never      *)
(* needs the digest check to protect it from its own writers.              *)
TargetIsWhole == target.content \in {"absent", "whole"}

(* A process that is about to check a target that it found or fetched is   *)
(* only refused for its mode if somebody died: without deaths a second     *)
(* fetch never meets a file its writer has not made executable yet.        *)
FoundMeansRunnable ==
  \A p \in Procs : at[p] \in {"verify", "returned"} /\ crashes = 0 => target.runs

(* A runtime that fetch_runtime returned, and whose digest a plan may now  *)
(* freeze, is still there with its content after a power loss.  (Its mode  *)
(* may be lost: chmod is not synced.)                                      *)
ReturnedSurvives ==
  \A p \in Procs : at[p] = "returned" => \A f \in durable : f.content = "whole"

(* What those who use the cache see of it: the object at its final path,   *)
(* and the processes that fetch_runtime has handed it to.                  *)
ObjectSeen ==
  IF target.content # "whole" THEN target.content
  ELSE IF \A f \in durable : f.content = "whole" THEN "permanent" ELSE "published"
Users == {p \in Procs : at[p] = "returned"}
Object == INSTANCE CachedObject WITH object <- ObjectSeen, holders <- Users

(* Download, fsync, rename, fsync and chmod, with deaths and power losses  *)
(* between any two, are one publication of the whole object to the users   *)
(* of the cache, and what they were handed is never taken back.            *)
ImplementsCachedObject == Object!Spec
=============================================================================
