--------------------------- MODULE UnixDurability ---------------------------
(***************************************************************************)
(* What a power loss leaves of a Unix update: stageExecutable (install.go) *)
(* and replaceExecutable (replace_unix.go) over a file system that keeps   *)
(* directory entries, bytes and modes in memory until they are synced or   *)
(* written back in whatever order it likes.  Of its operations it promises *)
(* what POSIX does: fsync of a file makes the file durable, fsync of a     *)
(* directory its entries, and a rename replaces an entry in one step.      *)
(*                                                                         *)
(* One process updates at a time (module Apply has the lock), each time to *)
(* a newer release.                                                        *)
(***************************************************************************)
EXTENDS Naturals

CONSTANTS
  Ino,      \* the files the file system can hold
  Stage,    \* names of stage files beside the executable
  Exe,      \* the executable's name
  Version,  \* releases, ordered; 0 stands for bytes that are incomplete
  None

ASSUME ConstantsAssumption ==
  /\ Version \subseteq Nat \ {0}
  /\ Exe \notin Stage /\ None \notin Ino /\ None \notin Stage

Partial == 0
Inode == [content : Version \cup {Partial}, exec : BOOLEAN]
Entry == Stage \cup {Exe}

VARIABLES
  dir,      \* dir[e]: the file entry e leads to, as programs see it
  file,     \* file[i]: bytes and mode of file i, as programs see them
  diskDir,  \* what of dir a power loss leaves
  diskFile, \* what of file a power loss leaves
  pc,       \* the next system call of the update
  stage,    \* the stage of the update under way
  release,  \* the release it installs
  promised  \* history: the last release an update without error installed

disk == <<diskDir, diskFile>>
call == <<stage, release, promised>>
vars == <<dir, file, disk, pc, call>>

Point == {"off", "ready", "sweep", "create", "extract", "sync", "chmod",
          "syncstage", "rename", "synctarget"}

TypeOK ==
  /\ dir \in [Entry -> Ino \cup {None}] /\ diskDir \in [Entry -> Ino \cup {None}]
  /\ file \in [Ino -> Inode] /\ diskFile \in [Ino -> Inode]
  /\ dir[Exe] # None /\ diskDir[Exe] # None
  /\ pc \in Point /\ stage \in Stage \cup {None}
  /\ release \in Version \cup {Partial} /\ promised \in Version

Init ==
  /\ \E i \in Ino : dir = [e \in Entry |-> IF e = Exe THEN i ELSE None]
  /\ \E v \in Version : promised = v
  /\ file = [i \in Ino |-> [content |-> promised, exec |-> TRUE]]
  /\ diskDir = dir /\ diskFile = file
  /\ pc = "ready" /\ stage = None /\ release = Partial

Begin ==
  /\ pc = "ready"
  /\ \E v \in Version : v > file[dir[Exe]].content /\ release' = v
  /\ pc' = "sweep"
  /\ UNCHANGED <<dir, file, disk, stage, promised>>

(* cleanupStaleStages: all stages, or on an error some.                    *)
Sweep ==
  /\ pc = "sweep"
  /\ \E kept \in SUBSET Stage :
       /\ dir' = [e \in Entry |-> IF e \in Stage \ kept THEN None ELSE dir[e]]
       /\ pc' = IF kept = {} THEN "create" ELSE "ready"
  /\ UNCHANGED <<file, disk, call>>

Unused == {i \in Ino : \A e \in Entry : dir[e] # i /\ diskDir[e] # i}

(* Mutated: the stage is created with the executable's mode.               *)
CreateStageExecutable ==
  /\ pc = "create"
  /\ \E s \in Stage, i \in Unused :
       /\ dir[s] = None /\ stage' = s
       /\ dir' = [dir EXCEPT ![s] = i]
       /\ file' = [file EXCEPT ![i] = [content |-> Partial, exec |-> TRUE]]
       /\ diskFile' = [diskFile EXCEPT ![i] = [content |-> Partial, exec |-> FALSE]]
  /\ pc' = "extract"
  /\ UNCHANGED <<diskDir, release, promised>>

(* A new file, of which nothing is durable yet.                            *)
CreateStage ==
  LET empty == [content |-> Partial, exec |-> FALSE] IN
  /\ pc = "create"
  /\ \E s \in Stage, i \in Unused :
       /\ dir[s] = None /\ stage' = s
       /\ dir' = [dir EXCEPT ![s] = i]
       /\ file' = [file EXCEPT ![i] = empty]
       /\ diskFile' = [diskFile EXCEPT ![i] = empty]
  /\ pc' = "extract"
  /\ UNCHANGED <<diskDir, release, promised>>

Extract ==
  /\ pc = "extract"
  /\ file' = [file EXCEPT ![dir[stage]].content = release]
  /\ pc' = "sync"
  /\ UNCHANGED <<dir, disk, call>>

(* Mutated: the stage is not synced.                                       *)
SyncNothing ==
  /\ pc = "sync"
  /\ pc' = "chmod"
  /\ UNCHANGED <<dir, file, disk, call>>

SyncFile ==
  /\ pc = "sync"
  /\ diskFile' = [diskFile EXCEPT ![dir[stage]] = file[dir[stage]]]
  /\ pc' = "chmod"
  /\ UNCHANGED <<dir, file, diskDir, call>>

(* fchmod; closing the file makes nothing durable.                         *)
ChmodFile ==
  /\ pc = "chmod"
  /\ file' = [file EXCEPT ![dir[stage]].exec = TRUE]
  /\ pc' = "syncstage"
  /\ UNCHANGED <<dir, disk, call>>

SyncStageDirectory ==
  /\ pc = "syncstage"
  /\ diskDir' = dir
  /\ pc' = "rename"
  /\ UNCHANGED <<dir, file, diskFile, call>>

(* Mutated: the stage is copied over the executable, not renamed.          *)
CopyOver ==
  /\ pc = "rename"
  /\ file' = [file EXCEPT ![dir[Exe]].content = release]
  /\ dir' = [dir EXCEPT ![stage] = None]
  /\ pc' = "synctarget"
  /\ UNCHANGED <<disk, call>>

Rename ==
  /\ pc = "rename"
  /\ dir' = [dir EXCEPT ![Exe] = dir[stage], ![stage] = None]
  /\ pc' = "synctarget"
  /\ UNCHANGED <<file, disk, call>>

SyncTargetDirectory ==
  /\ pc = "synctarget"
  /\ diskDir' = dir
  /\ promised' = release
  /\ pc' = "ready"
  /\ UNCHANGED <<dir, file, diskFile, stage, release>>

(* A system call fails: before the rename the stage is removed, unless     *)
(* that fails as well; after it the update has happened but its error      *)
(* promises nothing.                                                       *)
Fail ==
  /\ pc \notin {"off", "ready", "sweep"}
  /\ \/ UNCHANGED dir
     \/ /\ pc \notin {"create", "synctarget"}
        /\ dir' = [dir EXCEPT ![stage] = None]
  /\ pc' = "ready"
  /\ UNCHANGED <<file, disk, call>>

-----------------------------------------------------------------------------
(* The system around the program.                                          *)

(* The kernel writes back one directory entry, one file's bytes or one     *)
(* file's mode.                                                            *)
WriteBack ==
  /\ \/ \E e \in Entry : diskDir' = [diskDir EXCEPT ![e] = dir[e]]
        /\ UNCHANGED diskFile
     \/ \E i \in Ino :
          \/ diskFile' = [diskFile EXCEPT ![i].content = file[i].content]
          \/ diskFile' = [diskFile EXCEPT ![i].exec = file[i].exec]
        /\ UNCHANGED diskDir
  /\ UNCHANGED <<dir, file, pc, call>>

PowerLoss ==
  /\ dir' = diskDir /\ file' = diskFile /\ pc' = "off"
  /\ UNCHANGED <<disk, call>>

Kill ==
  /\ pc # "off" /\ pc' = "off"
  /\ UNCHANGED <<dir, file, disk, call>>

Start ==
  /\ pc = "off" /\ file[dir[Exe]].exec /\ pc' = "ready"
  /\ UNCHANGED <<dir, file, disk, call>>

Next ==
  \/ Begin \/ Sweep \/ CreateStage \/ Extract \/ SyncFile \/ ChmodFile
  \/ SyncStageDirectory \/ Rename \/ SyncTargetDirectory \/ Fail
  \/ WriteBack \/ PowerLoss \/ Kill \/ Start

Spec == Init /\ [][Next]_vars

-----------------------------------------------------------------------------
(* Whenever the power goes, the executable's name leads to a file with all *)
(* the bytes of a release: the rename cannot become durable before the     *)
(* bytes it installs (file.Sync of stageExecutable before os.Rename of     *)
(* replaceExecutable).                                                     *)
PowerLossKeepsProgram == diskFile[diskDir[Exe]].content # Partial

(* An update that returned without error is not undone by a power loss,    *)
(* however many updates, failures and power losses follow it: the syncs of *)
(* stageExecutable and replaceExecutable have made bytes and name durable. *)
CommitIsDurable == diskFile[diskDir[Exe]].content >= promised

(* No power loss leaves a file beside the executable that could be run but *)
(* is incomplete: stageExecutable gives the mode only after the bytes are  *)
(* synced, whatever order the kernel writes them in.                       *)
NoRunnablePartialOnDisk ==
  \A e \in Entry : LET i == diskDir[e] IN
    i # None /\ diskFile[i].exec => diskFile[i].content # Partial

(* The files, entries and syncs of an update come to three steps on one    *)
(* program: it is replaced by a newer one at the rename, all its bytes     *)
(* become durable under the executable's name at once, and a power loss    *)
(* leaves the last of which that is so, never a mixture of two; no update  *)
(* reports success before.  The mode is left out, which a power loss may   *)
(* take (install.go:139-173, replace_unix.go:12-29).                       *)
Durable == INSTANCE DurableProgram WITH
             installed <- file[dir[Exe]].content,
             durable <- diskFile[diskDir[Exe]].content

ProgramIsDurable == Durable!Spec

(* What the README says of the Unix replacement: when the update has       *)
(* returned without error, the installed file is synced, its mode too.     *)
InstalledFileIsSynced ==
  pc = "ready" /\ file[dir[Exe]].content = promised =>
    diskFile[dir[Exe]] = file[dir[Exe]]
=============================================================================
