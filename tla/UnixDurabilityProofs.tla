------------------------ MODULE UnixDurabilityProofs ------------------------
(***************************************************************************)
(* A power loss never costs the program: the safety properties of          *)
(* UnixDurability proved for any number of files, stages and releases.     *)
(*                                                                         *)
(* The executable's name, in memory and on disk, leads to files whose      *)
(* bytes are already durable, and the rename is only reached by a stage    *)
(* that is such a file.  No other name leads to the stage being written,   *)
(* so that writing it touches no such file.                                *)
(***************************************************************************)
EXTENDS UnixDurability, TLAPS

(* While the update writes its stage.                                      *)
Staging == {"extract", "sync", "chmod", "syncstage", "rename"}
Extracted == Staging \ {"extract"}
Synced == Extracted \ {"sync"}

(* The bytes of file i are a release, durable, and as new as was promised. *)
Safe(i) ==
  /\ diskFile[i].content = file[i].content
  /\ file[i].content # Partial
  /\ file[i].content >= promised

OwnStage ==
  pc \in Staging =>
    /\ stage \in Stage /\ dir[stage] # None
    /\ \A e \in Entry \ {stage} : dir[e] # dir[stage] /\ diskDir[e] # dir[stage]

StageWritten ==
  /\ pc \in Extracted => file[dir[stage]].content = release
  /\ pc \in Synced => diskFile[dir[stage]].content = release
  /\ pc = "synctarget" => file[dir[Exe]].content = release

NoOlder == pc \notin {"off", "ready"} => release \in Version /\ release >= promised

(* Until the rename the release is newer than what is installed.           *)
NewerThanInstalled ==
  pc \in {"sweep", "create"} \cup Staging => release > file[dir[Exe]].content

(* A file is runnable, in memory or on disk, only with bytes in both.      *)
RunnableIsWhole ==
  \A i \in Ino : file[i].exec \/ diskFile[i].exec =>
    file[i].content # Partial /\ diskFile[i].content # Partial

IInv ==
  /\ TypeOK
  /\ Safe(dir[Exe]) /\ Safe(diskDir[Exe])
  /\ OwnStage /\ StageWritten /\ NoOlder /\ NewerThanInstalled
  /\ RunnableIsWhole

USE DEF Staging, Extracted, Synced, Entry, Inode, Partial, disk, call

(* Before a call nothing is pending and the executable is a release.       *)
LEMMA InitIInv == Init => IInv
<1> SUFFICES ASSUME Init PROVE IInv
    OBVIOUS
<1> USE ConstantsAssumption
<1>1. PICK i \in Ino : dir = [e \in Entry |-> IF e = Exe THEN i ELSE None]
    BY DEF Init
<1>2. promised \in Version /\ promised # Partial /\ promised >= promised
    BY DEF Init
<1>3. TypeOK
    BY <1>1, <1>2 DEF Init, TypeOK, Point
<1>4. dir[Exe] = i /\ diskDir[Exe] = i
    BY <1>1 DEF Init
<1>5. QED
    BY <1>2, <1>3, <1>4 DEF Init, IInv, Safe, OwnStage, StageWritten,
   NoOlder, NewerThanInstalled, RunnableIsWhole

(* One step for each action: what it leaves alone keeps its part of the    *)
(* invariant, what it writes is either the stage or already durable.       *)
LEMMA NextIInv == IInv /\ [Next]_vars => IInv'
<1> SUFFICES ASSUME IInv, [Next]_vars PROVE IInv'
    OBVIOUS
<1> USE ConstantsAssumption DEF IInv, TypeOK, Point, Safe, OwnStage, StageWritten,
   NoOlder, NewerThanInstalled, RunnableIsWhole
<1>1. CASE Begin
    <2>1. /\ file[dir[Exe]].content \in Nat /\ promised \in Nat
          /\ release' \in Version /\ release' \in Nat
          /\ release' > file[dir[Exe]].content
        BY <1>1 DEF Begin
    <2>2. release' >= promised'
        BY <1>1, <2>1 DEF Begin
    <2>3. NoOlder'
        BY <2>1, <2>2
    <2>4. pc' = "sweep" /\ UNCHANGED <<dir, file, diskDir, diskFile, stage, promised>>
        BY <1>1 DEF Begin
    <2>5. TypeOK' /\ Safe(dir[Exe])' /\ Safe(diskDir[Exe])' /\ RunnableIsWhole'
        BY <2>1, <2>4
    <2>6. NewerThanInstalled'
        BY <2>1, <2>4
    <2>7. pc' = "sweep"
        BY <1>1 DEF Begin
    <2>8. OwnStage' /\ StageWritten'
        BY <2>7
    <2>9. QED
        BY <2>3, <2>5, <2>6, <2>8
<1>2. CASE Sweep
    BY <1>2 DEF Sweep
<1>3. CASE CreateStage
    BY <1>3 DEF CreateStage, Unused
<1>4. CASE Extract
    BY <1>4 DEF Extract
<1>5. CASE SyncFile
    BY <1>5 DEF SyncFile
<1>6. CASE ChmodFile
    BY <1>6 DEF ChmodFile
<1>7. CASE SyncStageDirectory
    BY <1>7 DEF SyncStageDirectory
<1>8. CASE Rename
    BY <1>8 DEF Rename
<1>9. CASE SyncTargetDirectory
    BY <1>9 DEF SyncTargetDirectory
<1>10. CASE Fail
    BY <1>10 DEF Fail
<1>11. CASE WriteBack
    <2>1. CASE /\ \E e \in Entry : diskDir' = [diskDir EXCEPT ![e] = dir[e]]
               /\ UNCHANGED diskFile
        BY <1>11, <2>1 DEF WriteBack
    <2>2. CASE /\ \E i \in Ino :
                    diskFile' = [diskFile EXCEPT ![i].content = file[i].content]
               /\ UNCHANGED diskDir
        BY <1>11, <2>2 DEF WriteBack
    <2>3. CASE /\ \E i \in Ino :
                    diskFile' = [diskFile EXCEPT ![i].exec = file[i].exec]
               /\ UNCHANGED diskDir
        BY <1>11, <2>3 DEF WriteBack
    <2>4. QED
        BY <1>11, <2>1, <2>2, <2>3 DEF WriteBack
<1>12. CASE PowerLoss
    BY <1>12 DEF PowerLoss
<1>13. CASE Kill
    BY <1>13 DEF Kill
<1>14. CASE Start
    BY <1>14 DEF Start
<1>15. CASE UNCHANGED vars
    BY <1>15 DEF vars
<1>16. QED
    BY <1>1, <1>2, <1>3, <1>4, <1>5, <1>6, <1>7, <1>8, <1>9, <1>10, <1>11,
       <1>12, <1>13, <1>14, <1>15 DEF Next

(* What the steps before each sync wait for holds of memory and disk       *)
(* throughout a replacement (install.go:139-173, replace_unix.go:12-29).   *)
THEOREM DurabilityInvariant == Spec => []IInv
<1>1. QED
    BY InitIInv, NextIInv, PTL DEF Spec

(* Type correctness of the file system's model.                            *)
THEOREM TypeCorrect == Spec => []TypeOK
<1>1. IInv => TypeOK
    BY DEF IInv
<1>2. QED
    BY <1>1, DurabilityInvariant, PTL

(* file.Sync before os.Rename: whenever the power goes, the executable's   *)
(* name leads to all the bytes of a release, though not for certain with   *)
(* the mode that makes it run.                                             *)
THEOREM PowerLossIsSurvived == Spec => []PowerLossKeepsProgram
<1>1. IInv => PowerLossKeepsProgram
    BY DEF IInv, Safe, PowerLossKeepsProgram
<1>2. QED
    BY <1>1, DurabilityInvariant, PTL

(* The sync of the directory after the rename: an update that returned     *)
(* without error stays installed.                                          *)
THEOREM CommitsAreDurable == Spec => []CommitIsDurable
<1>1. IInv => CommitIsDurable
    BY DEF IInv, Safe, CommitIsDurable
<1>2. QED
    BY <1>1, DurabilityInvariant, PTL

(* file.Sync before file.Chmod: nothing incomplete is ever runnable on     *)
(* disk.                                                                   *)
THEOREM NothingPartialRunsOnDisk == Spec => []NoRunnablePartialOnDisk
<1>1. IInv => NoRunnablePartialOnDisk
    BY DEF IInv, TypeOK, RunnableIsWhole, NoRunnablePartialOnDisk
<1>2. QED
    BY <1>1, DurabilityInvariant, PTL

-----------------------------------------------------------------------------
(* The refinement of DurableProgram.                                       *)

running == file[dir[Exe]].content
onDisk == diskFile[diskDir[Exe]].content

(* No file stands for the program but the two the executable's name leads  *)
(* to: a step that changes neither, nor what was promised, is a stutter.   *)
LEMMA StutterStep ==
  ASSUME UNCHANGED <<running, onDisk, promised>>
  PROVE  [Durable!Next]_(Durable!dvars)
  BY DEF running, onDisk, Durable!dvars

(* Before the first update the program is durable.                         *)
LEMMA InitDurable == Init => Durable!Init
<1> SUFFICES ASSUME Init PROVE Durable!Init
    OBVIOUS
<1>1. dir[Exe] \in Ino /\ diskDir[Exe] \in Ino /\ promised \in Version
    BY InitIInv, ConstantsAssumption DEF IInv, TypeOK, Init
<1>2. running = promised /\ onDisk = promised
    BY <1>1 DEF Init, running, onDisk
<1>3. QED
    BY <1>1, <1>2 DEF Durable!Init, running, onDisk

(* The rename installs, and every sync or write-back that makes the name   *)
(* or the bytes of the program durable makes both so.                      *)
LEMMA NextDurable == IInv /\ [Next]_vars => [Durable!Next]_(Durable!dvars)
<1> SUFFICES ASSUME IInv, [Next]_vars PROVE [Durable!Next]_(Durable!dvars)
    OBVIOUS
<1> USE ConstantsAssumption
<1>0. /\ TypeOK /\ dir[Exe] \in Ino /\ diskDir[Exe] \in Ino
      /\ diskFile[dir[Exe]].content = running /\ file[diskDir[Exe]].content = onDisk
    BY DEF IInv, TypeOK, Safe, running, onDisk
<1>1. CASE Begin \/ Kill \/ Start
    BY <1>1, StutterStep DEF Begin, Kill, Start, running, onDisk
<1>2. CASE Sweep \/ Fail
    <2>1. dir'[Exe] = dir[Exe]
        <3>1. CASE Sweep
            BY <1>0, <3>1 DEF Sweep, TypeOK
        <3>2. CASE Fail
            <4>1. dir' = dir \/ (pc \in Staging /\ dir' = [dir EXCEPT ![stage] = None])
                BY <1>0, <3>2 DEF Fail, TypeOK, Point
            <4>2. pc \in Staging => stage # Exe
                BY DEF IInv, OwnStage
            <4>3. QED
                BY <1>0, <4>1, <4>2 DEF TypeOK
        <3>3. QED
            BY <1>2, <3>1, <3>2
    <2>2. QED
        BY <1>2, <2>1, StutterStep DEF Sweep, Fail, running, onDisk
<1>3. CASE CreateStage
    <2>1. PICK i \in Unused :
             /\ \A j \in Ino \ {i} : file'[j] = file[j] /\ diskFile'[j] = diskFile[j]
             /\ dir'[Exe] = dir[Exe]
        BY <1>0, <1>3 DEF CreateStage, TypeOK, Unused
    <2>2. dir[Exe] # i /\ diskDir[Exe] # i
        BY <2>1 DEF Unused
    <2>3. diskDir' = diskDir /\ promised' = promised
        BY <1>3 DEF CreateStage
    <2>4. QED
        BY <1>0, <2>1, <2>2, <2>3, StutterStep DEF running, onDisk
<1>4. CASE Extract \/ ChmodFile \/ SyncFile
    <2>1. dir[stage] # dir[Exe] /\ dir[stage] # diskDir[Exe]
        BY <1>4 DEF Extract, ChmodFile, SyncFile, IInv, OwnStage
    <2>2. file'[dir[Exe]] = file[dir[Exe]] /\ diskFile'[diskDir[Exe]] = diskFile[diskDir[Exe]]
        BY <1>0, <1>4, <2>1 DEF Extract, ChmodFile, SyncFile, TypeOK
    <2>3. QED
        BY <1>4, <2>2, StutterStep DEF Extract, ChmodFile, SyncFile, running, onDisk
<1>5. CASE SyncStageDirectory \/ SyncTargetDirectory
    <2>1. diskDir' = dir /\ UNCHANGED <<dir, file, diskFile>>
          /\ promised' \in {promised, running}
        BY <1>5 DEF SyncStageDirectory, SyncTargetDirectory, IInv, StageWritten, running
    <2>2. running' = running /\ onDisk' = running
        BY <1>0, <2>1 DEF running, onDisk
    <2>3. Durable!Persist
        BY <2>1, <2>2 DEF Durable!Persist, running, onDisk
    <2>4. QED
        BY <2>3 DEF Durable!Next
<1>6. CASE Rename
    <2>1. stage \in Stage /\ release \in Version /\ release > running
          /\ file[dir[stage]].content = release
        BY <1>6 DEF Rename, IInv, OwnStage, StageWritten, NoOlder,
           NewerThanInstalled, running
    <2>2. dir'[Exe] = dir[stage]
        BY <1>0, <1>6, <2>1 DEF Rename, TypeOK
    <2>3. running' = release /\ onDisk' = onDisk /\ promised' = promised
        BY <1>6, <2>1, <2>2 DEF Rename, running, onDisk
    <2>4. Durable!Install
        BY <2>1, <2>3 DEF Durable!Install, running, onDisk
    <2>5. QED
        BY <2>4 DEF Durable!Next
<1>7. CASE WriteBack
    <2>0. UNCHANGED <<dir, file, promised>>
        BY <1>7 DEF WriteBack
    <2>1. running' = running
        BY <2>0 DEF running
    <2>2. onDisk' \in {onDisk, running}
        <3>1. ASSUME NEW e \in Entry, diskDir' = [diskDir EXCEPT ![e] = dir[e]],
                     UNCHANGED diskFile
              PROVE  onDisk' \in {onDisk, running}
            BY <1>0, <3>1 DEF TypeOK, onDisk
        <3>2. ASSUME NEW i \in Ino,
                     \/ diskFile' = [diskFile EXCEPT ![i].content = file[i].content]
                     \/ diskFile' = [diskFile EXCEPT ![i].exec = file[i].exec],
                     UNCHANGED diskDir
              PROVE  onDisk' = onDisk
            BY <1>0, <3>2 DEF TypeOK, onDisk
        <3>3. QED
            BY <1>7, <3>1, <3>2 DEF WriteBack
    <2>3. onDisk' = running => Durable!Persist
        BY <2>0, <2>1 DEF Durable!Persist, running, onDisk
    <2>4. QED
        BY <2>0, <2>1, <2>2, <2>3, StutterStep DEF Durable!Next
<1>8. CASE PowerLoss
    <2>1. running' = onDisk /\ onDisk' = onDisk /\ promised' = promised
        BY <1>8 DEF PowerLoss, running, onDisk
    <2>2. Durable!PowerLoss
        BY <2>1 DEF Durable!PowerLoss, running, onDisk
    <2>3. QED
        BY <2>2 DEF Durable!Next
<1>9. CASE UNCHANGED vars
    BY <1>9, StutterStep DEF vars, running, onDisk
<1>10. QED
    BY <1>1, <1>2, <1>3, <1>4, <1>5, <1>6, <1>7, <1>8, <1>9 DEF Next

(* However many files an update writes and syncs, power losses and failed  *)
(* calls included, the program is one register that is replaced, made      *)
(* durable and only then promised (install.go:139-173,                     *)
(* replace_unix.go:12-29).                                                 *)
THEOREM UpdatesAreDurable == Spec => ProgramIsDurable
<1>1. QED
    BY InitDurable, NextDurable, DurabilityInvariant, PTL
    DEF Spec, ProgramIsDurable, Durable!Spec
=============================================================================
