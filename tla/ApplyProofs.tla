---------------------------- MODULE ApplyProofs ----------------------------
(***************************************************************************)
(* What TLAPS proves about Apply, for every number of processes, paths,    *)
(* names, versions and calls.                                              *)
(*                                                                         *)
(* The invariant Inv has a part Own(p) for each process and a part FilesOK *)
(* for the directory.  A step of p is shown to re-establish its own part   *)
(* and to keep to a footprint, OnlyBy(p): its own variables, and files     *)
(* only under the lock it holds.  Noninterference then gives every other   *)
(* process its part back.                                                  *)
(***************************************************************************)
EXTENDS Apply, TLAPS

(* A Check under way and an Apply call have a plan.                        *)
HasPlan(p) == pc[p] \in InApply \cup {"planning"} => plan[p] \in Plan

(* A call past acquireFileLock holds the lock of the executable it was     *)
(* planned for.                                                            *)
HasLock(p) == pc[p] \in Holding => lock[plan[p].path] = p

(* The temporary files and the backup a call works on are there, under the *)
(* names it remembers (LiveFilesKept, with the names).                     *)
HasFiles(p) ==
  LET t == plan[p].path IN
  /\ pc[p] \in NeedsArchive =>
       job[p].archive \in Name /\ archives[t][job[p].archive] # None
  /\ pc[p] \in NeedsStage =>
       job[p].stage \in Name /\ stages[t][job[p].stage] # None
  /\ pc[p] \in NeedsBackup =>
       job[p].backup \in Name /\ backups[t][job[p].backup] # None

(* From the digest check on, the archive is the release's; from the        *)
(* extraction on, so is the stage; from the chmod on, it is executable.    *)
StageGood(p) ==
  LET t == plan[p].path IN
  /\ pc[p] \in {"stage", "extract"} =>
       archives[t][job[p].archive] = plan[p].version
  /\ pc[p] \in NeedsStage \ {"extract"} =>
       stages[t][job[p].stage].content = plan[p].version
  /\ pc[p] \in NeedsStage \ {"extract", "chmod"} =>
       stages[t][job[p].stage].exec

(* The sweep of the backups starts, and the backup of a replacement is     *)
(* dropped, only while the executable is at its path.                      *)
TargetThere(p) ==
  pc[p] \in {"sweepBackups", "drop"} => target[plan[p].path] # None

(* Between the second fingerprint and the rename the executable, or on     *)
(* Windows the backup it has become, is what Check fingerprinted, unless   *)
(* another program has replaced it (snap is None then).                    *)
ReplacesSeen(p) ==
  snap[p] # None => LET t == plan[p].path IN
    /\ pc[p] \in {"precommit", "replace"} =>
         target[t] = snap[p] /\ snap[p].content = plan[p].hash
    /\ pc[p] \in {"hide", "install"} =>
         backups[t][job[p].backup].content = plan[p].hash

(* committed follows swapped once replaceExecutable has returned.          *)
CommitKnown(p) ==
  /\ pc[p] \in Point \ {"defer", "syncdir", "drop"} =>
       ~swapped[p] /\ ~job[p].committed
  /\ pc[p] \in {"syncdir", "drop"} => swapped[p]
  /\ pc[p] = "defer" => (job[p].committed <=> swapped[p])

(* Which replaceExecutable runs.                                           *)
RightPlatform(p) ==
  /\ pc[p] \in {"hide", "install", "rollback", "unhide", "drop"} => Windows
  /\ pc[p] = "syncdir" => ~Windows

Own(p) ==
  /\ HasPlan(p) /\ HasLock(p) /\ HasFiles(p) /\ StageGood(p)
  /\ TargetThere(p) /\ ReplacesSeen(p) /\ CommitKnown(p) /\ RightPlatform(p)

(* What holds of the files whoever wrote them: no partial stage is         *)
(* executable, what is or was the executable is runnable, and a missing    *)
(* executable has left a backup.                                           *)
FilesOK ==
  /\ NeverExecutablePartial
  /\ \A t \in Path :
       /\ target[t] # None => Runnable(target[t])
       /\ \A n \in Name : backups[t][n] # None => Runnable(backups[t][n])
       /\ target[t] = None => Windows /\ Present(backups, t) # {}

(* The inductive invariant.                                                *)
Inv == TypeOK /\ FilesOK /\ \A p \in Proc : Own(p)

-----------------------------------------------------------------------------
(* What a step of process q may touch: its own variables, and the files    *)
(* beside an executable only under the lock of that executable.  A sweep   *)
(* deletes every file of a name pattern, and this is what keeps it off the *)
(* files of a live call.                                                   *)
OnlyBy(q) ==
  /\ \A p \in Proc \ {q} :
       /\ pc'[p] = pc[p] /\ plan'[p] = plan[p] /\ job'[p] = job[p]
       /\ snap'[p] = snap[p] /\ swapped'[p] = swapped[p]
  /\ \A t \in Path :
       \/ lock[t] = q
       \/ /\ target'[t] = target[t] /\ stages'[t] = stages[t]
          /\ archives'[t] = archives[t] /\ backups'[t] = backups[t]
  /\ \A t \in Path : lock'[t] = lock[t] \/ lock[t] \in {q, None}

USE DEF InApply, Holding, Prelude, Replacing, Point, NeedsArchive, NeedsStage,
NeedsBackup,
        Goto, dir, life, history

(* A step of another process that keeps to its footprint leaves p's part   *)
(* of the invariant: while p holds the lock, p's files are out of its      *)
(* reach.                                                                  *)
LEMMA Noninterference ==
  ASSUME NEW p \in Proc, NEW q \in Proc, p # q, Own(p), OnlyBy(q)
  PROVE Own(p)'
<1>0. /\ pc'[p] = pc[p] /\ plan'[p] = plan[p] /\ job'[p] = job[p]
      /\ snap'[p] = snap[p] /\ swapped'[p] = swapped[p]
  BY DEF OnlyBy
<1>1. CASE pc[p] \in Holding
  <2> DEFINE t == plan[p].path
  <2>1. plan[p] \in Plan /\ lock[t] = p
    BY <1>1 DEF Own, HasPlan, HasLock
  <2>2. t \in Path /\ p # None
    BY <2>1, ConstantsAssumption DEF Plan
  <2>3. /\ target'[t] = target[t] /\ stages'[t] = stages[t]
        /\ archives'[t] = archives[t] /\ backups'[t] = backups[t]
        /\ lock'[t] = lock[t]
    BY <2>1, <2>2 DEF OnlyBy
  <2> QED
    BY <1>0, <2>1, <2>3 DEF Own, HasPlan, HasLock, HasFiles, StageGood,
      TargetThere,
      ReplacesSeen, CommitKnown, RightPlatform
<1>2. CASE pc[p] \notin Holding
  BY <1>0, <1>2 DEF Own, HasPlan, HasLock, HasFiles, StageGood, TargetThere,
      ReplacesSeen, CommitKnown, RightPlatform
<1> QED BY <1>1, <1>2

(* A step of p re-establishes its own part of the invariant and keeps to   *)
(* its footprint.                                                          *)
StepOK(p) == TypeOK' /\ FilesOK' /\ Own(p)' /\ OnlyBy(p)

(* What the invariant says about p and the constants, as the steps use it. *)
Known(p) ==
  /\ TypeOK /\ FilesOK /\ Own(p)
  /\ p # None /\ None \notin Name /\ None \notin Bytes /\ None \notin File
  /\ Version \subseteq Bytes /\ Corrupt \notin Version /\ Corrupt \in Bytes
  /\ pc[p] \in InApply \cup {"planning"} =>
       /\ plan[p] \in Plan /\ plan[p].path \in Path
       /\ plan[p].version \in Version
  /\ pc[p] \in Holding => lock[plan[p].path] = p

(* The invariant gives what Known lists.                                   *)
LEMMA InvFacts == ASSUME Inv, NEW p \in Proc PROVE Known(p)
<1>1. TypeOK /\ FilesOK /\ Own(p) BY DEF Inv
<1>2. /\ p # None /\ None \notin Name /\ None \notin Bytes /\ None \notin File
      /\ Version \subseteq Bytes /\ Corrupt \notin Version /\ Corrupt \in Bytes
  BY ConstantsAssumption DEF Bytes, Content
<1>3. pc[p] \in InApply \cup {"planning"} =>
        plan[p] \in Plan /\ plan[p].path \in Path /\ plan[p].version \in Version
  BY <1>1 DEF Own, HasPlan, Plan
<1>4. pc[p] \in Holding => lock[plan[p].path] = p
  BY <1>1 DEF Own, HasLock
<1> QED BY <1>1, <1>2, <1>3, <1>4 DEF Known

(* Assigning a field of a call's locals keeps their type.                  *)
LEMMA JobFields ==
  ASSUME job \in [Proc -> Job], NEW p \in Proc,
         NEW n \in Name \cup {None}, NEW b \in BOOLEAN,
         NEW e \in {"none", "failed", "rollback"}
  PROVE /\ [job EXCEPT ![p].archive = n] \in [Proc -> Job]
        /\ [job EXCEPT ![p].stage = n] \in [Proc -> Job]
        /\ [job EXCEPT ![p].backup = n] \in [Proc -> Job]
        /\ [job EXCEPT ![p].swept = b] \in [Proc -> Job]
        /\ [job EXCEPT ![p].err = e] \in [Proc -> Job]
        /\ [job EXCEPT ![p].stage = n, ![p].err = e] \in [Proc -> Job]
        /\ [job EXCEPT ![p].err = e, ![p].stage = n] \in [Proc -> Job]
        /\ [job EXCEPT ![p].archive = n, ![p].err = e] \in [Proc -> Job]
<1>1. [job EXCEPT ![p].archive = n] \in [Proc -> Job] BY DEF Job
<1>2. [job EXCEPT ![p].stage = n] \in [Proc -> Job] BY DEF Job
<1>3. [job EXCEPT ![p].backup = n] \in [Proc -> Job] BY DEF Job
<1>4. [job EXCEPT ![p].swept = b] \in [Proc -> Job] BY DEF Job
<1>5. [job EXCEPT ![p].err = e] \in [Proc -> Job] BY DEF Job
<1>6. [job EXCEPT ![p].stage = n, ![p].err = e] \in [Proc -> Job]
  <2>1. job[p] \in Job OBVIOUS
  <2>2. [job[p] EXCEPT !.stage = n, !.err = e] \in Job BY <2>1 DEF Job
  <2> QED BY <2>2
<1>7. [job EXCEPT ![p].err = e, ![p].stage = n] \in [Proc -> Job]
  <2>1. job[p] \in Job OBVIOUS
  <2>2. [job[p] EXCEPT !.err = e, !.stage = n] \in Job BY <2>1 DEF Job
  <2> QED BY <2>2
<1>8. [job EXCEPT ![p].archive = n, ![p].err = e] \in [Proc -> Job]
  <2>1. job[p] \in Job OBVIOUS
  <2>2. [job[p] EXCEPT !.archive = n, !.err = e] \in Job BY <2>1 DEF Job
  <2> QED BY <2>2
<1> QED BY <1>1, <1>2, <1>3, <1>4, <1>5, <1>6, <1>7, <1>8

(* An error return under the lock goes to the deferred functions and       *)
(* leaves Result.Committed alone.                                          *)
LEMMA AbortFacts ==
  ASSUME TypeOK, NEW p \in Proc, Abort(p)
  PROVE /\ job' \in [Proc -> Job] /\ pc' \in [Proc -> Point]
        /\ pc'[p] = "defer" /\ job'[p].committed = job[p].committed
        /\ \A q \in Proc \ {p} : pc'[q] = pc[q] /\ job'[q] = job[q]
<1>1. job \in [Proc -> Job] /\ pc \in [Proc -> Point] BY DEF TypeOK
<1>2. job' \in [Proc -> Job] BY <1>1, JobFields DEF Abort
<1>3. pc' \in [Proc -> Point] BY <1>1 DEF Abort
<1>4. pc'[p] = "defer" /\ \A q \in Proc \ {p} : pc'[q] = pc[q]
  BY <1>1 DEF Abort
<1>5. job'[p].committed = job[p].committed BY <1>1 DEF Abort, Job
<1>6. \A q \in Proc \ {p} : job'[q] = job[q] BY <1>1 DEF Abort
<1> QED BY <1>2, <1>3, <1>4, <1>5, <1>6

(* Returning from Apply keeps the types.                                   *)
LEMMA ReturnTyped ==
  ASSUME TypeOK, NEW p \in Proc, Return(p)
  PROVE /\ job' \in [Proc -> Job] /\ pc' \in [Proc -> Point]
        /\ cancelled' \in [Proc -> BOOLEAN]
<1>1. NoJob \in Job BY DEF NoJob, Job
<1> QED BY <1>1 DEF TypeOK, Return

(* The fields set by a commit have the right types.                        *)
LEMMA CommitJob ==
  ASSUME NEW j \in Job, NEW c \in BOOLEAN, NEW e \in {"none", "failed"}
  PROVE [j EXCEPT !.committed = TRUE, !.stage = None, !.cleanupPending = c,
                  !.err = e] \in Job
BY DEF Job

(* Recording a commit keeps the types.                                     *)
LEMMA CommitTyped ==
  ASSUME TypeOK, NEW p \in Proc, NEW e \in {"none", "failed"},
         NEW pending \in BOOLEAN, Commit(p, e, pending)
  PROVE job' \in [Proc -> Job] /\ pc' \in [Proc -> Point]
<1> DEFINE c == job[p].swept \/ pending
           k == [job[p] EXCEPT !.committed = TRUE, !.stage = None,
                               !.cleanupPending = c, !.err = e]
<1>1. job \in [Proc -> Job] /\ job[p] \in Job BY DEF TypeOK
<1>2. k \in Job
  <2>1. c \in BOOLEAN OBVIOUS
  <2> QED BY <1>1, <2>1, CommitJob
<1>3. job' = [job EXCEPT ![p] = k] BY <1>1 DEF Commit
<1>4. pc' \in [Proc -> Point] BY DEF TypeOK, Commit
<1> QED BY <1>1, <1>2, <1>3, <1>4

(* Writing one file beside one executable changes no other file.           *)
LEMMA PutIs ==
  ASSUME NEW V, NEW d \in [Path -> [Name -> V]], NEW t \in Path,
         NEW n \in Name, NEW v \in V
  PROVE /\ [d EXCEPT ![t][n] = v] \in [Path -> [Name -> V]]
        /\ [d EXCEPT ![t][n] = v][t][n] = v
        /\ \A u \in Path, m \in Name :
             u # t \/ m # n => [d EXCEPT ![t][n] = v][u][m] = d[u][m]
OBVIOUS

(* A step that leaves the executables and the backups alone keeps FilesOK  *)
(* when no stage becomes executable too early.                             *)
LEMMA OtherFilesKept ==
  ASSUME FilesOK, target' = target, backups' = backups, NeverExecutablePartial'
  PROVE FilesOK'
BY DEF FilesOK, Runnable, Present

(* Recording a commit sets Committed and goes to the deferred functions.   *)
LEMMA CommitFacts ==
  ASSUME TypeOK, NEW p \in Proc, NEW e, NEW pending, Commit(p, e, pending)
  PROVE /\ pc'[p] = "defer" /\ job'[p].committed
        /\ \A q \in Proc \ {p} : pc'[q] = pc[q] /\ job'[q] = job[q]
BY DEF TypeOK, Commit, Job

(* The locals of no call are well typed.                                   *)
LEMMA NoJobTyped == NoJob \in Job
BY DEF NoJob, Job

(* An error return before the replacement keeps p's part of the invariant. *)
LEMMA AbortOwn ==
  ASSUME NEW p \in Proc, Known(p), Abort(p), pc[p] \in Prelude \cup {"replace"},
         plan' = plan, lock' = lock, swapped' = swapped
  PROVE Own(p)'
<1>1. /\ pc'[p] = "defer" /\ job'[p].committed = job[p].committed
      /\ plan[p] \in Plan /\ lock[plan[p].path] = p
      /\ ~swapped[p] /\ ~job[p].committed
  BY AbortFacts DEF Known, Own, CommitKnown
<1> QED BY <1>1 DEF Own, HasPlan, HasLock, HasFiles, StageGood, TargetThere,
      ReplacesSeen, CommitKnown, RightPlatform

(* Check resolves the executable and touches no file.                      *)
LEMMA CheckStep ==
  ASSUME NEW p \in Proc, Inv, Check(p)
  PROVE StepOK(p)
<1>0. Known(p) BY InvFacts
<1>1. PICK v \in Version, b \in Targeted :
        plan' = [plan EXCEPT ![p] = [version |-> v, targeted |-> b,
                                     path |-> link, hash |-> None]]
  BY DEF Check
<1>2. plan' \in [Proc -> Plan \cup {None}] /\ plan'[p] \in Plan
  BY <1>0, <1>1, ConstantsAssumption DEF Known, TypeOK, Plan
<1>3. TypeOK'
  BY <1>0, <1>2 DEF Known, Check, TypeOK
<1>4. FilesOK'
  BY <1>0 DEF Known, Check, FilesOK, NeverExecutablePartial, Runnable, Present
<1>5. Own(p)'
  BY <1>0, <1>2 DEF Known, Check, TypeOK, Own, HasPlan, HasLock, HasFiles,
    StageGood,
     TargetThere, ReplacesSeen, CommitKnown, RightPlatform
<1>6. OnlyBy(p)
  BY <1>0, <1>1 DEF Known, Check, TypeOK, OnlyBy
<1> QED BY <1>3, <1>4, <1>5, <1>6 DEF StepOK

(* hashExecutable in buildPlan pins the bytes it reads.                    *)
LEMMA FingerprintPlanStep ==
  ASSUME NEW p \in Proc, Inv, FingerprintPlan(p)
  PROVE StepOK(p)
<1>0. Known(p) BY InvFacts
<1>1. plan' \in [Proc -> Plan \cup {None}]
  <2>1. plan \in [Proc -> Plan \cup {None}] /\ plan[p] \in Plan
        /\ plan[p].path \in Path /\ target \in [Path -> File \cup {None}]
    BY <1>0 DEF Known, FingerprintPlan, TypeOK
  <2>2. CASE plan' = [plan EXCEPT ![p] = None] BY <2>1, <2>2
  <2>3. CASE /\ target[plan[p].path] # None
             /\ plan' = [plan EXCEPT ![p].hash = target[plan[p].path].content]
    <3>1. target[plan[p].path].content \in Bytes BY <2>1, <2>3 DEF File
    <3> QED BY <2>1, <2>3, <3>1 DEF Plan
  <2> QED BY <2>2, <2>3 DEF FingerprintPlan
<1>2. TypeOK'
  BY <1>0, <1>1 DEF Known, FingerprintPlan, TypeOK
<1>3. FilesOK'
  BY <1>0 DEF Known, FingerprintPlan, FilesOK, NeverExecutablePartial,
    Runnable, Present
<1>4. Own(p)'
  BY <1>0 DEF Known, FingerprintPlan, TypeOK, Own, HasPlan, HasLock, HasFiles,
    StageGood,
     TargetThere, ReplacesSeen, CommitKnown, RightPlatform
<1>5. OnlyBy(p)
  BY <1>0 DEF Known, FingerprintPlan, TypeOK, OnlyBy
<1> QED BY <1>2, <1>3, <1>4, <1>5 DEF StepOK

(* Apply's guards admit a call that then waits for the lock.               *)
LEMMA BeginApplyStep ==
  ASSUME NEW p \in Proc, Inv, BeginApply(p)
  PROVE StepOK(p)
<1>0. Known(p) BY InvFacts
<1>1. TypeOK'
  BY <1>0 DEF Known, BeginApply, TypeOK
<1>2. FilesOK'
  BY <1>0 DEF Known, BeginApply, TypeOK, FilesOK, NeverExecutablePartial,
    Runnable,
         Present
<1>3. Own(p)'
  BY <1>0 DEF Known, BeginApply, TypeOK, Own, HasPlan, HasLock, HasFiles,
    StageGood, TargetThere, ReplacesSeen,
         CommitKnown, RightPlatform
<1>4. OnlyBy(p)
  BY <1>0 DEF Known, BeginApply, TypeOK, OnlyBy
<1> QED BY <1>1, <1>2, <1>3, <1>4 DEF StepOK

(* acquireFileLock gives the lock of the planned executable to p alone.    *)
LEMMA AcquireStep ==
  ASSUME NEW p \in Proc, Inv, Acquire(p)
  PROVE StepOK(p)
<1>0. Known(p) BY InvFacts
<1>1. TypeOK'
  BY <1>0 DEF Known, Acquire, TypeOK
<1>2. FilesOK'
  BY <1>0 DEF Known, Acquire, TypeOK, FilesOK, NeverExecutablePartial,
    Runnable,
         Present
<1>3. Own(p)'
  BY <1>0 DEF Known, Acquire, TypeOK, Own, HasPlan, HasLock, HasFiles,
    StageGood, TargetThere, ReplacesSeen,
         CommitKnown, RightPlatform
<1>4. OnlyBy(p)
  BY <1>0 DEF Known, Acquire, TypeOK, OnlyBy
<1> QED BY <1>1, <1>2, <1>3, <1>4 DEF StepOK

(* A cancelled wait for the lock ends with nothing changed.                *)
LEMMA StopWaitingStep ==
  ASSUME NEW p \in Proc, Inv, StopWaiting(p)
  PROVE StepOK(p)
<1>0. Known(p) BY InvFacts
<1>1. TypeOK'
  BY <1>0, ReturnTyped DEF Known, StopWaiting, TypeOK
<1>2. FilesOK'
  BY <1>0 DEF Known, StopWaiting, Return, NoJob, TypeOK, FilesOK,
    NeverExecutablePartial, Runnable,
         Present
<1>3. Own(p)'
  BY <1>0 DEF Known, StopWaiting, Return, NoJob, TypeOK, Own, HasPlan,
    HasLock, HasFiles, StageGood, TargetThere, ReplacesSeen,
         CommitKnown, RightPlatform
<1>4. OnlyBy(p)
  BY <1>0 DEF Known, StopWaiting, Return, NoJob, TypeOK, OnlyBy
<1> QED BY <1>1, <1>2, <1>3, <1>4 DEF StepOK

(* A lock file that cannot be opened ends the call with nothing changed.   *)
LEMMA LockFailsStep ==
  ASSUME NEW p \in Proc, Inv, LockFails(p)
  PROVE StepOK(p)
<1>0. Known(p) BY InvFacts
<1>1. TypeOK'
  BY <1>0, ReturnTyped DEF Known, LockFails, TypeOK
<1>2. FilesOK'
  BY <1>0 DEF Known, LockFails, Return, NoJob, TypeOK, FilesOK,
    NeverExecutablePartial, Runnable,
         Present
<1>3. Own(p)'
  BY <1>0 DEF Known, LockFails, Return, NoJob, TypeOK, Own, HasPlan, HasLock,
    HasFiles, StageGood, TargetThere, ReplacesSeen,
         CommitKnown, RightPlatform
<1>4. OnlyBy(p)
  BY <1>0 DEF Known, LockFails, Return, NoJob, TypeOK, OnlyBy
<1> QED BY <1>1, <1>2, <1>3, <1>4 DEF StepOK

(* Resolving again under the lock establishes that the executable is there *)
(* before the backups are swept.                                           *)
LEMMA RecheckStep ==
  ASSUME NEW p \in Proc, Inv, Recheck(p)
  PROVE StepOK(p)
<1>0. Known(p) BY InvFacts
<1>1. TypeOK'
  BY <1>0, AbortFacts DEF Known, Recheck, TypeOK
<1>2. FilesOK'
  BY <1>0, AbortFacts DEF Known, Recheck, Resolves, TypeOK, FilesOK,
    NeverExecutablePartial, Runnable,
         Present
<1>3. Own(p)'
  <2>1. CASE Abort(p)
    BY <1>0, <2>1, AbortOwn DEF Known, Recheck
  <2>2. CASE ~Abort(p)
    BY <1>0, <2>2 DEF Known, Recheck, Resolves, Matches, TypeOK, Own, HasPlan,
      HasLock,
       HasFiles, StageGood, TargetThere, ReplacesSeen, CommitKnown,
       RightPlatform
  <2> QED BY <2>1, <2>2
<1>4. OnlyBy(p)
  BY <1>0, AbortFacts DEF Known, Recheck, Resolves, TypeOK, OnlyBy
<1> QED BY <1>1, <1>2, <1>3, <1>4 DEF StepOK

(* The first fingerprint under the lock changes no file.                   *)
LEMMA FingerprintStep ==
  ASSUME NEW p \in Proc, Inv, Fingerprint(p)
  PROVE StepOK(p)
<1>0. Known(p) BY InvFacts
<1>1. TypeOK'
  BY <1>0, AbortFacts DEF Known, Fingerprint, TypeOK
<1>2. FilesOK'
  BY <1>0, AbortFacts DEF Known, Fingerprint, Matches, TypeOK, FilesOK,
    NeverExecutablePartial, Runnable,
         Present
<1>3. Own(p)'
  <2>1. CASE Abort(p)
    BY <1>0, <2>1, AbortOwn DEF Known, Fingerprint
  <2>2. CASE ~Abort(p)
    BY <1>0, <2>2 DEF Known, Fingerprint, Resolves, Matches, TypeOK, Own,
      HasPlan, HasLock,
       HasFiles, StageGood, TargetThere, ReplacesSeen, CommitKnown,
       RightPlatform
  <2> QED BY <2>1, <2>2
<1>4. OnlyBy(p)
  BY <1>0, AbortFacts DEF Known, Fingerprint, Matches, TypeOK, OnlyBy
<1> QED BY <1>1, <1>2, <1>3, <1>4 DEF StepOK

(* The digest check establishes that the archive is the release's.         *)
LEMMA VerifyDigestStep ==
  ASSUME NEW p \in Proc, Inv, VerifyDigest(p)
  PROVE StepOK(p)
<1>0. Known(p) BY InvFacts
<1>1. TypeOK'
  BY <1>0, AbortFacts DEF Known, VerifyDigest, TypeOK
<1>2. FilesOK'
  BY <1>0, AbortFacts DEF Known, VerifyDigest, TypeOK, FilesOK,
    NeverExecutablePartial, Runnable,
         Present
<1>3. Own(p)'
  <2>1. CASE Abort(p)
    BY <1>0, <2>1, AbortOwn DEF Known, VerifyDigest
  <2>2. CASE ~Abort(p)
    BY <1>0, <2>2 DEF Known, VerifyDigest, Resolves, Matches, TypeOK, Own,
      HasPlan, HasLock,
       HasFiles, StageGood, TargetThere, ReplacesSeen, CommitKnown,
       RightPlatform
  <2> QED BY <2>1, <2>2
<1>4. OnlyBy(p)
  BY <1>0, AbortFacts DEF Known, VerifyDigest, TypeOK, OnlyBy
<1> QED BY <1>1, <1>2, <1>3, <1>4 DEF StepOK

(* The second fingerprint establishes what the replacement may replace.    *)
LEMMA RefingerprintStep ==
  ASSUME NEW p \in Proc, Inv, Refingerprint(p)
  PROVE StepOK(p)
<1>0. Known(p) BY InvFacts
<1>1. TypeOK'
  <2>1. CASE Abort(p)
    BY <1>0, <2>1, AbortFacts DEF Known, Refingerprint, TypeOK
  <2>2. CASE ~Abort(p)
    <3>1. /\ snap' = [snap EXCEPT ![p] = target[plan[p].path]]
          /\ pc' = [pc EXCEPT ![p] = "precommit"] /\ job' = job
          /\ Matches(p)
      BY <2>2 DEF Refingerprint, Goto
    <3>2. snap' \in [Proc -> File \cup {None}]
      BY <1>0, <3>1 DEF Known, Refingerprint, TypeOK, InApply, Holding, Prelude
    <3>3. pc' \in [Proc -> Point]
      BY <1>0, <3>1 DEF Known, TypeOK, Point, InApply, Holding, Prelude
    <3> QED BY <1>0, <3>1, <3>2, <3>3 DEF Known, Refingerprint, TypeOK
  <2> QED BY <2>1, <2>2
<1>2. FilesOK'
  BY <1>0, AbortFacts DEF Known, Refingerprint, Matches, TypeOK, FilesOK,
    NeverExecutablePartial, Runnable,
         Present
<1>3. Own(p)'
  <2>1. CASE Abort(p)
    BY <1>0, <2>1, AbortOwn DEF Known, Refingerprint
  <2>2. CASE ~Abort(p)
    BY <1>0, <2>2 DEF Known, Refingerprint, Resolves, Matches, TypeOK, Own,
      HasPlan, HasLock,
       HasFiles, StageGood, TargetThere, ReplacesSeen, CommitKnown,
       RightPlatform
  <2> QED BY <2>1, <2>2
<1>4. OnlyBy(p)
  BY <1>0, AbortFacts DEF Known, Refingerprint, Matches, TypeOK, OnlyBy
<1> QED BY <1>1, <1>2, <1>3, <1>4 DEF StepOK

(* The last look at the context changes no file.                           *)
LEMMA PrecommitStep ==
  ASSUME NEW p \in Proc, Inv, Precommit(p)
  PROVE StepOK(p)
<1>0. Known(p) BY InvFacts
<1>1. TypeOK'
  BY <1>0, AbortFacts DEF Known, Precommit, TypeOK
<1>2. FilesOK'
  BY <1>0, AbortFacts DEF Known, Precommit, TypeOK, FilesOK,
    NeverExecutablePartial, Runnable,
         Present
<1>3. Own(p)'
  <2>1. CASE Abort(p)
    BY <1>0, <2>1, AbortOwn DEF Known, Precommit
  <2>2. CASE ~Abort(p)
    <3>1. /\ pc[p] = "precommit" /\ pc'[p] = "replace"
          /\ UNCHANGED <<dir, lock, plan, job, history>>
      BY <1>0, <2>2 DEF Known, Precommit, TypeOK
    <3>2. HasPlan(p)' /\ HasLock(p)' /\ HasFiles(p)' /\ StageGood(p)'
      BY <1>0, <3>1 DEF Known, Own, HasPlan, HasLock, HasFiles, StageGood
    <3>3. /\ TargetThere(p)' /\ ReplacesSeen(p)' /\ CommitKnown(p)'
          /\ RightPlatform(p)'
      BY <1>0, <3>1 DEF Known, Own, TargetThere, ReplacesSeen, CommitKnown,
        RightPlatform
    <3> QED BY <3>2, <3>3 DEF Own
  <2> QED BY <2>1, <2>2
<1>4. OnlyBy(p)
  BY <1>0, AbortFacts DEF Known, Precommit, TypeOK, OnlyBy
<1> QED BY <1>1, <1>2, <1>3, <1>4 DEF StepOK

(* downloadToFile writes p's archive only.                                 *)
LEMMA DownloadStep ==
  ASSUME NEW p \in Proc, Inv, Download(p)
  PROVE StepOK(p)
<1>0. Known(p) BY InvFacts
<1>1. TypeOK'
  BY <1>0 DEF Known, Download, TypeOK, Own, HasFiles
<1>2. FilesOK'
  BY <1>0 DEF Known, Download, TypeOK, FilesOK, NeverExecutablePartial,
    Runnable,
         Present
<1>3. Own(p)'
  BY <1>0 DEF Known, Download, TypeOK, Own, HasPlan, HasLock, HasFiles,
    StageGood, TargetThere, ReplacesSeen,
         CommitKnown, RightPlatform
<1>4. OnlyBy(p)
  BY <1>0 DEF Known, Download, TypeOK, OnlyBy
<1> QED BY <1>1, <1>2, <1>3, <1>4 DEF StepOK

(* A replacement that fails at once has changed nothing.                   *)
LEMMA ReplaceFailsStep ==
  ASSUME NEW p \in Proc, Inv, ReplaceFails(p)
  PROVE StepOK(p)
<1>0. Known(p) BY InvFacts
<1>1. TypeOK'
  BY <1>0, AbortFacts DEF Known, ReplaceFails, TypeOK
<1>2. FilesOK'
  BY <1>0, AbortFacts DEF Known, ReplaceFails, TypeOK, FilesOK,
    NeverExecutablePartial, Runnable,
         Present
<1>3. Own(p)'
  <2>1. CASE Abort(p)
    BY <1>0, <2>1, AbortOwn DEF Known, ReplaceFails
  <2>2. CASE ~Abort(p)
    BY <1>0, <2>2 DEF Known, ReplaceFails, Resolves, Matches, TypeOK, Own,
      HasPlan, HasLock,
       HasFiles, StageGood, TargetThere, ReplacesSeen, CommitKnown,
       RightPlatform
  <2> QED BY <2>1, <2>2
<1>4. OnlyBy(p)
  BY <1>0, AbortFacts DEF Known, ReplaceFails, TypeOK, OnlyBy
<1> QED BY <1>1, <1>2, <1>3, <1>4 DEF StepOK

(* Syncing the directory after the rename records the commit, whatever it  *)
(* returns.                                                                *)
LEMMA SyncDirectoryStep ==
  ASSUME NEW p \in Proc, Inv, SyncDirectory(p)
  PROVE StepOK(p)
<1>0. Known(p) BY InvFacts
<1>1. TypeOK'
  <2>1. job' \in [Proc -> Job] /\ pc' \in [Proc -> Point]
    BY <1>0, CommitTyped DEF Known, SyncDirectory
  <2> QED BY <1>0, <2>1 DEF Known, SyncDirectory, TypeOK
<1>2. FilesOK'
  <2>1. target' = target /\ backups' = backups /\ stages' = stages
    BY DEF SyncDirectory
  <2>2. NeverExecutablePartial'
    BY <1>0, <2>1 DEF Known, FilesOK, NeverExecutablePartial
  <2> QED BY <1>0, <2>1, <2>2, OtherFilesKept DEF Known
<1>3. Own(p)'
  <2>0. /\ lock' = lock /\ plan' = plan /\ snap' = snap /\ swapped' = swapped
        /\ pc[p] = "syncdir"
    BY DEF SyncDirectory
  <2>1. pc'[p] = "defer" /\ job'[p].committed
    BY <1>0, CommitFacts DEF Known, SyncDirectory
  <2>2. HasPlan(p)' /\ HasLock(p)'
    BY <1>0, <2>0, <2>1 DEF Known, Own, HasPlan, HasLock
  <2>3. HasFiles(p)' /\ StageGood(p)' /\ TargetThere(p)' /\ ReplacesSeen(p)'
    BY <2>1 DEF HasFiles, StageGood, TargetThere, ReplacesSeen
  <2>4. CommitKnown(p)' /\ RightPlatform(p)'
    BY <1>0, <2>0, <2>1 DEF Known, Own, CommitKnown, RightPlatform
  <2> QED BY <2>2, <2>3, <2>4 DEF Own
<1>4. OnlyBy(p)
  <2>1. \A q \in Proc \ {p} : pc'[q] = pc[q] /\ job'[q] = job[q]
    BY <1>0, CommitFacts DEF Known, SyncDirectory
  <2> QED BY <2>1 DEF SyncDirectory, OnlyBy
<1> QED BY <1>1, <1>2, <1>3, <1>4 DEF StepOK

(* The deferred release frees p's lock only.                               *)
LEMMA ReleaseStep ==
  ASSUME NEW p \in Proc, Inv, Release(p)
  PROVE StepOK(p)
<1>0. Known(p) BY InvFacts
<1>1. TypeOK'
  BY <1>0, ReturnTyped DEF Known, Release, TypeOK
<1>2. FilesOK'
  BY <1>0 DEF Known, Release, Return, NoJob, TypeOK, FilesOK,
    NeverExecutablePartial, Runnable,
         Present
<1>3. Own(p)'
  BY <1>0 DEF Known, Release, Return, NoJob, TypeOK, Own, HasPlan, HasLock,
    HasFiles, StageGood, TargetThere, ReplacesSeen,
         CommitKnown, RightPlatform
<1>4. OnlyBy(p)
  BY <1>0 DEF Known, Release, Return, NoJob, TypeOK, OnlyBy
<1> QED BY <1>1, <1>2, <1>3, <1>4 DEF StepOK

(* Cancelling a context changes no file.                                   *)
LEMMA CancelStep ==
  ASSUME NEW p \in Proc, Inv, Cancel(p)
  PROVE StepOK(p)
<1>0. Known(p) BY InvFacts
<1>1. TypeOK'
  BY <1>0 DEF Known, Cancel, TypeOK
<1>2. FilesOK'
  BY <1>0 DEF Known, Cancel, TypeOK, FilesOK, NeverExecutablePartial, Runnable,
         Present
<1>3. Own(p)'
  BY <1>0 DEF Known, Cancel, TypeOK, Own, HasPlan, HasLock, HasFiles,
    StageGood, TargetThere, ReplacesSeen,
         CommitKnown, RightPlatform
<1>4. OnlyBy(p)
  BY <1>0 DEF Known, Cancel, TypeOK, OnlyBy
<1> QED BY <1>1, <1>2, <1>3, <1>4 DEF StepOK

(* A start changes no file.                                                *)
LEMMA StartStep ==
  ASSUME NEW p \in Proc, Inv, Start(p)
  PROVE StepOK(p)
<1>0. Known(p) BY InvFacts
<1>1. TypeOK'
  BY <1>0 DEF Known, Start, TypeOK, File
<1>2. FilesOK'
  BY <1>0 DEF Known, Start, TypeOK, FilesOK, NeverExecutablePartial, Runnable,
         Present
<1>3. Own(p)'
  BY <1>0 DEF Known, Start, TypeOK, Own, HasPlan, HasLock, HasFiles,
    StageGood, TargetThere, ReplacesSeen,
         CommitKnown, RightPlatform
<1>4. OnlyBy(p)
  BY <1>0 DEF Known, Start, TypeOK, OnlyBy
<1> QED BY <1>1, <1>2, <1>3, <1>4 DEF StepOK

(* A killed process frees its locks and leaves its files as they are.      *)
LEMMA CrashStep ==
  ASSUME NEW p \in Proc, Inv, Crash(p)
  PROVE StepOK(p)
<1>0. Known(p) BY InvFacts
<1>1. TypeOK'
  BY <1>0, NoJobTyped DEF Known, Crash, TypeOK, Bytes, Content
<1>2. FilesOK'
  BY <1>0 DEF Known, Crash, NoJob, TypeOK, FilesOK, NeverExecutablePartial,
    Runnable,
         Present
<1>3. Own(p)'
  BY <1>0 DEF Known, Crash, NoJob, TypeOK, Own, HasPlan, HasLock, HasFiles,
    StageGood, TargetThere, ReplacesSeen,
         CommitKnown, RightPlatform
<1>4. OnlyBy(p)
  BY <1>0 DEF Known, Crash, NoJob, TypeOK, OnlyBy
<1> QED BY <1>1, <1>2, <1>3, <1>4 DEF StepOK

(* cleanupStaleBackups runs under the lock and never deletes the only      *)
(* copy: the executable is at its path.                                    *)
LEMMA SweepBackupsStep ==
  ASSUME NEW p \in Proc, Inv, SweepBackups(p)
  PROVE StepOK(p)
<1> DEFINE t == plan[p].path
<1>0. Known(p) /\ t \in Path BY InvFacts DEF Known, SweepBackups
<1>1. PICK kept \in SUBSET Present(backups, t) :
        /\ backups' = KeepOnly(backups, t, kept)
        /\ \/ /\ job' = [job EXCEPT ![p].swept = kept # {}]
              /\ Goto(p, "sweepStages")
           \/ Abort(p)
  BY DEF SweepBackups
<1>2. /\ backups' \in [Path -> [Name -> File \cup {None}]]
      /\ \A u \in Path \ {t} : backups'[u] = backups[u]
      /\ \A u \in Path, n \in Name : backups'[u][n] \in {backups[u][n], None}
  <2>1. backups \in [Path -> [Name -> File \cup {None}]]
    BY <1>0 DEF Known, TypeOK
  <2> QED BY <1>0, <1>1, <2>1 DEF KeepOnly
<1>3. ASSUME Abort(p) PROVE TypeOK' /\ Own(p)' /\ OnlyBy(p)
  <2>1. TypeOK'
    BY <1>0, <1>2, <1>3, AbortFacts DEF Known, SweepBackups, TypeOK
  <2>2. Own(p)'
    BY <1>0, <1>3, AbortOwn DEF SweepBackups
  <2>3. OnlyBy(p)
    BY <1>0, <1>2, <1>3, AbortFacts DEF Known, SweepBackups, OnlyBy, TypeOK
  <2> QED BY <2>1, <2>2, <2>3
<1>4. ASSUME job' = [job EXCEPT ![p].swept = kept # {}], Goto(p, "sweepStages")
      PROVE TypeOK' /\ Own(p)' /\ OnlyBy(p)
  <2>0. job' \in [Proc -> Job]
    BY <1>0, <1>4, JobFields DEF Known, TypeOK
  <2>1. TypeOK'
    BY <1>0, <1>2, <1>4, <2>0 DEF Known, SweepBackups, TypeOK
  <2>2. Own(p)'
    <3>1. job'[p].committed = job[p].committed
      BY <1>0, <1>4 DEF Known, TypeOK, Job
    <3> QED BY <1>0, <1>4, <3>1 DEF Known, SweepBackups, TypeOK, Own, HasPlan,
      HasLock, HasFiles,
     StageGood, TargetThere, ReplacesSeen, CommitKnown, RightPlatform
  <2>3. OnlyBy(p)
    BY <1>0, <1>2, <1>4 DEF Known, SweepBackups, OnlyBy, TypeOK
  <2> QED BY <2>1, <2>2, <2>3
<1>5. FilesOK'
  <2>1. target[t] # None
    BY <1>0 DEF Known, Own, TargetThere, SweepBackups
  <2>2. \A u \in Path : target[u] = None => Present(backups', u) # {}
    BY <1>0, <1>2, <2>1 DEF Known, FilesOK, Present
  <2> QED BY <1>0, <1>2, <2>2 DEF Known, SweepBackups, FilesOK,
    NeverExecutablePartial, Runnable, Present
<1> QED BY <1>1, <1>3, <1>4, <1>5 DEF StepOK

(* cleanupStaleStages only removes stages beside the locked executable.    *)
LEMMA SweepStagesStep ==
  ASSUME NEW p \in Proc, Inv, SweepStages(p)
  PROVE StepOK(p)
<1> DEFINE t == plan[p].path
<1>0. Known(p) /\ t \in Path BY InvFacts DEF Known, SweepStages
<1>1. /\ stages' \in [Path -> [Name -> File \cup {None}]]
      /\ \A u \in Path \ {t} : stages'[u] = stages[u]
      /\ \A u \in Path, n \in Name : stages'[u][n] \in {stages[u][n], None}
  <2>1. stages \in [Path -> [Name -> File \cup {None}]]
    BY <1>0 DEF Known, TypeOK
  <2>2. \E kept : stages' = KeepOnly(stages, t, kept)
    BY DEF SweepStages
  <2> QED BY <1>0, <2>1, <2>2 DEF KeepOnly
<1>2. TypeOK'
  BY <1>0, <1>1, AbortFacts DEF Known, SweepStages, TypeOK
<1>3. FilesOK'
  BY <1>0, <1>1 DEF Known, SweepStages, FilesOK, NeverExecutablePartial,
    Runnable, Present
<1>4. Own(p)'
  <2>1. CASE Abort(p)
    BY <1>0, <2>1, AbortOwn DEF SweepStages
  <2>2. CASE ~Abort(p)
    BY <1>0, <2>2 DEF Known, SweepStages, TypeOK, Own, HasPlan, HasLock,
      HasFiles,
     StageGood, TargetThere, ReplacesSeen, CommitKnown, RightPlatform
  <2> QED BY <2>1, <2>2
<1>5. OnlyBy(p)
  BY <1>0, <1>1, AbortFacts DEF Known, SweepStages, OnlyBy, TypeOK
<1> QED BY <1>2, <1>3, <1>4, <1>5 DEF StepOK

(* cleanupStaleArchives only removes archives beside the locked            *)
(* executable.                                                             *)
LEMMA SweepArchivesStep ==
  ASSUME NEW p \in Proc, Inv, SweepArchives(p)
  PROVE StepOK(p)
<1> DEFINE t == plan[p].path
<1>0. Known(p) /\ t \in Path BY InvFacts DEF Known, SweepArchives
<1>1. /\ archives' \in [Path -> [Name -> Bytes \cup {None}]]
      /\ \A u \in Path \ {t} : archives'[u] = archives[u]
  <2>1. archives \in [Path -> [Name -> Bytes \cup {None}]]
    BY <1>0 DEF Known, TypeOK
  <2>2. \E kept : archives' = KeepOnly(archives, t, kept)
    BY DEF SweepArchives
  <2> QED BY <1>0, <2>1, <2>2 DEF KeepOnly
<1>2. TypeOK'
  BY <1>0, <1>1, AbortFacts DEF Known, SweepArchives, TypeOK
<1>3. FilesOK'
  BY <1>0 DEF Known, SweepArchives, FilesOK, NeverExecutablePartial, Runnable,
    Present
<1>4. Own(p)'
  <2>1. CASE Abort(p)
    BY <1>0, <2>1, AbortOwn DEF SweepArchives
  <2>2. CASE ~Abort(p)
    BY <1>0, <2>2 DEF Known, SweepArchives, TypeOK, Own, HasPlan, HasLock,
      HasFiles,
     StageGood, TargetThere, ReplacesSeen, CommitKnown, RightPlatform
  <2> QED BY <2>1, <2>2
<1>5. OnlyBy(p)
  BY <1>0, <1>1, AbortFacts DEF Known, SweepArchives, OnlyBy, TypeOK
<1> QED BY <1>2, <1>3, <1>4, <1>5 DEF StepOK

(* createArchiveFile makes a file under a fresh name.                      *)
LEMMA CreateArchiveStep ==
  ASSUME NEW p \in Proc, Inv, CreateArchive(p)
  PROVE StepOK(p)
<1> DEFINE t == plan[p].path
<1>0. Known(p) /\ t \in Path BY InvFacts DEF Known, CreateArchive
<1>1. PICK n \in Name : /\ archives' = [archives EXCEPT ![t][n] = Corrupt]
                        /\ job' = [job EXCEPT ![p].archive = n]
  BY DEF CreateArchive
<1>2. job' \in [Proc -> Job]
  BY <1>0, <1>1, JobFields DEF Known, TypeOK
<1>3. job'[p].archive = n /\ job'[p].committed = job[p].committed
  BY <1>0, <1>1 DEF Known, TypeOK, Job
<1>4. /\ archives' \in [Path -> [Name -> Bytes \cup {None}]]
      /\ archives'[t][n] # None
  BY <1>0, <1>1 DEF Known, TypeOK
<1>5. TypeOK'
  BY <1>0, <1>2, <1>4 DEF Known, CreateArchive, TypeOK
<1>6. FilesOK'
  BY <1>0 DEF Known, CreateArchive, FilesOK, NeverExecutablePartial, Runnable,
    Present
<1>7. Own(p)'
  BY <1>0, <1>3, <1>4 DEF Known, CreateArchive, TypeOK, Own, HasPlan, HasLock,
    HasFiles,
     StageGood, TargetThere, ReplacesSeen, CommitKnown, RightPlatform
<1>8. OnlyBy(p)
  BY <1>0, <1>1 DEF Known, CreateArchive, OnlyBy, TypeOK
<1> QED BY <1>5, <1>6, <1>7, <1>8 DEF StepOK

(* createStageFile makes a file that is not executable.                    *)
LEMMA CreateStageStep ==
  ASSUME NEW p \in Proc, Inv, CreateStage(p)
  PROVE StepOK(p)
<1> DEFINE t == plan[p].path
           f == [content |-> Corrupt, exec |-> FALSE, hidden |-> FALSE]
<1>0. Known(p) /\ t \in Path BY InvFacts DEF Known, CreateStage
<1>1. PICK n \in Name : /\ stages' = [stages EXCEPT ![t][n] = f]
                        /\ job' = [job EXCEPT ![p].stage = n]
  BY DEF CreateStage
<1>2. job' \in [Proc -> Job]
  BY <1>0, <1>1, JobFields DEF Known, TypeOK
<1>3. /\ job'[p].stage = n /\ job'[p].archive = job[p].archive
      /\ job'[p].committed = job[p].committed
  BY <1>0, <1>1 DEF Known, TypeOK, Job
<1>4. f \in File /\ f # None /\ ~f.exec
  <2>1. f \in File BY <1>0 DEF Known, File
  <2> QED BY <1>0, <2>1 DEF Known
<1>5. /\ stages' \in [Path -> [Name -> File \cup {None}]]
      /\ stages'[t][n] = f
      /\ \A u \in Path, m \in Name : u # t \/ m # n => stages'[u][m] = stages[u][m]
  <2>1. stages \in [Path -> [Name -> File \cup {None}]] BY <1>0 DEF Known,
    TypeOK
  <2> HIDE DEF f
  <2> QED BY <1>0, <1>1, <1>4, <2>1, PutIs
<1> HIDE DEF f
<1>6. TypeOK'
  BY <1>0, <1>2, <1>5 DEF Known, CreateStage, TypeOK
<1>7. FilesOK'
  BY <1>0, <1>4, <1>5 DEF Known, CreateStage, FilesOK, NeverExecutablePartial,
    Runnable, Present
<1>8. Own(p)'
  BY <1>0, <1>3, <1>4, <1>5 DEF Known, CreateStage, TypeOK, Own, HasPlan,
    HasLock, HasFiles,
     StageGood, TargetThere, ReplacesSeen, CommitKnown, RightPlatform
<1>9. OnlyBy(p)
  BY <1>0, <1>1 DEF Known, CreateStage, OnlyBy, TypeOK
<1> QED BY <1>6, <1>7, <1>8, <1>9 DEF StepOK

(* The extraction writes the verified archive's bytes to p's stage.        *)
LEMMA ExtractStep ==
  ASSUME NEW p \in Proc, Inv, Extract(p)
  PROVE StepOK(p)
<1> DEFINE t == plan[p].path
           n == job[p].stage
           f == stages[t][n]
           g == [f EXCEPT !.content = archives[t][job[p].archive]]
<1>0. /\ Known(p) /\ t \in Path /\ n \in Name /\ f \in File
      /\ stages \in [Path -> [Name -> File \cup {None}]]
  BY InvFacts DEF Known, Extract, Own, HasFiles, TypeOK
<1>1. g \in File /\ g.content = plan[p].version
  <2>1. /\ archives[t][job[p].archive] = plan[p].version
        /\ plan[p].version \in Bytes
    BY <1>0 DEF Known, Extract, Own, StageGood
  <2>2. \A b \in Bytes : LET k == [f EXCEPT !.content = b] IN
          k \in File /\ k.content = b
    BY <1>0 DEF File
  <2> QED BY <2>1, <2>2
<1>2. stages' = [stages EXCEPT ![t][n] = g]
  BY <1>0 DEF Extract
<1> HIDE DEF g
<1>3. /\ stages' \in [Path -> [Name -> File \cup {None}]]
      /\ stages'[t][n] = g /\ g # None
      /\ \A u \in Path, m \in Name : u # t \/ m # n => stages'[u][m] = stages[u][m]
  BY <1>0, <1>1, <1>2, PutIs DEF Known
<1>4. TypeOK'
  BY <1>0, <1>3 DEF Known, Extract, TypeOK
<1>5. FilesOK'
  <2>1. \A u \in Path, m \in Name :
          stages'[u][m] # None /\ stages'[u][m].exec => stages'[u][m].content \in Version
    <3> TAKE u \in Path, m \in Name
    <3>1. CASE u = t /\ m = n
      BY <1>0, <1>1, <1>3, <3>1 DEF Known, Extract
    <3>2. CASE u # t \/ m # n
      BY <1>0, <1>3, <3>2 DEF Known, FilesOK, NeverExecutablePartial
    <3> QED BY <3>1, <3>2
  <2>2. NeverExecutablePartial'
    BY <2>1 DEF NeverExecutablePartial
  <2>3. target' = target /\ backups' = backups
    BY DEF Extract
  <2> QED BY <1>0, <2>2, <2>3, OtherFilesKept DEF Known
<1>6. Own(p)'
  <2>0. /\ target' = target /\ archives' = archives /\ backups' = backups
        /\ lock' = lock /\ plan' = plan /\ job' = job /\ snap' = snap
        /\ swapped' = swapped
        /\ pc[p] = "extract" /\ pc'[p] = "chmod"
    BY <1>0 DEF Known, Extract, Goto, TypeOK
  <2>1. HasPlan(p)' /\ HasLock(p)'
    BY <1>0, <2>0 DEF Known, Own, HasPlan, HasLock, InApply, Holding, Prelude
  <2>2. HasFiles(p)'
    BY <1>0, <1>3, <2>0 DEF Known, Own, HasFiles, NeedsArchive, NeedsStage,
      NeedsBackup
  <2>3. StageGood(p)'
    BY <1>0, <1>1, <1>3, <2>0 DEF Known, Own, StageGood, NeedsStage
  <2>4. TargetThere(p)' /\ ReplacesSeen(p)'
    BY <2>0 DEF TargetThere, ReplacesSeen
  <2>5. CommitKnown(p)' /\ RightPlatform(p)'
    BY <1>0, <2>0 DEF Known, Own, CommitKnown, RightPlatform, Point, InApply,
      Holding, Prelude
  <2> QED BY <2>1, <2>2, <2>3, <2>4, <2>5 DEF Own
<1>7. OnlyBy(p)
  <2>1. \A u \in Path \ {t} : stages'[u] = stages[u] BY <1>0, <1>2
  <2>2. /\ \A q \in Proc \ {p} : pc'[q] = pc[q]
        /\ lock[t] = p
    BY <1>0 DEF Known, Extract, TypeOK
  <2> QED BY <2>1, <2>2 DEF Extract, OnlyBy
<1> QED BY <1>4, <1>5, <1>6, <1>7 DEF StepOK

(* The chmod makes a complete stage executable.                            *)
LEMMA ChmodStageStep ==
  ASSUME NEW p \in Proc, Inv, ChmodStage(p)
  PROVE StepOK(p)
<1> DEFINE t == plan[p].path
           n == job[p].stage
           f == stages[t][n]
           g == [f EXCEPT !.exec = TRUE]
<1>0. /\ Known(p) /\ t \in Path /\ n \in Name /\ f \in File
      /\ stages \in [Path -> [Name -> File \cup {None}]]
  BY InvFacts DEF Known, ChmodStage, Own, HasFiles, TypeOK
<1>1. g \in File /\ g.content = plan[p].version /\ g.exec
  <2>1. g.content \in Bytes /\ g.exec \in BOOLEAN
    BY <1>0 DEF Known, ChmodStage, Own, StageGood, File
  <2> QED BY <1>0 DEF Known, ChmodStage, Own, StageGood, File
<1>2. stages' = [stages EXCEPT ![t][n] = g]
  BY <1>0 DEF ChmodStage
<1> HIDE DEF g
<1>3. /\ stages' \in [Path -> [Name -> File \cup {None}]]
      /\ stages'[t][n] = g /\ g # None
      /\ \A u \in Path, m \in Name : u # t \/ m # n => stages'[u][m] = stages[u][m]
  BY <1>0, <1>1, <1>2, PutIs DEF Known
<1>4. TypeOK'
  BY <1>0, <1>3 DEF Known, ChmodStage, TypeOK
<1>5. FilesOK'
  <2>1. \A u \in Path, m \in Name :
          stages'[u][m] # None /\ stages'[u][m].exec => stages'[u][m].content \in Version
    <3> TAKE u \in Path, m \in Name
    <3>1. CASE u = t /\ m = n
      BY <1>0, <1>1, <1>3, <3>1 DEF Known, ChmodStage
    <3>2. CASE u # t \/ m # n
      BY <1>0, <1>3, <3>2 DEF Known, FilesOK, NeverExecutablePartial
    <3> QED BY <3>1, <3>2
  <2>2. NeverExecutablePartial'
    BY <2>1 DEF NeverExecutablePartial
  <2>3. target' = target /\ backups' = backups
    BY DEF ChmodStage
  <2> QED BY <1>0, <2>2, <2>3, OtherFilesKept DEF Known
<1>6. Own(p)'
  <2>0. /\ target' = target /\ archives' = archives /\ backups' = backups
        /\ lock' = lock /\ plan' = plan /\ job' = job /\ snap' = snap
        /\ swapped' = swapped
        /\ pc[p] = "chmod" /\ pc'[p] = "refingerprint"
    BY <1>0 DEF Known, ChmodStage, Goto, TypeOK
  <2>1. HasPlan(p)' /\ HasLock(p)'
    BY <1>0, <2>0 DEF Known, Own, HasPlan, HasLock, InApply, Holding, Prelude
  <2>2. HasFiles(p)'
    BY <1>0, <1>3, <2>0 DEF Known, Own, HasFiles, NeedsArchive, NeedsStage,
      NeedsBackup
  <2>3. StageGood(p)'
    BY <1>0, <1>1, <1>3, <2>0 DEF Known, Own, StageGood, NeedsStage
  <2>4. TargetThere(p)' /\ ReplacesSeen(p)'
    BY <2>0 DEF TargetThere, ReplacesSeen
  <2>5. CommitKnown(p)' /\ RightPlatform(p)'
    BY <1>0, <2>0 DEF Known, Own, CommitKnown, RightPlatform, Point, InApply,
      Holding, Prelude
  <2> QED BY <2>1, <2>2, <2>3, <2>4, <2>5 DEF Own
<1>7. OnlyBy(p)
  <2>1. \A u \in Path \ {t} : stages'[u] = stages[u] BY <1>0, <1>2
  <2>2. /\ \A q \in Proc \ {p} : pc'[q] = pc[q]
        /\ lock[t] = p
    BY <1>0 DEF Known, ChmodStage, TypeOK
  <2> QED BY <2>1, <2>2 DEF ChmodStage, OnlyBy
<1> QED BY <1>4, <1>5, <1>6, <1>7 DEF StepOK

(* An error or a cancellation before the replacement leaves at most p's    *)
(* own stage behind.                                                       *)
LEMMA GiveUpStep ==
  ASSUME NEW p \in Proc, Inv, pc[p] \in Prelude, GiveUp(p)
  PROVE StepOK(p)
<1> DEFINE t == plan[p].path
           n == job[p].stage
<1>0. /\ Known(p) /\ t \in Path
      /\ stages \in [Path -> [Name -> File \cup {None}]]
      /\ job \in [Proc -> Job]
  BY InvFacts DEF Known, TypeOK
<1>1. /\ job' \in [Proc -> Job] /\ job'[p].committed = job[p].committed
      /\ \A q \in Proc \ {p} : job'[q] = job[q]
  <2>1. CASE job' = [job EXCEPT ![p].err = "failed", ![p].stage = None]
    <3>1. job' \in [Proc -> Job] BY <1>0, <2>1, JobFields
    <3>2. job'[p].committed = job[p].committed BY <1>0, <2>1 DEF Job
    <3>3. \A q \in Proc \ {p} : job'[q] = job[q] BY <1>0, <2>1
    <3> QED BY <3>1, <3>2, <3>3
  <2>2. CASE job' = [job EXCEPT ![p].err = "failed"]
    <3>1. job' \in [Proc -> Job] BY <1>0, <2>2, JobFields
    <3>2. job'[p].committed = job[p].committed BY <1>0, <2>2 DEF Job
    <3>3. \A q \in Proc \ {p} : job'[q] = job[q] BY <1>0, <2>2
    <3> QED BY <3>1, <3>2, <3>3
  <2> QED BY <2>1, <2>2 DEF GiveUp
<1>2. /\ stages' \in [Path -> [Name -> File \cup {None}]]
      /\ \A u \in Path \ {t} : stages'[u] = stages[u]
      /\ \A u \in Path, m \in Name : stages'[u][m] \in {stages[u][m], None}
  <2>1. CASE stages' = stages BY <1>0, <2>1
  <2>2. CASE stages' = [stages EXCEPT ![t][n] = None] BY <1>0, <2>2
  <2> QED BY <2>1, <2>2 DEF GiveUp
<1>3. TypeOK'
  BY <1>0, <1>1, <1>2 DEF Known, GiveUp, TypeOK
<1>4. FilesOK'
  BY <1>0, <1>2 DEF Known, GiveUp, FilesOK, NeverExecutablePartial, Runnable,
    Present
<1>5. Own(p)'
  BY <1>0, <1>1 DEF Known, GiveUp, TypeOK, Own, HasPlan, HasLock, HasFiles,
     StageGood, TargetThere, ReplacesSeen, CommitKnown, RightPlatform
<1>6. OnlyBy(p)
  BY <1>0, <1>1, <1>2 DEF Known, GiveUp, TypeOK, OnlyBy
<1> QED BY <1>3, <1>4, <1>5, <1>6 DEF StepOK

(* What renaming the stage onto the executable does.                       *)
StageMoved(p, t) ==
  /\ target' \in [Path -> File \cup {None}]
  /\ stages' \in [Path -> [Name -> File \cup {None}]]
  /\ target'[t] # None /\ Runnable(target'[t])
  /\ \A u \in Path \ {t} : target'[u] = target[u] /\ stages'[u] = stages[u]
  /\ \A u \in Path, m \in Name : stages'[u][m] \in {stages[u][m], None}
  /\ swapped' \in [Proc -> BOOLEAN] /\ swapped'[p]
  /\ \A q \in Proc \ {p} : swapped'[q] = swapped[q]

(* Renaming the stage puts a runnable file at the executable's path.       *)
LEMMA MoveStageFacts ==
  ASSUME NEW p \in Proc, Known(p), NEW t, t = plan[p].path,
         pc[p] \in {"replace", "install"}, MoveStage(p, t)
  PROVE StageMoved(p, t)
<1> DEFINE n == job[p].stage
<1>1. /\ t \in Path /\ n \in Name /\ stages[t][n] \in File
      /\ stages[t][n].exec /\ stages[t][n].content = plan[p].version
      /\ plan[p].version # Corrupt /\ None \notin File
      /\ target \in [Path -> File \cup {None}]
      /\ stages \in [Path -> [Name -> File \cup {None}]]
      /\ swapped \in [Proc -> BOOLEAN]
  BY DEF Known, Own, HasFiles, StageGood, TypeOK
<1>2. /\ target' \in [Path -> File \cup {None}]
      /\ target'[t] = stages[t][n]
      /\ \A u \in Path \ {t} : target'[u] = target[u]
  BY <1>1 DEF MoveStage
<1>3. /\ stages' \in [Path -> [Name -> File \cup {None}]]
      /\ \A u \in Path \ {t} : stages'[u] = stages[u]
      /\ \A u \in Path, m \in Name : stages'[u][m] \in {stages[u][m], None}
  BY <1>1 DEF MoveStage
<1>4. /\ swapped' \in [Proc -> BOOLEAN] /\ swapped'[p]
      /\ \A q \in Proc \ {p} : swapped'[q] = swapped[q]
  BY <1>1 DEF MoveStage
<1> QED BY <1>1, <1>2, <1>3, <1>4 DEF StageMoved, Runnable

(* The rename of replace_unix.go replaces the executable at once.          *)
LEMMA RenameStageStep ==
  ASSUME NEW p \in Proc, Inv, RenameStage(p)
  PROVE StepOK(p)
<1> DEFINE t == plan[p].path
<1>0. Known(p) /\ t \in Path BY InvFacts DEF Known, RenameStage
<1>m. StageMoved(p, t) BY <1>0, MoveStageFacts DEF RenameStage
<1>1. TypeOK'
  BY <1>0, <1>m DEF Known, StageMoved, RenameStage, TypeOK
<1>2. FilesOK'
  <2>1. NeverExecutablePartial'
    BY <1>0, <1>m DEF Known, StageMoved, FilesOK, NeverExecutablePartial
  <2>2. \A u \in Path : /\ target'[u] # None => Runnable(target'[u])
                        /\ target'[u] = None => target[u] = None
    BY <1>0, <1>m DEF Known, StageMoved, FilesOK
  <2>3. backups' = backups
    BY <1>0, <1>m DEF RenameStage
  <2> QED BY <1>0, <2>1, <2>2, <2>3 DEF Known, FilesOK, Present, Runnable
<1>3. Own(p)'
  BY <1>0, <1>m DEF Known, StageMoved, RenameStage, TypeOK, Own, HasPlan,
    HasLock, HasFiles,
     StageGood, TargetThere, ReplacesSeen, CommitKnown, RightPlatform
<1>4. OnlyBy(p)
  BY <1>0, <1>m DEF Known, StageMoved, RenameStage, TypeOK, OnlyBy
<1> QED BY <1>1, <1>2, <1>3, <1>4 DEF StepOK

(* The second rename of replace_windows.go fills the gap or hands over to  *)
(* the rollback.                                                           *)
LEMMA InstallStageStep ==
  ASSUME NEW p \in Proc, Inv, InstallStage(p)
  PROVE StepOK(p)
<1> DEFINE t == plan[p].path
<1>0. Known(p) /\ t \in Path BY InvFacts DEF Known, InstallStage
<1>1. CASE MoveStage(p, t) /\ Goto(p, "drop")
  <2>0. StageMoved(p, t) BY <1>0, <1>1, MoveStageFacts DEF InstallStage
  <2>1. TypeOK'
    BY <1>0, <1>1, <2>0 DEF Known, StageMoved, InstallStage, TypeOK
  <2>2. FilesOK'
    <3>1. NeverExecutablePartial'
      BY <1>0, <1>1, <2>0 DEF Known, StageMoved, FilesOK,
        NeverExecutablePartial
    <3>2. \A u \in Path : /\ target'[u] # None => Runnable(target'[u])
                          /\ target'[u] = None => target[u] = None
      BY <1>0, <1>1, <2>0 DEF Known, StageMoved, FilesOK
    <3>3. backups' = backups
      BY <1>0, <1>1, <2>0 DEF InstallStage
    <3> QED BY <1>0, <3>1, <3>2, <3>3 DEF Known, FilesOK, Present, Runnable
  <2>3. Own(p)'
    BY <1>0, <1>1, <2>0 DEF Known, StageMoved, InstallStage, TypeOK, Own,
      HasPlan, HasLock, HasFiles,
     StageGood, TargetThere, ReplacesSeen, CommitKnown, RightPlatform
  <2>4. OnlyBy(p)
    BY <1>0, <1>1, <2>0 DEF Known, StageMoved, InstallStage, TypeOK, OnlyBy
  <2> QED BY <2>1, <2>2, <2>3, <2>4 DEF StepOK
<1>2. CASE Goto(p, "rollback") /\ UNCHANGED <<target, stages, swapped>>
  <2>1. TypeOK'
    BY <1>0, <1>2 DEF Known, InstallStage, TypeOK
  <2>2. FilesOK'
    BY <1>0, <1>2 DEF Known, InstallStage, FilesOK, NeverExecutablePartial,
      Runnable, Present
  <2>3. Own(p)'
    BY <1>0, <1>2 DEF Known, InstallStage, TypeOK, Own, HasPlan, HasLock,
      HasFiles,
     StageGood, TargetThere, ReplacesSeen, CommitKnown, RightPlatform
  <2>4. OnlyBy(p)
    BY <1>0, <1>2 DEF Known, InstallStage, TypeOK, OnlyBy
  <2> QED BY <2>1, <2>2, <2>3, <2>4 DEF StepOK
<1> QED BY <1>1, <1>2 DEF InstallStage

(* Moving an image keeps its type.                                         *)
LEMMA MoveImagesTyped ==
  ASSUME TypeOK, NEW t \in Path, NEW f \in Name \cup {None},
         NEW g \in Name \cup {None}, MoveImages(t, f, g)
  PROVE img' \in [Proc -> (Path \X (Name \cup {None})) \cup {None}]
BY DEF TypeOK, MoveImages

(* The first rename of replace_windows.go leaves a runnable backup.        *)
LEMMA MoveAsideStep ==
  ASSUME NEW p \in Proc, Inv, MoveAside(p)
  PROVE StepOK(p)
<1> DEFINE t == plan[p].path
<1>0. /\ Known(p) /\ t \in Path /\ target[t] \in File /\ Runnable(target[t])
      /\ target \in [Path -> File \cup {None}]
      /\ backups \in [Path -> [Name -> File \cup {None}]]
      /\ job \in [Proc -> Job]
  BY InvFacts DEF Known, TypeOK, FilesOK, MoveAside
<1>1. PICK n \in Name : /\ backups' = [backups EXCEPT ![t][n] = target[t]]
                        /\ job' = [job EXCEPT ![p].backup = n]
                        /\ MoveImages(t, None, n)
  BY DEF MoveAside
<1>2. job' \in [Proc -> Job] BY <1>0, <1>1, JobFields
<1>3. /\ job'[p].backup = n /\ job'[p].stage = job[p].stage
      /\ job'[p].committed = job[p].committed
  BY <1>0, <1>1 DEF Job
<1>4. /\ backups' \in [Path -> [Name -> File \cup {None}]]
      /\ backups'[t][n] = target[t]
      /\ \A u \in Path, m \in Name : u # t \/ m # n => backups'[u][m] = backups[u][m]
  BY <1>0, <1>1, PutIs
<1>5. /\ target' \in [Path -> File \cup {None}]
      /\ \A u \in Path \ {t} : target'[u] = target[u]
      /\ target'[t] = None
  BY <1>0 DEF MoveAside
<1>6. TypeOK'
  BY <1>0, <1>1, <1>2, <1>4, <1>5, MoveImagesTyped DEF Known, MoveAside, TypeOK
<1>7. FilesOK'
  <2>1. NeverExecutablePartial'
    BY <1>0 DEF Known, MoveAside, FilesOK, NeverExecutablePartial
  <2>2. \A u \in Path : target'[u] # None => Runnable(target'[u])
    BY <1>0, <1>5 DEF Known, FilesOK
  <2>3. \A u \in Path, m \in Name : backups'[u][m] # None => Runnable(backups'[u][m])
    BY <1>0, <1>4 DEF Known, FilesOK
  <2>4. \A u \in Path : target'[u] = None => Windows /\ Present(backups', u) # {}
    <3> TAKE u \in Path
    <3>1. CASE u = t
      BY <1>0, <1>4, <3>1 DEF MoveAside, Known, Present
    <3>2. CASE u # t
      BY <1>0, <1>4, <1>5, <3>2 DEF Known, FilesOK, Present
    <3> QED BY <3>1, <3>2
  <2> QED BY <2>1, <2>2, <2>3, <2>4 DEF FilesOK, Runnable, Present
<1>8. Own(p)'
  <2>0. /\ stages' = stages /\ archives' = archives /\ lock' = lock
        /\ plan' = plan /\ snap' = snap /\ swapped' = swapped
        /\ pc[p] = "replace" /\ pc'[p] = "hide" /\ Windows
    BY <1>0 DEF Known, MoveAside, TypeOK
  <2>1. HasPlan(p)' /\ HasLock(p)'
    BY <1>0, <2>0 DEF Known, Own, HasPlan, HasLock
  <2>2. HasFiles(p)' /\ StageGood(p)'
    BY <1>0, <1>1, <1>3, <1>4, <2>0 DEF Known, Own, HasFiles, StageGood
  <2>3. ReplacesSeen(p)'
    BY <1>0, <1>3, <1>4, <2>0 DEF Known, Own, ReplacesSeen
  <2>4. CommitKnown(p)' /\ RightPlatform(p)' /\ TargetThere(p)'
    BY <1>0, <1>3, <2>0 DEF Known, Own, CommitKnown, RightPlatform, TargetThere
  <2> QED BY <2>1, <2>2, <2>3, <2>4 DEF Own
<1>9. OnlyBy(p)
  <2>1. \A u \in Path \ {t} : backups'[u] = backups[u] BY <1>0, <1>1
  <2>2. \A q \in Proc \ {p} : pc'[q] = pc[q] /\ job'[q] = job[q]
    BY <1>0, <1>1 DEF Known, MoveAside, TypeOK
  <2>3. lock[t] = p BY <1>0 DEF Known, MoveAside
  <2> QED BY <1>5, <2>1, <2>2, <2>3 DEF MoveAside, OnlyBy
<1> QED BY <1>6, <1>7, <1>8, <1>9 DEF StepOK

(* Hiding the backup leaves its bytes and mode.                            *)
LEMMA HideBackupStep ==
  ASSUME NEW p \in Proc, Inv, HideBackup(p)
  PROVE StepOK(p)
<1> DEFINE t == plan[p].path
           n == job[p].backup
           f == backups[t][n]
           g == [f EXCEPT !.hidden = TRUE]
<1>0. /\ Known(p) /\ t \in Path /\ n \in Name /\ f \in File /\ Runnable(f)
      /\ backups \in [Path -> [Name -> File \cup {None}]]
  <2>1. Known(p) /\ t \in Path /\ n \in Name
    BY InvFacts DEF Known, HideBackup, Own, HasFiles
  <2>2. backups \in [Path -> [Name -> File \cup {None}]] /\ f # None
    BY <2>1 DEF Known, HideBackup, Own, HasFiles, TypeOK
  <2>3. Runnable(f) BY <2>1, <2>2 DEF Known, FilesOK
  <2> QED BY <2>1, <2>2, <2>3
<1>1. g \in File /\ g.content = f.content /\ g.exec = f.exec
  BY <1>0 DEF File
<1>2. g # None /\ Runnable(g)
  BY <1>0, <1>1 DEF Known, Runnable
<1>3. backups' = backups \/ backups' = [backups EXCEPT ![t][n] = g]
  BY <1>0 DEF HideBackup
<1> HIDE DEF g
<1>4. /\ backups' \in [Path -> [Name -> File \cup {None}]]
      /\ backups'[t][n] # None /\ backups'[t][n].content = f.content
      /\ \A u \in Path, m \in Name :
           \/ backups'[u][m] = backups[u][m]
           \/ u = t /\ m = n /\ backups'[u][m] = g
  <2>1. CASE backups' = backups BY <1>0, <2>1 DEF Known
  <2>2. CASE backups' = [backups EXCEPT ![t][n] = g]
    <3>1. g \in File \cup {None} /\ g.content = f.content
      BY <1>1
    <3>2. /\ backups' \in [Path -> [Name -> File \cup {None}]]
          /\ backups'[t][n] = g
          /\ \A u \in Path, m \in Name :
               u # t \/ m # n => backups'[u][m] = backups[u][m]
      BY <1>0, <2>2, <3>1, PutIs
    <3> QED BY <1>2, <3>1, <3>2
  <2> QED BY <1>3, <2>1, <2>2
<1>5. TypeOK'
  BY <1>0, <1>4 DEF Known, HideBackup, TypeOK
<1>6. FilesOK'
  <2>1. NeverExecutablePartial'
    BY <1>0 DEF Known, HideBackup, FilesOK, NeverExecutablePartial
  <2>2. \A u \in Path, m \in Name : backups'[u][m] # None => Runnable(backups'[u][m])
    BY <1>0, <1>2, <1>4 DEF Known, FilesOK
  <2>3. \A u \in Path : Present(backups', u) = Present(backups, u)
    BY <1>0, <1>2, <1>4 DEF Known, Present
  <2>4. target' = target BY DEF HideBackup
  <2> QED BY <1>0, <2>1, <2>2, <2>3, <2>4 DEF Known, FilesOK, Runnable, Present
<1>7. Own(p)'
  <2>0. /\ target' = target /\ stages' = stages /\ archives' = archives
        /\ lock' = lock /\ plan' = plan /\ job' = job /\ snap' = snap
        /\ swapped' = swapped
        /\ pc[p] = "hide" /\ pc'[p] \in {"install", "rollback"}
    BY <1>0 DEF Known, HideBackup, Goto, TypeOK
  <2>1. HasPlan(p)' /\ HasLock(p)'
    BY <1>0, <2>0 DEF Known, Own, HasPlan, HasLock, InApply, Holding, Replacing
  <2>2. HasFiles(p)'
    BY <1>0, <1>4, <2>0 DEF Known, Own, HasFiles
  <2>3. StageGood(p)'
    BY <2>0, <1>0 DEF Known, Own, StageGood
  <2>4. TargetThere(p)'
    BY <2>0, <1>0 DEF Known, Own, TargetThere
  <2>5. ReplacesSeen(p)'
    BY <2>0, <1>0, <1>4 DEF Known, Own, ReplacesSeen
  <2>6. CommitKnown(p)' /\ RightPlatform(p)'
    BY <2>0, <1>0 DEF Known, Own, CommitKnown, RightPlatform
  <2> QED BY <2>1, <2>2, <2>3, <2>4, <2>5, <2>6 DEF Own
<1>8. OnlyBy(p)
  <2>1. \A u \in Path \ {t} : backups'[u] = backups[u] BY <1>0, <1>3
  <2> QED BY <1>0, <2>1 DEF Known, HideBackup, OnlyBy, TypeOK
<1> QED BY <1>5, <1>6, <1>7, <1>8 DEF StepOK

(* The rollback puts a runnable file back, or leaves the backup.           *)
LEMMA RollbackStep ==
  ASSUME NEW p \in Proc, Inv, Rollback(p)
  PROVE StepOK(p)
<1> DEFINE t == plan[p].path
           n == job[p].backup
<1>0. /\ Known(p) /\ t \in Path /\ n \in Name
      /\ backups[t][n] \in File /\ Runnable(backups[t][n])
      /\ target \in [Path -> File \cup {None}]
      /\ backups \in [Path -> [Name -> File \cup {None}]]
      /\ job \in [Proc -> Job] /\ job[p].committed \in BOOLEAN
  BY InvFacts DEF Known, Rollback, Own, HasFiles, TypeOK, FilesOK, Job
<1>1. CASE /\ target' = [target EXCEPT ![t] = backups[t][n]]
           /\ backups' = [backups EXCEPT ![t][n] = None]
           /\ MoveImages(t, n, None)
           /\ Goto(p, "unhide")
           /\ UNCHANGED job
  <2>1. /\ target' \in [Path -> File \cup {None}]
        /\ target'[t] = backups[t][n]
        /\ \A u \in Path \ {t} : target'[u] = target[u]
    BY <1>0, <1>1
  <2>2. /\ backups' \in [Path -> [Name -> File \cup {None}]]
        /\ \A u \in Path \ {t} : backups'[u] = backups[u]
        /\ \A u \in Path, m \in Name : backups'[u][m] \in {backups[u][m], None}
    BY <1>0, <1>1
  <2>3. TypeOK'
    BY <1>0, <1>1, <2>1, <2>2, MoveImagesTyped DEF Known, Rollback, TypeOK
  <2>4. FilesOK'
    <3>1. NeverExecutablePartial'
      BY <1>0 DEF Known, Rollback, FilesOK, NeverExecutablePartial
    <3>2. \A u \in Path : target'[u] # None => Runnable(target'[u])
      BY <1>0, <2>1 DEF Known, FilesOK
    <3>3. \A u \in Path, m \in Name : backups'[u][m] # None => Runnable(backups'[u][m])
      BY <1>0, <2>2 DEF Known, FilesOK
    <3>4. \A u \in Path : target'[u] = None => Windows /\ Present(backups', u) # {}
      BY <1>0, <2>1, <2>2 DEF Known, FilesOK, Present
    <3> QED BY <3>1, <3>2, <3>3, <3>4 DEF FilesOK, Runnable, Present
  <2>5. Own(p)'
    BY <1>0, <1>1 DEF Known, Rollback, TypeOK, Own, HasPlan, HasLock, HasFiles,
     StageGood, TargetThere, ReplacesSeen, CommitKnown, RightPlatform
  <2>6. OnlyBy(p)
    BY <1>0, <1>1 DEF Known, Rollback, TypeOK, OnlyBy
  <2> QED BY <2>3, <2>4, <2>5, <2>6 DEF StepOK
<1>2. CASE /\ job' = [job EXCEPT ![p].err = "rollback"]
           /\ Goto(p, "defer")
           /\ UNCHANGED <<target, backups, img>>
  <2>1. job' \in [Proc -> Job] BY <1>0, <1>2, JobFields
  <2>2. job'[p].committed = job[p].committed BY <1>0, <1>2 DEF Job
  <2>3. TypeOK'
    BY <1>0, <1>2, <2>1 DEF Known, Rollback, TypeOK
  <2>4. FilesOK'
    BY <1>0, <1>2 DEF Known, Rollback, FilesOK, NeverExecutablePartial,
      Runnable, Present
  <2>5. Own(p)'
    BY <1>0, <1>2, <2>2 DEF Known, Rollback, TypeOK, Own, HasPlan, HasLock,
      HasFiles,
     StageGood, TargetThere, ReplacesSeen, CommitKnown, RightPlatform
  <2>6. OnlyBy(p)
    BY <1>0, <1>2 DEF Known, Rollback, TypeOK, OnlyBy
  <2> QED BY <2>3, <2>4, <2>5, <2>6 DEF StepOK
<1> QED BY <1>1, <1>2 DEF Rollback

(* Clearing the hidden attribute leaves the executable's bytes and mode.   *)
LEMMA UnhideTargetStep ==
  ASSUME NEW p \in Proc, Inv, UnhideTarget(p)
  PROVE StepOK(p)
<1> DEFINE t == plan[p].path
           f == target[t]
           g == [f EXCEPT !.hidden = FALSE]
<1>0. /\ Known(p) /\ t \in Path
      /\ target \in [Path -> File \cup {None}] /\ job \in [Proc -> Job]
  BY InvFacts DEF Known, UnhideTarget, TypeOK
<1>1. PICK e \in {"failed", "rollback"} : job' = [job EXCEPT ![p].err = e]
  BY DEF UnhideTarget
<1>2. job' \in [Proc -> Job] /\ job'[p].committed = job[p].committed
  <2>1. job' \in [Proc -> Job] BY <1>0, <1>1, JobFields
  <2>2. job'[p].committed = job[p].committed BY <1>0, <1>1 DEF Job
  <2> QED BY <2>1, <2>2
<1>3. /\ target' \in [Path -> File \cup {None}]
      /\ \A u \in Path \ {t} : target'[u] = target[u]
      /\ (target'[t] = None) <=> (target[t] = None)
      /\ target[t] # None => Runnable(target'[t])
  <2>1. CASE target' = target BY <1>0, <2>1 DEF Known, FilesOK
  <2>2. CASE target[t] # None /\ target' = [target EXCEPT ![t].hidden = FALSE]
    <3>1. f \in File /\ Runnable(f) BY <1>0, <2>2 DEF Known, FilesOK
    <3>2. g \in File /\ g.content = f.content /\ g.exec = f.exec
      BY <3>1 DEF File
    <3>3. g # None /\ Runnable(g) BY <1>0, <3>1, <3>2 DEF Known, Runnable
    <3>4. target' = [target EXCEPT ![t] = g] BY <1>0, <2>2
    <3> HIDE DEF g
    <3> QED BY <1>0, <2>2, <3>2, <3>3, <3>4
  <2> QED BY <2>1, <2>2 DEF UnhideTarget
<1>4. TypeOK'
  BY <1>0, <1>2, <1>3 DEF Known, UnhideTarget, TypeOK
<1>5. FilesOK'
  <2>1. NeverExecutablePartial'
    BY <1>0 DEF Known, UnhideTarget, FilesOK, NeverExecutablePartial
  <2>2. \A u \in Path : /\ target'[u] # None => Runnable(target'[u])
                        /\ target'[u] = None => target[u] = None
    BY <1>0, <1>3 DEF Known, FilesOK
  <2>3. backups' = backups BY DEF UnhideTarget
  <2> QED BY <1>0, <2>1, <2>2, <2>3 DEF Known, FilesOK, Present, Runnable
<1>6. Own(p)'
  BY <1>0, <1>2 DEF Known, UnhideTarget, TypeOK, Own, HasPlan, HasLock,
    HasFiles,
     StageGood, TargetThere, ReplacesSeen, CommitKnown, RightPlatform
<1>7. OnlyBy(p)
  BY <1>0, <1>1, <1>3 DEF Known, UnhideTarget, TypeOK, OnlyBy
<1> QED BY <1>4, <1>5, <1>6, <1>7 DEF StepOK

(* The backup is dropped only when the new executable is at its path.      *)
LEMMA DropBackupStep ==
  ASSUME NEW p \in Proc, Inv, DropBackup(p)
  PROVE StepOK(p)
<1> DEFINE t == plan[p].path
           n == job[p].backup
<1>0. /\ Known(p) /\ t \in Path /\ target[t] # None
      /\ backups \in [Path -> [Name -> File \cup {None}]]
      /\ job \in [Proc -> Job]
  BY InvFacts DEF Known, DropBackup, Own, TargetThere, TypeOK
<1>1. PICK e \in {"none", "failed"}, b \in BOOLEAN : Commit(p, e, b)
  BY DEF DropBackup
<1>2. /\ job' \in [Proc -> Job] /\ pc' \in [Proc -> Point]
      /\ pc'[p] = "defer" /\ job'[p].committed
      /\ \A q \in Proc \ {p} : pc'[q] = pc[q] /\ job'[q] = job[q]
  BY <1>0, <1>1, CommitTyped, CommitFacts DEF Known
<1>3. /\ backups' \in [Path -> [Name -> File \cup {None}]]
      /\ \A u \in Path \ {t} : backups'[u] = backups[u]
      /\ \A u \in Path, m \in Name : backups'[u][m] \in {backups[u][m], None}
  <2>1. CASE backups' = backups BY <1>0, <2>1
  <2>2. CASE backups' = [backups EXCEPT ![t][n] = None] BY <1>0, <2>2
  <2> QED BY <2>1, <2>2 DEF DropBackup
<1>4. TypeOK'
  BY <1>0, <1>2, <1>3 DEF Known, DropBackup, TypeOK
<1>5. FilesOK'
  <2>1. NeverExecutablePartial'
    BY <1>0 DEF Known, DropBackup, FilesOK, NeverExecutablePartial
  <2>2. target' = target BY DEF DropBackup
  <2>3. \A u \in Path, m \in Name : backups'[u][m] # None => Runnable(backups'[u][m])
    BY <1>0, <1>3 DEF Known, FilesOK
  <2>4. \A u \in Path : target[u] = None => Present(backups', u) # {}
    BY <1>0, <1>3 DEF Known, FilesOK, Present
  <2> QED BY <1>0, <2>1, <2>2, <2>3, <2>4 DEF Known, FilesOK, Runnable, Present
<1>6. Own(p)'
  BY <1>0, <1>2 DEF Known, DropBackup, TypeOK, Own, HasPlan, HasLock, HasFiles,
     StageGood, TargetThere, ReplacesSeen, CommitKnown, RightPlatform
<1>7. OnlyBy(p)
  BY <1>0, <1>2, <1>3 DEF Known, DropBackup, OnlyBy
<1> QED BY <1>4, <1>5, <1>6, <1>7 DEF StepOK

(* The deferred removal of the stage takes p's stage only.                 *)
LEMMA RemoveStageStep ==
  ASSUME NEW p \in Proc, Inv, RemoveStage(p)
  PROVE StepOK(p)
<1> DEFINE t == plan[p].path
           n == job[p].stage
<1>0. /\ Known(p) /\ t \in Path
      /\ stages \in [Path -> [Name -> File \cup {None}]]
      /\ job \in [Proc -> Job]
  BY InvFacts DEF Known, RemoveStage, TypeOK
<1>1. /\ job' \in [Proc -> Job] /\ job'[p].committed = job[p].committed
      /\ \A q \in Proc \ {p} : job'[q] = job[q]
  <2>1. CASE job' = [job EXCEPT ![p].stage = None]
    <3>1. job' \in [Proc -> Job] BY <1>0, <2>1, JobFields
    <3>2. job'[p].committed = job[p].committed BY <1>0, <2>1 DEF Job
    <3> QED BY <1>0, <2>1, <3>1, <3>2
  <2>2. CASE job' = [job EXCEPT ![p].stage = None, ![p].err = Joined(@)]
    <3>1. PICK e \in {"none", "failed", "rollback"} : e = Joined(job[p].err)
      BY DEF Joined
    <3>2. job' = [job EXCEPT ![p].stage = None, ![p].err = e] BY <1>0, <2>2,
      <3>1 DEF Job
    <3>3. job' \in [Proc -> Job] BY <1>0, <3>2, JobFields
    <3>4. job'[p].committed = job[p].committed BY <1>0, <3>2 DEF Job
    <3> QED BY <1>0, <3>2, <3>3, <3>4
  <2> QED BY <2>1, <2>2 DEF RemoveStage
<1>2. /\ stages' \in [Path -> [Name -> File \cup {None}]]
      /\ \A u \in Path \ {t} : stages'[u] = stages[u]
      /\ \A u \in Path, m \in Name : stages'[u][m] \in {stages[u][m], None}
  <2>1. CASE stages' = stages BY <1>0, <2>1
  <2>2. CASE stages' = [stages EXCEPT ![t][n] = None] BY <1>0, <2>2
  <2> QED BY <2>1, <2>2 DEF RemoveStage
<1>3. TypeOK'
  BY <1>0, <1>1, <1>2 DEF Known, RemoveStage, TypeOK
<1>4. FilesOK'
  BY <1>0, <1>2 DEF Known, RemoveStage, FilesOK, NeverExecutablePartial,
    Runnable, Present
<1>5. Own(p)'
  BY <1>0, <1>1 DEF Known, RemoveStage, TypeOK, Own, HasPlan, HasLock,
    HasFiles,
     StageGood, TargetThere, ReplacesSeen, CommitKnown, RightPlatform
<1>6. OnlyBy(p)
  BY <1>0, <1>1, <1>2 DEF Known, RemoveStage, OnlyBy
<1> QED BY <1>3, <1>4, <1>5, <1>6 DEF StepOK

(* The deferred removal of the archive takes p's archive only.             *)
LEMMA RemoveArchiveStep ==
  ASSUME NEW p \in Proc, Inv, RemoveArchive(p)
  PROVE StepOK(p)
<1> DEFINE t == plan[p].path
           n == job[p].archive
<1>0. /\ Known(p) /\ t \in Path
      /\ archives \in [Path -> [Name -> Bytes \cup {None}]]
      /\ job \in [Proc -> Job] /\ job[p] \in Job
  BY InvFacts DEF Known, RemoveArchive, TypeOK
<1>1. PICK e \in {"none", "failed", "rollback"} :
        job' = [job EXCEPT ![p].archive = None, ![p].err = e]
  <2>1. {job[p].err, Joined(job[p].err)} \subseteq {"none", "failed", "rollback"}
    BY <1>0 DEF Joined, Job
  <2>2. \E e \in {job[p].err, Joined(job[p].err)} :
          job' = [job EXCEPT ![p].archive = None, ![p].err = e]
    BY <1>0 DEF RemoveArchive
  <2> QED BY <2>1, <2>2
<1>2. /\ job' \in [Proc -> Job] /\ job'[p].committed = job[p].committed
      /\ \A q \in Proc \ {p} : job'[q] = job[q]
  <2>1. job' \in [Proc -> Job] BY <1>0, <1>1, JobFields
  <2>2. job'[p].committed = job[p].committed BY <1>0, <1>1 DEF Job
  <2> QED BY <1>0, <1>1, <2>1, <2>2
<1>3. /\ archives' \in [Path -> [Name -> Bytes \cup {None}]]
      /\ \A u \in Path \ {t} : archives'[u] = archives[u]
  <2>1. CASE archives' = archives BY <1>0, <2>1
  <2>2. CASE archives' = [archives EXCEPT ![t][n] = None] BY <1>0, <2>2
  <2> QED BY <2>1, <2>2 DEF RemoveArchive
<1>4. TypeOK'
  BY <1>0, <1>2, <1>3 DEF Known, RemoveArchive, TypeOK
<1>5. FilesOK'
  BY <1>0 DEF Known, RemoveArchive, FilesOK, NeverExecutablePartial, Runnable,
    Present
<1>6. Own(p)'
  BY <1>0, <1>2 DEF Known, RemoveArchive, TypeOK, Own, HasPlan, HasLock,
    HasFiles,
     StageGood, TargetThere, ReplacesSeen, CommitKnown, RightPlatform
<1>7. OnlyBy(p)
  BY <1>0, <1>2, <1>3 DEF Known, RemoveArchive, OnlyBy
<1> QED BY <1>4, <1>5, <1>6, <1>7 DEF StepOK

-----------------------------------------------------------------------------
(* A program that does not take the lock puts a runnable file at the path, *)
(* and from then on Apply no longer replaces what it fingerprinted.        *)
LEMMA ExternalInstallStep ==
  ASSUME NEW t \in Path, Inv, ExternalInstall(t)
  PROVE Inv'
<1> DEFINE f(c) == [content |-> c, exec |-> TRUE, hidden |-> FALSE]
<1>0. /\ TypeOK /\ FilesOK /\ \A p \in Proc : Own(p)
      /\ target \in [Path -> File \cup {None}]
  BY DEF Inv, TypeOK
<1>1. PICK c \in Outside : target' = [target EXCEPT ![t] = f(c)]
  BY DEF ExternalInstall
<1>2. f(c) \in File /\ f(c) # None /\ Runnable(f(c))
  <2>1. c \in Bytes /\ c # Corrupt
    BY ConstantsAssumption DEF Bytes, Content
  <2>2. f(c) \in File BY <2>1 DEF File
  <2> QED BY <2>1, <2>2, ConstantsAssumption DEF Runnable
<1>3. /\ target' \in [Path -> File \cup {None}]
      /\ target'[t] # None /\ Runnable(target'[t])
      /\ \A u \in Path \ {t} : target'[u] = target[u]
  <2> HIDE DEF f
  <2> QED BY <1>0, <1>1, <1>2
<1>4. TypeOK'
  <2>1. img' \in [Proc -> (Path \X (Name \cup {None})) \cup {None}]
    BY <1>0 DEF TypeOK, ExternalInstall
  <2>2. snap' \in [Proc -> File \cup {None}]
    BY <1>0 DEF TypeOK, ExternalInstall
  <2> QED BY <1>0, <1>3, <2>1, <2>2 DEF TypeOK, ExternalInstall
<1>5. FilesOK'
  <2>1. NeverExecutablePartial'
    BY <1>0 DEF ExternalInstall, FilesOK, NeverExecutablePartial
  <2>2. \A u \in Path : /\ target'[u] # None => Runnable(target'[u])
                        /\ target'[u] = None => target[u] = None
    BY <1>0, <1>3 DEF FilesOK
  <2>3. backups' = backups BY DEF ExternalInstall
  <2> QED BY <1>0, <2>1, <2>2, <2>3 DEF FilesOK, Present, Runnable
<1>6. ASSUME NEW p \in Proc PROVE Own(p)'
  <2>1. Own(p) BY <1>0
  <2>2. plan[p] # None /\ plan[p].path = t => snap'[p] = None
    BY DEF ExternalInstall
  <2>3. snap'[p] # None => snap'[p] = snap[p]
    BY DEF ExternalInstall
  <2>4. pc[p] \in Holding => plan[p] # None /\ plan[p].path \in Path
    BY <2>1, ConstantsAssumption DEF Own, HasPlan, Plan
  <2>5. TargetThere(p)'
    BY <1>3, <2>1, <2>4 DEF Own, TargetThere, ExternalInstall
  <2>6. ReplacesSeen(p)'
    <3>1. CASE snap'[p] = None BY <3>1 DEF ReplacesSeen
    <3>2. CASE snap'[p] # None /\ pc[p] \in Holding
      BY <1>3, <2>1, <2>2, <2>3, <2>4, <3>2 DEF Own, ReplacesSeen,
        ExternalInstall
    <3>3. CASE pc[p] \notin Holding BY <3>3 DEF ReplacesSeen, ExternalInstall
    <3> QED BY <3>1, <3>2, <3>3
  <2> QED BY <2>1, <2>5, <2>6 DEF ExternalInstall, Own, HasPlan, HasLock,
    HasFiles,
        StageGood, CommitKnown, RightPlatform
<1> QED BY <1>4, <1>5, <1>6 DEF Inv

(* Moving the symlink moves no lock: a call keeps the path of its plan.    *)
LEMMA RelinkStep ==
  ASSUME NEW t \in Path, Inv, Relink(t)
  PROVE Inv'
<1>1. TypeOK' BY DEF Inv, Relink, TypeOK
<1>2. FilesOK' BY DEF Inv, Relink, FilesOK, NeverExecutablePartial, Runnable,
  Present
<1>3. \A p \in Proc : Own(p)'
  BY DEF Inv, Relink, Own, HasPlan, HasLock, HasFiles,
     StageGood, TargetThere, ReplacesSeen, CommitKnown, RightPlatform
<1> QED BY <1>1, <1>2, <1>3 DEF Inv

(* A step of p that keeps to its footprint preserves the invariant.        *)
LEMMA ProcStep ==
  ASSUME NEW p \in Proc, Inv, StepOK(p)
  PROVE Inv'
BY Noninterference DEF Inv, StepOK

(* The invariant holds before the first start.                             *)
LEMMA InitInv == ASSUME Init PROVE Inv
<1>1. TypeOK
  <2>1. target \in [Path -> File \cup {None}]
    BY DEF Init, File, Bytes
  <2>2. job \in [Proc -> Job] BY NoJobTyped DEF Init
  <2>3. /\ cur \in [Proc -> Bytes] /\ applies \in [Proc -> Nat]
        /\ img \in [Proc -> (Path \X (Name \cup {None})) \cup {None}]
    BY DEF Init, Bytes, Content
  <2> QED BY <2>1, <2>2, <2>3 DEF Init, TypeOK
<1>2. FilesOK
  <2>1. NeverExecutablePartial BY DEF Init, NeverExecutablePartial
  <2>2. ASSUME NEW t \in Path PROVE target[t] # None /\ Runnable(target[t])
    <3>1. target[t] \in [content : Content, exec : {TRUE}, hidden : {FALSE}]
      BY DEF Init
    <3>2. target[t] \in File /\ target[t].exec /\ target[t].content \in Content
      BY <3>1 DEF File, Bytes
    <3> QED BY <3>2, ConstantsAssumption DEF Runnable
  <2>3. \A t \in Path, n \in Name : backups[t][n] = None BY DEF Init
  <2> QED BY <2>1, <2>2, <2>3 DEF FilesOK, Runnable
<1>3. ASSUME NEW p \in Proc PROVE Own(p)
  BY DEF Init, NoJob, Own, HasPlan, HasLock, HasFiles,
     StageGood, TargetThere, ReplacesSeen, CommitKnown, RightPlatform
<1> QED BY <1>1, <1>2, <1>3 DEF Inv

(* Every step preserves the invariant, one case per action.                *)
LEMMA NextInv == ASSUME Inv, [Next]_vars PROVE Inv'
<1>1. CASE UNCHANGED vars
  <2>1. TypeOK'
    <3>1. TypeOK BY DEF Inv
    <3> QED BY <1>1, <3>1 DEF TypeOK, vars
  <2>2. FilesOK' BY <1>1 DEF Inv, vars, FilesOK, NeverExecutablePartial,
    Runnable, Present
  <2>3. \A p \in Proc : Own(p)'
    BY <1>1 DEF Inv, vars, Own, HasPlan, HasLock, HasFiles,
     StageGood, TargetThere, ReplacesSeen, CommitKnown, RightPlatform
  <2> QED BY <2>1, <2>2, <2>3 DEF Inv
<1>2. ASSUME NEW p \in Proc, Check(p) \/ FingerprintPlan(p) \/ BeginApply(p)
      PROVE Inv'
  BY <1>2, CheckStep, FingerprintPlanStep, BeginApplyStep, ProcStep
<1>3. ASSUME NEW p \in Proc, Step(p) PROVE Inv'
  <2>1. CASE Acquire(p) \/ StopWaiting(p)
    BY <2>1, AcquireStep, StopWaitingStep, ProcStep
  <2>2. CASE UnderLock(p)
    <3>1. CASE Recheck(p) \/ SweepBackups(p) \/ SweepStages(p) \/ SweepArchives(p)
      BY <3>1, RecheckStep, SweepBackupsStep, SweepStagesStep,
        SweepArchivesStep, ProcStep
    <3>2. CASE Fingerprint(p) \/ CreateArchive(p) \/ Download(p) \/ VerifyDigest(p)
      BY <3>2, FingerprintStep, CreateArchiveStep, DownloadStep,
        VerifyDigestStep, ProcStep
    <3>3. CASE CreateStage(p) \/ Extract(p) \/ ChmodStage(p) \/ Refingerprint(p)
      BY <3>3, CreateStageStep, ExtractStep, ChmodStageStep,
        RefingerprintStep, ProcStep
    <3>4. CASE Precommit(p) BY <3>4, PrecommitStep, ProcStep
    <3>5. CASE Fail(p) \/ Interrupt(p)
      BY <3>5, GiveUpStep, ProcStep DEF Fail, Interrupt
    <3> QED BY <2>2, <3>1, <3>2, <3>3, <3>4, <3>5 DEF UnderLock
  <2>3. CASE Replacement(p)
    <3>1. CASE RenameStage(p) \/ SyncDirectory(p) \/ ReplaceFails(p)
      BY <3>1, RenameStageStep, SyncDirectoryStep, ReplaceFailsStep, ProcStep
    <3>2. CASE MoveAside(p) \/ HideBackup(p) \/ InstallStage(p)
      BY <3>2, MoveAsideStep, HideBackupStep, InstallStageStep, ProcStep
    <3>3. CASE Rollback(p) \/ UnhideTarget(p) \/ DropBackup(p)
      BY <3>3, RollbackStep, UnhideTargetStep, DropBackupStep, ProcStep
    <3> QED BY <2>3, <3>1, <3>2, <3>3 DEF Replacement
  <2>4. CASE Deferred(p)
    BY <2>4, RemoveStageStep, RemoveArchiveStep, ReleaseStep, ProcStep
      DEF Deferred
  <2> QED BY <1>3, <2>1, <2>2, <2>3, <2>4 DEF Step
<1>4. CASE Environment
  <2>1. ASSUME NEW p \in Proc, LockFails(p) \/ Cancel(p) \/ Crash(p) \/ Start(p)
        PROVE Inv'
    BY <2>1, LockFailsStep, CancelStep, CrashStep, StartStep, ProcStep
  <2>2. ASSUME NEW t \in Path, ExternalInstall(t) \/ Relink(t) PROVE Inv'
    BY <2>2, ExternalInstallStep, RelinkStep
  <2> QED BY <1>4, <2>1, <2>2 DEF Environment
<1> QED BY <1>1, <1>2, <1>3, <1>4 DEF Next

(* The inductive invariant holds in every reachable state.                 *)
THEOREM Invariance == Spec => []Inv
<1>1. Init => Inv BY InitInv
<1>2. Inv /\ [Next]_vars => Inv' BY NextInv
<1> QED BY <1>1, <1>2, PTL DEF Spec

-----------------------------------------------------------------------------
(* Every variable keeps its type, for any number of processes, paths,      *)
(* names and versions.                                                     *)
THEOREM TypeCorrect == Spec => []TypeOK
<1>1. Inv => TypeOK BY DEF Inv
<1> QED BY <1>1, Invariance, PTL

(* No sweep of cleanupStaleFiles or cleanupStaleBackups, and no cleanup    *)
(* after an error, takes a file of a live call.                            *)
THEOREM LiveFilesAreKept == Spec => []LiveFilesKept
<1>1. Inv => LiveFilesKept BY DEF Inv, Own, HasFiles, LiveFilesKept
<1> QED BY <1>1, Invariance, PTL

(* stageExecutable never leaves an executable stage whose bytes are not a  *)
(* release's, whatever step fails or is cut off by a crash.                *)
THEOREM StagesAreWhole == Spec => []NeverExecutablePartial
<1>1. Inv => NeverExecutablePartial BY DEF Inv, FilesOK
<1> QED BY <1>1, Invariance, PTL

(* Whatever fails or crashes, the executable is at its path, whole and     *)
(* runnable, or replace_windows.go has left a runnable backup beside it.   *)
THEOREM ProgramSurvives == Spec => []ExecutableRecoverable
<1>1. Inv => ExecutableRecoverable
  BY DEF Inv, FilesOK, Present, ExecutableRecoverable
<1> QED BY <1>1, Invariance, PTL

(* Result.Committed is true exactly when Apply has renamed its stage onto  *)
(* the executable, whatever fails afterwards.                              *)
THEOREM CommittedTellsTheTruth == Spec => []CommittedIsAuthoritative
<1>1. Inv => CommittedIsAuthoritative
  BY DEF Inv, Own, CommitKnown, CommittedIsAuthoritative
<1> QED BY <1>1, Invariance, PTL

(* Only the rename of p's own stage marks p's call as having replaced the  *)
(* executable.                                                             *)
LEMMA SwapStep ==
  ASSUME Inv, [Next]_vars, NEW p \in Proc, ~swapped[p], swapped'[p]
  PROVE RenameStage(p) \/ (InstallStage(p) /\ MoveStage(p, plan[p].path))
<1>1. swapped' # swapped OBVIOUS
<1>2. Next BY <1>1 DEF vars
<1>3. CASE \E t \in Path : ExternalInstall(t) \/ Relink(t)
  BY <1>1, <1>3 DEF ExternalInstall, Relink
<1>4. ASSUME NEW q \in Proc,
             \/ Check(q) \/ FingerprintPlan(q) \/ BeginApply(q) \/ Acquire(q)
             \/ StopWaiting(q) \/ LockFails(q) \/ UnderLock(q) \/ SyncDirectory(q)
             \/ ReplaceFails(q) \/ MoveAside(q) \/ HideBackup(q) \/ Rollback(q)
             \/ UnhideTarget(q) \/ DropBackup(q) \/ RemoveStage(q)
             \/ RemoveArchive(q) \/ Cancel(q) \/ Start(q)
      PROVE FALSE
  <2>1. CASE UnderLock(q)
    BY <1>1, <2>1 DEF UnderLock, Recheck, SweepBackups, SweepStages,
      SweepArchives,
       Fingerprint, CreateArchive, Download, VerifyDigest, CreateStage, Extract,
       ChmodStage, Refingerprint, Precommit, Fail, Interrupt, GiveUp
  <2> QED BY <1>1, <1>4, <2>1 DEF Check, FingerprintPlan, BeginApply, Acquire,
       StopWaiting, LockFails, SyncDirectory, ReplaceFails, MoveAside, HideBackup,
       Rollback, UnhideTarget, DropBackup, RemoveStage, RemoveArchive, Cancel,
       Start
<1>5. ASSUME NEW q \in Proc, Release(q) \/ Crash(q) PROVE FALSE
  BY <1>5 DEF Release, Crash, Inv, TypeOK
<1>6. ASSUME NEW q \in Proc, RenameStage(q) \/ InstallStage(q)
      PROVE RenameStage(p) \/ (InstallStage(p) /\ MoveStage(p, plan[p].path))
  <2>1. MoveStage(q, plan[q].path)
    BY <1>1, <1>6 DEF RenameStage, InstallStage
  <2>2. q = p BY <2>1 DEF MoveStage, Inv, TypeOK
  <2> QED BY <1>6, <2>1, <2>2
<1> QED BY <1>2, <1>3, <1>4, <1>5, <1>6 DEF Next, Step, Replacement, Deferred,
  Environment

(* What the rename of replaceExecutable installs, and what it replaces.    *)
LEMMA SwapInstalls ==
  ASSUME Inv, [Next]_vars, NEW p \in Proc, ~swapped[p], swapped'[p]
  PROVE  LET t == plan[p].path
             old == IF Windows THEN backups[t][job[p].backup] ELSE target[t] IN
         /\ target'[t].content = plan[p].version
         /\ snap[p] # None => old.content = plan[p].hash
<1> DEFINE t == plan[p].path
<1>0. Known(p) BY InvFacts
<1>1. CASE RenameStage(p)
  <2>1. ~Windows /\ t \in Path /\ MoveStage(p, t)
    BY <1>0, <1>1 DEF RenameStage, Known
  <2>2. target'[t] = stages[t][job[p].stage]
    BY <1>0, <2>1 DEF MoveStage, Known, TypeOK
  <2>3. stages[t][job[p].stage].content = plan[p].version
    BY <1>0, <1>1 DEF Known, Own, StageGood, RenameStage
  <2>4. snap[p] # None => target[t].content = plan[p].hash
    BY <1>0, <1>1 DEF Known, Own, ReplacesSeen, RenameStage
  <2> QED BY <2>1, <2>2, <2>3, <2>4
<1>2. CASE InstallStage(p) /\ MoveStage(p, t)
  <2>1. Windows /\ t \in Path /\ MoveStage(p, t)
    BY <1>0, <1>2 DEF InstallStage, Known, Own, RightPlatform
  <2>2. target'[t] = stages[t][job[p].stage]
    BY <1>0, <2>1 DEF MoveStage, Known, TypeOK
  <2>3. stages[t][job[p].stage].content = plan[p].version
    BY <1>0, <1>2 DEF Known, Own, StageGood, InstallStage
  <2>4. snap[p] # None => backups[t][job[p].backup].content = plan[p].hash
    BY <1>0, <1>2 DEF Known, Own, ReplacesSeen, InstallStage
  <2> QED BY <2>1, <2>2, <2>3, <2>4
<1> QED BY <1>1, <1>2, SwapStep

(* The rename of replaceExecutable installs the release of the plan, and   *)
(* replaces what Check fingerprinted unless a program that ignores the     *)
(* lock came in between.                                                   *)
THEOREM ReplacementsArePlanned == Spec => ReplacesAsPlanned
<1> DEFINE A == \A p \in Proc : ~swapped[p] /\ swapped'[p] =>
             LET t == plan[p].path
                 old == IF Windows THEN backups[t][job[p].backup] ELSE target[t] IN
             /\ target'[t].content = plan[p].version
             /\ snap[p] # None => old.content = plan[p].hash
<1>1. Inv /\ [Next]_vars => [A]_vars BY SwapInstalls
<1> QED BY <1>1, Invariance, PTL DEF Spec, ReplacesAsPlanned

-----------------------------------------------------------------------------
(* A call under way was admitted: Apply's guards still hold of its plan.   *)
Admitted(p) ==
  pc[p] \in InApply =>
    cur[p] \in Version /\ (Newer(p) \/ (plan[p].targeted /\ p \in AllowDowngrade))

(* From its admission to its return a call has one plan, and the process   *)
(* one version: Apply takes both as they were when it was called.          *)
LEMMA CallKeepsPlan ==
  ASSUME TypeOK, [Next]_vars, NEW p \in Proc, pc'[p] \in InApply
  PROVE  \/ BeginApply(p)
         \/ pc[p] \in InApply /\ cur'[p] = cur[p] /\ plan'[p] = plan[p]
<1> DEFINE Kept == pc[p] \in InApply /\ cur'[p] = cur[p] /\ plan'[p] = plan[p]
<1>0. /\ pc \in [Proc -> Point] /\ cur \in [Proc -> Bytes]
      /\ plan \in [Proc -> Plan \cup {None}]
  BY DEF TypeOK
<1>1. CASE UNCHANGED vars BY <1>1 DEF vars
<1>2. ASSUME NEW q \in Proc, Check(q) \/ FingerprintPlan(q) \/ BeginApply(q)
      PROVE  BeginApply(p) \/ Kept
  BY <1>0, <1>2 DEF Check, FingerprintPlan, BeginApply
<1>3. ASSUME NEW q \in Proc, Step(q) PROVE Kept
  <2>1. /\ cur' = cur /\ plan' = plan /\ pc[q] \in InApply
        /\ \E l \in Point : pc' = [pc EXCEPT ![q] = l]
    <3>1. CASE Acquire(q) \/ StopWaiting(q)
      BY <3>1 DEF Acquire, StopWaiting, Return
    <3>2. CASE UnderLock(q)
      <4>1. CASE Recheck(q) \/ SweepBackups(q) \/ SweepStages(q) \/ SweepArchives(q)
        BY <4>1 DEF Recheck, SweepBackups, SweepStages, SweepArchives, Abort
      <4>2. CASE \/ Fingerprint(q) \/ CreateArchive(q) \/ Download(q) \/ VerifyDigest(q)
                 \/ CreateStage(q)
        BY <4>2 DEF Fingerprint, CreateArchive, Download, VerifyDigest,
           CreateStage, Abort
      <4>3. CASE Extract(q) \/ ChmodStage(q) \/ Refingerprint(q) \/ Precommit(q)
        BY <4>3 DEF Extract, ChmodStage, Refingerprint, Precommit, Abort
      <4>4. CASE Fail(q) \/ Interrupt(q)
        BY <4>4 DEF Fail, Interrupt, GiveUp
      <4> QED BY <3>2, <4>1, <4>2, <4>3, <4>4 DEF UnderLock
    <3>3. CASE Replacement(q)
      BY <3>3 DEF Replacement, RenameStage, SyncDirectory, ReplaceFails,
         MoveAside, HideBackup, InstallStage, Rollback, UnhideTarget, DropBackup,
         Abort, Commit
    <3>4. CASE Deferred(q)
      <4>1. CASE RemoveStage(q) \/ RemoveArchive(q)
        <5>1. pc' = [pc EXCEPT ![q] = "defer"]
          BY <1>0, <4>1 DEF RemoveStage, RemoveArchive
        <5> QED BY <4>1, <5>1 DEF RemoveStage, RemoveArchive
      <4>2. CASE Release(q) BY <4>2 DEF Release, Return
      <4> QED BY <3>4, <4>1, <4>2 DEF Deferred
    <3> QED BY <1>3, <3>1, <3>2, <3>3, <3>4 DEF Step
  <2> QED BY <1>0, <2>1
<1>4. CASE Environment
  <2>1. ASSUME NEW q \in Proc, LockFails(q) \/ Cancel(q) \/ Crash(q) \/ Start(q)
        PROVE Kept
    BY <1>0, <2>1 DEF LockFails, Return, Cancel, Crash, Start
  <2>2. ASSUME NEW t \in Path, ExternalInstall(t) \/ Relink(t) PROVE Kept
    BY <2>2 DEF ExternalInstall, Relink
  <2> QED BY <1>4, <2>1, <2>2 DEF Environment
<1> QED BY <1>1, <1>2, <1>3, <1>4 DEF Next

(* What admitted a call is true of it until it returns.                    *)
LEMMA AdmittedStep ==
  ASSUME TypeOK, \A p \in Proc : Admitted(p), [Next]_vars
  PROVE  \A p \in Proc : Admitted(p)'
<1> SUFFICES ASSUME NEW p \in Proc, pc'[p] \in InApply
             PROVE  /\ cur'[p] \in Version
                    /\ cur'[p] < plan'[p].version
                       \/ (plan'[p].targeted /\ p \in AllowDowngrade)
  BY DEF Admitted, Newer
<1>1. CASE BeginApply(p)
  BY <1>1 DEF BeginApply, Admits, Newer
<1>2. CASE pc[p] \in InApply /\ cur'[p] = cur[p] /\ plan'[p] = plan[p]
  BY <1>2 DEF Admitted, Newer
<1> QED BY <1>1, <1>2, CallKeepsPlan

(* An update without opt-in is an upgrade of the program that made it,     *)
(* whatever other processes and programs do meanwhile (selfupdate.go:347). *)
THEOREM DowngradesAreAskedFor == Spec => NeverDowngradesUnasked
<1> DEFINE Calls == \A p \in Proc : Admitted(p)
           A == \A p \in Proc :
                  /\ ~swapped[p] /\ swapped'[p]
                  /\ ~(plan[p].targeted /\ p \in AllowDowngrade)
                  => /\ cur[p] \in Version
                     /\ target'[plan[p].path].content > cur[p]
<1>1. Init => Calls
  BY DEF Init, Admitted
<1>2. Inv /\ Calls /\ [Next]_vars => Calls'
  BY AdmittedStep DEF Inv
<1>3. ASSUME Inv, Calls, [Next]_vars PROVE A
  <2> SUFFICES ASSUME NEW p \in Proc, ~swapped[p], swapped'[p],
                      ~(plan[p].targeted /\ p \in AllowDowngrade)
               PROVE  /\ cur[p] \in Version
                      /\ target'[plan[p].path].content > cur[p]
    OBVIOUS
  <2>1. pc[p] \in {"replace", "install"}
    BY <1>3, SwapStep DEF RenameStage, InstallStage
  <2>2. plan[p] \in Plan /\ cur[p] \in Version /\ cur[p] < plan[p].version
    BY <1>3, <2>1, InvFacts DEF Admitted, Newer, Known, Own, HasPlan
  <2>3. target'[plan[p].path].content = plan[p].version
    BY <1>3, SwapInstalls
  <2>4. cur[p] \in Nat /\ plan[p].version \in Nat
    BY <2>2, ConstantsAssumption DEF Plan
  <2> QED BY <2>2, <2>3, <2>4
<1>4. Inv /\ Calls /\ [Next]_vars => [A]_vars BY <1>3
<1> QED BY <1>1, <1>2, <1>4, Invariance, PTL DEF Spec, NeverDowngradesUnasked

=============================================================================
