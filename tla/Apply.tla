------------------------------- MODULE Apply -------------------------------
(***************************************************************************)
(* Updater.Check and Updater.Apply (selfupdate.go) with the files, the     *)
(* cross-process lock and the executable replacement they work on          *)
(* (install.go, lock_*.go, replace_*.go).                                  *)
(*                                                                         *)
(* Several processes of one program share the directory of their           *)
(* executable.  Each of them may check for a release and apply the plan,   *)
(* be cancelled, fail at any system call, or be killed between any two of  *)
(* them; other programs may replace the executable or move the symlink     *)
(* that leads to it.  One action is one system call that other processes   *)
(* can see the effect of, with the code that decides what comes next.      *)
(***************************************************************************)
EXTENDS Naturals

CONSTANTS
  Proc,            \* processes of the program, each with one Updater
  Path,            \* resolved locations the executable may have
  Name,            \* the random suffixes of temporary files and backups
  Version,         \* stable release versions
  Windows,         \* which replace_*.go is built
  AllowDowngrade,  \* the processes whose Config sets AllowDowngrade
  Targeted,        \* bound: FALSE for plans of Check, TRUE for CheckVersion
  MaxApplies,      \* bound: calls of Apply one process slot makes
  Outside,         \* bound: what other programs install
  Foreign,         \* an executable no release published (a local build)
  Corrupt,         \* bytes that are incomplete or not what was published
  None             \* no process, no file, no plan, no name

Content == Version \cup {Foreign}
Bytes == Content \cup {Corrupt}

(***************************************************************************)
(* An executable file: what its bytes are, whether its mode lets it run,   *)
(* and the Windows hidden attribute.                                       *)
(***************************************************************************)
File == [content : Bytes, exec : BOOLEAN, hidden : BOOLEAN]

(***************************************************************************)
(* What a Plan pins.  The release asset and its digest are one to one with *)
(* the version; the executable's fingerprint is its content, None while    *)
(* Check has not computed it.  comparable and currentVersion are those of  *)
(* the updater that owns the plan, so they are not repeated here.          *)
(***************************************************************************)
Plan == [version : Version, targeted : BOOLEAN, path : Path,
         hash : Bytes \cup {None}]

(***************************************************************************)
(* The local variables of one Apply call that outlive a step: the names of *)
(* its temporary files and its backup, cleanupPending of the sweep, and    *)
(* the Result and error it returns.  err "rollback" is an error for which  *)
(* errors.As finds a *RollbackError.                                       *)
(***************************************************************************)
Job == [archive : Name \cup {None}, stage : Name \cup {None},
        backup : Name \cup {None}, swept : BOOLEAN,
        committed : BOOLEAN, cleanupPending : BOOLEAN,
        err : {"none", "failed", "rollback"}]

NoJob == [archive |-> None, stage |-> None, backup |-> None, swept |-> FALSE,
          committed |-> FALSE, cleanupPending |-> FALSE, err |-> "none"]

ASSUME ConstantsAssumption ==
  /\ Version \subseteq Nat
  /\ Windows \in BOOLEAN
  /\ AllowDowngrade \subseteq Proc /\ Targeted \subseteq BOOLEAN
  /\ MaxApplies \in Nat /\ Outside \subseteq Content
  /\ Foreign \notin Version /\ Corrupt \notin Content
  /\ None \notin Proc \cup Path \cup Name \cup Bytes
  /\ None \notin File /\ None \notin Plan /\ None \notin (Path \X (Name \cup {None}))

VARIABLES
  target,     \* target[t]: the executable at path t
  stages,     \* stages[t][n]: .selfupdate-stage-n beside t
  archives,   \* archives[t][n]: bytes of .selfupdate-archive-n beside t
  backups,    \* backups[t][n]: .selfupdate-backup-n beside t
  link,       \* the path the executable's symlink resolves to
  lock,       \* lock[t]: the process holding t.selfupdate.lock
  pc,         \* pc[p]: what process p does next
  cur,        \* cur[p]: CurrentVersion built into p, Foreign if opaque
  img,        \* img[p]: <<t, n>> when p runs from backup n of t (Windows),
              \* <<t, None>> when it runs from the executable at t
  plan,       \* plan[p]: the plan p holds
  job,        \* job[p]: p's Apply call in progress
  cancelled,  \* cancelled[p]: the context of that call is done
  applies,    \* applies[p]: calls of Apply admitted so far
  snap,       \* history: the executable as the second fingerprint of the
              \* call saw it, None once another program replaced it
  swapped     \* history: the call has renamed its stage onto the target

dir == <<target, stages, archives, backups>>
life == <<cur, img>>
history == <<snap, swapped>>
vars == <<dir, link, lock, pc, life, plan, job, cancelled, applies, history>>

-----------------------------------------------------------------------------
(* Program points.  "ready" is outside any call; the others name the next  *)
(* system call of a Check ("planning") or of an Apply.                     *)

Prelude == {"locked", "sweepBackups", "sweepStages", "sweepArchives",
            "fingerprint", "create", "download", "verify", "stage",
            "extract", "chmod", "refingerprint", "precommit"}
Replacing == {"replace", "syncdir", "hide", "install", "rollback", "unhide",
              "drop"}
Holding == Prelude \cup Replacing \cup {"defer"}
InApply == Holding \cup {"waiting"}
Point == InApply \cup {"down", "ready", "planning"}

Goto(p, l) == pc' = [pc EXCEPT ![p] = l]

(* Apply returns: its Result and error are the caller's, and nothing in    *)
(* the updater remembers the call.                                         *)
Return(p) ==
  /\ job' = [job EXCEPT ![p] = NoJob]
  /\ cancelled' = [cancelled EXCEPT ![p] = FALSE]
  /\ Goto(p, "ready")

(* An error under the lock: the deferred functions registered so far run.  *)
Abort(p) ==
  /\ job' = [job EXCEPT ![p].err = "failed"]
  /\ Goto(p, "defer")

(* errors.Join with a further error keeps a *RollbackError findable.       *)
Joined(e) == IF e = "rollback" THEN e ELSE "failed"

Present(d, t) == {n \in Name : d[t][n] # None}

(* Directory d after all but the files named in kept are gone beside t.    *)
KeepOnly(d, t, kept) ==
  [d EXCEPT ![t] = [n \in Name |-> IF n \in kept THEN d[t][n] ELSE None]]

(* Backups of t that Windows cannot delete: a process still runs them.     *)
InUse(t) == {n \in Name : \E q \in Proc : img[q] = <<t, n>>}

(* Every process running from file f of path t now runs from file g: a     *)
(* renamed image stays open.                                               *)
MoveImages(t, f, g) ==
  img' = [q \in Proc |-> IF img[q] = <<t, f>> THEN <<t, g>> ELSE img[q]]

-----------------------------------------------------------------------------
(* Check and CheckVersion.                                                 *)

(* EvalSymlinks of the running program's path: it fails when nothing is    *)
(* there.                                                                  *)
Resolves(t) == link = t /\ target[t] # None

(* A release v, the latest or the requested one, passed its checks and the *)
(* executable was resolved; its fingerprint is taken in the next step.     *)
(* CheckVersion plans any version, opted in or not.                        *)
Check(p) ==
  /\ pc[p] = "ready"
  /\ target[link] # None
  /\ \E v \in Version, asked \in Targeted :
       plan' = [plan EXCEPT ![p] = [version |-> v, targeted |-> asked,
                                    path |-> link, hash |-> None]]
  /\ Goto(p, "planning")
  /\ UNCHANGED <<dir, link, lock, life, job, cancelled, applies, history>>

(* Mutated: the plan pins the path where the fingerprint belongs.          *)
FingerprintPath(p) ==
  LET t == plan[p].path IN
  /\ pc[p] = "planning"
  /\ target[t] # None
  /\ plan' = [plan EXCEPT ![p].hash = t]
  /\ Goto(p, "ready")
  /\ UNCHANGED <<dir, link, lock, life, job, cancelled, applies, history>>

FingerprintPlan(p) ==
  LET t == plan[p].path IN
  /\ pc[p] = "planning"
  /\ \/ /\ target[t] # None
        /\ plan' = [plan EXCEPT ![p].hash = target[t].content]
     \/ plan' = [plan EXCEPT ![p] = None]
  /\ Goto(p, "ready")
  /\ UNCHANGED <<dir, link, lock, life, job, cancelled, applies, history>>

-----------------------------------------------------------------------------
(* Apply up to the lock.                                                   *)

Newer(p) == cur[p] < plan[p].version

(* Mutated: the opt-in serves any plan, not only one for a version that    *)
(* was asked for.                                                          *)
AdmitsOptedIn(p) ==
  /\ cur[p] \in Version
  /\ Newer(p) \/ p \in AllowDowngrade
  /\ Resolves(plan[p].path)

(* Mutated: a version that is asked for needs no opt-in.                   *)
AdmitsAsked(p) ==
  /\ cur[p] \in Version
  /\ Newer(p) \/ plan[p].targeted
  /\ Resolves(plan[p].path)

(* The guards of Apply: a stable current version, a newer release or an    *)
(* opted-in targeted one, and an executable still where Check found it.    *)
Admits(p) ==
  /\ cur[p] \in Version
  /\ Newer(p) \/ (plan[p].targeted /\ p \in AllowDowngrade)
  /\ Resolves(plan[p].path)

(* A call whose plan is refused, or whose executable cannot be resolved,   *)
(* returns an error and changes nothing: it is no step of the model.       *)
BeginApply(p) ==
  /\ pc[p] = "ready" /\ plan[p] # None /\ applies[p] < MaxApplies
  /\ Admits(p)
  /\ applies' = [applies EXCEPT ![p] = @ + 1]
  /\ Goto(p, "waiting")
  /\ UNCHANGED <<dir, link, lock, life, plan, job, cancelled, history>>

(* Mutated: the lock does not exclude its holder.                          *)
AcquireBusy(p) ==
  /\ pc[p] = "waiting"
  /\ lock' = [lock EXCEPT ![plan[p].path] = p]
  /\ Goto(p, "locked")
  /\ UNCHANGED <<dir, link, life, plan, job, cancelled, applies, history>>

(* Mutated: the lock is beside the executable the symlink now leads to,    *)
(* not beside the one the plan is for.                                     *)
AcquireAtLink(p) ==
  /\ pc[p] = "waiting"
  /\ lock[link] = None
  /\ lock' = [lock EXCEPT ![link] = p]
  /\ Goto(p, "locked")
  /\ UNCHANGED <<dir, link, life, plan, job, cancelled, applies, history>>

(* One successful poll of the lock.  The poll does not look at the         *)
(* context, and the select between two polls may take either branch when   *)
(* both are ready, so a cancelled call may still get the lock.             *)
Acquire(p) ==
  LET t == plan[p].path IN
  /\ pc[p] = "waiting"
  /\ lock[t] = None
  /\ lock' = [lock EXCEPT ![t] = p]
  /\ Goto(p, "locked")
  /\ UNCHANGED <<dir, link, life, plan, job, cancelled, applies, history>>

StopWaiting(p) ==
  /\ pc[p] = "waiting" /\ cancelled[p]
  /\ Return(p)
  /\ UNCHANGED <<dir, link, lock, life, plan, applies, history>>

(* The lock file cannot be opened or locked.                               *)
LockFails(p) ==
  /\ pc[p] = "waiting"
  /\ Return(p)
  /\ UNCHANGED <<dir, link, lock, life, plan, applies, history>>

-----------------------------------------------------------------------------
(* Apply under the lock, before anything is replaced.                      *)

(* Mutated: the executable is not resolved again under the lock.           *)
RecheckBlind(p) ==
  /\ pc[p] = "locked"
  /\ IF ~cancelled[p]
     THEN /\ Goto(p, IF Windows THEN "sweepBackups" ELSE "sweepStages")
          /\ UNCHANGED job
     ELSE Abort(p)
  /\ UNCHANGED <<dir, link, lock, life, plan, cancelled, applies, history>>

Recheck(p) ==
  /\ pc[p] = "locked"
  /\ IF Resolves(plan[p].path) /\ ~cancelled[p]
     THEN /\ Goto(p, IF Windows THEN "sweepBackups" ELSE "sweepStages")
          /\ UNCHANGED job
     ELSE Abort(p)
  /\ UNCHANGED <<dir, link, lock, life, plan, cancelled, applies, history>>

(* Backups in use are left for later; another error ends the sweep where   *)
(* it stands.                                                              *)
SweepBackups(p) ==
  LET t == plan[p].path IN
  /\ pc[p] = "sweepBackups"
  /\ \E kept \in SUBSET Present(backups, t) :
       /\ InUse(t) \cap Present(backups, t) \subseteq kept
       /\ backups' = KeepOnly(backups, t, kept)
       /\ \/ /\ job' = [job EXCEPT ![p].swept = kept # {}]
             /\ Goto(p, "sweepStages")
          \/ /\ kept # {}
             /\ Abort(p)
  /\ UNCHANGED <<target, stages, archives, link, lock, life, plan, cancelled,
                 applies, history>>

(* Mutated: an error of the sweep is ignored.                              *)
SweepStagesKeepsGoing(p) ==
  LET t == plan[p].path IN
  /\ pc[p] = "sweepStages"
  /\ \E kept \in SUBSET Present(stages, t) :
       stages' = KeepOnly(stages, t, kept)
  /\ Goto(p, "sweepArchives")
  /\ UNCHANGED <<target, archives, backups, link, lock, life, plan, job,
                 cancelled, applies, history>>

(* Stale stages are removed, all of them or, on an error, some.            *)
SweepStages(p) ==
  LET t == plan[p].path IN
  /\ pc[p] = "sweepStages"
  /\ \/ /\ stages' = KeepOnly(stages, t, {})
        /\ Goto(p, "sweepArchives")
        /\ UNCHANGED job
     \/ /\ \E kept \in SUBSET Present(stages, t) :
             stages' = KeepOnly(stages, t, kept)
        /\ Abort(p)
  /\ UNCHANGED <<target, archives, backups, link, lock, life, plan, cancelled,
                 applies, history>>

SweepArchives(p) ==
  LET t == plan[p].path IN
  /\ pc[p] = "sweepArchives"
  /\ \/ /\ archives' = KeepOnly(archives, t, {})
        /\ Goto(p, "fingerprint")
        /\ UNCHANGED job
     \/ /\ \E kept \in SUBSET Present(archives, t) :
             archives' = KeepOnly(archives, t, kept)
        /\ Abort(p)
  /\ UNCHANGED <<target, stages, backups, link, lock, life, plan, cancelled,
                 applies, history>>

(* The executable is the one Check fingerprinted.                          *)
Matches(p) ==
  LET t == plan[p].path IN
  target[t] # None /\ target[t].content = plan[p].hash

Fingerprint(p) ==
  /\ pc[p] = "fingerprint"
  /\ IF Matches(p) /\ ~cancelled[p]
     THEN Goto(p, "create") /\ UNCHANGED job
     ELSE Abort(p)
  /\ UNCHANGED <<dir, link, lock, life, plan, cancelled, applies, history>>

CreateArchive(p) ==
  LET t == plan[p].path IN
  /\ pc[p] = "create"
  /\ \E n \in Name \ Present(archives, t) :
       /\ archives' = [archives EXCEPT ![t][n] = Corrupt]
       /\ job' = [job EXCEPT ![p].archive = n]
  /\ Goto(p, "download")
  /\ UNCHANGED <<target, stages, backups, link, lock, life, plan, cancelled,
                 applies, history>>

(* The body arrives whole, or it is not what the release published.  Bytes *)
(* already received may be read after the context is done.                 *)
Download(p) ==
  /\ pc[p] = "download"
  /\ \E got \in {plan[p].version, Corrupt} :
       archives' = [archives EXCEPT ![plan[p].path][job[p].archive] = got]
  /\ Goto(p, "verify")
  /\ UNCHANGED <<target, stages, backups, link, lock, life, plan, job,
                 cancelled, applies, history>>

(* Mutated: the digest is not compared.                                    *)
VerifyNothing(p) ==
  /\ pc[p] = "verify"
  /\ Goto(p, "stage")
  /\ UNCHANGED <<dir, link, lock, life, plan, job, cancelled, applies, history>>

(* The digest is of the bytes as they were written, compared and synced.   *)
VerifyDigest(p) ==
  /\ pc[p] = "verify"
  /\ IF archives[plan[p].path][job[p].archive] = plan[p].version
     THEN Goto(p, "stage") /\ UNCHANGED job
     ELSE Abort(p)
  /\ UNCHANGED <<dir, link, lock, life, plan, cancelled, applies, history>>

(* Mutated: the stage is created with the executable's mode.               *)
CreateStageExecutable(p) ==
  LET t == plan[p].path IN
  /\ pc[p] = "stage"
  /\ ~cancelled[p]
  /\ \E n \in Name \ Present(stages, t) :
       /\ stages' = [stages EXCEPT ![t][n] =
                       [content |-> Corrupt, exec |-> TRUE, hidden |-> FALSE]]
       /\ job' = [job EXCEPT ![p].stage = n]
  /\ Goto(p, "extract")
  /\ UNCHANGED <<target, archives, backups, link, lock, life, plan, cancelled,
                 applies, history>>

CreateStage(p) ==
  LET t == plan[p].path IN
  /\ pc[p] = "stage"
  /\ ~cancelled[p]
  /\ \E n \in Name \ Present(stages, t) :
       /\ stages' = [stages EXCEPT ![t][n] =
                       [content |-> Corrupt, exec |-> FALSE, hidden |-> FALSE]]
       /\ job' = [job EXCEPT ![p].stage = n]
  /\ Goto(p, "extract")
  /\ UNCHANGED <<target, archives, backups, link, lock, life, plan, cancelled,
                 applies, history>>

(* The member is written whole and synced; its bytes stand for the archive *)
(* they came from.                                                         *)
Extract(p) ==
  LET t == plan[p].path IN
  /\ pc[p] = "extract"
  /\ ~cancelled[p]
  /\ stages' = [stages EXCEPT ![t][job[p].stage].content =
                  archives[t][job[p].archive]]
  /\ Goto(p, "chmod")
  /\ UNCHANGED <<target, archives, backups, link, lock, life, plan, job,
                 cancelled, applies, history>>

ChmodStage(p) ==
  /\ pc[p] = "chmod"
  /\ stages' = [stages EXCEPT ![plan[p].path][job[p].stage].exec = TRUE]
  /\ Goto(p, "refingerprint")
  /\ UNCHANGED <<target, archives, backups, link, lock, life, plan, job,
                 cancelled, applies, history>>

(* Mutated: the first fingerprint is trusted.                              *)
RefingerprintNothing(p) ==
  /\ pc[p] = "refingerprint"
  /\ snap' = [snap EXCEPT ![p] = target[plan[p].path]]
  /\ Goto(p, "precommit")
  /\ UNCHANGED <<dir, link, lock, life, plan, job, cancelled, applies, swapped>>

Refingerprint(p) ==
  /\ pc[p] = "refingerprint"
  /\ IF Matches(p) /\ ~cancelled[p]
     THEN /\ snap' = [snap EXCEPT ![p] = target[plan[p].path]]
          /\ Goto(p, "precommit")
          /\ UNCHANGED job
     ELSE Abort(p) /\ UNCHANGED snap
  /\ UNCHANGED <<dir, link, lock, life, plan, cancelled, applies, swapped>>

(* Mutated: the context is not looked at again.                            *)
PrecommitBlind(p) ==
  /\ pc[p] = "precommit"
  /\ Goto(p, "replace")
  /\ UNCHANGED <<dir, link, lock, life, plan, job, cancelled, applies, history>>

(* The last look at the context, after the beforeCommit hook.              *)
Precommit(p) ==
  /\ pc[p] = "precommit"
  /\ IF cancelled[p] THEN Abort(p) ELSE Goto(p, "replace") /\ UNCHANGED job
  /\ UNCHANGED <<dir, link, lock, life, plan, cancelled, applies, history>>

(* The error return of a step before the replacement.  stageExecutable     *)
(* removes its file, and ignores an error of that; Apply never learns its  *)
(* name.                                                                   *)
GiveUp(p) ==
  LET t == plan[p].path
      n == job[p].stage IN
  /\ Goto(p, "defer")
  /\ IF pc[p] \in {"extract", "chmod"}
     THEN /\ job' = [job EXCEPT ![p].err = "failed", ![p].stage = None]
          /\ stages' \in {stages, [stages EXCEPT ![t][n] = None]}
     ELSE /\ job' = [job EXCEPT ![p].err = "failed"]
          /\ UNCHANGED stages
  /\ UNCHANGED <<target, archives, backups, link, lock, life, plan, cancelled,
                 applies, history>>

(* A system call, the network or the archive reader fails.                 *)
Fail(p) ==
  /\ pc[p] \in Prelude \ {"sweepBackups", "sweepStages", "sweepArchives",
                          "precommit"}
  /\ GiveUp(p)

(* The request, the copy or the extraction sees the context is done.       *)
Interrupt(p) ==
  /\ pc[p] \in {"download", "stage", "extract"} /\ cancelled[p]
  /\ GiveUp(p)

-----------------------------------------------------------------------------
(* replaceExecutable of replace_unix.go.                                   *)

(* What Apply records once the replacement has committed: the rename took  *)
(* the stage away, and e is the error of what came after it.               *)
Commit(p, e, pending) ==
  /\ job' = [job EXCEPT ![p].committed = TRUE, ![p].stage = None,
                        ![p].cleanupPending = job[p].swept \/ pending,
                        ![p].err = e]
  /\ Goto(p, "defer")

(* The stage becomes the executable at t.                                  *)
MoveStage(p, t) ==
  /\ target' = [target EXCEPT ![t] = stages[t][job[p].stage]]
  /\ stages' = [stages EXCEPT ![t][job[p].stage] = None]
  /\ swapped' = [swapped EXCEPT ![p] = TRUE]

RenameStage(p) ==
  /\ pc[p] = "replace" /\ ~Windows
  /\ MoveStage(p, plan[p].path)
  /\ Goto(p, "syncdir")
  /\ UNCHANGED <<archives, backups, link, lock, life, plan, job, cancelled,
                 applies, snap>>

(* Mutated: an error after the rename counts as no commit.                 *)
SyncDirectoryLosesCommit(p) ==
  /\ pc[p] = "syncdir"
  /\ Commit(p, "none", FALSE) \/ Abort(p)
  /\ UNCHANGED <<dir, link, lock, life, plan, cancelled, applies, history>>

SyncDirectory(p) ==
  /\ pc[p] = "syncdir"
  /\ \E e \in {"none", "failed"} : Commit(p, e, FALSE)
  /\ UNCHANGED <<dir, link, lock, life, plan, cancelled, applies, history>>

(* The first rename of either platform fails, or no backup name is free.   *)
ReplaceFails(p) ==
  /\ pc[p] = "replace"
  /\ Abort(p)
  /\ UNCHANGED <<dir, link, lock, life, plan, cancelled, applies, history>>

-----------------------------------------------------------------------------
(* replaceExecutable of replace_windows.go.                                *)

MoveAside(p) ==
  LET t == plan[p].path IN
  /\ pc[p] = "replace" /\ Windows /\ target[t] # None
  /\ \E n \in Name \ Present(backups, t) :
       /\ backups' = [backups EXCEPT ![t][n] = target[t]]
       /\ job' = [job EXCEPT ![p].backup = n]
       /\ MoveImages(t, None, n)
  /\ target' = [target EXCEPT ![t] = None]
  /\ Goto(p, "hide")
  /\ UNCHANGED <<stages, archives, link, lock, cur, plan, cancelled, applies,
                 history>>

HideBackup(p) ==
  /\ pc[p] = "hide"
  /\ \/ /\ backups' = [backups EXCEPT ![plan[p].path][job[p].backup].hidden = TRUE]
        /\ Goto(p, "install")
     \/ Goto(p, "rollback") /\ UNCHANGED backups
  /\ UNCHANGED <<target, stages, archives, link, lock, life, plan, job,
                 cancelled, applies, history>>

(* A file that a process runs from cannot be renamed over.                 *)
Replaceable(t) == \A q \in Proc : img[q] # <<t, None>>

InstallStage(p) ==
  LET t == plan[p].path IN
  /\ pc[p] = "install"
  /\ \/ /\ Replaceable(t)
        /\ MoveStage(p, t)
        /\ Goto(p, "drop")
     \/ Goto(p, "rollback") /\ UNCHANGED <<target, stages, swapped>>
  /\ UNCHANGED <<archives, backups, link, lock, life, plan, job, cancelled,
                 applies, snap>>

(* Mutated: the rollback restores whichever backup it finds.               *)
RollbackAny(p) ==
  LET t == plan[p].path IN
  /\ pc[p] = "rollback"
  /\ Replaceable(t)
  /\ \E n \in Present(backups, t) :
       /\ target' = [target EXCEPT ![t] = backups[t][n]]
       /\ backups' = [backups EXCEPT ![t][n] = None]
       /\ MoveImages(t, n, None)
  /\ Goto(p, "unhide")
  /\ UNCHANGED <<stages, archives, link, lock, cur, plan, job, cancelled,
                 applies, history>>

Rollback(p) ==
  LET t == plan[p].path
      n == job[p].backup IN
  /\ pc[p] = "rollback"
  /\ \/ /\ Replaceable(t)
        /\ target' = [target EXCEPT ![t] = backups[t][n]]
        /\ backups' = [backups EXCEPT ![t][n] = None]
        /\ MoveImages(t, n, None)
        /\ Goto(p, "unhide")
        /\ UNCHANGED job
     \/ /\ job' = [job EXCEPT ![p].err = "rollback"]
        /\ Goto(p, "defer")
        /\ UNCHANGED <<target, backups, img>>
  /\ UNCHANGED <<stages, archives, link, lock, cur, plan, cancelled, applies,
                 history>>

(* Mutated: a target that stays hidden is not reported.                    *)
UnhideTargetQuietly(p) ==
  /\ pc[p] = "unhide"
  /\ job' = [job EXCEPT ![p].err = "failed"]
  /\ target' \in {target, [target EXCEPT ![plan[p].path].hidden = FALSE]}
  /\ Goto(p, "defer")
  /\ UNCHANGED <<stages, archives, backups, link, lock, life, plan, cancelled,
                 applies, history>>

(* The restored executable may have been replaced or be gone by now.       *)
UnhideTarget(p) ==
  LET t == plan[p].path IN
  /\ pc[p] = "unhide"
  /\ \/ /\ target[t] # None
        /\ target' = [target EXCEPT ![t].hidden = FALSE]
        /\ job' = [job EXCEPT ![p].err = "failed"]
     \/ job' = [job EXCEPT ![p].err = "rollback"] /\ UNCHANGED target
  /\ Goto(p, "defer")
  /\ UNCHANGED <<stages, archives, backups, link, lock, life, plan, cancelled,
                 applies, history>>

(* Mutated: a backup in use counts as deleted.                             *)
DropBackupQuietly(p) ==
  LET t == plan[p].path
      n == job[p].backup IN
  /\ pc[p] = "drop"
  /\ Commit(p, "none", FALSE)
  /\ backups' = IF n \in InUse(t) THEN backups
                                  ELSE [backups EXCEPT ![t][n] = None]
  /\ UNCHANGED <<target, stages, archives, link, lock, life, plan, cancelled,
                 applies, history>>

(* The backup is deleted, unless a process runs it or the deletion fails.  *)
DropBackup(p) ==
  LET t == plan[p].path
      n == job[p].backup IN
  /\ pc[p] = "drop"
  /\ \/ /\ n \notin InUse(t)
        /\ backups' = [backups EXCEPT ![t][n] = None]
        /\ Commit(p, "none", FALSE)
     \/ Commit(p, "none", TRUE) /\ UNCHANGED backups
     \/ Commit(p, "failed", FALSE) /\ UNCHANGED backups
  /\ UNCHANGED <<target, stages, archives, link, lock, life, plan, cancelled,
                 applies, history>>

-----------------------------------------------------------------------------
(* The deferred functions, last registered first.                          *)

RemoveStage(p) ==
  LET t == plan[p].path IN
  /\ pc[p] = "defer" /\ job[p].stage # None
  /\ \/ /\ stages' = [stages EXCEPT ![t][job[p].stage] = None]
        /\ job' = [job EXCEPT ![p].stage = None]
     \/ /\ job' = [job EXCEPT ![p].stage = None, ![p].err = Joined(@)]
        /\ UNCHANGED stages
  /\ UNCHANGED <<target, archives, backups, link, lock, pc, life, plan,
                 cancelled, applies, history>>

(* Mutated: the archive is removed only after a failure.                   *)
RemoveArchiveOnError(p) ==
  LET t == plan[p].path IN
  /\ pc[p] = "defer" /\ job[p].stage = None /\ job[p].archive # None
  /\ job' = [job EXCEPT ![p].archive = None]
  /\ archives' = IF job[p].err = "none" THEN archives
                 ELSE [archives EXCEPT ![t][job[p].archive] = None]
  /\ UNCHANGED <<target, stages, backups, link, lock, pc, life, plan,
                 cancelled, applies, history>>

RemoveArchive(p) ==
  LET t == plan[p].path IN
  /\ pc[p] = "defer" /\ job[p].stage = None /\ job[p].archive # None
  /\ \/ /\ archives' = [archives EXCEPT ![t][job[p].archive] = None]
        /\ \E e \in {job[p].err, Joined(job[p].err)} :
             job' = [job EXCEPT ![p].archive = None, ![p].err = e]
     \/ /\ job' = [job EXCEPT ![p].archive = None, ![p].err = Joined(@)]
        /\ UNCHANGED archives
  /\ UNCHANGED <<target, stages, backups, link, lock, pc, life, plan,
                 cancelled, applies, history>>

(* Mutated: only a call that committed unlocks.                            *)
ReleaseOnCommit(p) ==
  LET t == plan[p].path IN
  /\ pc[p] = "defer" /\ job[p].stage = None /\ job[p].archive = None
  /\ lock' = IF job[p].committed THEN [lock EXCEPT ![t] = None] ELSE lock
  /\ snap' = [snap EXCEPT ![p] = None]
  /\ swapped' = [swapped EXCEPT ![p] = FALSE]
  /\ Return(p)
  /\ UNCHANGED <<dir, link, life, plan, applies>>

(* The lock goes free even when releasing it reports an error: the file is *)
(* closed whatever the unlock returned.                                    *)
Release(p) ==
  LET t == plan[p].path IN
  /\ pc[p] = "defer" /\ job[p].stage = None /\ job[p].archive = None
  /\ lock' = [lock EXCEPT ![t] = None]
  /\ snap' = [snap EXCEPT ![p] = None]
  /\ swapped' = [swapped EXCEPT ![p] = FALSE]
  /\ Return(p)
  /\ UNCHANGED <<dir, link, life, plan, applies>>

-----------------------------------------------------------------------------
(* Everything the program does not decide.                                 *)

Cancel(p) ==
  /\ pc[p] \in InApply /\ ~cancelled[p]
  /\ cancelled' = [cancelled EXCEPT ![p] = TRUE]
  /\ UNCHANGED <<dir, link, lock, pc, life, plan, job, applies, history>>

(* A killed process loses its memory, the kernel closes its files and with *)
(* them its lock; what it wrote stays.                                     *)
Crash(p) ==
  /\ pc[p] # "down"
  /\ Goto(p, "down")
  /\ lock' = [t \in Path |-> IF lock[t] = p THEN None ELSE lock[t]]
  /\ cur' = [cur EXCEPT ![p] = Foreign]
  /\ img' = [img EXCEPT ![p] = None]
  /\ plan' = [plan EXCEPT ![p] = None]
  /\ job' = [job EXCEPT ![p] = NoJob]
  /\ cancelled' = [cancelled EXCEPT ![p] = FALSE]
  /\ snap' = [snap EXCEPT ![p] = None]
  /\ swapped' = [swapped EXCEPT ![p] = FALSE]
  /\ UNCHANGED <<dir, link, applies>>

(* The user runs what the symlink leads to.  CurrentVersion is a constant  *)
(* of the running program, whatever is installed later.                    *)
Start(p) ==
  /\ pc[p] = "down"
  /\ target[link] # None /\ target[link].exec
  /\ cur' = [cur EXCEPT ![p] = target[link].content]
  /\ img' = [img EXCEPT ![p] = IF Windows THEN <<link, None>> ELSE None]
  /\ Goto(p, "ready")
  /\ UNCHANGED <<dir, link, lock, plan, job, cancelled, applies, history>>

(* An installer or a build that does not take the lock replaces the        *)
(* executable at t, moving a running one out of its way.                   *)
ExternalInstall(t) ==
  /\ \E c \in Outside :
       target' = [target EXCEPT ![t] =
                    [content |-> c, exec |-> TRUE, hidden |-> FALSE]]
  /\ img' = [q \in Proc |-> IF img[q] = <<t, None>> THEN None ELSE img[q]]
  /\ snap' = [q \in Proc |-> IF plan[q] # None /\ plan[q].path = t
                             THEN None ELSE snap[q]]
  /\ UNCHANGED <<stages, archives, backups, link, lock, pc, cur, plan, job,
                 cancelled, applies, swapped>>

(* The symlink is pointed at another executable.                           *)
Relink(t) ==
  /\ t # link /\ link' = t
  /\ UNCHANGED <<dir, lock, pc, life, plan, job, cancelled, applies, history>>

-----------------------------------------------------------------------------
Init ==
  /\ target \in [Path -> [content : Content, exec : {TRUE}, hidden : {FALSE}]]
  /\ stages = [t \in Path |-> [n \in Name |-> None]]
  /\ archives = [t \in Path |-> [n \in Name |-> None]]
  /\ backups = [t \in Path |-> [n \in Name |-> None]]
  /\ link \in Path
  /\ lock = [t \in Path |-> None]
  /\ pc = [p \in Proc |-> "down"]
  /\ cur = [p \in Proc |-> Foreign]
  /\ img = [p \in Proc |-> None]
  /\ plan = [p \in Proc |-> None]
  /\ job = [p \in Proc |-> NoJob]
  /\ cancelled = [p \in Proc |-> FALSE]
  /\ applies = [p \in Proc |-> 0]
  /\ snap = [p \in Proc |-> None]
  /\ swapped = [p \in Proc |-> FALSE]

UnderLock(p) ==
  \/ Recheck(p) \/ SweepBackups(p) \/ SweepStages(p) \/ SweepArchives(p)
  \/ Fingerprint(p) \/ CreateArchive(p) \/ Download(p) \/ VerifyDigest(p)
  \/ CreateStage(p) \/ Extract(p) \/ ChmodStage(p) \/ Refingerprint(p)
  \/ Precommit(p) \/ Fail(p) \/ Interrupt(p)

Replacement(p) ==
  \/ RenameStage(p) \/ SyncDirectory(p) \/ ReplaceFails(p)
  \/ MoveAside(p) \/ HideBackup(p) \/ InstallStage(p) \/ Rollback(p)
  \/ UnhideTarget(p) \/ DropBackup(p)

Deferred(p) == RemoveStage(p) \/ RemoveArchive(p) \/ Release(p)

(* What a running call of Apply does by itself.                            *)
Step(p) ==
  Acquire(p) \/ StopWaiting(p) \/ UnderLock(p) \/ Replacement(p) \/ Deferred(p)

Environment ==
  \/ \E p \in Proc : LockFails(p) \/ Cancel(p) \/ Crash(p) \/ Start(p)
  \/ \E t \in Path : ExternalInstall(t) \/ Relink(t)

Next ==
  \/ \E p \in Proc : Check(p) \/ FingerprintPlan(p) \/ BeginApply(p) \/ Step(p)
  \/ Environment

Spec == Init /\ [][Next]_vars

(* A process that is not killed goes on: every system call returns, the    *)
(* idle timer ends a stalled download, and the poll timer fires.           *)
Fairness == \A p \in Proc : WF_vars(Step(p))

FairSpec == Spec /\ Fairness

-----------------------------------------------------------------------------
(* Properties.                                                             *)

(* Every variable keeps its type: in particular a call's err is one of the *)
(* three kinds, and at most one process is recorded as holding a lock.     *)
TypeOK ==
  /\ target \in [Path -> File \cup {None}]
  /\ stages \in [Path -> [Name -> File \cup {None}]]
  /\ archives \in [Path -> [Name -> Bytes \cup {None}]]
  /\ backups \in [Path -> [Name -> File \cup {None}]]
  /\ link \in Path
  /\ lock \in [Path -> Proc \cup {None}]
  /\ pc \in [Proc -> Point]
  /\ cur \in [Proc -> Bytes]
  /\ img \in [Proc -> (Path \X (Name \cup {None})) \cup {None}]
  /\ plan \in [Proc -> Plan \cup {None}]
  /\ job \in [Proc -> Job]
  /\ cancelled \in [Proc -> BOOLEAN]
  /\ applies \in [Proc -> Nat]
  /\ snap \in [Proc -> File \cup {None}]
  /\ swapped \in [Proc -> BOOLEAN]

(* What a live call still needs: the archive it reads, the stage it will   *)
(* install, and the backup that leads back.                                *)
NeedsArchive == {"download", "verify", "stage", "extract"}
NeedsStage == {"extract", "chmod", "refingerprint", "precommit", "replace",
               "hide", "install"}
NeedsBackup == {"hide", "install", "rollback", "drop"}

(* No process's sweep, and no cleanup of an abandoned call, takes a file   *)
(* that a live call works on: cleanupStaleFiles and cleanupStaleBackups    *)
(* delete by name pattern, and only the lock tells stale from live.        *)
LiveFilesKept ==
  \A p \in Proc : LET t == plan[p].path IN
    /\ pc[p] \in NeedsArchive => archives[t][job[p].archive] # None
    /\ pc[p] \in NeedsStage => stages[t][job[p].stage] # None
    /\ pc[p] \in NeedsBackup => backups[t][job[p].backup] # None

(* No crash, failed system call or failed rollback loses the program: the  *)
(* executable is at its path, whole and runnable, or, which only the       *)
(* Windows replacement can cause, a whole and runnable backup is beside it.*)
Runnable(f) == f # None /\ f.exec /\ f.content # Corrupt

ExecutableRecoverable ==
  \A t \in Path :
    \/ Runnable(target[t])
    \/ Windows /\ target[t] = None /\ \E n \in Name : Runnable(backups[t][n])

(* A stage is never executable while its bytes are incomplete or are not   *)
(* those of a verified archive, whatever interrupts its call: a crash      *)
(* leaves no runnable file that is not a release.                          *)
NeverExecutablePartial ==
  \A t \in Path, n \in Name :
    stages[t][n] # None /\ stages[t][n].exec => stages[t][n].content \in Version

(* The step that puts a stage in place of the executable installs the      *)
(* release its own plan names, and unless another program replaced the     *)
(* executable behind Apply's back after the last fingerprint, what it      *)
(* replaces is what Check fingerprinted.                                   *)
ReplacesAsPlanned ==
  [][\A p \in Proc : ~swapped[p] /\ swapped'[p] =>
       LET t == plan[p].path
           old == IF Windows THEN backups[t][job[p].backup] ELSE target[t] IN
       /\ target'[t].content = plan[p].version
       /\ snap[p] # None => old.content = plan[p].hash]_vars

(* Unless its plan asks for a version and its updater has opted in to      *)
(* downgrades, a call leaves a release strictly newer than the program     *)
(* that made it, which must have a release's version itself: whatever was  *)
(* planned, installed, started or retried before (selfupdate.go:339-349;   *)
(* README.md:157, AllowDowngrade "never changes plans returned by Check"). *)
NeverDowngradesUnasked ==
  [][\A p \in Proc :
       /\ ~swapped[p] /\ swapped'[p]
       /\ ~(plan[p].targeted /\ p \in AllowDowngrade)
       => /\ cur[p] \in Version
          /\ target'[plan[p].path].content > cur[p]]_vars

(* Result.Committed is authoritative: whatever failed after or before it,  *)
(* it tells whether the call has renamed its stage onto the executable.    *)
CommittedIsAuthoritative ==
  \A p \in Proc : pc[p] = "defer" => (job[p].committed <=> swapped[p])

(* An uncommitted call without a RollbackError leaves the executable it    *)
(* fingerprinted last as it was: present, with its bytes, not hidden.      *)
FailureRestores ==
  \A p \in Proc :
    /\ pc[p] = "defer" /\ ~job[p].committed /\ job[p].err = "failed"
    /\ snap[p] # None
    => LET now == target[plan[p].path] IN
       /\ now # None /\ now.content = snap[p].content
       /\ now.hidden => snap[p].hidden

(* When a call commits without an error, CleanupPending is true exactly    *)
(* when a backup is still beside the executable, be it its own or one that *)
(* an earlier call could not delete.                                       *)
PendingMeansBackup ==
  \A p \in Proc :
    pc[p] = "defer" /\ job[p].committed /\ job[p].err = "none" =>
      (job[p].cleanupPending <=> Present(backups, plan[p].path) # {})

(* A call that is about to return without an error has left neither its    *)
(* own temporary files nor any that a killed call had left before.         *)
SuccessLeavesNoTemps ==
  \A p \in Proc :
    /\ pc[p] = "defer" /\ job[p].err = "none"
    /\ job[p].stage = None /\ job[p].archive = None
    => LET t == plan[p].path IN
       Present(stages, t) = {} /\ Present(archives, t) = {}

(* A lock that is taken becomes free: no error path, panic-free return or  *)
(* crash of its holder keeps other processes from updating for good.       *)
LockComesFree == \A t \in Path : (lock[t] # None) ~> (lock[t] = None)

(* Cancellation stops ordinary work until replacement begins: a call whose *)
(* context is done before that stops waiting for the lock, or ends without *)
(* a commit.                                                               *)
CancelStops ==
  \A p \in Proc :
    /\ (cancelled[p] /\ pc[p] = "waiting") ~> pc[p] # "waiting"
    /\ (cancelled[p] /\ pc[p] \in Prelude) ~>
         (pc[p] = "down" \/ (pc[p] = "defer" /\ ~job[p].committed))

=============================================================================
