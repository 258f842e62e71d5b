------------------------ MODULE ApplyOutcomeProofs ------------------------
(***************************************************************************)
(* What a call of Apply may be relied on when it returns: an error without *)
(* a RollbackError has changed nothing, CleanupPending tells of backups,   *)
(* and success has left no temporary file.                                 *)
(*                                                                         *)
(* These speak of the deferred functions only.  Outcome(p) carries back    *)
(* from there, through every step of the call, what each of them rests on. *)
(***************************************************************************)
EXTENDS ApplyProofs

(* Before the second fingerprint a call has nothing to restore.            *)
Unarmed(p) == pc[p] \notin Replacing \cup {"precommit", "defer"} => snap[p] = None

(* The executable of p's plan is as p's second fingerprint saw it.         *)
Restored(p) ==
  LET now == target[plan[p].path] IN
  /\ now # None /\ now.content = snap[p].content
  /\ now.hidden => snap[p].hidden

(* What the second fingerprint saw is at the path, in the backup, back at  *)
(* the path, or given up on.                                               *)
SeenKept(p) ==
  snap[p] # None => LET t == plan[p].path IN
    /\ pc[p] \in {"hide", "install", "rollback"} =>
         backups[t][job[p].backup].content = snap[p].content
    /\ pc[p] = "unhide" => target[t] # None /\ target[t].content = snap[p].content
    /\ pc[p] = "defer" /\ ~job[p].committed /\ job[p].err = "failed" =>
         Restored(p)

(* Which backups are beside the executable.                                *)
Unswept == {"down", "ready", "planning", "waiting", "locked"}
MovedAside == {"hide", "install", "drop"}
Undoing == {"rollback", "unhide"}

BackupsKnown(p) ==
  LET left == Present(backups, plan[p].path) IN
  /\ pc[p] \in Unswept => ~job[p].swept
  /\ pc[p] \in Holding \ ({"locked", "sweepBackups", "defer"} \cup MovedAside
                          \cup Undoing) =>
       (job[p].swept <=> left # {})
  /\ pc[p] \in MovedAside => (job[p].swept <=> left \ {job[p].backup} # {})
  /\ pc[p] = "defer" /\ job[p].committed /\ job[p].err = "none" =>
       (job[p].cleanupPending <=> left # {})

(* Which temporary files are: after the sweep, those the call has made.    *)
BeforeArchive == {"fingerprint", "create"}
BeforeStage == BeforeArchive \cup {"sweepArchives", "download", "verify", "stage"}
WithArchive == Holding \ (BeforeArchive \cup {"locked", "sweepBackups",
                                "sweepStages", "sweepArchives", "defer"})
WithStage == NeedsStage \cup Undoing

TempsKnown(p) ==
  LET ss == Present(stages, plan[p].path)
      as == Present(archives, plan[p].path) IN
  /\ pc[p] \in BeforeArchive => as = {}
  /\ pc[p] \in BeforeStage \cup {"syncdir", "drop"} => ss = {}
  /\ pc[p] \in WithArchive => as \subseteq {job[p].archive}
  /\ pc[p] \in WithStage => ss \subseteq {job[p].stage}
  /\ pc[p] = "defer" /\ job[p].err = "none" =>
       as \subseteq {job[p].archive} /\ ss \subseteq {job[p].stage}

(* A call that has not committed has failed.                               *)
ErrorTold(p) ==
  pc[p] = "defer" /\ ~job[p].committed => job[p].err # "none"

Outcome(p) ==
  Unarmed(p) /\ SeenKept(p) /\ BackupsKnown(p) /\ TempsKnown(p) /\ ErrorTold(p)

(* Only replace_windows.go makes backups.                                  *)
NoBackups == ~Windows => \A t \in Path : Present(backups, t) = {}

OInv == NoBackups /\ \A p \in Proc : Outcome(p)

USE DEF InApply, Holding, Prelude, Replacing, Point, NeedsArchive, NeedsStage,
NeedsBackup, Unswept, MovedAside, Undoing, BeforeArchive, BeforeStage,
WithArchive, WithStage, Goto, dir, life, history

-----------------------------------------------------------------------------
(* Steps of others, and the kinds of steps of one's own.                   *)

(* A step of another process that keeps to its footprint leaves p's        *)
(* outcome: what it speaks of is behind p's lock.                          *)
LEMMA OutcomeKept ==
  ASSUME NEW p \in Proc, NEW q \in Proc, p # q, Inv, Outcome(p), OnlyBy(q)
  PROVE Outcome(p)'
<1>0. Known(p) BY InvFacts
<1>1. /\ pc'[p] = pc[p] /\ plan'[p] = plan[p] /\ job'[p] = job[p]
      /\ snap'[p] = snap[p]
  BY DEF OnlyBy
<1>2. CASE pc[p] \in Holding
  <2> DEFINE t == plan[p].path
  <2>1. /\ target'[t] = target[t] /\ stages'[t] = stages[t]
        /\ archives'[t] = archives[t] /\ backups'[t] = backups[t]
    BY <1>0, <1>2 DEF Known, OnlyBy
  <2>2. /\ Present(stages, t)' = Present(stages, t)
        /\ Present(archives, t)' = Present(archives, t)
        /\ Present(backups, t)' = Present(backups, t)
    BY <1>1, <2>1 DEF Present
  <2> QED BY <1>1, <2>1, <2>2 DEF Outcome, Unarmed, SeenKept, Restored,
    BackupsKnown, TempsKnown, ErrorTold
<1>3. CASE pc[p] \notin Holding
  BY <1>1, <1>3 DEF Outcome, Unarmed, SeenKept, BackupsKnown, TempsKnown, ErrorTold
<1> QED BY <1>2, <1>3

(* Outside of the lock there is nothing to know.                           *)
LEMMA OutsideOutcome ==
  ASSUME NEW p \in Proc, pc'[p] \in Unswept, ~job'[p].swept, snap'[p] = None
  PROVE Outcome(p)'
BY DEF Outcome, Unarmed, SeenKept, BackupsKnown, TempsKnown, ErrorTold

(* A call that ends with an error that is not a RollbackError has restored *)
(* what it saw.                                                            *)
LEMMA FailedOutcome ==
  ASSUME NEW p \in Proc, pc'[p] = "defer", job'[p].err \in {"failed", "rollback"},
         ~job'[p].committed,
         snap'[p] # None /\ job'[p].err = "failed" => Restored(p)'
  PROVE Outcome(p)'
BY DEF Outcome, Unarmed, SeenKept, BackupsKnown, TempsKnown, ErrorTold

(* An error return before the first rename has moved nothing.              *)
LEMMA AbortOutcome ==
  ASSUME NEW p \in Proc, Inv, Outcome(p), Abort(p),
         pc[p] \in Prelude \cup {"replace"},
         target' = target, plan' = plan, snap' = snap
  PROVE Outcome(p)'
<1>0. Known(p) /\ job \in [Proc -> Job] /\ pc \in [Proc -> Point]
  BY InvFacts DEF Known, TypeOK
<1>1. ~job[p].committed BY <1>0 DEF Known, Own, CommitKnown
<1>2. /\ pc'[p] = "defer" /\ job'[p].err = "failed" /\ ~job'[p].committed
  BY <1>0, <1>1 DEF Abort, Job
<1>3. snap[p] # None => pc[p] \in {"precommit", "replace"}
  BY DEF Outcome, Unarmed
<1>4. snap[p] # None => target[plan[p].path] = snap[p]
  BY <1>0, <1>3 DEF Known, Own, ReplacesSeen
<1>5. snap'[p] # None => Restored(p)' BY <1>4 DEF Restored
<1> QED BY <1>2, <1>5, FailedOutcome

(* Between the sweep of the backups and the first rename the backups stay. *)
Steady == Prelude \cup {"replace"}

(* So what is known of them stays, too.                                    *)
LEMMA OnwardOutcome ==
  ASSUME NEW p \in Proc, Outcome(p), TempsKnown(p)',
         pc[p] \in Steady \ {"locked", "sweepBackups"},
         pc'[p] \in Steady \ {"locked", "sweepBackups"},
         backups' = backups, plan' = plan, job'[p].swept = job[p].swept,
         pc'[p] \in {"precommit", "replace"} \/ snap'[p] = None
  PROVE Outcome(p)'
BY DEF Steady, Outcome, Unarmed, SeenKept, BackupsKnown, ErrorTold, Present
-----------------------------------------------------------------------------
(* The actions of Apply.                                                   *)

(* Steps outside of the lock, and the ones that take and leave it.         *)
LEMMA OutsideOutcomes ==
  ASSUME NEW p \in Proc, Inv, Outcome(p),
         \/ Check(p) \/ FingerprintPlan(p) \/ BeginApply(p) \/ StopWaiting(p)
         \/ LockFails(p) \/ Acquire(p) \/ Start(p)
  PROVE Outcome(p)'
<1>0. pc \in [Proc -> Point] /\ job \in [Proc -> Job] BY DEF Inv, TypeOK
<1>1. pc[p] \in Unswept \ {"locked"} /\ pc'[p] \in Unswept /\ snap' = snap
  BY <1>0 DEF Check, FingerprintPlan, BeginApply, StopWaiting, LockFails, Acquire,
    Start, Return
<1>2. ~job'[p].swept
  <2>1. CASE job' = job BY <1>1, <2>1 DEF Outcome, BackupsKnown
  <2>2. CASE Return(p) BY <1>0, <2>2 DEF Return, NoJob
  <2> QED BY <2>1, <2>2 DEF Check, FingerprintPlan, BeginApply, StopWaiting,
    LockFails, Acquire, Start
<1>3. snap'[p] = None BY <1>1 DEF Outcome, Unarmed
<1> QED BY <1>1, <1>2, <1>3, OutsideOutcome

(* A kill and the deferred unlock end the call.                            *)
LEMMA EndOutcomes ==
  ASSUME NEW p \in Proc, Inv, Release(p) \/ Crash(p)
  PROVE Outcome(p)'
<1>0. /\ pc \in [Proc -> Point] /\ job \in [Proc -> Job]
      /\ snap \in [Proc -> File \cup {None}]
  BY DEF Inv, TypeOK
<1>1. pc'[p] \in {"ready", "down"} /\ ~job'[p].swept /\ snap'[p] = None
  BY <1>0 DEF Release, Crash, Return, NoJob
<1> QED BY <1>1, OutsideOutcome

(* Recheck begins with nothing swept.                                      *)
LEMMA RecheckOutcome ==
  ASSUME NEW p \in Proc, Inv, NoBackups, Outcome(p), Recheck(p)
  PROVE Outcome(p)'
<1>0. /\ pc \in [Proc -> Point] /\ pc[p] = "locked" /\ snap' = snap
      /\ target' = target /\ plan' = plan /\ backups' = backups
      /\ plan[p].path \in Path
  BY InvFacts DEF Known, TypeOK, Recheck
<1>1. CASE Abort(p) BY <1>0, <1>1, AbortOutcome
<1>2. CASE Goto(p, IF Windows THEN "sweepBackups" ELSE "sweepStages") /\ UNCHANGED job
  <2>1. pc'[p] = IF Windows THEN "sweepBackups" ELSE "sweepStages" BY <1>0, <1>2
  <2>2. snap[p] = None BY <1>0 DEF Outcome, Unarmed
  <2>3. ~Windows => Present(backups, plan[p].path) = {} BY <1>0 DEF NoBackups
  <2> QED BY <1>0, <1>2, <2>1, <2>2, <2>3 DEF Outcome, Unarmed, SeenKept,
    BackupsKnown, TempsKnown, ErrorTold, Present
<1> QED BY <1>1, <1>2 DEF Recheck

(* SweepBackups remembers whether a backup was kept.                       *)
LEMMA SweepBackupsOutcome ==
  ASSUME NEW p \in Proc, Inv, Outcome(p), SweepBackups(p)
  PROVE Outcome(p)'
<1> DEFINE t == plan[p].path
<1>0. /\ t \in Path /\ pc \in [Proc -> Point] /\ pc[p] = "sweepBackups"
      /\ job \in [Proc -> Job] /\ None \notin Name
      /\ backups \in [Path -> [Name -> File \cup {None}]]
      /\ snap' = snap /\ target' = target /\ plan' = plan
  BY InvFacts DEF Known, TypeOK, SweepBackups
<1>1. CASE Abort(p) BY <1>0, <1>1, AbortOutcome
<1>2. ASSUME NEW kept \in SUBSET Present(backups, t),
             backups' = KeepOnly(backups, t, kept), Goto(p, "sweepStages"),
             job' = [job EXCEPT ![p].swept = kept # {}]
      PROVE Outcome(p)'
  <2>1. pc'[p] = "sweepStages" BY <1>0, <1>2
  <2>2. Present(backups', t) = kept
    BY <1>0, <1>2 DEF KeepOnly, Present
  <2>3. job'[p].swept <=> kept # {}
    <3> DEFINE b == kept # {}
    <3>1. job' = [job EXCEPT ![p].swept = b] BY <1>2
    <3> HIDE DEF b
    <3>2. job'[p].swept = b BY <1>0, <3>1 DEF Job
    <3> QED BY <3>2 DEF b
  <2>4. snap[p] = None BY <1>0 DEF Outcome, Unarmed
  <2> QED BY <1>0, <2>1, <2>2, <2>3, <2>4 DEF Outcome, Unarmed, SeenKept,
    BackupsKnown, TempsKnown, ErrorTold, Present
<1> QED BY <1>1, <1>2 DEF SweepBackups

(* The sweeps of the temporary files leave none.                           *)
LEMMA SweepTempsOutcome ==
  ASSUME NEW p \in Proc, Inv, Outcome(p), SweepStages(p) \/ SweepArchives(p)
  PROVE Outcome(p)'
<1> DEFINE t == plan[p].path
<1>0. /\ t \in Path /\ pc \in [Proc -> Point] /\ job \in [Proc -> Job]
      /\ stages \in [Path -> [Name -> File \cup {None}]]
      /\ archives \in [Path -> [Name -> Bytes \cup {None}]]
      /\ pc[p] \in {"sweepStages", "sweepArchives"}
      /\ snap' = snap /\ target' = target /\ plan' = plan /\ backups' = backups
  BY InvFacts DEF Known, TypeOK, SweepStages, SweepArchives
<1>1. CASE Abort(p) BY <1>0, <1>1, AbortOutcome
<1>2. snap[p] = None BY <1>0 DEF Outcome, Unarmed
<1>3. CASE /\ SweepStages(p) /\ stages' = KeepOnly(stages, t, {})
           /\ Goto(p, "sweepArchives") /\ UNCHANGED job
  <2>1. pc'[p] = "sweepArchives" BY <1>0, <1>3
  <2>2. Present(stages', t) = {} BY <1>0, <1>3 DEF KeepOnly, Present
  <2>3. TempsKnown(p)' BY <1>0, <2>1, <2>2 DEF TempsKnown, Present
  <2> QED BY <1>0, <1>2, <1>3, <2>1, <2>3, OnwardOutcome DEF Steady
<1>4. CASE /\ SweepArchives(p) /\ archives' = KeepOnly(archives, t, {})
           /\ Goto(p, "fingerprint") /\ UNCHANGED job
  <2>1. pc'[p] = "fingerprint" /\ pc[p] = "sweepArchives" /\ stages' = stages
    BY <1>0, <1>4 DEF SweepArchives
  <2>2. Present(archives', t) = {} BY <1>0, <1>4 DEF KeepOnly, Present
  <2>3. TempsKnown(p)'
    BY <1>0, <2>1, <2>2 DEF Outcome, TempsKnown, Present
  <2> QED BY <1>0, <1>2, <1>4, <2>1, <2>3, OnwardOutcome DEF Steady
<1> QED BY <1>1, <1>3, <1>4 DEF SweepStages, SweepArchives

(* The checks change no file.                                              *)
LEMMA ChecksOutcome ==
  ASSUME NEW p \in Proc, Inv, Outcome(p),
         Fingerprint(p) \/ VerifyDigest(p) \/ Refingerprint(p) \/ Precommit(p)
  PROVE Outcome(p)'
<1>0. /\ pc \in [Proc -> Point]
      /\ pc[p] \in {"fingerprint", "verify", "refingerprint", "precommit"}
      /\ target' = target /\ plan' = plan /\ backups' = backups
      /\ stages' = stages /\ archives' = archives
  BY DEF Inv, TypeOK, Fingerprint, VerifyDigest, Refingerprint, Precommit
<1>1. CASE Abort(p)
  <2>1. snap' = snap
    BY <1>0, <1>1 DEF Abort, Fingerprint, VerifyDigest, Refingerprint, Precommit
  <2> QED BY <1>0, <1>1, <2>1, AbortOutcome
<1>2. CASE ~Abort(p)
  <2>1. /\ job' = job
        /\ <<pc[p], pc'[p]>> \in {<<"fingerprint", "create">>, <<"verify", "stage">>,
             <<"refingerprint", "precommit">>, <<"precommit", "replace">>}
    BY <1>0, <1>2 DEF Fingerprint, VerifyDigest, Refingerprint, Precommit
  <2>2. TempsKnown(p)' BY <1>0, <2>1 DEF Outcome, TempsKnown, Present
  <2>3. pc'[p] \in {"precommit", "replace"} \/ snap'[p] = None
    <3>1. CASE Fingerprint(p) \/ VerifyDigest(p)
      <4>1. /\ pc[p] \in {"fingerprint", "verify"} /\ snap' = snap
        BY <3>1 DEF Fingerprint, VerifyDigest
      <4> QED BY <4>1 DEF Outcome, Unarmed
    <3>2. CASE Refingerprint(p) \/ Precommit(p)
      <4>1. pc[p] \in {"refingerprint", "precommit"}
        BY <3>2 DEF Refingerprint, Precommit
      <4> QED BY <2>1, <4>1
    <3> QED BY <3>1, <3>2
  <2> QED BY <1>0, <2>1, <2>2, <2>3, OnwardOutcome DEF Steady
<1> QED BY <1>1, <1>2

(* The archive is the one the call remembers.                              *)
LEMMA ArchiveOutcome ==
  ASSUME NEW p \in Proc, Inv, Outcome(p), CreateArchive(p) \/ Download(p)
  PROVE Outcome(p)'
<1> DEFINE t == plan[p].path
<1>0. /\ t \in Path /\ pc \in [Proc -> Point] /\ job \in [Proc -> Job]
      /\ archives \in [Path -> [Name -> Bytes \cup {None}]]
      /\ stages' = stages /\ plan' = plan /\ backups' = backups /\ snap' = snap
  BY InvFacts DEF Known, TypeOK, CreateArchive, Download
<1>1. CASE CreateArchive(p)
  <2>1. PICK n \in Name : /\ archives' = [archives EXCEPT ![t][n] = Corrupt]
                          /\ job' = [job EXCEPT ![p].archive = n]
    BY <1>1 DEF CreateArchive
  <2>2. /\ pc[p] = "create" /\ pc'[p] = "download"
        /\ job'[p].archive = n /\ job'[p].swept = job[p].swept
    BY <1>0, <1>1, <2>1 DEF CreateArchive, Job
  <2>3. Present(archives, t) = {} /\ Present(stages, t) = {}
    BY <2>2 DEF Outcome, TempsKnown
  <2>4. Present(archives', t) \subseteq {n}
    BY <1>0, <2>1, <2>3 DEF Present
  <2>5. TempsKnown(p)' BY <1>0, <2>2, <2>3, <2>4 DEF TempsKnown, Present
  <2>6. snap'[p] = None BY <1>0, <2>2 DEF Outcome, Unarmed
  <2> QED BY <1>0, <2>2, <2>5, <2>6, OnwardOutcome DEF Steady
<1>2. CASE Download(p)
  <2> DEFINE n == job[p].archive
  <2>1. /\ pc[p] = "download" /\ pc'[p] = "verify" /\ job' = job
        /\ \E b : archives' = [archives EXCEPT ![t][n] = b]
    BY <1>0, <1>2 DEF Download
  <2>2. Present(archives, t) \subseteq {n} /\ Present(stages, t) = {}
    BY <2>1 DEF Outcome, TempsKnown
  <2>3. Present(archives', t) \subseteq {n}
    BY <1>0, <2>1, <2>2 DEF Present
  <2>4. TempsKnown(p)' BY <1>0, <2>1, <2>2, <2>3 DEF TempsKnown, Present
  <2>5. snap'[p] = None BY <1>0, <2>1 DEF Outcome, Unarmed
  <2> QED BY <1>0, <2>1, <2>4, <2>5, OnwardOutcome DEF Steady
<1> QED BY <1>1, <1>2

(* And so is the stage.                                                    *)
LEMMA StageOutcome ==
  ASSUME NEW p \in Proc, Inv, Outcome(p),
         CreateStage(p) \/ Extract(p) \/ ChmodStage(p)
  PROVE Outcome(p)'
<1> DEFINE t == plan[p].path
<1>0. /\ t \in Path /\ pc \in [Proc -> Point] /\ job \in [Proc -> Job]
      /\ stages \in [Path -> [Name -> File \cup {None}]]
      /\ archives' = archives /\ plan' = plan /\ backups' = backups /\ snap' = snap
  BY InvFacts DEF Known, TypeOK, CreateStage, Extract, ChmodStage
<1>1. CASE CreateStage(p)
  <2> DEFINE f == [content |-> Corrupt, exec |-> FALSE, hidden |-> FALSE]
  <2>1. PICK n \in Name : /\ stages' = [stages EXCEPT ![t][n] = f]
                          /\ job' = [job EXCEPT ![p].stage = n]
    BY <1>1 DEF CreateStage
  <2> HIDE DEF f
  <2>2. /\ pc[p] = "stage" /\ pc'[p] = "extract"
        /\ job'[p].stage = n /\ job'[p].swept = job[p].swept
        /\ job'[p].archive = job[p].archive
    BY <1>0, <1>1, <2>1 DEF CreateStage, Job
  <2>3. Present(archives, t) \subseteq {job[p].archive} /\ Present(stages, t) = {}
    BY <2>2 DEF Outcome, TempsKnown
  <2>4. Present(stages', t) \subseteq {n}
    BY <1>0, <2>1, <2>3 DEF Present
  <2>5. TempsKnown(p)' BY <1>0, <2>2, <2>3, <2>4 DEF TempsKnown, Present
  <2>6. snap'[p] = None BY <1>0, <2>2 DEF Outcome, Unarmed
  <2> QED BY <1>0, <2>2, <2>5, <2>6, OnwardOutcome DEF Steady
<1>2. CASE Extract(p) \/ ChmodStage(p)
  <2> DEFINE n == job[p].stage
  <2>1. /\ <<pc[p], pc'[p]>> \in {<<"extract", "chmod">>, <<"chmod", "refingerprint">>}
        /\ job' = job
    BY <1>0, <1>2 DEF Extract, ChmodStage
  <2>2. Present(archives, t) \subseteq {job[p].archive} /\ Present(stages, t) \subseteq {n}
    BY <2>1 DEF Outcome, TempsKnown
  <2>3. \A m \in Name \ {n} : stages'[t][m] = stages[t][m]
    BY <1>0, <1>2 DEF Extract, ChmodStage
  <2>4. Present(stages', t) \subseteq {n} BY <2>2, <2>3 DEF Present
  <2>5. TempsKnown(p)' BY <1>0, <2>1, <2>2, <2>4 DEF TempsKnown, Present
  <2>6. snap'[p] = None BY <1>0, <2>1 DEF Outcome, Unarmed
  <2> QED BY <1>0, <2>1, <2>5, <2>6, OnwardOutcome DEF Steady
<1> QED BY <1>1, <1>2

(* An error before the second fingerprint has nothing to restore.          *)
LEMMA GiveUpOutcome ==
  ASSUME NEW p \in Proc, Inv, Outcome(p), Fail(p) \/ Interrupt(p)
  PROVE Outcome(p)'
<1>0. /\ Known(p) /\ pc \in [Proc -> Point] /\ job \in [Proc -> Job]
      /\ GiveUp(p) /\ pc[p] \in Prelude \ {"precommit"} /\ snap' = snap
  BY InvFacts DEF Known, TypeOK, Fail, Interrupt, GiveUp
<1>1. ~job[p].committed BY <1>0 DEF Known, Own, CommitKnown
<1>2. pc'[p] = "defer" /\ job'[p].err = "failed" /\ ~job'[p].committed
  BY <1>0, <1>1 DEF GiveUp, Job
<1>3. snap'[p] = None BY <1>0 DEF Outcome, Unarmed
<1> QED BY <1>2, <1>3, FailedOutcome

(* The rename onto the executable takes the stage away.                    *)
LEMMA StageMovesOutcome ==
  ASSUME NEW p \in Proc, Inv, Outcome(p), MoveStage(p, plan[p].path),
         <<pc[p], pc'[p]>> \in {<<"replace", "syncdir">>, <<"install", "drop">>},
         archives' = archives, backups' = backups, plan' = plan, job' = job,
         snap' = snap
  PROVE Outcome(p)'
<1> DEFINE t == plan[p].path
           n == job[p].stage
<1>0. t \in Path /\ stages \in [Path -> [Name -> File \cup {None}]]
  BY InvFacts DEF Known, TypeOK
<1>1. /\ Present(archives, t) \subseteq {job[p].archive}
      /\ Present(stages, t) \subseteq {n}
  BY DEF Outcome, TempsKnown
<1>2. Present(stages', t) = {}
  <2>1. stages' = [stages EXCEPT ![t][n] = None] BY DEF MoveStage
  <2> QED BY <1>0, <1>1, <2>1 DEF Present
<1>3. TempsKnown(p)' BY <1>0, <1>1, <1>2 DEF TempsKnown, Present
<1> QED BY <1>3 DEF Outcome, Unarmed, SeenKept, BackupsKnown, ErrorTold, Present

(* replace_unix.go commits with what the sweep of the backups remembered.  *)
LEMMA UnixOutcome ==
  ASSUME NEW p \in Proc, Inv, Outcome(p),
         RenameStage(p) \/ SyncDirectory(p) \/ ReplaceFails(p)
  PROVE Outcome(p)'
<1>0. /\ pc \in [Proc -> Point] /\ job \in [Proc -> Job]
  BY DEF Inv, TypeOK
<1>1. CASE RenameStage(p)
  BY <1>0, <1>1, StageMovesOutcome DEF RenameStage
<1>2. CASE ReplaceFails(p)
  BY <1>2, AbortOutcome DEF ReplaceFails
<1>3. CASE SyncDirectory(p)
  <2>1. PICK e \in {"none", "failed"} : Commit(p, e, FALSE)
    BY <1>3 DEF SyncDirectory
  <2>2. /\ pc[p] = "syncdir" /\ pc'[p] = "defer"
        /\ stages' = stages /\ archives' = archives /\ backups' = backups
        /\ plan' = plan /\ snap' = snap
    BY <1>0, <1>3, <2>1 DEF SyncDirectory, Commit
  <2>3. /\ job'[p].committed /\ job'[p].cleanupPending = job[p].swept
        /\ job'[p].archive = job[p].archive
    BY <1>0, <2>1 DEF Commit, Job
  <2> QED BY <2>2, <2>3 DEF Outcome, Unarmed, SeenKept, BackupsKnown,
    TempsKnown, ErrorTold, Present
<1> QED BY <1>1, <1>2, <1>3

(* The first rename of replace_windows.go adds the call's own backup to    *)
(* those that were left.                                                   *)
LEMMA MoveAsideOutcome ==
  ASSUME NEW p \in Proc, Inv, Outcome(p), MoveAside(p)
  PROVE Outcome(p)'
<1> DEFINE t == plan[p].path
<1>0. /\ Known(p) /\ t \in Path /\ pc[p] = "replace" /\ pc'[p] = "hide"
      /\ job \in [Proc -> Job] /\ target[t] # None
      /\ backups \in [Path -> [Name -> File \cup {None}]]
      /\ stages' = stages /\ archives' = archives /\ plan' = plan /\ snap' = snap
  BY InvFacts DEF Known, TypeOK, MoveAside
<1>1. PICK n \in Name \ Present(backups, t) :
        /\ backups' = [backups EXCEPT ![t][n] = target[t]]
        /\ job' = [job EXCEPT ![p].backup = n]
  BY DEF MoveAside
<1>2. /\ job'[p].backup = n /\ job'[p].swept = job[p].swept
      /\ job'[p].archive = job[p].archive /\ job'[p].stage = job[p].stage
  BY <1>0, <1>1 DEF Job
<1>3. /\ backups'[t][n] = target[t]
      /\ \A m \in Name \ {n} : backups'[t][m] = backups[t][m]
  BY <1>0, <1>1
<1>4. Present(backups', t) \ {n} = Present(backups, t) BY <1>1, <1>3 DEF Present
<1>5. SeenKept(p)'
  <2>1. snap[p] # None => target[t] = snap[p]
    BY <1>0 DEF Known, Own, ReplacesSeen
  <2> QED BY <1>0, <1>2, <1>3, <2>1 DEF SeenKept
<1>6. BackupsKnown(p)' BY <1>0, <1>2, <1>4 DEF Outcome, BackupsKnown, Present
<1>7. TempsKnown(p)' BY <1>0, <1>2 DEF Outcome, TempsKnown, Present
<1> QED BY <1>0, <1>5, <1>6, <1>7 DEF Outcome, Unarmed, ErrorTold

(* Hiding the backup keeps its bytes.                                      *)
LEMMA HideBackupOutcome ==
  ASSUME NEW p \in Proc, Inv, Outcome(p), HideBackup(p)
  PROVE Outcome(p)'
<1> DEFINE t == plan[p].path
           n == job[p].backup
           f == backups[t][n]
           g == [f EXCEPT !.hidden = TRUE]
<1>0. /\ Known(p) /\ t \in Path /\ n \in Name /\ f \in File
      /\ backups \in [Path -> [Name -> File \cup {None}]]
  BY InvFacts DEF Known, TypeOK, HideBackup, Own, HasFiles
<1>1. /\ pc[p] = "hide" /\ pc'[p] \in {"install", "rollback"}
      /\ stages' = stages /\ archives' = archives
      /\ plan' = plan /\ snap' = snap /\ job' = job
  BY DEF Inv, TypeOK, HideBackup
<1>2. g \in File /\ g # None /\ g.content = f.content
  <2>1. g \in File /\ g.content = f.content BY <1>0 DEF File
  <2> QED BY <1>0, <2>1 DEF Known
<1>3. backups' = backups \/ backups' = [backups EXCEPT ![t][n] = g]
  BY DEF HideBackup
<1> HIDE DEF g
<1>4. /\ backups'[t][n] # None /\ backups'[t][n].content = f.content
      /\ \A m \in Name \ {n} : backups'[t][m] = backups[t][m]
  BY <1>0, <1>2, <1>3 DEF Known
<1>5. Present(backups', t) = Present(backups, t) BY <1>0, <1>4 DEF Known, Present
<1>6. SeenKept(p)' BY <1>1, <1>4 DEF Outcome, SeenKept
<1>7. BackupsKnown(p)' BY <1>1, <1>5 DEF Outcome, BackupsKnown, Present
<1>8. TempsKnown(p)' BY <1>1 DEF Outcome, TempsKnown, Present
<1> QED BY <1>1, <1>6, <1>7, <1>8 DEF Outcome, Unarmed, ErrorTold

(* The second rename takes the stage away, or hands over to the rollback.  *)
LEMMA InstallStageOutcome ==
  ASSUME NEW p \in Proc, Inv, Outcome(p), InstallStage(p)
  PROVE Outcome(p)'
<1>0. /\ pc \in [Proc -> Point] /\ pc[p] = "install"
      /\ archives' = archives /\ backups' = backups /\ plan' = plan
      /\ job' = job /\ snap' = snap
  BY DEF Inv, TypeOK, InstallStage
<1>1. CASE MoveStage(p, plan[p].path) /\ Goto(p, "drop")
  BY <1>0, <1>1, StageMovesOutcome
<1>2. CASE Goto(p, "rollback") /\ stages' = stages
  <2>1. pc'[p] = "rollback" BY <1>0, <1>2
  <2> QED BY <1>0, <1>2, <2>1 DEF Outcome, Unarmed, SeenKept, BackupsKnown,
    TempsKnown, ErrorTold, Present
<1> QED BY <1>1, <1>2 DEF InstallStage

(* The rollback puts back what the second fingerprint saw, or ends in a    *)
(* RollbackError; so does making it visible again.                         *)
LEMMA UndoOutcome ==
  ASSUME NEW p \in Proc, Inv, Outcome(p), Rollback(p) \/ UnhideTarget(p)
  PROVE Outcome(p)'
<1> DEFINE t == plan[p].path
           n == job[p].backup
<1>0. /\ Known(p) /\ t \in Path /\ pc \in [Proc -> Point] /\ job \in [Proc -> Job]
      /\ target \in [Path -> File \cup {None}]
      /\ pc[p] \in {"rollback", "unhide"}
      /\ stages' = stages /\ archives' = archives /\ plan' = plan /\ snap' = snap
  BY InvFacts DEF Known, TypeOK, Rollback, UnhideTarget
<1>1. ~job[p].committed BY <1>0 DEF Known, Own, CommitKnown
<1>2. CASE job' = [job EXCEPT ![p].err = "rollback"] /\ Goto(p, "defer")
  <2>1. pc'[p] = "defer" /\ job'[p].err = "rollback" /\ ~job'[p].committed
    BY <1>0, <1>1, <1>2 DEF Job
  <2> QED BY <2>1, FailedOutcome
<1>3. CASE /\ Rollback(p) /\ target' = [target EXCEPT ![t] = backups[t][n]]
           /\ Goto(p, "unhide") /\ UNCHANGED job
  <2>1. pc[p] = "rollback" /\ pc'[p] = "unhide" BY <1>0, <1>3 DEF Rollback
  <2>2. target'[t] = backups[t][n] /\ backups[t][n] # None
    BY <1>0, <1>3, <2>1 DEF Known, Own, HasFiles
  <2>3. SeenKept(p)' BY <1>0, <1>3, <2>1, <2>2 DEF Outcome, SeenKept
  <2>4. TempsKnown(p)' BY <1>0, <1>3, <2>1 DEF Outcome, TempsKnown, Present
  <2> QED BY <2>1, <2>3, <2>4 DEF Outcome, Unarmed, BackupsKnown, ErrorTold
<1>4. CASE /\ UnhideTarget(p) /\ target[t] # None
           /\ target' = [target EXCEPT ![t].hidden = FALSE]
           /\ job' = [job EXCEPT ![p].err = "failed"] /\ Goto(p, "defer")
  <2> DEFINE f == [target[t] EXCEPT !.hidden = FALSE]
  <2>1. f \in File /\ f.content = target[t].content /\ ~f.hidden
    <3>1. target[t] \in File BY <1>0, <1>4
    <3> QED BY <3>1 DEF File
  <2>2. target' = [target EXCEPT ![t] = f] BY <1>4
  <2> HIDE DEF f
  <2>3. target'[t] = f /\ f # None BY <1>0, <2>1, <2>2 DEF Known
  <2>4. pc[p] = "unhide" BY <1>4 DEF UnhideTarget
  <2>5. snap'[p] # None => Restored(p)'
    BY <1>0, <2>1, <2>3, <2>4 DEF Outcome, SeenKept, Restored
  <2>6. pc'[p] = "defer" /\ job'[p].err = "failed" /\ ~job'[p].committed
    BY <1>0, <1>1, <1>4 DEF Job
  <2> QED BY <2>5, <2>6, FailedOutcome
<1> QED BY <1>2, <1>3, <1>4 DEF Rollback, UnhideTarget

(* What is left of the backups is what CleanupPending says.                *)
LEMMA DropBackupOutcome ==
  ASSUME NEW p \in Proc, Inv, Outcome(p), DropBackup(p)
  PROVE Outcome(p)'
<1> DEFINE t == plan[p].path
           n == job[p].backup
           left == Present(backups, t)
<1>0. /\ Known(p) /\ t \in Path /\ n \in left
      /\ pc \in [Proc -> Point] /\ job \in [Proc -> Job] /\ pc[p] = "drop"
      /\ backups \in [Path -> [Name -> File \cup {None}]]
      /\ stages' = stages /\ archives' = archives /\ plan' = plan /\ snap' = snap
  BY InvFacts DEF Known, TypeOK, DropBackup, Own, HasFiles, Present
<1>1. job[p].swept <=> left \ {n} # {}
  BY <1>0 DEF Outcome, BackupsKnown
<1>2. PICK e \in {"none", "failed"}, b \in BOOLEAN :
        /\ Commit(p, e, b)
        /\ \/ e = "none" /\ ~b /\ backups' = [backups EXCEPT ![t][n] = None]
           \/ e = "none" /\ b /\ backups' = backups
           \/ e = "failed"
  BY DEF DropBackup
<1>3. /\ pc'[p] = "defer" /\ job'[p].committed /\ job'[p].err = e
      /\ job'[p].cleanupPending = (job[p].swept \/ b)
      /\ job'[p].archive = job[p].archive
  BY <1>0, <1>2 DEF Commit, Job
<1>4. e = "none" => (job'[p].cleanupPending <=> Present(backups', t) # {})
  <2>1. CASE ~b /\ backups' = [backups EXCEPT ![t][n] = None]
    <3>1. Present(backups', t) = left \ {n} BY <1>0, <2>1 DEF Present
    <3> QED BY <1>1, <1>3, <2>1, <3>1
  <2>2. CASE b /\ backups' = backups BY <1>0, <1>3, <2>2
  <2> QED BY <1>2, <2>1, <2>2
<1>5. BackupsKnown(p)' BY <1>0, <1>3, <1>4 DEF BackupsKnown, Present
<1>6. TempsKnown(p)' BY <1>0, <1>3 DEF Outcome, TempsKnown, Present
<1> QED BY <1>3, <1>5, <1>6 DEF Outcome, Unarmed, SeenKept, ErrorTold

(* A deferred removal that fails makes the call's error, one that succeeds *)
(* leaves it alone.                                                        *)
LEMMA RemoveOutcome ==
  ASSUME NEW p \in Proc, Inv, Outcome(p), RemoveStage(p) \/ RemoveArchive(p)
  PROVE Outcome(p)'
<1> DEFINE t == plan[p].path
<1>0. /\ t \in Path /\ pc[p] = "defer" /\ pc'[p] = "defer"
      /\ job \in [Proc -> Job] /\ job[p] \in Job
      /\ stages \in [Path -> [Name -> File \cup {None}]]
      /\ archives \in [Path -> [Name -> Bytes \cup {None}]]
      /\ target' = target /\ backups' = backups /\ plan' = plan /\ snap' = snap
  BY InvFacts DEF Known, TypeOK, RemoveStage, RemoveArchive
<1>1. /\ job'[p].committed = job[p].committed
      /\ job'[p].cleanupPending = job[p].cleanupPending
      /\ job'[p].err \in {job[p].err, Joined(job[p].err)}
  BY <1>0 DEF RemoveStage, RemoveArchive, Job
<1>2. /\ job'[p].err = "none" => job[p].err = "none"
      /\ job[p].err = "rollback" => job'[p].err = "rollback"
      /\ job[p].err # "none" => job'[p].err # "none"
      /\ job[p].err \in {"none", "failed", "rollback"}
  BY <1>0, <1>1 DEF Joined, Job
<1>3. SeenKept(p)' /\ ErrorTold(p)'
  BY <1>0, <1>1, <1>2 DEF Outcome, SeenKept, ErrorTold, Restored
<1>4. BackupsKnown(p)'
  BY <1>0, <1>1, <1>2 DEF Outcome, BackupsKnown, Present
<1>5. TempsKnown(p)'
  <2>1. CASE job'[p].err # "none" BY <1>0, <2>1 DEF TempsKnown
  <2>2. CASE job'[p].err = "none" /\ RemoveStage(p)
    <3>1. /\ stages' = [stages EXCEPT ![t][job[p].stage] = None]
          /\ archives' = archives
      BY <1>0, <2>2 DEF RemoveStage, Joined, Job
    <3>2. job'[p].archive = job[p].archive
      BY <1>0, <2>2 DEF RemoveStage, Job
    <3>3. Present(archives, t) \subseteq {job[p].archive}
      BY <1>0, <1>2, <2>2 DEF Outcome, TempsKnown
    <3>4. Present(stages', t) = {}
      BY <1>0, <1>2, <2>2, <3>1 DEF Outcome, TempsKnown, Present
    <3> QED BY <1>0, <3>1, <3>2, <3>3, <3>4 DEF TempsKnown, Present
  <2>3. CASE job'[p].err = "none" /\ RemoveArchive(p)
    <3>1. /\ archives' = [archives EXCEPT ![t][job[p].archive] = None]
          /\ stages' = stages
      BY <1>0, <2>3 DEF RemoveArchive, Joined, Job
    <3>2. job'[p].stage = job[p].stage
      BY <1>0, <2>3 DEF RemoveArchive, Job
    <3>3. Present(stages, t) \subseteq {job[p].stage}
      BY <1>0, <1>2, <2>3 DEF Outcome, TempsKnown
    <3>4. Present(archives', t) = {}
      BY <1>0, <1>2, <2>3, <3>1 DEF Outcome, TempsKnown, Present
    <3> QED BY <1>0, <3>1, <3>2, <3>3, <3>4 DEF TempsKnown, Present
  <2> QED BY <2>1, <2>2, <2>3
<1> QED BY <1>0, <1>3, <1>4, <1>5 DEF Outcome, Unarmed

(* Cancellation by itself changes nothing.                                 *)
LEMMA CancelOutcome ==
  ASSUME NEW p \in Proc, Outcome(p), Cancel(p)
  PROVE Outcome(p)'
BY DEF Cancel, Outcome, Unarmed, SeenKept, Restored, BackupsKnown, TempsKnown,
  ErrorTold, Present

(* Where another program installs, nothing is left to restore.             *)
LEMMA ExternalOutcome ==
  ASSUME NEW t \in Path, Inv, NEW p \in Proc, Outcome(p), ExternalInstall(t)
  PROVE Outcome(p)'
<1>0. /\ Known(p) /\ stages' = stages /\ archives' = archives
      /\ backups' = backups /\ pc' = pc /\ plan' = plan /\ job' = job
      /\ snap' = [q \in Proc |-> IF plan[q] # None /\ plan[q].path = t
                                 THEN None ELSE snap[q]]
  BY InvFacts DEF ExternalInstall
<1>1. snap'[p] = None \/ snap'[p] = snap[p] BY <1>0
<1>2. BackupsKnown(p)' /\ TempsKnown(p)' /\ ErrorTold(p)' /\ Unarmed(p)'
  BY <1>0, <1>1 DEF Outcome, BackupsKnown, TempsKnown, ErrorTold, Unarmed, Present
<1>3. SeenKept(p)'
  <2>1. CASE snap'[p] = None BY <2>1 DEF SeenKept
  <2>2. CASE snap'[p] # None /\ pc[p] \in Holding
    <3>1. plan[p].path # t /\ plan[p].path \in Path /\ snap'[p] = snap[p]
      BY <1>0, <2>2, ConstantsAssumption DEF Known
    <3>2. target'[plan[p].path] = target[plan[p].path]
      BY <3>1 DEF ExternalInstall, Inv, TypeOK
    <3> QED BY <1>0, <3>1, <3>2 DEF Outcome, SeenKept, Restored
  <2>3. CASE pc[p] \notin Holding BY <1>0, <2>3 DEF SeenKept
  <2> QED BY <2>1, <2>2, <2>3
<1> QED BY <1>2, <1>3 DEF Outcome

-----------------------------------------------------------------------------
(* The invariant.                                                          *)

(* The case split on what process p does: its outcome, and its footprint.  *)
LEMMA StepOutcome ==
  ASSUME Inv, NoBackups, NEW p \in Proc, Outcome(p),
         \/ Check(p) \/ FingerprintPlan(p) \/ BeginApply(p) \/ Step(p)
         \/ LockFails(p) \/ Cancel(p) \/ Crash(p) \/ Start(p)
  PROVE Outcome(p)' /\ OnlyBy(p)
<1>1. CASE \/ Check(p) \/ FingerprintPlan(p) \/ BeginApply(p) \/ StopWaiting(p)
           \/ LockFails(p) \/ Acquire(p) \/ Start(p)
  BY <1>1, OutsideOutcomes, CheckStep, FingerprintPlanStep, BeginApplyStep,
    StopWaitingStep, LockFailsStep, AcquireStep, StartStep DEF StepOK
<1>2. CASE Cancel(p) \/ Crash(p)
  BY <1>2, CancelOutcome, EndOutcomes, CancelStep, CrashStep DEF StepOK
<1>3. CASE UnderLock(p)
  <2>1. CASE Recheck(p) \/ SweepBackups(p) \/ SweepStages(p) \/ SweepArchives(p)
    BY <2>1, RecheckOutcome, SweepBackupsOutcome, SweepTempsOutcome, RecheckStep,
      SweepBackupsStep, SweepStagesStep, SweepArchivesStep DEF StepOK
  <2>2. CASE Fingerprint(p) \/ VerifyDigest(p) \/ Refingerprint(p) \/ Precommit(p)
    BY <2>2, ChecksOutcome, FingerprintStep, VerifyDigestStep, RefingerprintStep,
      PrecommitStep DEF StepOK
  <2>3. CASE CreateArchive(p) \/ Download(p)
    BY <2>3, ArchiveOutcome, CreateArchiveStep, DownloadStep DEF StepOK
  <2>4. CASE CreateStage(p) \/ Extract(p) \/ ChmodStage(p)
    BY <2>4, StageOutcome, CreateStageStep, ExtractStep, ChmodStageStep DEF StepOK
  <2>5. CASE Fail(p) \/ Interrupt(p)
    <3>1. StepOK(p) BY <2>5, GiveUpStep DEF Fail, Interrupt
    <3> QED BY <2>5, <3>1, GiveUpOutcome DEF StepOK
  <2> QED BY <1>3, <2>1, <2>2, <2>3, <2>4, <2>5 DEF UnderLock
<1>4. CASE Replacement(p)
  <2>1. CASE RenameStage(p) \/ SyncDirectory(p) \/ ReplaceFails(p)
    BY <2>1, UnixOutcome, RenameStageStep, SyncDirectoryStep, ReplaceFailsStep
      DEF StepOK
  <2>2. CASE MoveAside(p) \/ HideBackup(p) \/ InstallStage(p)
    BY <2>2, MoveAsideOutcome, HideBackupOutcome, InstallStageOutcome,
      MoveAsideStep, HideBackupStep, InstallStageStep DEF StepOK
  <2>3. CASE Rollback(p) \/ UnhideTarget(p) \/ DropBackup(p)
    BY <2>3, UndoOutcome, DropBackupOutcome, RollbackStep, UnhideTargetStep,
      DropBackupStep DEF StepOK
  <2> QED BY <1>4, <2>1, <2>2, <2>3 DEF Replacement
<1>5. CASE Deferred(p)
  BY <1>5, RemoveOutcome, EndOutcomes, RemoveStageStep, RemoveArchiveStep,
    ReleaseStep DEF Deferred, StepOK
<1> QED BY <1>1, <1>2, <1>3, <1>4, <1>5 DEF Step

(* Backups are only added, and renamed over, by replace_windows.go.        *)
LEMMA NoBackupsStep == ASSUME Inv, NoBackups, Next PROVE NoBackups'
<1> SUFFICES ASSUME ~Windows, NEW u \in Path PROVE Present(backups', u) = {}
  BY DEF NoBackups, Present
<1>0. \A v \in Path, n \in Name : backups[v][n] = None
  BY DEF NoBackups, Present
<1>1. backups \in [Path -> [Name -> File \cup {None}]] BY DEF Inv, TypeOK
<1>2. ASSUME NEW p \in Proc, SweepBackups(p) PROVE Present(backups', u) = {}
  BY <1>0, <1>1, <1>2 DEF SweepBackups, KeepOnly, Present
<1>3. ASSUME NEW p \in Proc, \/ MoveAside(p) \/ HideBackup(p) \/ InstallStage(p)
                             \/ Rollback(p) \/ UnhideTarget(p) \/ DropBackup(p)
      PROVE FALSE
  <2>1. pc[p] \in {"replace", "hide", "install", "rollback", "unhide", "drop"}
    BY <1>3 DEF MoveAside, HideBackup, InstallStage, Rollback, UnhideTarget,
      DropBackup
  <2>2. pc[p] \in {"hide", "install", "rollback", "unhide", "drop"} => Windows
    BY DEF Inv, Own, RightPlatform
  <2> QED BY <1>3, <2>1, <2>2 DEF MoveAside, HideBackup, InstallStage, Rollback,
    UnhideTarget, DropBackup
<1>4. ASSUME NEW p \in Proc, UnderLock(p), ~SweepBackups(p) PROVE backups' = backups
  BY <1>4 DEF UnderLock, Recheck, SweepStages, SweepArchives, Fingerprint,
    CreateArchive, Download, VerifyDigest, CreateStage, Extract, ChmodStage,
    Refingerprint, Precommit, Fail, Interrupt, GiveUp
<1>5. ASSUME NEW p \in Proc,
             \/ Check(p) \/ FingerprintPlan(p) \/ BeginApply(p) \/ Acquire(p)
             \/ StopWaiting(p) \/ LockFails(p) \/ Cancel(p) \/ Crash(p) \/ Start(p)
             \/ RenameStage(p) \/ SyncDirectory(p) \/ ReplaceFails(p) \/ Deferred(p)
      PROVE backups' = backups
  BY <1>5 DEF Check, FingerprintPlan, BeginApply, Acquire, StopWaiting, LockFails,
    Cancel, Crash, Start, RenameStage, SyncDirectory, ReplaceFails, Deferred,
    RemoveStage, RemoveArchive, Release
<1>6. ASSUME NEW t \in Path, ExternalInstall(t) \/ Relink(t)
      PROVE backups' = backups
  BY <1>6 DEF ExternalInstall, Relink
<1>7. backups' = backups => Present(backups', u) = {} BY <1>0 DEF Present
<1> QED BY <1>2, <1>3, <1>4, <1>5, <1>6, <1>7 DEF Next, Step, Replacement,
  Environment

(* OInv holds before the first start,                                      *)
LEMMA InitOutcome == ASSUME Init PROVE OInv
<1>1. NoBackups BY DEF Init, NoBackups, Present
<1>2. ASSUME NEW p \in Proc PROVE Outcome(p)
  BY DEF Init, NoJob, Outcome, Unarmed, SeenKept, BackupsKnown, TempsKnown, ErrorTold
<1> QED BY <1>1, <1>2 DEF OInv

(* and every step keeps it.                                                *)
LEMMA NextOutcome == ASSUME Inv, OInv, [Next]_vars PROVE OInv'
<1>1. CASE UNCHANGED vars
  BY <1>1 DEF vars, OInv, NoBackups, Outcome, Unarmed, SeenKept, Restored,
    BackupsKnown, TempsKnown, ErrorTold, Present
<1>2. CASE Next
  <2>1. NoBackups' BY <1>2, NoBackupsStep DEF OInv
  <2>2. ASSUME NEW p \in Proc,
               \/ Check(p) \/ FingerprintPlan(p) \/ BeginApply(p) \/ Step(p)
               \/ LockFails(p) \/ Cancel(p) \/ Crash(p) \/ Start(p)
        PROVE \A q \in Proc : Outcome(q)'
    <3>1. Outcome(p)' /\ OnlyBy(p) BY <2>2, StepOutcome DEF OInv
    <3>2. \A q \in Proc \ {p} : Outcome(q)' BY <3>1, OutcomeKept DEF OInv
    <3> QED BY <3>1, <3>2
  <2>3. ASSUME NEW t \in Path, ExternalInstall(t) PROVE \A q \in Proc : Outcome(q)'
    BY <2>3, ExternalOutcome DEF OInv
  <2>4. ASSUME NEW t \in Path, Relink(t) PROVE \A q \in Proc : Outcome(q)'
    BY <2>4 DEF Relink, OInv, Outcome, Unarmed, SeenKept, Restored, BackupsKnown,
      TempsKnown, ErrorTold, Present
  <2> QED BY <1>2, <2>1, <2>2, <2>3, <2>4 DEF Next, Environment, OInv
<1> QED BY <1>1, <1>2

(* What the deferred functions of Apply rest on, in every reachable state. *)
LEMMA OutcomeInvariance == Spec => [](Inv /\ OInv)
<1>1. Init => OInv BY InitOutcome
<1>2. Inv /\ OInv /\ [Next]_vars => OInv' BY NextOutcome
<1> QED BY <1>1, <1>2, Invariance, PTL DEF Spec

-----------------------------------------------------------------------------
(* An Apply that fails without a RollbackError leaves the executable as    *)
(* its second fingerprint saw it, present and not hidden, unless another   *)
(* program has replaced it since.                                          *)
THEOREM FailuresRestore == Spec => []FailureRestores
<1>1. OInv => FailureRestores
  BY DEF OInv, Outcome, SeenKept, Restored, FailureRestores
<1> QED BY <1>1, OutcomeInvariance, PTL

(* Result.CleanupPending of an Apply without an error tells exactly        *)
(* whether replace_windows.go has left a backup, its own or an older one.  *)
THEOREM PendingTellsOfBackups == Spec => []PendingMeansBackup
<1>1. OInv => PendingMeansBackup
  BY DEF OInv, Outcome, BackupsKnown, PendingMeansBackup
<1> QED BY <1>1, OutcomeInvariance, PTL

(* An Apply that returns without an error has left no stage and no archive *)
(* beside the executable, whatever killed calls had left there before.     *)
THEOREM SuccessIsTidy == Spec => []SuccessLeavesNoTemps
<1>1. Inv /\ OInv => SuccessLeavesNoTemps
  <2> SUFFICES ASSUME OInv, NEW p \in Proc, pc[p] = "defer", job[p].err = "none",
                      job[p].stage = None, job[p].archive = None
               PROVE LET t == plan[p].path IN
                     Present(stages, t) = {} /\ Present(archives, t) = {}
    BY DEF SuccessLeavesNoTemps
  <2>1. None \notin Name BY InvFacts, ConstantsAssumption
  <2>2. /\ Present(stages, plan[p].path) \subseteq {None}
        /\ Present(archives, plan[p].path) \subseteq {None}
    BY DEF OInv, Outcome, TempsKnown
  <2> QED BY <2>1, <2>2 DEF Present
<1> QED BY <1>1, OutcomeInvariance, PTL

=============================================================================
