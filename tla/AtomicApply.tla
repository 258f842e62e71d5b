---------------------------- MODULE AtomicApply ----------------------------
(***************************************************************************)
(* Apply implements AtomicInstall: the many system calls of a replacement, *)
(* and the gap the Windows one leaves at the executable's path, come to    *)
(* one step that installs the planned release or none that does.           *)
(* The mapping needs to remember what the gap hides, so two history        *)
(* variables are added that no step of Apply reads.                        *)
(***************************************************************************)
EXTENDS Apply

VARIABLES
  last,   \* last[t]: the program last seen at t
  seen    \* seen[p]: what was at p's path since its second fingerprint

avars == <<vars, last, seen>>

(* From the second fingerprint until the replacement has happened or has   *)
(* failed.                                                                 *)
Claiming(p) == pc[p] \in {"precommit", "replace", "hide", "install", "rollback"}

AtomicInit ==
  /\ Init
  /\ last = [t \in Path |-> target[t].content]
  /\ seen = [p \in Proc |-> {}]

Record ==
  /\ last' = [t \in Path |->
                IF target'[t] # None THEN target'[t].content ELSE last[t]]
  /\ seen' = [p \in Proc |->
                IF Claiming(p)'
                THEN {last'[plan'[p].path]} \cup (IF Claiming(p) THEN seen[p] ELSE {})
                ELSE {}]

AtomicSpec == AtomicInit /\ [][Next /\ Record]_avars

(* A fingerprinted plan is a decision; the lock between the second         *)
(* fingerprint and the rename is the claim.                                *)
Decided(p) ==
  IF plan[p] # None /\ plan[p].hash # None
  THEN [path |-> plan[p].path, from |-> plan[p].hash, to |-> plan[p].version]
  ELSE None

Claimant(t) ==
  IF lock[t] # None /\ Claiming(lock[t]) THEN lock[t] ELSE None

(* A decision is not None.                                                 *)
ASSUME DecisionAssumption == None \notin [path : Path, from : Bytes, to : Version]

Install == INSTANCE AtomicInstall WITH
             program <- last,
             decision <- [p \in Proc |-> Decided(p)],
             claim <- [t \in Path |-> Claimant(t)]

(* Apply is atomic for whoever looks at the program of a path, a gap       *)
(* counted as the program it hides: it changes only from the very program  *)
(* Check fingerprinted, only by the holder of the path's lock, and only to *)
(* the planned release; a failed replacement, rolled back or not, and a    *)
(* kill anywhere leave a program that was there since the second           *)
(* fingerprint (replaceExecutable of replace_windows.go and                *)
(* replace_unix.go, Apply's two fingerprints).                             *)
InstallsAtomically == Install!Spec

(* What the gap hides can be brought back: while nothing is at the         *)
(* executable's path, a runnable backup has the bytes last seen there.     *)
GapHoldsLast ==
  \A t \in Path : target[t] = None =>
    \E n \in Name : Runnable(backups[t][n]) /\ backups[t][n].content = last[t]
=============================================================================
