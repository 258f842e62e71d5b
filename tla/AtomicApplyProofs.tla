------------------------- MODULE AtomicApplyProofs -------------------------
(***************************************************************************)
(* Apply implements AtomicInstall, for every number of processes, paths,   *)
(* names and versions, on both platforms.                                  *)
(*                                                                         *)
(* On top of the invariant of ApplyProofs, AInv says what the two history  *)
(* variables of AtomicApply remember.  A step of p then maps to an action  *)
(* of AtomicInstall by what it does to p's plan, p's claim and the program *)
(* at p's path; OnlyBy(p) leaves everybody else's as they were.            *)
(***************************************************************************)
EXTENDS AtomicApply, ApplyProofs

(* A lock is held by a call for the path of its plan.                      *)
LocksOwned ==
  \A t \in Path : lock[t] # None =>
    pc[lock[t]] \in Holding /\ plan[lock[t]].path = t

(* What is at a path is what was last seen there.                          *)
LastKnown == \A t \in Path : target[t] # None => last[t] = target[t].content

(* What a claim on a path has seen, and that a rollback brings back some   *)
(* of it.                                                                  *)
Moving == {"hide", "install", "rollback"}

ClaimKnown(p) ==
  /\ Claiming(p) => plan[p].hash # None /\ last[plan[p].path] \in seen[p]
  /\ ~Claiming(p) => seen[p] = {}
  /\ pc[p] \in Moving =>
       backups[plan[p].path][job[p].backup].content \in seen[p]

AInv ==
  /\ last = [t \in Path |-> last[t]] /\ seen = [p \in Proc |-> seen[p]]
  /\ LastKnown /\ GapHoldsLast /\ LocksOwned
  /\ \A p \in Proc : ClaimKnown(p)

USE DEF Moving, InApply, Holding, Prelude, Replacing, Point, Goto, dir, life, history

-----------------------------------------------------------------------------
(* The history variables.                                                  *)

(* What Record writes.                                                     *)
LEMMA RecordFacts ==
  ASSUME Record
  PROVE /\ last' = [t \in Path |-> last'[t]] /\ seen' = [p \in Proc |-> seen'[p]]
        /\ \A t \in Path :
             /\ target'[t] # None => last'[t] = target'[t].content
             /\ target'[t] = None => last'[t] = last[t]
        /\ \A p \in Proc :
             seen'[p] = IF Claiming(p)'
                        THEN {last'[plan'[p].path]}
                             \cup (IF Claiming(p) THEN seen[p] ELSE {})
                        ELSE {}
BY DEF Record

(* The claimant of a path is the one call that claims it.                  *)
LEMMA ClaimantIs ==
  ASSUME Inv, LocksOwned, NEW t \in Path
  PROVE /\ Claimant(t) \in Proc \cup {None}
        /\ \A p \in Proc :
             (Claimant(t) = p) <=> (Claiming(p) /\ plan[p].path = t)
<1>1. lock[t] \in Proc \cup {None} BY DEF Inv, TypeOK
<1>2. ASSUME NEW p \in Proc, Claiming(p), plan[p].path = t PROVE lock[t] = p
  BY <1>2 DEF Inv, Own, HasLock, Claiming
<1>3. ASSUME NEW p \in Proc PROVE p # None BY ConstantsAssumption
<1> QED BY <1>1, <1>2, <1>3 DEF Claimant, LocksOwned

(* And after a step as well.                                               *)
LEMMA ClaimantIsNext ==
  ASSUME Inv', LocksOwned', NEW t \in Path
  PROVE /\ Claimant(t)' \in Proc \cup {None}
        /\ \A p \in Proc :
             (Claimant(t)' = p) <=> (Claiming(p)' /\ plan'[p].path = t)
<1>1. lock'[t] \in Proc \cup {None} BY DEF Inv, TypeOK
<1>2. ASSUME NEW p \in Proc, Claiming(p)', plan'[p].path = t PROVE lock'[t] = p
  BY <1>2 DEF Inv, Own, HasLock, Claiming
<1>3. ASSUME NEW p \in Proc PROVE p # None BY ConstantsAssumption
<1> QED BY <1>1, <1>2, <1>3 DEF Claimant, LocksOwned

-----------------------------------------------------------------------------
(* What a step of p leaves of the others.                                  *)

(* Only the holder of a path's lock changes the program at the path.       *)
LEMMA OtherPrograms ==
  ASSUME NEW p \in Proc, AInv, Record, OnlyBy(p), NEW u \in Path, lock[u] # p
  PROVE last'[u] = last[u]
<1>1. target'[u] = target[u] BY DEF OnlyBy
<1>2. /\ target'[u] # None => last'[u] = target'[u].content
      /\ target'[u] = None => last'[u] = last[u]
  BY RecordFacts
<1> QED BY <1>1, <1>2 DEF AInv, LastKnown

(* A call's decision, claim and what it has seen are its own.              *)
LEMMA OthersKept ==
  ASSUME NEW p \in Proc, Inv, AInv, Record, OnlyBy(p), NEW q \in Proc, q # p
  PROVE /\ Claiming(q)' <=> Claiming(q)
        /\ plan'[q] = plan[q] /\ Decided(q)' = Decided(q)
        /\ seen'[q] = seen[q]
<1>1. pc'[q] = pc[q] /\ plan'[q] = plan[q] BY DEF OnlyBy
<1>2. Claiming(q)' <=> Claiming(q) BY <1>1 DEF Claiming
<1>3. Decided(q)' = Decided(q) BY <1>1 DEF Decided
<1>4. CASE Claiming(q)
  <2> DEFINE u == plan[q].path
  <2>1. u \in Path /\ lock[u] = q
    BY <1>4, InvFacts DEF Known, Claiming
  <2>2. last'[u] = last[u] BY <2>1, OtherPrograms
  <2>3. last[u] \in seen[q] BY <1>4 DEF AInv, ClaimKnown
  <2>4. seen'[q] = {last'[u]} \cup seen[q] BY <1>1, <1>2, <1>4, RecordFacts
  <2> QED BY <1>1, <1>2, <1>3, <2>2, <2>3, <2>4
<1>5. CASE ~Claiming(q)
  BY <1>1, <1>2, <1>3, <1>5, RecordFacts DEF AInv, ClaimKnown
<1> QED BY <1>4, <1>5

(* p's step changes no claim but p's own.                                  *)
LEMMA ClaimsAfter ==
  ASSUME NEW p \in Proc, Inv, AInv, Record, OnlyBy(p), Inv', AInv',
         NEW t \in Path
  PROVE Claimant(t)' = IF Claiming(p)' /\ plan'[p].path = t THEN p
                       ELSE IF Claimant(t) = p THEN None ELSE Claimant(t)
<1>1. /\ Claimant(t) \in Proc \cup {None}
      /\ \A q \in Proc : (Claimant(t) = q) <=> (Claiming(q) /\ plan[q].path = t)
  BY ClaimantIs DEF AInv
<1>2. /\ Claimant(t)' \in Proc \cup {None}
      /\ \A q \in Proc : (Claimant(t)' = q) <=> (Claiming(q)' /\ plan'[q].path = t)
  BY ClaimantIsNext DEF AInv
<1>3. \A q \in Proc \ {p} : (Claiming(q)' <=> Claiming(q)) /\ plan'[q] = plan[q]
  BY OthersKept
<1>4. None \notin Proc BY ConstantsAssumption
<1> HIDE DEF Claimant, Claiming
<1> QED BY <1>1, <1>2, <1>3, <1>4

-----------------------------------------------------------------------------
(* The kinds of steps, as AtomicInstall sees them.                         *)

(* What the lemmas below assume of a step of p.                            *)
StepOf(p) == Inv /\ AInv /\ Record /\ OnlyBy(p) /\ Inv' /\ AInv'

(* A step that changes neither p's plan nor p's claim nor a program shows  *)
(* nothing.                                                                *)
LEMMA HiddenStep ==
  ASSUME NEW p \in Proc, StepOf(p), Decided(p)' = Decided(p),
         Claiming(p)' <=> Claiming(p), Claiming(p) => plan'[p] = plan[p],
         \A t \in Path : last'[t] = last[t]
  PROVE UNCHANGED Install!avars
<1>1. last' = last BY RecordFacts DEF StepOf, AInv
<1>2. [q \in Proc |-> Decided(q)]' = [q \in Proc |-> Decided(q)]
  <2>1. \A q \in Proc : Decided(q)' = Decided(q) BY OthersKept DEF StepOf
  <2> QED BY <2>1
<1>3. [t \in Path |-> Claimant(t)]' = [t \in Path |-> Claimant(t)]
  <2>1. ASSUME NEW t \in Path PROVE Claimant(t)' = Claimant(t)
    BY ClaimsAfter, ClaimantIs DEF StepOf, AInv
  <2> QED BY <2>1
<1>4. seen' = seen
  <2>1. seen'[p] = seen[p]
    <3>1. CASE Claiming(p)
      <4>1. plan[p].path \in Path /\ last[plan[p].path] \in seen[p]
        BY <3>1, InvFacts DEF Known, Claiming, StepOf, AInv, ClaimKnown
      <4>2. seen'[p] = {last'[plan[p].path]} \cup seen[p]
        BY <3>1, RecordFacts DEF StepOf
      <4> QED BY <1>1, <4>1, <4>2
    <3>2. CASE ~Claiming(p)
      BY <3>2, RecordFacts DEF StepOf, AInv, ClaimKnown
    <3> QED BY <3>1, <3>2
  <2>2. \A q \in Proc : seen'[q] = seen[q] BY <2>1, OthersKept DEF StepOf
  <2>3. seen' = [q \in Proc |-> seen'[q]] /\ seen = [q \in Proc |-> seen[q]]
    BY RecordFacts DEF StepOf, AInv
  <2> QED BY <2>2, <2>3
<1> QED BY <1>1, <1>2, <1>3, <1>4 DEF Install!avars

(* p is left without a decision and without a claim.                       *)
LEMMA ForgetStep ==
  ASSUME NEW p \in Proc, StepOf(p), Decided(p)' = None, ~Claiming(p)',
         \A t \in Path : last'[t] = last[t]
  PROVE Install!Forget(p)
<1>1. last' = last BY RecordFacts DEF StepOf, AInv
<1>2. [q \in Proc |-> Decided(q)]'
        = [[q \in Proc |-> Decided(q)] EXCEPT ![p] = None]
  <2>1. \A q \in Proc \ {p} : Decided(q)' = Decided(q)
    BY OthersKept DEF StepOf
  <2> QED BY <2>1
<1>3. [t \in Path |-> Claimant(t)]'
        = [t \in Path |-> IF Claimant(t) = p THEN None ELSE Claimant(t)]
  <2>1. ASSUME NEW t \in Path
        PROVE Claimant(t)' = IF Claimant(t) = p THEN None ELSE Claimant(t)
    BY ClaimsAfter DEF StepOf
  <2> QED BY <2>1
<1>4. seen' = [seen EXCEPT ![p] = {}]
  <2>1. seen'[p] = {} BY RecordFacts DEF StepOf
  <2>2. \A q \in Proc \ {p} : seen'[q] = seen[q] BY OthersKept DEF StepOf
  <2>3. seen' = [q \in Proc |-> seen'[q]] /\ seen = [q \in Proc |-> seen[q]]
    BY RecordFacts DEF StepOf, AInv
  <2> QED BY <2>1, <2>2, <2>3
<1> QED BY <1>1, <1>2, <1>3, <1>4 DEF Install!Forget, Install!Claims

(* The end of p's claim on the path of its plan.                           *)
LEMMA ClaimEnds ==
  ASSUME NEW p \in Proc, StepOf(p), Claiming(p), ~Claiming(p)',
         plan'[p] = plan[p]
  PROVE LET t == plan[p].path IN
        /\ t \in Path /\ Claimant(t) = p
        /\ [q \in Proc |-> Decided(q)]' = [q \in Proc |-> Decided(q)]
        /\ Install!GiveBack(p, t)
<1> DEFINE t == plan[p].path
<1>0. t \in Path BY InvFacts DEF Known, Claiming, StepOf
<1>1. Claimant(t) = p BY <1>0, ClaimantIs DEF StepOf, AInv
<1>2. [q \in Proc |-> Decided(q)]' = [q \in Proc |-> Decided(q)]
  <2>1. Decided(p)' = Decided(p) BY DEF Decided
  <2>2. \A q \in Proc : Decided(q)' = Decided(q) BY <2>1, OthersKept DEF StepOf
  <2> QED BY <2>2
<1>3. [u \in Path |-> Claimant(u)]'
        = [[u \in Path |-> Claimant(u)] EXCEPT ![t] = None]
  <2>1. Claimant(t)' = None BY <1>0, <1>1, ClaimsAfter DEF StepOf
  <2>2. ASSUME NEW u \in Path, u # t PROVE Claimant(u)' = Claimant(u)
    <3>1. Claimant(u) # p BY <2>2, ClaimantIs DEF StepOf, AInv
    <3> QED BY <2>2, <3>1, ClaimsAfter DEF StepOf
  <2> QED BY <2>1, <2>2
<1>4. seen' = [seen EXCEPT ![p] = {}]
  <2>1. seen'[p] = {} BY RecordFacts DEF StepOf
  <2>2. \A q \in Proc \ {p} : seen'[q] = seen[q] BY OthersKept DEF StepOf
  <2>3. seen' = [q \in Proc |-> seen'[q]] /\ seen = [q \in Proc |-> seen[q]]
    BY RecordFacts DEF StepOf, AInv
  <2> QED BY <2>1, <2>2, <2>3
<1> QED BY <1>0, <1>1, <1>2, <1>3, <1>4 DEF Install!GiveBack

(* p gives its claim up with a program at the path that was there during   *)
(* the claim.                                                              *)
LEMMA WithdrawStep ==
  ASSUME NEW p \in Proc, StepOf(p), Claiming(p), ~Claiming(p)',
         plan'[p] = plan[p], last'[plan[p].path] \in seen[p]
  PROVE Install!Withdraw(p, plan[p].path)
<1> DEFINE t == plan[p].path
<1>1. /\ t \in Path /\ Claimant(t) = p
      /\ [q \in Proc |-> Decided(q)]' = [q \in Proc |-> Decided(q)]
      /\ Install!GiveBack(p, t)
  BY ClaimEnds
<1>2. last' = [last EXCEPT ![t] = last'[t]]
  <2>1. \A u \in Path \ {t} : lock[u] # p
    BY ConstantsAssumption DEF StepOf, AInv, LocksOwned
  <2> QED BY <2>1, OtherPrograms, RecordFacts DEF StepOf, AInv
<1> QED BY <1>1, <1>2 DEF Install!Withdraw, Install!Claims

(* p installs the release it has decided on.                               *)
LEMMA InstallStep ==
  ASSUME NEW p \in Proc, StepOf(p), Claiming(p), ~Claiming(p)',
         plan'[p] = plan[p], last'[plan[p].path] = plan[p].version
  PROVE Install!Swap(p, plan[p].path)
<1> DEFINE t == plan[p].path
<1>1. /\ t \in Path /\ Claimant(t) = p
      /\ [q \in Proc |-> Decided(q)]' = [q \in Proc |-> Decided(q)]
      /\ Install!GiveBack(p, t)
  BY ClaimEnds
<1>2. last' = [last EXCEPT ![t] = plan[p].version]
  <2>1. \A u \in Path \ {t} : lock[u] # p
    BY ConstantsAssumption DEF StepOf, AInv, LocksOwned
  <2> QED BY <2>1, OtherPrograms, RecordFacts DEF StepOf, AInv
<1>3. Decided(p).to = plan[p].version
  <2>1. plan[p] # None
    BY InvFacts, ConstantsAssumption DEF Known, Claiming, StepOf
  <2> QED BY <2>1 DEF Decided, StepOf, AInv, ClaimKnown
<1> QED BY <1>1, <1>2, <1>3 DEF Install!Swap, Install!Claims

(* Check pins what is at the path.                                         *)
LEMMA DecideStep ==
  ASSUME NEW p \in Proc, StepOf(p), ~Claiming(p), ~Claiming(p)',
         NEW t \in Path, NEW v \in Version,
         plan'[p] # None, plan'[p].path = t, plan'[p].version = v,
         plan'[p].hash = last[t], plan'[p].hash # None,
         \A u \in Path : last'[u] = last[u]
  PROVE Install!Decide(p, t, v)
<1>1. last' = last BY RecordFacts DEF StepOf, AInv
<1>2. [q \in Proc |-> Decided(q)]'
        = [[q \in Proc |-> Decided(q)] EXCEPT ![p] =
             [path |-> t, from |-> last[t], to |-> v]]
  <2>1. \A q \in Proc \ {p} : Decided(q)' = Decided(q)
    BY OthersKept DEF StepOf
  <2>2. Decided(p)' = [path |-> t, from |-> last[t], to |-> v] BY DEF Decided
  <2> QED BY <2>1, <2>2
<1>3. \A u \in Path : Claimant(u) # p BY ClaimantIs DEF StepOf, AInv
<1>4. [u \in Path |-> Claimant(u)]' = [u \in Path |-> Claimant(u)]
  <2>1. ASSUME NEW u \in Path PROVE Claimant(u)' = Claimant(u)
    BY <1>3, ClaimsAfter DEF StepOf
  <2> QED BY <2>1
<1>5. seen' = seen
  <2>1. seen'[p] = seen[p] BY RecordFacts DEF StepOf, AInv, ClaimKnown
  <2>2. \A q \in Proc : seen'[q] = seen[q] BY <2>1, OthersKept DEF StepOf
  <2>3. seen' = [q \in Proc |-> seen'[q]] /\ seen = [q \in Proc |-> seen[q]]
    BY RecordFacts DEF StepOf, AInv
  <2> QED BY <2>2, <2>3
<1> QED BY <1>1, <1>2, <1>3, <1>4, <1>5 DEF Install!Decide, Install!Idle,
  Install!Claims

(* The second fingerprint, under the lock, begins the claim.               *)
LEMMA ClaimStep ==
  ASSUME NEW p \in Proc, StepOf(p), ~Claiming(p), Claiming(p)',
         plan'[p] = plan[p], plan[p] # None, plan[p].path \in Path,
         lock[plan[p].path] = p,
         plan[p].hash = last[plan[p].path], plan[p].hash # None,
         \A u \in Path : last'[u] = last[u]
  PROVE Install!Claim(p, plan[p].path)
<1> DEFINE t == plan[p].path
<1>1. last' = last BY RecordFacts DEF StepOf, AInv
<1>2. [q \in Proc |-> Decided(q)]' = [q \in Proc |-> Decided(q)]
  <2>1. Decided(p)' = Decided(p) BY DEF Decided
  <2>2. \A q \in Proc : Decided(q)' = Decided(q) BY <2>1, OthersKept DEF StepOf
  <2> QED BY <2>2
<1>3. Decided(p) # None /\ Decided(p).path = t /\ Decided(p).from = last[t]
  <2>1. Decided(p) = [path |-> t, from |-> last[t], to |-> plan[p].version]
    BY DEF Decided
  <2>2. plan[p] \in Plan BY DEF StepOf, Inv, TypeOK
  <2>3. Decided(p) \in [path : Path, from : Bytes, to : Version]
    BY <2>1, <2>2 DEF Plan
  <2> QED BY <2>1, <2>3, DecisionAssumption
<1>4. Claimant(t) = None BY DEF Claimant
<1>5. [u \in Path |-> Claimant(u)]'
        = [[u \in Path |-> Claimant(u)] EXCEPT ![t] = p]
  <2>1. Claimant(t)' = p BY ClaimsAfter DEF StepOf
  <2>2. ASSUME NEW u \in Path, u # t PROVE Claimant(u)' = Claimant(u)
    <3>1. Claimant(u) # p BY ClaimantIs DEF StepOf, AInv
    <3> QED BY <2>2, <3>1, ClaimsAfter DEF StepOf
  <2> QED BY <2>1, <2>2
<1>6. seen' = [seen EXCEPT ![p] = {last[t]}]
  <2>1. seen'[p] = {last'[t]} BY RecordFacts DEF StepOf
  <2>2. \A q \in Proc \ {p} : seen'[q] = seen[q] BY OthersKept DEF StepOf
  <2>3. seen' = [q \in Proc |-> seen'[q]] /\ seen = [q \in Proc |-> seen[q]]
    BY RecordFacts DEF StepOf, AInv
  <2> QED BY <1>1, <2>1, <2>2, <2>3
<1> QED BY <1>1, <1>2, <1>3, <1>4, <1>5, <1>6 DEF Install!Claim

(* Another program's install is seen by whoever claims the path.           *)
LEMMA InterfereStep ==
  ASSUME Inv, AInv, Record, Inv', AInv', NEW t \in Path, ExternalInstall(t)
  PROVE \E c \in Content : Install!Interfere(t, c)
<1> DEFINE f(c) == [content |-> c, exec |-> TRUE, hidden |-> FALSE]
<1>1. PICK c \in Outside : target' = [target EXCEPT ![t] = f(c)]
  BY DEF ExternalInstall
<1>2. c \in Content BY ConstantsAssumption
<1>3. f(c) \in File /\ f(c) # None /\ f(c).content = c
  <2>1. f(c) \in File BY <1>2 DEF File, Bytes
  <2> QED BY <2>1, ConstantsAssumption
<1>4. target'[t] = f(c) /\ \A u \in Path \ {t} : target'[u] = target[u]
  BY <1>1 DEF Inv, TypeOK
<1> HIDE DEF f
<1>5. last' = [last EXCEPT ![t] = c]
  <2>1. last'[t] = c BY <1>3, <1>4, RecordFacts
  <2>2. \A u \in Path \ {t} : last'[u] = last[u]
    BY <1>4, RecordFacts DEF AInv, LastKnown
  <2> QED BY <2>1, <2>2, RecordFacts DEF AInv
<1>6. plan' = plan /\ pc' = pc /\ lock' = lock BY DEF ExternalInstall
<1>7. [q \in Proc |-> Decided(q)]' = [q \in Proc |-> Decided(q)]
  BY <1>6 DEF Decided
<1>8. [u \in Path |-> Claimant(u)]' = [u \in Path |-> Claimant(u)]
  BY <1>6 DEF Claimant, Claiming
<1>9. seen' = [q \in Proc |-> IF Claimant(t) = q THEN seen[q] \cup {c}
                                                 ELSE seen[q]]
  <2>1. ASSUME NEW q \in Proc
        PROVE seen'[q] = IF Claimant(t) = q THEN seen[q] \cup {c} ELSE seen[q]
    <3>0. (Claimant(t) = q) <=> (Claiming(q) /\ plan[q].path = t)
      BY ClaimantIs DEF AInv
    <3>1. CASE Claiming(q)
      <4>1. plan[q].path \in Path BY <3>1, InvFacts DEF Known, Claiming
      <4>2. seen'[q] = {last'[plan[q].path]} \cup seen[q]
        BY <1>6, <3>1, RecordFacts DEF Claiming
      <4>3. last[plan[q].path] \in seen[q] BY <3>1 DEF AInv, ClaimKnown
      <4>4. last'[plan[q].path]
              = IF plan[q].path = t THEN c ELSE last[plan[q].path]
        BY <1>5, <4>1 DEF AInv
      <4> QED BY <3>0, <3>1, <4>2, <4>3, <4>4
    <3>2. CASE ~Claiming(q)
      <4>1. seen'[q] = {} BY <1>6, <3>2, RecordFacts DEF Claiming
      <4> QED BY <3>0, <3>2, <4>1 DEF AInv, ClaimKnown
    <3> QED BY <3>1, <3>2
  <2> QED BY <2>1, RecordFacts
<1> QED BY <1>2, <1>5, <1>7, <1>8, <1>9 DEF Install!Interfere, Install!Claims

-----------------------------------------------------------------------------
(* The invariant AInv.                                                     *)

(* Where a program goes missing a backup of it is left, and where it was   *)
(* missing every backup stays.                                             *)
GapsKept ==
  \A t \in Path : target'[t] = None =>
    \/ target[t] # None /\ \E n \in Name : backups'[t][n] = target[t]
    \/ /\ target[t] = None
       /\ \A n \in Name : Runnable(backups[t][n]) =>
            /\ Runnable(backups'[t][n])
            /\ backups'[t][n].content = backups[t][n].content

(* Only a claim that has seen the backup's bytes goes on to restore them.  *)
BackupFrom(p) ==
  pc'[p] \in Moving =>
    /\ Claiming(p) /\ plan'[p] = plan[p]
    /\ backups'[plan[p].path][job'[p].backup].content \in seen[p]

HashFrom(p) == Claiming(p)' => plan'[p].hash # None

(* Locks p takes or keeps are those of its plan's path.                    *)
LocksFrom(p) ==
  \A u \in Path : lock'[u] # None =>
    \/ lock'[u] = p /\ pc'[p] \in Holding /\ plan'[p].path = u
    \/ lock'[u] = lock[u] /\ lock[u] # p

(* A step of p that does these things right keeps AInv.                    *)
LEMMA AInvStep ==
  ASSUME NEW p \in Proc, Inv, AInv, Record, OnlyBy(p),
         GapsKept, BackupFrom(p), HashFrom(p), LocksFrom(p)
  PROVE AInv'
<1>1. /\ last' = [t \in Path |-> last'[t]] /\ seen' = [q \in Proc |-> seen'[q]]
      /\ LastKnown'
  BY RecordFacts DEF LastKnown
<1>2. LocksOwned'
  <2> SUFFICES ASSUME NEW u \in Path, lock'[u] # None
               PROVE pc'[lock'[u]] \in Holding /\ plan'[lock'[u]].path = u
    BY DEF LocksOwned
  <2>1. CASE lock'[u] = lock[u] /\ lock[u] # p
    <3>1. lock[u] \in Proc \ {p} BY <2>1 DEF Inv, TypeOK
    <3>2. pc'[lock[u]] = pc[lock[u]] /\ plan'[lock[u]] = plan[lock[u]]
      BY <3>1 DEF OnlyBy
    <3>3. pc[lock[u]] \in Holding /\ plan[lock[u]].path = u
      BY <2>1 DEF AInv, LocksOwned
    <3> HIDE DEF Holding
    <3> QED BY <2>1, <3>2, <3>3
  <2> QED BY <2>1 DEF LocksFrom
<1>3. GapHoldsLast'
  <2> SUFFICES ASSUME NEW t \in Path, target'[t] = None
               PROVE \E n \in Name : /\ Runnable(backups'[t][n])
                                     /\ backups'[t][n].content = last'[t]
    BY DEF GapHoldsLast, Runnable
  <2>1. last'[t] = last[t] BY RecordFacts
  <2>2. CASE target[t] # None /\ \E n \in Name : backups'[t][n] = target[t]
    <3>1. Runnable(target[t]) /\ last[t] = target[t].content
      BY <2>2 DEF Inv, FilesOK, AInv, LastKnown
    <3> QED BY <2>1, <2>2, <3>1
  <2>3. CASE target[t] = None
    <3>1. PICK n \in Name : Runnable(backups[t][n]) /\ backups[t][n].content = last[t]
      BY <2>3 DEF AInv, GapHoldsLast
    <3> QED BY <2>1, <2>3, <3>1 DEF GapsKept
  <2> QED BY <2>2, <2>3 DEF GapsKept
<1>4. ASSUME NEW q \in Proc, q # p PROVE ClaimKnown(q)'
  <2>1. /\ pc'[q] = pc[q] /\ plan'[q] = plan[q] /\ job'[q] = job[q]
        /\ seen'[q] = seen[q] /\ (Claiming(q)' <=> Claiming(q))
    BY <1>4, OthersKept DEF OnlyBy
  <2>2. Claiming(q)' => last'[plan'[q].path] \in seen'[q]
    BY RecordFacts
  <2>3. ~Claiming(q)' => seen'[q] = {} BY RecordFacts
  <2>4. pc[q] \in Moving => backups'[plan[q].path] = backups[plan[q].path]
    <3> SUFFICES ASSUME pc[q] \in Moving
                 PROVE backups'[plan[q].path] = backups[plan[q].path]
      OBVIOUS
    <3>1. plan[q].path \in Path /\ lock[plan[q].path] = q
      BY InvFacts DEF Known
    <3> QED BY <1>4, <3>1 DEF OnlyBy
  <2> QED BY <2>1, <2>2, <2>3, <2>4 DEF AInv, ClaimKnown
<1>5. ClaimKnown(p)'
  <2>1. Claiming(p)' => last'[plan'[p].path] \in seen'[p] BY RecordFacts
  <2>2. ~Claiming(p)' => seen'[p] = {} BY RecordFacts
  <2>3. pc'[p] \in Moving => seen[p] \subseteq seen'[p]
    <3>1. pc'[p] \in Moving => Claiming(p)' BY DEF Claiming
    <3> QED BY <3>1, RecordFacts DEF BackupFrom
  <2> QED BY <2>1, <2>2, <2>3 DEF ClaimKnown, BackupFrom, HashFrom
<1> QED BY <1>1, <1>2, <1>3, <1>4, <1>5 DEF AInv

-----------------------------------------------------------------------------
(* The actions of Apply.                                                   *)

(* A step maps to one of AtomicInstall or to none.                         *)
Mapped == Install!Next \/ UNCHANGED Install!avars

(* No program, lock or plan changes, and no claim begins or ends.          *)
Calm(p) ==
  /\ target' = target /\ backups' = backups /\ lock' = lock /\ plan' = plan
  /\ pc[p] \in Holding => pc'[p] \in Holding
  /\ \/ ~Claiming(p) /\ ~Claiming(p)'
     \/ pc'[p] = pc[p] /\ job'[p].backup = job[p].backup

(* Where programs stay, gaps do, and so does what was last seen.           *)
LEMMA SamePrograms ==
  ASSUME Inv, AInv, Record,
         \A t \in Path : target'[t] # None =>
           target[t] # None /\ target'[t].content = target[t].content
  PROVE \A t \in Path : last'[t] = last[t]
BY RecordFacts DEF AInv, LastKnown

(* The locks of a step that takes and releases none.                       *)
LEMMA SameLocks ==
  ASSUME NEW p \in Proc, Inv, AInv, lock' = lock,
         pc[p] \in Holding => pc'[p] \in Holding /\ plan'[p] = plan[p]
  PROVE LocksFrom(p)
<1> SUFFICES ASSUME NEW u \in Path, lock[u] = p, p # None
             PROVE pc'[p] \in Holding /\ plan'[p].path = u
  BY DEF LocksFrom
<1>1. pc[p] \in Holding /\ plan[p].path = u BY DEF AInv, LocksOwned
<1> HIDE DEF Holding
<1> QED BY <1>1

(* A calm step is hidden.                                                  *)
LEMMA CalmStep ==
  ASSUME NEW p \in Proc, Inv, AInv, Record, StepOK(p), Calm(p)
  PROVE AInv' /\ Mapped
<1>1. OnlyBy(p) /\ Inv' BY ProcStep DEF StepOK
<1>2. GapsKept BY DEF Calm, GapsKept
<1>3. (Claiming(p)' <=> Claiming(p)) /\ BackupFrom(p)
  BY DEF Calm, Claiming, BackupFrom, AInv, ClaimKnown
<1>4. HashFrom(p)
  BY <1>3 DEF Calm, HashFrom, AInv, ClaimKnown
<1>5. LocksFrom(p) BY SameLocks DEF Calm
<1>6. AInv' BY <1>1, <1>2, <1>3, <1>4, <1>5, AInvStep
<1>7. \A t \in Path : last'[t] = last[t]
  BY SamePrograms DEF Calm
<1>8. Decided(p)' = Decided(p) /\ plan'[p] = plan[p] BY DEF Calm, Decided
<1>9. UNCHANGED Install!avars
  BY <1>1, <1>3, <1>6, <1>7, <1>8, HiddenStep DEF StepOf
<1> QED BY <1>6, <1>9 DEF Mapped

(* All of Check and Apply but the steps of a plan, of a claim, of a lock   *)
(* and of the backups is calm.                                             *)
LEMMA CalmBegin ==
  ASSUME NEW p \in Proc, Inv,
         \/ BeginApply(p) \/ StopWaiting(p) \/ LockFails(p) \/ Recheck(p)
         \/ Start(p) \/ Cancel(p)
  PROVE Calm(p)
<1>0. pc \in [Proc -> Point] BY DEF Inv, TypeOK
<1>1. CASE BeginApply(p) BY <1>0, <1>1 DEF BeginApply, Calm, Claiming
<1>2. CASE StopWaiting(p) BY <1>0, <1>2 DEF StopWaiting, Return, Calm, Claiming
<1>3. CASE LockFails(p) BY <1>0, <1>3 DEF LockFails, Return, Calm, Claiming
<1>4. CASE Recheck(p) BY <1>0, <1>4 DEF Recheck, Abort, Calm, Claiming
<1>5. CASE Start(p) BY <1>0, <1>5 DEF Start, Calm, Claiming
<1>6. CASE Cancel(p) BY <1>0, <1>6 DEF Cancel, Calm, Claiming
<1> QED BY <1>1, <1>2, <1>3, <1>4, <1>5, <1>6

(* The steps before the replacement write temporary files only.            *)
LEMMA CalmPrelude ==
  ASSUME NEW p \in Proc, Inv,
         \/ SweepStages(p) \/ SweepArchives(p) \/ Fingerprint(p)
         \/ CreateArchive(p) \/ Download(p) \/ VerifyDigest(p) \/ CreateStage(p)
         \/ Extract(p) \/ ChmodStage(p) \/ Fail(p) \/ Interrupt(p)
  PROVE Calm(p)
<1>0. pc \in [Proc -> Point] BY DEF Inv, TypeOK
<1>1. CASE SweepStages(p) \/ SweepArchives(p) \/ Fingerprint(p)
  BY <1>0, <1>1 DEF SweepStages, SweepArchives, Fingerprint, Abort, Calm,
    Claiming
<1>2. CASE CreateArchive(p) \/ Download(p) \/ VerifyDigest(p)
  BY <1>0, <1>2 DEF CreateArchive, Download, VerifyDigest, Abort, Calm, Claiming
<1>3. CASE CreateStage(p) \/ Extract(p) \/ ChmodStage(p)
  BY <1>0, <1>3 DEF CreateStage, Extract, ChmodStage, Calm, Claiming
<1>4. CASE Fail(p) \/ Interrupt(p)
  BY <1>0, <1>4 DEF Fail, Interrupt, GiveUp, Calm, Claiming
<1> QED BY <1>1, <1>2, <1>3, <1>4

(* So do the deferred functions, and the sync of the directory.            *)
LEMMA CalmEnd ==
  ASSUME NEW p \in Proc, Inv,
         SyncDirectory(p) \/ RemoveStage(p) \/ RemoveArchive(p)
  PROVE Calm(p)
<1>0. pc \in [Proc -> Point] BY DEF Inv, TypeOK
<1>1. CASE SyncDirectory(p) BY <1>0, <1>1 DEF SyncDirectory, Commit, Calm, Claiming
<1>2. CASE RemoveStage(p) BY <1>0, <1>2 DEF RemoveStage, Calm, Claiming
<1>3. CASE RemoveArchive(p) BY <1>0, <1>3 DEF RemoveArchive, Calm, Claiming
<1> QED BY <1>1, <1>2, <1>3

(* The lock is taken and released outside of any claim.                    *)
LEMMA AcquireMaps ==
  ASSUME NEW p \in Proc, Inv, AInv, Record, Acquire(p)
  PROVE AInv' /\ Mapped
<1> DEFINE t == plan[p].path
<1>1. StepOK(p) /\ OnlyBy(p) /\ Inv' BY AcquireStep, ProcStep DEF StepOK
<1>2. /\ t \in Path /\ pc[p] = "waiting" /\ pc'[p] = "locked"
      /\ target' = target /\ backups' = backups /\ plan' = plan
      /\ lock' = [lock EXCEPT ![t] = p] /\ lock \in [Path -> Proc \cup {None}]
  BY InvFacts DEF Known, Acquire, Inv, TypeOK
<1>3. ~Claiming(p) /\ ~Claiming(p)' BY <1>2 DEF Claiming
<1>4. GapsKept /\ BackupFrom(p) /\ HashFrom(p)
  BY <1>2, <1>3 DEF GapsKept, BackupFrom, HashFrom
<1>5. LocksFrom(p)
  <2>1. \A u \in Path \ {t} : lock'[u] = lock[u] BY <1>2
  <2>2. \A u \in Path : lock[u] # p
    BY <1>2, ConstantsAssumption DEF AInv, LocksOwned
  <2> QED BY <1>2, <2>1, <2>2 DEF LocksFrom
<1>6. AInv' BY <1>1, <1>4, <1>5, AInvStep
<1>7. \A u \in Path : last'[u] = last[u] BY <1>2, SamePrograms
<1>8. Decided(p)' = Decided(p) BY <1>2 DEF Decided
<1> QED BY <1>1, <1>2, <1>3, <1>6, <1>7, <1>8, HiddenStep DEF StepOf, Mapped

(* The claim is over when the deferred unlock comes.                       *)
LEMMA ReleaseMaps ==
  ASSUME NEW p \in Proc, Inv, AInv, Record, Release(p)
  PROVE AInv' /\ Mapped
<1> DEFINE t == plan[p].path
<1>1. StepOK(p) /\ OnlyBy(p) /\ Inv' BY ReleaseStep, ProcStep DEF StepOK
<1>2. /\ t \in Path /\ pc[p] = "defer" /\ pc'[p] = "ready"
      /\ target' = target /\ backups' = backups /\ plan' = plan
      /\ lock' = [lock EXCEPT ![t] = None] /\ lock \in [Path -> Proc \cup {None}]
  BY InvFacts DEF Known, Release, Return, Inv, TypeOK
<1>3. ~Claiming(p) /\ ~Claiming(p)' BY <1>2 DEF Claiming
<1>4. GapsKept /\ BackupFrom(p) /\ HashFrom(p)
  BY <1>2, <1>3 DEF GapsKept, BackupFrom, HashFrom
<1>5. LocksFrom(p)
  <2>1. lock'[t] = None /\ \A u \in Path \ {t} : lock'[u] = lock[u] BY <1>2
  <2>2. \A u \in Path \ {t} : lock[u] # p
    BY <1>2, ConstantsAssumption DEF AInv, LocksOwned
  <2> QED BY <2>1, <2>2 DEF LocksFrom
<1>6. AInv' BY <1>1, <1>4, <1>5, AInvStep
<1>7. \A u \in Path : last'[u] = last[u] BY <1>2, SamePrograms
<1>8. Decided(p)' = Decided(p) BY <1>2 DEF Decided
<1> QED BY <1>1, <1>2, <1>3, <1>6, <1>7, <1>8, HiddenStep DEF StepOf, Mapped

(* Backups come and go, and attributes change, outside of a claim where    *)
(* the program is at its path.                                             *)
LEMMA BesideStep ==
  ASSUME NEW p \in Proc, Inv, AInv, Record, StepOK(p), NEW t \in Path,
         lock' = lock, plan' = plan,
         pc[p] \in Holding, pc'[p] \in Holding, ~Claiming(p), ~Claiming(p)',
         \A u \in Path \ {t} : backups'[u] = backups[u],
         target'[t] # None \/ backups' = backups,
         \A u \in Path : target'[u] = None => target[u] = None,
         \A u \in Path : target'[u] # None =>
           target[u] # None /\ target'[u].content = target[u].content
  PROVE AInv' /\ Mapped
<1>1. OnlyBy(p) /\ Inv' BY ProcStep DEF StepOK
<1>2. GapsKept BY DEF GapsKept
<1>3. BackupFrom(p) /\ HashFrom(p) BY DEF BackupFrom, HashFrom, Claiming
<1>4. LocksFrom(p) BY SameLocks
<1>5. AInv' BY <1>1, <1>2, <1>3, <1>4, AInvStep
<1>6. \A u \in Path : last'[u] = last[u] BY SamePrograms
<1>7. Decided(p)' = Decided(p) BY DEF Decided
<1> QED BY <1>1, <1>5, <1>6, <1>7, HiddenStep DEF StepOf, Mapped

(* Sweeping and dropping backups, and unhiding, show nothing.              *)
LEMMA BackupsMap ==
  ASSUME NEW p \in Proc, Inv, AInv, Record,
         SweepBackups(p) \/ DropBackup(p) \/ UnhideTarget(p)
  PROVE AInv' /\ Mapped
<1> DEFINE t == plan[p].path
<1>0. /\ Known(p) /\ t \in Path
      /\ target \in [Path -> File \cup {None}]
      /\ backups \in [Path -> [Name -> File \cup {None}]]
      /\ pc \in [Proc -> Point]
  BY InvFacts DEF Known, TypeOK, SweepBackups, DropBackup, UnhideTarget
<1>1. CASE SweepBackups(p)
  <2>1. StepOK(p) BY <1>1, SweepBackupsStep
  <2>2. target[t] # None BY <1>0, <1>1 DEF Known, Own, TargetThere, SweepBackups
  <2>3. \A u \in Path \ {t} : backups'[u] = backups[u]
    BY <1>0, <1>1 DEF SweepBackups, KeepOnly
  <2>4. /\ lock' = lock /\ plan' = plan /\ target' = target
        /\ pc[p] = "sweepBackups" /\ pc'[p] \in {"sweepStages", "defer"}
    BY <1>0, <1>1 DEF SweepBackups, Abort
  <2>5. pc[p] \in Holding /\ pc'[p] \in Holding /\ ~Claiming(p) /\ ~Claiming(p)'
    BY <2>4 DEF Claiming
  <2> QED BY <1>0, <2>1, <2>2, <2>3, <2>4, <2>5, BesideStep
<1>2. CASE DropBackup(p)
  <2>1. StepOK(p) BY <1>2, DropBackupStep
  <2>2. target[t] # None BY <1>0, <1>2 DEF Known, Own, TargetThere, DropBackup
  <2>3. \A u \in Path \ {t} : backups'[u] = backups[u]
    BY <1>0, <1>2 DEF DropBackup
  <2>4. /\ lock' = lock /\ plan' = plan /\ target' = target
        /\ pc[p] = "drop" /\ pc'[p] = "defer"
    BY <1>0, <1>2 DEF DropBackup, Commit
  <2>5. pc[p] \in Holding /\ pc'[p] \in Holding /\ ~Claiming(p) /\ ~Claiming(p)'
    BY <2>4 DEF Claiming
  <2> QED BY <1>0, <2>1, <2>2, <2>3, <2>4, <2>5, BesideStep
<1>3. CASE UnhideTarget(p)
  <2>1. StepOK(p) BY <1>3, UnhideTargetStep
  <2>2. \A u \in Path :
          /\ target'[u] = None => target[u] = None
          /\ target'[u] # None =>
               target[u] # None /\ target'[u].content = target[u].content
    <3>1. CASE target' = target BY <3>1
    <3>2. CASE target[t] # None /\ target' = [target EXCEPT ![t].hidden = FALSE]
      <4>1. target[t] \in File BY <1>0, <3>2
      <4>2. target'[t].content = target[t].content BY <1>0, <3>2, <4>1 DEF File
      <4>3. \A u \in Path \ {t} : target'[u] = target[u] BY <1>0, <3>2
      <4>4. target'[t] # None
        <5>1. target'[t] \in File BY <1>0, <3>2, <4>1 DEF File
        <5> QED BY <1>0, <5>1 DEF Known
      <4> QED BY <3>2, <4>2, <4>3, <4>4
    <3> QED BY <1>3, <3>1, <3>2 DEF UnhideTarget
  <2>3. /\ lock' = lock /\ plan' = plan /\ backups' = backups
        /\ pc[p] = "unhide" /\ pc'[p] = "defer"
    BY <1>0, <1>3 DEF UnhideTarget
  <2>4. pc[p] \in Holding /\ pc'[p] \in Holding /\ ~Claiming(p) /\ ~Claiming(p)'
    BY <2>3 DEF Claiming
  <2> QED BY <1>0, <2>1, <2>2, <2>3, <2>4, BesideStep
<1> QED BY <1>1, <1>2, <1>3

(* Check drops the decision of an earlier one.                             *)
LEMMA CheckMaps ==
  ASSUME NEW p \in Proc, Inv, AInv, Record, Check(p)
  PROVE AInv' /\ Mapped
<1>1. StepOK(p) /\ OnlyBy(p) /\ Inv' BY CheckStep, ProcStep DEF StepOK
<1>2. /\ pc[p] = "ready" /\ pc'[p] = "planning"
      /\ target' = target /\ backups' = backups /\ lock' = lock
      /\ plan'[p].hash = None
  BY DEF Check, Inv, TypeOK
<1>3. ~Claiming(p) /\ ~Claiming(p)' /\ pc[p] \notin Holding
  BY <1>2 DEF Claiming
<1>4. GapsKept /\ BackupFrom(p) /\ HashFrom(p)
  BY <1>2, <1>3 DEF GapsKept, BackupFrom, HashFrom
<1>5. LocksFrom(p) BY <1>2, <1>3, SameLocks
<1>6. AInv' BY <1>1, <1>4, <1>5, AInvStep
<1>7. \A u \in Path : last'[u] = last[u] BY <1>2, SamePrograms
<1>8. Decided(p)' = None BY <1>2 DEF Decided
<1>9. Install!Forget(p) BY <1>1, <1>3, <1>6, <1>7, <1>8, ForgetStep DEF StepOf
<1> QED BY <1>6, <1>9 DEF Mapped, Install!Next

(* A kill takes the decision and the claim away.                           *)
LEMMA CrashMaps ==
  ASSUME NEW p \in Proc, Inv, AInv, Record, Crash(p)
  PROVE AInv' /\ Mapped
<1>1. StepOK(p) /\ OnlyBy(p) /\ Inv' BY CrashStep, ProcStep DEF StepOK
<1>2. /\ pc'[p] = "down" /\ target' = target /\ backups' = backups
      /\ plan'[p] = None
      /\ \A u \in Path : lock'[u] = IF lock[u] = p THEN None ELSE lock[u]
  BY DEF Crash, Inv, TypeOK
<1>3. ~Claiming(p)' BY <1>2 DEF Claiming
<1>4. GapsKept /\ BackupFrom(p) /\ HashFrom(p)
  BY <1>2, <1>3 DEF GapsKept, BackupFrom, HashFrom, Claiming
<1>5. LocksFrom(p) BY <1>2 DEF LocksFrom
<1>6. AInv' BY <1>1, <1>4, <1>5, AInvStep
<1>7. \A u \in Path : last'[u] = last[u] BY <1>2, SamePrograms
<1>8. Decided(p)' = None BY <1>2 DEF Decided
<1>9. Install!Forget(p) BY <1>1, <1>3, <1>6, <1>7, <1>8, ForgetStep DEF StepOf
<1> QED BY <1>6, <1>9 DEF Mapped, Install!Next

(* Check's fingerprint completes its decision, or its error drops the plan.*)
LEMMA FingerprintPlanMaps ==
  ASSUME NEW p \in Proc, Inv, AInv, Record, FingerprintPlan(p)
  PROVE AInv' /\ Mapped
<1> DEFINE t == plan[p].path
<1>0. /\ Known(p) /\ plan[p] \in Plan /\ t \in Path
      /\ plan[p].version \in Version
      /\ target \in [Path -> File \cup {None}]
      /\ plan \in [Proc -> Plan \cup {None}]
  BY InvFacts DEF Known, TypeOK, FingerprintPlan
<1>1. StepOK(p) /\ OnlyBy(p) /\ Inv'
  BY FingerprintPlanStep, ProcStep DEF StepOK
<1>2. /\ pc[p] = "planning" /\ pc'[p] = "ready"
      /\ target' = target /\ backups' = backups /\ lock' = lock
  BY <1>0 DEF FingerprintPlan, Known, TypeOK
<1>3. ~Claiming(p) /\ ~Claiming(p)' /\ pc[p] \notin Holding
  BY <1>2 DEF Claiming
<1>4. GapsKept /\ BackupFrom(p) /\ HashFrom(p)
  BY <1>2, <1>3 DEF GapsKept, BackupFrom, HashFrom
<1>5. LocksFrom(p) BY <1>2, <1>3, SameLocks
<1>6. AInv' BY <1>1, <1>4, <1>5, AInvStep
<1>7. \A u \in Path : last'[u] = last[u] BY <1>2, SamePrograms
<1>8. CASE plan' = [plan EXCEPT ![p] = None]
  <2>1. Decided(p)' = None BY <1>0, <1>8 DEF Decided
  <2>2. Install!Forget(p) BY <1>1, <1>3, <1>6, <1>7, <2>1, ForgetStep DEF StepOf
  <2> QED BY <1>6, <2>2 DEF Mapped, Install!Next
<1>9. CASE target[t] # None /\ plan' = [plan EXCEPT ![p].hash = target[t].content]
  <2> DEFINE h == target[t].content
  <2>1. h = last[t] BY <1>0, <1>9 DEF AInv, LastKnown
  <2>2. h \in Bytes /\ h # None
    <3>1. target[t] \in File BY <1>0, <1>9
    <3> QED BY <1>0, <3>1 DEF File, Known
  <2>3. /\ plan'[p] \in Plan /\ plan'[p].path = t /\ plan'[p].hash = h
        /\ plan'[p].version = plan[p].version
    <3> HIDE DEF h
    <3> QED BY <1>0, <1>9, <2>2 DEF Plan, h
  <2>4. plan'[p] # None BY <2>3, ConstantsAssumption
  <2> HIDE DEF h
  <2>5. Install!Decide(p, t, plan[p].version)
    BY <1>0, <1>1, <1>3, <1>6, <1>7, <2>1, <2>2, <2>3, <2>4, DecideStep
      DEF StepOf
  <2> QED BY <1>0, <1>6, <2>5 DEF Mapped, Install!Next
<1> QED BY <1>8, <1>9 DEF FingerprintPlan

(* The second fingerprint begins the claim, or the call fails.             *)
LEMMA RefingerprintMaps ==
  ASSUME NEW p \in Proc, Inv, AInv, Record, Refingerprint(p)
  PROVE AInv' /\ Mapped
<1> DEFINE t == plan[p].path
<1>0. /\ Known(p) /\ plan[p] \in Plan /\ t \in Path
      /\ target \in [Path -> File \cup {None}]
      /\ pc \in [Proc -> Point] /\ pc[p] = "refingerprint"
      /\ target' = target /\ backups' = backups /\ lock' = lock /\ plan' = plan
  BY InvFacts DEF Known, TypeOK, Refingerprint
<1>1. StepOK(p) /\ OnlyBy(p) /\ Inv' BY RefingerprintStep, ProcStep DEF StepOK
<1>2. CASE Abort(p)
  <2>1. Calm(p) BY <1>0, <1>2 DEF Abort, Calm, Claiming
  <2> QED BY <1>1, <2>1, CalmStep
<1>3. CASE Matches(p) /\ Goto(p, "precommit")
  <2>1. pc'[p] = "precommit" BY <1>0, <1>3
  <2>2. ~Claiming(p) /\ Claiming(p)' BY <1>0, <2>1 DEF Claiming
  <2>3. plan[p].hash = last[t]
    BY <1>0, <1>3 DEF Matches, AInv, LastKnown
  <2>4. plan[p].hash # None
    <3>1. target[t] \in File BY <1>0, <1>3 DEF Matches
    <3> QED BY <1>0, <1>3, <3>1 DEF Matches, File, Known
  <2>5. GapsKept /\ BackupFrom(p) /\ HashFrom(p)
    BY <1>0, <2>1, <2>4 DEF GapsKept, BackupFrom, HashFrom
  <2>6. LocksFrom(p) BY <1>0, <2>1, SameLocks
  <2>7. AInv' BY <1>1, <2>5, <2>6, AInvStep
  <2>8. \A u \in Path : last'[u] = last[u] BY <1>0, SamePrograms
  <2>9. plan[p] # None /\ lock[t] = p
    BY <1>0, ConstantsAssumption DEF Known
  <2>10. Install!Claim(p, t)
    BY <1>0, <1>1, <2>2, <2>3, <2>4, <2>7, <2>8, <2>9, ClaimStep DEF StepOf
  <2> QED BY <1>0, <2>7, <2>10 DEF Mapped, Install!Next
<1> QED BY <1>2, <1>3 DEF Refingerprint

(* A claim ends before anything was moved.                                 *)
LEMMA GivesUpMaps ==
  ASSUME NEW p \in Proc, Inv, AInv, Record, StepOK(p),
         Claiming(p), pc'[p] = "defer",
         target' = target, backups' = backups, lock' = lock, plan' = plan
  PROVE AInv' /\ Mapped
<1> DEFINE t == plan[p].path
<1>0. t \in Path BY InvFacts DEF Known, Claiming
<1>1. OnlyBy(p) /\ Inv' BY ProcStep DEF StepOK
<1>2. ~Claiming(p)' BY DEF Claiming
<1>3. GapsKept /\ BackupFrom(p) /\ HashFrom(p)
  BY <1>2 DEF GapsKept, BackupFrom, HashFrom
<1>4. LocksFrom(p) BY SameLocks
<1>5. AInv' BY <1>1, <1>3, <1>4, AInvStep
<1>6. last'[t] \in seen[p]
  <2>1. last'[t] = last[t] BY <1>0, SamePrograms
  <2> QED BY <2>1 DEF AInv, ClaimKnown
<1>7. Install!Withdraw(p, t) BY <1>1, <1>2, <1>5, <1>6, WithdrawStep DEF StepOf
<1> QED BY <1>0, <1>5, <1>7 DEF Mapped, Install!Next

(* The last look at the context keeps the claim or gives it up.            *)
LEMMA PrecommitMaps ==
  ASSUME NEW p \in Proc, Inv, AInv, Record, Precommit(p)
  PROVE AInv' /\ Mapped
<1>0. /\ pc \in [Proc -> Point] /\ pc[p] = "precommit"
      /\ target' = target /\ backups' = backups /\ lock' = lock /\ plan' = plan
  BY DEF Inv, TypeOK, Precommit
<1>1. StepOK(p) /\ OnlyBy(p) /\ Inv' BY PrecommitStep, ProcStep DEF StepOK
<1>2. Claiming(p) BY <1>0 DEF Claiming
<1>3. CASE Abort(p)
  <2>1. pc'[p] = "defer" BY <1>0, <1>3 DEF Abort
  <2> QED BY <1>0, <1>1, <1>2, <2>1, GivesUpMaps
<1>4. CASE Goto(p, "replace")
  <2>1. pc'[p] = "replace" BY <1>0, <1>4
  <2>2. Claiming(p)' BY <2>1 DEF Claiming
  <2>3. GapsKept /\ BackupFrom(p) BY <1>0, <2>1 DEF GapsKept, BackupFrom
  <2>4. HashFrom(p) BY <1>0, <1>2 DEF HashFrom, AInv, ClaimKnown
  <2>5. LocksFrom(p) BY <1>0, <2>1, SameLocks
  <2>6. AInv' BY <1>1, <2>3, <2>4, <2>5, AInvStep
  <2>7. \A u \in Path : last'[u] = last[u] BY <1>0, SamePrograms
  <2>8. Decided(p)' = Decided(p) BY <1>0 DEF Decided
  <2>9. UNCHANGED Install!avars
    BY <1>0, <1>1, <1>2, <2>2, <2>6, <2>7, <2>8, HiddenStep DEF StepOf
  <2> QED BY <2>6, <2>9 DEF Mapped
<1> QED BY <1>3, <1>4 DEF Precommit

(* The first rename fails: the claim ends with nothing moved.              *)
LEMMA ReplaceFailsMaps ==
  ASSUME NEW p \in Proc, Inv, AInv, Record, ReplaceFails(p)
  PROVE AInv' /\ Mapped
<1>1. StepOK(p) BY ReplaceFailsStep
<1>2. /\ pc \in [Proc -> Point] /\ pc[p] = "replace" /\ pc'[p] = "defer"
      /\ target' = target /\ backups' = backups /\ lock' = lock /\ plan' = plan
  BY DEF Inv, TypeOK, ReplaceFails, Abort
<1>3. Claiming(p) BY <1>2 DEF Claiming
<1> QED BY <1>1, <1>2, <1>3, GivesUpMaps

(* The stage becomes the executable: the claim ends with the release.      *)
LEMMA StageMoves ==
  ASSUME NEW p \in Proc, Inv, AInv, Record, StepOK(p),
         pc[p] \in {"replace", "install"}, pc'[p] \in {"syncdir", "drop"},
         MoveStage(p, plan[p].path),
         backups' = backups, lock' = lock, plan' = plan
  PROVE AInv' /\ Mapped
<1> DEFINE t == plan[p].path
<1>0. Known(p) /\ t \in Path /\ plan[p].version \in Version
  BY InvFacts DEF Known
<1>1. OnlyBy(p) /\ Inv' BY ProcStep DEF StepOK
<1>2. StageMoved(p, t) BY <1>0, MoveStageFacts
<1>3. Claiming(p) /\ ~Claiming(p)' BY DEF Claiming
<1>4. \A u \in Path : target'[u] = None => target[u] = None
  BY <1>2 DEF StageMoved, Runnable
<1>5. GapsKept /\ BackupFrom(p) /\ HashFrom(p)
  BY <1>3, <1>4 DEF GapsKept, BackupFrom, HashFrom
<1>6. LocksFrom(p) BY SameLocks
<1>7. AInv' BY <1>1, <1>5, <1>6, AInvStep
<1>8. last'[t] = plan[p].version
  <2>1. target'[t] # None /\ target'[t].content = plan[p].version
    <3>1. target'[t] = stages[t][job[p].stage]
      BY <1>0 DEF MoveStage, Known, TypeOK
    <3>2. stages[t][job[p].stage].content = plan[p].version
      BY <1>0 DEF Known, Own, StageGood, NeedsStage
    <3> QED BY <1>2, <3>1, <3>2 DEF StageMoved
  <2> QED BY <1>0, <2>1, RecordFacts
<1>9. Install!Swap(p, t) BY <1>1, <1>3, <1>7, <1>8, InstallStep DEF StepOf
<1> QED BY <1>0, <1>7, <1>9 DEF Mapped, Install!Next

(* replace_unix.go swaps the program with one rename.                      *)
LEMMA RenameStageMaps ==
  ASSUME NEW p \in Proc, Inv, AInv, Record, RenameStage(p)
  PROVE AInv' /\ Mapped
<1>1. StepOK(p) BY RenameStageStep
<1>2. /\ pc[p] = "replace" /\ pc'[p] = "syncdir" /\ MoveStage(p, plan[p].path)
      /\ backups' = backups /\ lock' = lock /\ plan' = plan
  BY DEF Inv, TypeOK, RenameStage
<1> QED BY <1>1, <1>2, StageMoves

(* Within a claim the program that was there may go to a backup, and what  *)
(* was last seen stays.                                                    *)
LEMMA InsideStep ==
  ASSUME NEW p \in Proc, Inv, AInv, Record, StepOK(p),
         Claiming(p), pc'[p] \in Moving, lock' = lock, plan' = plan,
         GapsKept, BackupFrom(p),
         \A u \in Path : target'[u] # None =>
           target[u] # None /\ target'[u].content = target[u].content
  PROVE AInv' /\ Mapped
<1>1. OnlyBy(p) /\ Inv' BY ProcStep DEF StepOK
<1>2. Claiming(p)' BY DEF Claiming
<1>3. HashFrom(p) BY DEF HashFrom, AInv, ClaimKnown
<1>4. LocksFrom(p) BY SameLocks
<1>5. AInv' BY <1>1, <1>3, <1>4, AInvStep
<1>6. \A u \in Path : last'[u] = last[u] BY SamePrograms
<1>7. Decided(p)' = Decided(p) BY DEF Decided
<1>8. UNCHANGED Install!avars
  BY <1>1, <1>2, <1>5, <1>6, <1>7, HiddenStep DEF StepOf
<1> QED BY <1>5, <1>8 DEF Mapped

(* The first rename of replace_windows.go opens the gap over a backup of   *)
(* the program.                                                            *)
LEMMA MoveAsideMaps ==
  ASSUME NEW p \in Proc, Inv, AInv, Record, MoveAside(p)
  PROVE AInv' /\ Mapped
<1> DEFINE t == plan[p].path
<1>0. /\ t \in Path /\ target[t] \in File /\ target[t] # None
      /\ target \in [Path -> File \cup {None}]
      /\ backups \in [Path -> [Name -> File \cup {None}]]
      /\ job \in [Proc -> Job]
  BY InvFacts DEF Known, TypeOK, MoveAside
<1>1. StepOK(p) BY MoveAsideStep
<1>2. /\ pc[p] = "replace" /\ pc'[p] = "hide" /\ lock' = lock /\ plan' = plan
      /\ target' = [target EXCEPT ![t] = None]
  BY DEF Inv, TypeOK, MoveAside
<1>3. Claiming(p) BY <1>2 DEF Claiming
<1>4. PICK n \in Name : /\ backups' = [backups EXCEPT ![t][n] = target[t]]
                        /\ job' = [job EXCEPT ![p].backup = n]
  BY DEF MoveAside
<1>5. job'[p].backup = n BY <1>0, <1>4 DEF Job
<1>6. /\ backups'[t][n] = target[t]
      /\ \A u \in Path \ {t} : backups'[u] = backups[u]
  BY <1>0, <1>4
<1>7. target'[t] = None /\ \A u \in Path \ {t} : target'[u] = target[u]
  BY <1>0, <1>2
<1>8. GapsKept BY <1>0, <1>6, <1>7 DEF GapsKept
<1>9. BackupFrom(p)
  <2>1. last[t] = target[t].content /\ last[t] \in seen[p]
    BY <1>0, <1>3 DEF AInv, LastKnown, ClaimKnown
  <2> QED BY <1>2, <1>3, <1>5, <1>6, <2>1 DEF BackupFrom
<1>10. \A u \in Path : target'[u] # None =>
         target[u] # None /\ target'[u].content = target[u].content
  BY <1>7
<1> QED BY <1>1, <1>2, <1>3, <1>8, <1>9, <1>10, InsideStep

(* Hiding the backup keeps its bytes.                                      *)
LEMMA HideBackupMaps ==
  ASSUME NEW p \in Proc, Inv, AInv, Record, HideBackup(p)
  PROVE AInv' /\ Mapped
<1> DEFINE t == plan[p].path
           n == job[p].backup
           f == backups[t][n]
           g == [f EXCEPT !.hidden = TRUE]
<1>0. /\ t \in Path /\ n \in Name /\ f \in File /\ Runnable(f)
      /\ backups \in [Path -> [Name -> File \cup {None}]]
      /\ None \notin File
  <2>1. /\ Known(p) /\ t \in Path /\ n \in Name /\ f # None
        /\ backups \in [Path -> [Name -> File \cup {None}]]
    BY InvFacts DEF Known, TypeOK, HideBackup, Own, HasFiles, NeedsBackup
  <2> QED BY <2>1 DEF Known, FilesOK
<1>1. StepOK(p) BY HideBackupStep
<1>2. /\ pc[p] = "hide" /\ pc'[p] \in Moving
      /\ lock' = lock /\ plan' = plan /\ target' = target /\ job' = job
  BY DEF Inv, TypeOK, HideBackup
<1>3. Claiming(p) BY <1>2 DEF Claiming
<1>4. \A u \in Path, m \in Name : Runnable(backups[u][m]) =>
        /\ Runnable(backups'[u][m])
        /\ backups'[u][m].content = backups[u][m].content
  <2>1. CASE backups' = backups BY <2>1
  <2>2. CASE backups' = [backups EXCEPT ![t][n] = g]
    <3>1. g \in File /\ g.content = f.content /\ g.exec = f.exec
      BY <1>0 DEF File
    <3>2. Runnable(g) BY <1>0, <3>1 DEF Runnable
    <3> HIDE DEF g
    <3>3. /\ backups'[t][n] = g
          /\ \A u \in Path, m \in Name :
               u # t \/ m # n => backups'[u][m] = backups[u][m]
      BY <1>0, <2>2, <3>1, PutIs
    <3> QED BY <3>1, <3>2, <3>3
  <2>3. backups' = backups \/ backups' = [backups EXCEPT ![t][n] = g]
    BY <1>0 DEF HideBackup
  <2> QED BY <2>1, <2>2, <2>3
<1>5. GapsKept BY <1>2, <1>4 DEF GapsKept
<1>6. BackupFrom(p)
  <2>1. f.content \in seen[p] BY <1>2 DEF AInv, ClaimKnown
  <2>2. backups'[t][n].content = f.content BY <1>0, <1>4
  <2> QED BY <1>2, <1>3, <2>1, <2>2 DEF BackupFrom
<1> QED BY <1>1, <1>2, <1>3, <1>5, <1>6, InsideStep

(* The second rename of replace_windows.go swaps the program, or leaves    *)
(* the gap to the rollback.                                                *)
LEMMA InstallStageMaps ==
  ASSUME NEW p \in Proc, Inv, AInv, Record, InstallStage(p)
  PROVE AInv' /\ Mapped
<1> DEFINE t == plan[p].path
<1>1. StepOK(p) BY InstallStageStep
<1>2. /\ pc \in [Proc -> Point] /\ pc[p] = "install"
      /\ backups' = backups /\ lock' = lock /\ plan' = plan /\ job' = job
  BY DEF Inv, TypeOK, InstallStage
<1>3. CASE MoveStage(p, t) /\ Goto(p, "drop")
  <2>1. pc'[p] = "drop" BY <1>2, <1>3
  <2> QED BY <1>1, <1>2, <1>3, <2>1, StageMoves
<1>4. CASE Goto(p, "rollback") /\ target' = target
  <2>1. pc'[p] = "rollback" BY <1>2, <1>4
  <2>2. Claiming(p) BY <1>2 DEF Claiming
  <2>3. GapsKept BY <1>2, <1>4 DEF GapsKept
  <2>4. BackupFrom(p) BY <1>2, <2>2 DEF BackupFrom, AInv, ClaimKnown
  <2> QED BY <1>1, <1>2, <1>4, <2>1, <2>2, <2>3, <2>4, InsideStep
<1> QED BY <1>3, <1>4 DEF InstallStage

(* A rollback ends the claim: with the bytes of the backup, which the      *)
(* claim has seen, or with the gap or whatever has filled it.              *)
LEMMA RollbackMaps ==
  ASSUME NEW p \in Proc, Inv, AInv, Record, Rollback(p)
  PROVE AInv' /\ Mapped
<1> DEFINE t == plan[p].path
           n == job[p].backup
<1>0. /\ t \in Path /\ n \in Name /\ backups[t][n] # None
      /\ target \in [Path -> File \cup {None}]
      /\ backups \in [Path -> [Name -> File \cup {None}]]
  BY InvFacts DEF Known, TypeOK, Rollback, Own, HasFiles, NeedsBackup
<1>1. StepOK(p) /\ OnlyBy(p) /\ Inv' BY RollbackStep, ProcStep DEF StepOK
<1>2. /\ pc \in [Proc -> Point] /\ pc[p] = "rollback"
      /\ lock' = lock /\ plan' = plan
  BY DEF Inv, TypeOK, Rollback
<1>3. Claiming(p) BY <1>2 DEF Claiming
<1>4. CASE /\ target' = [target EXCEPT ![t] = backups[t][n]]
           /\ backups' = [backups EXCEPT ![t][n] = None]
           /\ Goto(p, "unhide")
  <2>1. pc'[p] = "unhide" BY <1>2, <1>4
  <2>2. ~Claiming(p)' BY <2>1 DEF Claiming
  <2>3. /\ target'[t] = backups[t][n]
        /\ \A u \in Path \ {t} : target'[u] = target[u] /\ backups'[u] = backups[u]
    BY <1>0, <1>4
  <2>4. GapsKept BY <1>0, <2>3 DEF GapsKept
  <2>5. BackupFrom(p) /\ HashFrom(p)
    BY <2>1, <2>2 DEF BackupFrom, HashFrom
  <2>6. LocksFrom(p) BY <1>2, <2>1, SameLocks
  <2>7. AInv' BY <1>1, <2>4, <2>5, <2>6, AInvStep
  <2>8. last'[t] \in seen[p]
    <3>1. last'[t] = backups[t][n].content BY <1>0, <2>3, RecordFacts
    <3> QED BY <1>2, <3>1 DEF AInv, ClaimKnown
  <2>9. Install!Withdraw(p, t)
    BY <1>1, <1>2, <1>3, <2>2, <2>7, <2>8, WithdrawStep DEF StepOf
  <2> QED BY <1>0, <2>7, <2>9 DEF Mapped, Install!Next
<1>5. CASE Goto(p, "defer") /\ UNCHANGED <<target, backups>>
  <2>1. pc'[p] = "defer" BY <1>2, <1>5
  <2> QED BY <1>1, <1>2, <1>3, <1>5, <2>1, GivesUpMaps
<1> QED BY <1>4, <1>5 DEF Rollback

(* Another program's install keeps AInv, and interferes.                   *)
LEMMA ExternalInstallMaps ==
  ASSUME NEW t \in Path, Inv, AInv, Record, ExternalInstall(t)
  PROVE AInv' /\ Mapped
<1>1. Inv' BY ExternalInstallStep
<1>2. /\ backups' = backups /\ lock' = lock /\ plan' = plan /\ pc' = pc
      /\ job' = job
  BY DEF ExternalInstall
<1>3. \A u \in Path : target'[u] = None => target[u] = None
  <2> DEFINE f(c) == [content |-> c, exec |-> TRUE, hidden |-> FALSE]
  <2>1. PICK c \in Outside : target' = [target EXCEPT ![t] = f(c)]
    BY DEF ExternalInstall
  <2>2. f(c) # None
    <3>1. f(c) \in File BY ConstantsAssumption DEF File, Bytes
    <3> QED BY <3>1, ConstantsAssumption
  <2> HIDE DEF f
  <2> QED BY <2>1, <2>2 DEF Inv, TypeOK
<1>4. /\ last' = [u \in Path |-> last'[u]] /\ seen' = [q \in Proc |-> seen'[q]]
      /\ LastKnown'
  BY RecordFacts DEF LastKnown
<1>5. LocksOwned' BY <1>2 DEF AInv, LocksOwned
<1>6. GapHoldsLast'
  <2> SUFFICES ASSUME NEW u \in Path, target'[u] = None
               PROVE \E n \in Name : /\ Runnable(backups[u][n])
                                     /\ backups[u][n].content = last'[u]
    BY <1>2 DEF GapHoldsLast, Runnable
  <2>1. last'[u] = last[u] /\ target[u] = None BY <1>3, RecordFacts
  <2> QED BY <2>1 DEF AInv, GapHoldsLast
<1>7. ASSUME NEW q \in Proc PROVE ClaimKnown(q)'
  <2>1. Claiming(q)' <=> Claiming(q) BY <1>2 DEF Claiming
  <2>2. Claiming(q)' => last'[plan'[q].path] \in seen'[q] BY RecordFacts
  <2>3. ~Claiming(q)' => seen'[q] = {} BY RecordFacts
  <2>4. Claiming(q) => seen[q] \subseteq seen'[q] BY <2>1, RecordFacts
  <2>5. pc[q] \in Moving => Claiming(q) BY DEF Claiming
  <2> QED BY <1>2, <2>1, <2>2, <2>3, <2>4, <2>5 DEF AInv, ClaimKnown
<1>8. AInv' BY <1>4, <1>5, <1>6, <1>7 DEF AInv
<1>9. \E c \in Content : Install!Interfere(t, c) BY <1>1, <1>8, InterfereStep
<1> QED BY <1>8, <1>9 DEF Mapped, Install!Next

(* Where the symlink leads is nothing to AtomicInstall.                    *)
LEMMA RelinkMaps ==
  ASSUME NEW t \in Path, Inv, AInv, Record, Relink(t)
  PROVE AInv' /\ Mapped
<1>1. UNCHANGED <<target, backups, lock, plan, pc, job>> BY DEF Relink
<1>2. last' = last
  <2>1. \A u \in Path : last'[u] = last[u] BY <1>1, SamePrograms
  <2> QED BY <2>1, RecordFacts DEF AInv
<1>3. seen' = seen
  <2>1. ASSUME NEW q \in Proc PROVE seen'[q] = seen[q]
    <3>1. Claiming(q)' <=> Claiming(q) BY <1>1 DEF Claiming
    <3>2. CASE Claiming(q)
      <4>1. seen'[q] = {last[plan[q].path]} \cup seen[q]
        BY <1>1, <1>2, <3>1, <3>2, RecordFacts
      <4>2. last[plan[q].path] \in seen[q] BY <3>2 DEF AInv, ClaimKnown
      <4> QED BY <4>1, <4>2
    <3>3. CASE ~Claiming(q)
      BY <3>1, <3>3, RecordFacts DEF AInv, ClaimKnown
    <3> QED BY <3>2, <3>3
  <2> QED BY <2>1, RecordFacts DEF AInv
<1>4. AInv'
  BY <1>1, <1>2, <1>3 DEF AInv, LastKnown, GapHoldsLast, LocksOwned, ClaimKnown,
    Claiming, Runnable
<1>5. UNCHANGED Install!avars
  BY <1>1, <1>2, <1>3 DEF Install!avars, Decided, Claimant, Claiming
<1> QED BY <1>4, <1>5 DEF Mapped

-----------------------------------------------------------------------------
(* The refinement.                                                         *)

(* Before the first start nothing is decided, claimed or missing.          *)
LEMMA InitMaps == ASSUME AtomicInit PROVE AInv /\ Install!Init
<1>0. /\ target \in [Path -> [content : Content, exec : {TRUE}, hidden : {FALSE}]]
      /\ lock = [t \in Path |-> None] /\ pc = [p \in Proc |-> "down"]
      /\ plan = [p \in Proc |-> None]
      /\ last = [t \in Path |-> target[t].content] /\ seen = [p \in Proc |-> {}]
  BY DEF AtomicInit, Init
<1>1. ASSUME NEW t \in Path PROVE target[t] # None /\ last[t] \in Content
  <2>1. target[t] \in File /\ target[t].content \in Content
    BY <1>0 DEF File, Bytes
  <2> QED BY <1>0, <2>1, ConstantsAssumption
<1>2. \A p \in Proc : ~Claiming(p) BY <1>0 DEF Claiming
<1>3. AInv
  BY <1>0, <1>1, <1>2 DEF AInv, LastKnown, GapHoldsLast, LocksOwned, ClaimKnown
<1>4. /\ [p \in Proc |-> Decided(p)] = [p \in Proc |-> None]
      /\ [t \in Path |-> Claimant(t)] = [t \in Path |-> None]
  BY <1>0 DEF Decided, Claimant
<1>5. last \in [Path -> Content] BY <1>0, <1>1
<1> QED BY <1>0, <1>3, <1>4, <1>5 DEF Install!Init

(* Every step of Apply keeps AInv and maps, one case per action.           *)
LEMMA NextMaps == ASSUME Inv, AInv, Next, Record PROVE AInv' /\ Mapped
<1>1. ASSUME NEW p \in Proc, Check(p) \/ FingerprintPlan(p) \/ BeginApply(p)
      PROVE AInv' /\ Mapped
  BY <1>1, CheckMaps, FingerprintPlanMaps, BeginApplyStep, CalmBegin, CalmStep
<1>2. ASSUME NEW p \in Proc, Step(p) PROVE AInv' /\ Mapped
  <2>1. CASE Acquire(p) \/ StopWaiting(p)
    BY <2>1, AcquireMaps, StopWaitingStep, CalmBegin, CalmStep
  <2>2. CASE UnderLock(p)
    <3>1. CASE Recheck(p) \/ SweepBackups(p) \/ SweepStages(p) \/ SweepArchives(p)
      BY <3>1, RecheckStep, SweepStagesStep, SweepArchivesStep, CalmBegin,
        CalmPrelude, CalmStep, BackupsMap
    <3>2. CASE Fingerprint(p) \/ CreateArchive(p) \/ Download(p) \/ VerifyDigest(p)
      BY <3>2, FingerprintStep, CreateArchiveStep, DownloadStep,
        VerifyDigestStep, CalmPrelude, CalmStep
    <3>3. CASE CreateStage(p) \/ Extract(p) \/ ChmodStage(p)
      BY <3>3, CreateStageStep, ExtractStep, ChmodStageStep, CalmPrelude, CalmStep
    <3>4. CASE Refingerprint(p) \/ Precommit(p)
      BY <3>4, RefingerprintMaps, PrecommitMaps
    <3>5. CASE Fail(p) \/ Interrupt(p)
      <4>1. StepOK(p) BY <3>5, GiveUpStep DEF Fail, Interrupt
      <4> QED BY <3>5, <4>1, CalmPrelude, CalmStep
    <3> QED BY <2>2, <3>1, <3>2, <3>3, <3>4, <3>5 DEF UnderLock
  <2>3. CASE Replacement(p)
    <3>1. CASE RenameStage(p) \/ SyncDirectory(p) \/ ReplaceFails(p)
      BY <3>1, RenameStageMaps, SyncDirectoryStep, CalmEnd, CalmStep,
        ReplaceFailsMaps
    <3>2. CASE MoveAside(p) \/ HideBackup(p) \/ InstallStage(p) \/ Rollback(p)
      BY <3>2, MoveAsideMaps, HideBackupMaps, InstallStageMaps, RollbackMaps
    <3>3. CASE UnhideTarget(p) \/ DropBackup(p) BY <3>3, BackupsMap
    <3> QED BY <2>3, <3>1, <3>2, <3>3 DEF Replacement
  <2>4. CASE Deferred(p)
    BY <2>4, RemoveStageStep, RemoveArchiveStep, CalmEnd, CalmStep, ReleaseMaps
      DEF Deferred
  <2> QED BY <1>2, <2>1, <2>2, <2>3, <2>4 DEF Step
<1>3. CASE Environment
  <2>1. ASSUME NEW p \in Proc, LockFails(p) \/ Cancel(p) \/ Crash(p) \/ Start(p)
        PROVE AInv' /\ Mapped
    BY <2>1, LockFailsStep, CancelStep, StartStep, CalmBegin, CalmStep, CrashMaps
  <2>2. ASSUME NEW t \in Path, ExternalInstall(t) \/ Relink(t)
        PROVE AInv' /\ Mapped
    BY <2>2, ExternalInstallMaps, RelinkMaps
  <2> QED BY <1>3, <2>1, <2>2 DEF Environment
<1> QED BY <1>1, <1>2, <1>3 DEF Next

(* So does a step of the specification with its history variables.         *)
LEMMA StepMaps ==
  ASSUME Inv, AInv, [Next /\ Record]_avars
  PROVE AInv' /\ [Install!Next]_(Install!avars)
<1>1. CASE Next /\ Record BY <1>1, NextMaps DEF Mapped
<1>2. CASE UNCHANGED avars
  <2>1. UNCHANGED <<target, backups, lock, plan, pc, job, last, seen>>
    BY <1>2 DEF avars, vars
  <2>2. AInv'
    BY <2>1 DEF AInv, LastKnown, GapHoldsLast, LocksOwned, ClaimKnown,
      Claiming, Runnable
  <2>3. UNCHANGED Install!avars
    BY <2>1 DEF Install!avars, Decided, Claimant, Claiming
  <2> QED BY <2>2, <2>3
<1> QED BY <1>1, <1>2

(* The history variables only watch: behaviours of AtomicSpec are          *)
(* behaviours of Apply.                                                    *)
LEMMA AtomicSpecIsSpec == AtomicSpec => Spec
<1>1. AtomicInit => Init BY DEF AtomicInit
<1>2. [Next /\ Record]_avars => [Next]_vars BY DEF avars
<1> QED BY <1>1, <1>2, PTL DEF AtomicSpec, Spec

(* What the history variables of AtomicApply remember, in every reachable  *)
(* state.                                                                  *)
LEMMA AtomicInvariance == AtomicSpec => [](Inv /\ AInv)
<1>1. AtomicInit => AInv BY InitMaps
<1>2. Inv /\ AInv /\ [Next /\ Record]_avars => AInv' BY StepMaps
<1> QED BY <1>1, <1>2, AtomicSpecIsSpec, Invariance, PTL DEF AtomicSpec

(* While replace_windows.go has nothing at the executable's path, a        *)
(* runnable backup beside it has the bytes last seen there, whatever fails *)
(* or is killed in between, and whoever sweeps backups.                    *)
THEOREM GapsHoldLast == AtomicSpec => []GapHoldsLast
<1>1. AInv => GapHoldsLast BY DEF AInv
<1> QED BY <1>1, AtomicInvariance, PTL

(* replaceExecutable, between Apply's two fingerprints and its return, is  *)
(* one atomic swap of the program Check has fingerprinted for the planned  *)
(* release, or no change at all.                                           *)
THEOREM ApplyInstallsAtomically == AtomicSpec => InstallsAtomically
<1>1. AtomicInit => Install!Init BY InitMaps
<1>2. Inv /\ AInv /\ [Next /\ Record]_avars => [Install!Next]_(Install!avars)
  BY StepMaps
<1> QED BY <1>1, <1>2, AtomicInvariance, PTL
  DEF AtomicSpec, InstallsAtomically, Install!Spec

=============================================================================
