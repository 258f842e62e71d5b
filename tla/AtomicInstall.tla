--------------------------- MODULE AtomicInstall ---------------------------
(***************************************************************************)
(* What an update promises, without its system calls: of the executable at *)
(* each path there is always one program that counts, a call claims the    *)
(* path while that program is the one its plan was made from, and from     *)
(* then on it either swaps the program for its release in one step, or     *)
(* withdraws and leaves a program that was there during the claim.         *)
(* Installers that do not claim may replace the program at any time.       *)
(***************************************************************************)
EXTENDS Naturals

CONSTANTS Proc, Path, Version,
          Content,  \* the programs: releases and others
          None

Decision == [path : Path, from : Content, to : Version]

VARIABLES
  program,   \* program[t]: the program installed at t
  decision,  \* decision[p]: the replacement p has decided on, or None
  claim,     \* claim[t]: the process about to replace the program at t
  seen       \* seen[p]: what was installed at p's path since its claim

avars == <<program, decision, claim, seen>>

Init ==
  /\ program \in [Path -> Content]
  /\ decision = [p \in Proc |-> None]
  /\ claim = [t \in Path |-> None]
  /\ seen = [p \in Proc |-> {}]

Claims(p, t) == claim[t] = p
Idle(p) == \A t \in Path : ~Claims(p, t)

(* The end of p's claim on t.                                              *)
GiveBack(p, t) ==
  /\ claim' = [claim EXCEPT ![t] = None]
  /\ seen' = [seen EXCEPT ![p] = {}]

Decide(p, t, v) ==
  /\ Idle(p)
  /\ decision' = [decision EXCEPT ![p] =
                    [path |-> t, from |-> program[t], to |-> v]]
  /\ UNCHANGED <<program, claim, seen>>

(* A process drops its decision, and any claim with it: it is killed, or   *)
(* plans again.                                                            *)
Forget(p) ==
  /\ decision' = [decision EXCEPT ![p] = None]
  /\ claim' = [t \in Path |-> IF Claims(p, t) THEN None ELSE claim[t]]
  /\ seen' = [seen EXCEPT ![p] = {}]
  /\ UNCHANGED program

Claim(p, t) ==
  /\ decision[p] # None /\ decision[p].path = t
  /\ claim[t] = None
  /\ program[t] = decision[p].from
  /\ claim' = [claim EXCEPT ![t] = p]
  /\ seen' = [seen EXCEPT ![p] = {program[t]}]
  /\ UNCHANGED <<program, decision>>

Swap(p, t) ==
  /\ Claims(p, t)
  /\ program' = [program EXCEPT ![t] = decision[p].to]
  /\ GiveBack(p, t)
  /\ UNCHANGED decision

Withdraw(p, t) ==
  /\ Claims(p, t)
  /\ \E c \in seen[p] : program' = [program EXCEPT ![t] = c]
  /\ GiveBack(p, t)
  /\ UNCHANGED decision

(* Another program installs c at t, whoever claims it.                     *)
Interfere(t, c) ==
  /\ program' = [program EXCEPT ![t] = c]
  /\ seen' = [p \in Proc |-> IF Claims(p, t) THEN seen[p] \cup {c} ELSE seen[p]]
  /\ UNCHANGED <<decision, claim>>

Next ==
  \/ \E p \in Proc, t \in Path :
       \/ \E v \in Version : Decide(p, t, v)
       \/ Claim(p, t) \/ Swap(p, t) \/ Withdraw(p, t)
  \/ \E p \in Proc : Forget(p)
  \/ \E t \in Path, c \in Content : Interfere(t, c)

Spec == Init /\ [][Next]_avars
=============================================================================
