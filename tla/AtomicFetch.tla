---------------------------- MODULE AtomicFetch ----------------------------
(***************************************************************************)
(* What Apply takes for granted of a fetch, and module Apply models as two *)
(* steps: the download comes to an end, with the published archive or not; *)
(* then, and only of the published archive, the one member that may be     *)
(* installed is taken in a single step.  It is refused for no reason but   *)
(* that there is no such member.                                           *)
(***************************************************************************)
EXTENDS Naturals

VARIABLES
  phase,       \* "download", "failed", "verified", "ok", "refused", "broken"
  acceptable,  \* the members of the archive that may be installed
  member       \* the one that was taken, 0 if none

avars == <<phase, acceptable, member>>

Init == phase = "download" /\ acceptable = {} /\ member = 0

Download ==
  /\ phase = "download"
  /\ phase' \in {"verified", "failed"}
  /\ UNCHANGED <<acceptable, member>>

Open ==
  /\ phase = "verified"
  /\ acceptable' \subseteq Nat
  /\ UNCHANGED <<phase, member>>

Take ==
  /\ phase = "verified"
  /\ member' \in acceptable
  /\ phase' = "ok"
  /\ UNCHANGED acceptable

Refuse ==
  /\ phase = "verified" /\ acceptable = {}
  /\ phase' = "refused"
  /\ UNCHANGED <<acceptable, member>>

(* The archive cannot be read, the stage not written, or the caller is     *)
(* gone.                                                                   *)
Break ==
  /\ phase = "verified"
  /\ phase' = "broken"
  /\ UNCHANGED <<acceptable, member>>

Next == Download \/ Open \/ Take \/ Refuse \/ Break

Spec == Init /\ [][Next]_avars
=============================================================================
