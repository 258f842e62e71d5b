--------------------------- MODULE DurableProgram ---------------------------
(***************************************************************************)
(* What a Unix update promises across power losses, without files: there   *)
(* is one program that runs and one that a power loss brings back, both    *)
(* releases.  An update installs a newer one in one step; later, and in    *)
(* one step too, it is made durable; only then may it be promised.         *)
(***************************************************************************)
EXTENDS Naturals

CONSTANT Version

VARIABLES
  installed,  \* the release that runs
  durable,    \* the release a power loss leaves
  promised    \* the last release reported as installed

dvars == <<installed, durable, promised>>

Init ==
  /\ installed \in Version
  /\ durable = installed /\ promised = installed

Install ==
  /\ \E v \in Version : v > installed /\ installed' = v
  /\ UNCHANGED <<durable, promised>>

(* The kernel may make a program durable at any time; an update reports it *)
(* in the moment it has done so itself.                                    *)
Persist ==
  /\ durable' = installed
  /\ promised' \in {promised, installed}
  /\ UNCHANGED installed

PowerLoss ==
  /\ installed' = durable
  /\ UNCHANGED <<durable, promised>>

Next == Install \/ Persist \/ PowerLoss

Spec == Init /\ [][Next]_dvars
=============================================================================
