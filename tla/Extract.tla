------------------------------ MODULE Extract ------------------------------
(***************************************************************************)
(* extractTarGzContext and extractZIPContext (archive.go): the one member  *)
(* that is the new executable is found among the members of an archive     *)
(* and copied to the stage.  Whoever published the archive wrote its names *)
(* and sizes; sizes are in units of which a tar header is one.             *)
(***************************************************************************)
EXTENDS Naturals, Sequences, FiniteSets

CONSTANTS
  MaxBinary,    \* maxBinaryBytes
  MaxExpanded,  \* maxExpandedArchiveBytes, of which only tar has a limit
  MaxEntries,   \* maxZIPEntries
  MaxMembers    \* bound: members of an archive

(***************************************************************************)
(* A member: its name is the executable's, or only the last element of its *)
(* path is, or neither; the size its header declares and the size its data *)
(* has, which a tar reader cannot tell apart.                              *)
(***************************************************************************)
Size == 0 .. MaxBinary + 1
Member == [name : {"root", "nested", "other"}, regular : BOOLEAN,
           declared : Size, actual : Size]

(* Where neither loop would look at them, type and sizes are as usual.     *)
Members(format) ==
  {m \in Member :
     /\ m.name = "other" => m.regular
     /\ m.name = "other" /\ format = "zip" => m.declared = 1
     /\ m.name = "nested" => m.regular /\ m.declared = 1
     /\ ~m.regular => m.declared = 1
     /\ m.name # "root" \/ ~m.regular \/ format = "tar" => m.actual = m.declared}

Archive(format) ==
  [format : {format}, members : UNION {[1 .. n -> Members(format)] : n \in 0 .. MaxMembers}]

VARIABLES
  step,      \* "open", "next" or "returned"
  archive,   \* the archive that is read
  index,     \* the member the loop looks at
  budget,    \* N of the LimitedReader around a tar stream
  staged,    \* the members copied to the stage, one after the other
  outcome,   \* what the function returned
  caller     \* the context is done

vars == <<step, archive, index, budget, staged, outcome, caller>>

Init ==
  /\ step = "open" /\ archive = [format |-> "tar", members |-> <<>>]
  /\ index = 1 /\ budget = MaxExpanded + 1
  /\ staged = <<>> /\ outcome = "none" /\ caller = FALSE

(* An error is "refused" when a check of the loops found the archive wrong, *)
(* "broken" when a reader, the stage or the context failed.                *)
Return(what) ==
  /\ step' = "returned" /\ outcome' = what
  /\ UNCHANGED <<archive, index, budget, staged, caller>>

(* The loop of one format, with a context that is not done.                *)
InLoop(format) == step = "next" /\ ~caller /\ archive.format = format
More == index <= Len(archive.members)
found == staged # <<>>
Current == archive.members[index]

(* extractArchive, by the suffix of the asset's name, and the readers that *)
(* open the archive.                                                       *)
Open ==
  /\ step = "open" /\ ~caller
  /\ \E format \in {"tar", "zip"} : archive' \in Archive(format)
  /\ step' = "next"
  /\ UNCHANGED <<index, budget, staged, outcome, caller>>

(* A member whose base name is not the executable's.                       *)
Skip(m) ==
  /\ m.name = "other"
  /\ index' = index + 1
  /\ UNCHANGED staged

(* The checks of either loop on a member whose base name is the            *)
(* executable's.                                                           *)
Accepts(m) ==
  /\ m.name = "root" /\ m.regular /\ ~found /\ m.declared \in 1 .. MaxBinary

Take(m) ==
  /\ Accepts(m)
  /\ staged' = Append(staged, index)
  /\ index' = index + 1

(* tarReader.Next reads a header, and what it or CopyN reads of the        *)
(* member's data counts as well.                                           *)
TarMember ==
  /\ InLoop("tar") /\ More
  /\ 1 + Current.declared <= budget
  /\ budget' = budget - (1 + Current.declared)
  /\ Skip(Current) \/ Take(Current)
  /\ UNCHANGED <<step, archive, outcome, caller>>

(* The limit falls inside a member, which its reader finds cut short.      *)
TarCutShort ==
  /\ InLoop("tar") /\ More
  /\ 0 < budget /\ budget < 1 + Current.declared
  /\ Return("refused")

(* Mutated: what is left of the limit does not matter.                     *)
WithinLimitAnyway(left) == TRUE

WithinLimit(left) == left > 0

(* The end of the members, marked by a block of its own, or of what the    *)
(* limit lets through: the tar reader takes either for the end.            *)
TarEnd ==
  LET left == IF budget = 0 THEN 0 ELSE budget - 1 IN
  /\ InLoop("tar")
  /\ ~More \/ budget = 0
  /\ Return(IF WithinLimit(left) /\ found THEN "ok" ELSE "refused")

ZIPMember ==
  /\ InLoop("zip") /\ More
  /\ Len(archive.members) <= MaxEntries
  /\ Skip(Current) \/ (Take(Current) /\ Current.actual = Current.declared)
  /\ UNCHANGED <<step, archive, budget, outcome, caller>>

(* Too many entries, or a member of which more or less was copied than its *)
(* header declares.                                                        *)
ZIPWrong ==
  /\ InLoop("zip")
  /\ \/ Len(archive.members) > MaxEntries
     \/ More /\ Accepts(Current) /\ Current.actual # Current.declared
  /\ Return("refused")

ZIPEnd ==
  /\ InLoop("zip") /\ ~More
  /\ Len(archive.members) <= MaxEntries
  /\ Return(IF found THEN "ok" ELSE "refused")

(* A member of the executable's base name that fails a check.              *)
Reject ==
  /\ step = "next" /\ ~caller /\ More
  /\ archive.format = "tar" => budget > 0
  /\ archive.format = "zip" => Len(archive.members) <= MaxEntries
  /\ Current.name # "other" /\ ~Accepts(Current)
  /\ Return("refused")

(* The context is looked at for every member and every read of compressed  *)
(* bytes.                                                                  *)
Interrupted == step # "returned" /\ caller /\ Return("broken")

(* The archive cannot be read, a checksum is wrong, or the stage cannot be *)
(* written.                                                                *)
Breaks == step # "returned" /\ Return("broken")

Step ==
  Open \/ TarMember \/ TarCutShort \/ TarEnd \/ ZIPMember \/ ZIPWrong \/ ZIPEnd
  \/ Reject \/ Interrupted

Next == Step \/ Breaks

Spec == Init /\ [][Next]_vars

-----------------------------------------------------------------------------
(* An archive the two loops are to accept: of all its members one has the  *)
(* executable's base name, the i-th, which is a regular root member of a   *)
(* legal size, its data is as long as it declares, and the whole is within *)
(* the limits.  Units(a, k) are the units of the first k members, of which *)
(* <<i, 0>> is the header of the i-th; the end of a tar stream is one more.*)
Units(a, k) == {u \in (1 .. k) \X Size : u[2] <= a.members[u[1]].declared}
Expanded(a) == 1 + Cardinality(Units(a, Len(a.members)))

Proper(a, i) ==
  /\ i \in DOMAIN a.members
  /\ LET m == a.members[i] IN
       /\ m.name = "root" /\ m.regular
       /\ m.declared \in 1 .. MaxBinary /\ m.actual = m.declared
  /\ \A j \in DOMAIN a.members \ {i} : a.members[j].name = "other"
  /\ a.format = "tar" => Expanded(a) <= MaxExpanded
  /\ a.format = "zip" => Len(a.members) <= MaxEntries

(* The extraction succeeds for exactly the archives it is to accept, and   *)
(* then the stage holds that one member: a second member of the name is    *)
(* found wherever it is, and a tar archive that the limit cuts between two *)
(* members is not taken for one that ends there (archive.go:67, 91-96).    *)
ExtractsExactly ==
  /\ outcome = "ok" => Len(staged) = 1 /\ Proper(archive, staged[1])
  /\ outcome = "refused" => \A i \in DOMAIN archive.members : ~Proper(archive, i)
=============================================================================
