-------------------------------- MODULE Fetch --------------------------------
(***************************************************************************)
(* How Apply gets the new executable: the asset is downloaded, its digest  *)
(* compared with the plan's, and the executable's member extracted from    *)
(* it, all under one context.                                              *)
(***************************************************************************)
EXTENDS Download

CONSTANTS MaxBinary, MaxExpanded, MaxEntries, MaxMembers

ASSUME SizeAssumption ==
  MaxBinary \in Nat /\ MaxExpanded \in Nat /\ MaxEntries \in Nat /\ MaxMembers \in Nat

VARIABLES step, archive, index, budget, staged, outcome

extraction == <<step, archive, index, budget, staged, outcome>>
fvars == <<vars, extraction>>

E == INSTANCE Extract

(* The digest is of the bytes written: it matches when they are those the  *)
(* release published, all of them; a body cut short does not match it, nor *)
(* one of the right length with other bytes.                               *)
DigestMatches == result = "ok" /\ response.published /\ written = response.size

FetchInit == Init /\ E!Init

Downloading == Next /\ UNCHANGED extraction

(* Mutated: the extraction does not wait for the digest.                   *)
ExtractingUnverified ==
  /\ pc = "returned"
  /\ E!Next
  /\ UNCHANGED vars

Extracting ==
  /\ pc = "returned" /\ DigestMatches
  /\ E!Next
  /\ UNCHANGED vars

CancelExtraction ==
  /\ pc = "returned" /\ DigestMatches /\ step # "returned" /\ ~caller
  /\ caller' = TRUE
  /\ UNCHANGED <<pc, via, response, read, written, result, timer, due, stalled,
                 quiet, waited, extraction>>

FetchNext == Downloading \/ Extracting \/ CancelExtraction

FetchSpec == FetchInit /\ [][FetchNext]_fvars

(* The program goes on, time passes and expired timers run; neither the    *)
(* server nor the network need do anything.                                *)
FetchFairness ==
  /\ WF_fvars(Step /\ UNCHANGED extraction)
  /\ WF_fvars(Tick /\ UNCHANGED extraction)
  /\ WF_fvars(TimerFires /\ UNCHANGED extraction)
  /\ WF_fvars(DigestMatches /\ E!Step /\ UNCHANGED vars)

FairFetchSpec == FetchSpec /\ FetchFairness

-----------------------------------------------------------------------------
(* The extraction accepts exactly the proper archives, and stages their    *)
(* one member (stated in Extract, of extractArchive).                      *)
ExtractsExactly == E!ExtractsExactly

(* The download, read by read, and the loop over the members, which writes *)
(* the stage before it has seen the last of them, come to the two steps of *)
(* AtomicFetch: nothing is read of an archive whose digest does not match, *)
(* and what is taken in the end is the archive's one acceptable member, or *)
(* there was none (selfupdate.go:416-425, archive.go:47-97, 115-161).      *)
Progress ==
  IF pc # "returned" THEN "download"
  ELSE IF ~DigestMatches THEN "failed"
  ELSE IF step # "returned" THEN "verified"
  ELSE outcome

Acceptable == {i \in DOMAIN archive.members : E!Proper(archive, i)}
Taken == IF outcome = "ok" THEN staged[1] ELSE 0

Atomic == INSTANCE AtomicFetch WITH
            phase <- Progress, acceptable <- Acceptable, member <- Taken

FetchesAtomically == Atomic!Spec

(* What a fetch can still do: redirects, reads of a byte, which is         *)
(* reported and written before the next, and members, each of which takes  *)
(* some of a tar stream's limit or is one of a zip archive's entries.      *)
Ahead == [begin |-> 4, request |-> 3, loop |-> 2, message |-> 1, refuse |-> 1,
          reading |-> 1, report |-> 4, write |-> 3]
BytesLeft ==
  IF pc \in {"begin", "request"} THEN Limit + MaxError + 2
  ELSE (IF pc = "message" THEN MaxError ELSE Limit) + 1 - read
RedirectsLeft == IF via < MaxVia THEN MaxVia - via ELSE 0
DownloadLeft ==
  IF pc = "returned" THEN 0 ELSE RedirectsLeft + 4 * BytesLeft + Ahead[pc]
ExtractionLeft ==
  CASE step = "open" -> MaxExpanded + MaxEntries + 3
    [] step = "next" /\ archive.format = "tar" -> budget + 1
    [] step = "next" /\ archive.format = "zip" -> MaxEntries + 2 - index
    [] step = "returned" -> 0
Left == DownloadLeft + ExtractionLeft

(* Every step of a fetch, of the program or of what it talks to, uses up   *)
(* some of the work its limits leave; only the clock, the timer's function *)
(* and the caller's cancellation do not.  How often a server redirects,    *)
(* how much it sends and how many members the archive has is of no         *)
(* importance: empty tar members are paid for by their headers             *)
(* (http.go:268, 282, 305, archive.go:43, 107).                            *)
WorkRunsOut ==
  [][\/ Left' \in 0 .. Left - 1
     \/ UNCHANGED <<pc, via, response, read, written, result, extraction>>]_fvars

(* A fetch comes to an end whatever the server does and whatever it sends: *)
(* it may not answer, redirect for ever, stop sending, or send for ever a  *)
(* byte at a time (http.go:274-280, 305; archive.go:47, 110).              *)
FetchEnds ==
  <>(pc = "returned" /\ (DigestMatches => step = "returned"))
=============================================================================
