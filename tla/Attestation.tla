---------------------------- MODULE Attestation ----------------------------
(***************************************************************************)
(* Updater.verifyAttestation (attestation.go): before a plan is built, the *)
(* attestations GitHub lists for the asset's digest are walked, page by    *)
(* page, until one of them verifies.                                       *)
(*                                                                         *)
(* The server is free: it answers any page, of any attestations, with any  *)
(* pagination link, or no answer at all, and it may paginate for ever.     *)
(* Requests and the verifier fail at any time, and the caller's context    *)
(* may be cancelled between any two steps.  One action is one request, one *)
(* verification, or the code between two of them.                          *)
(***************************************************************************)
EXTENDS Naturals, Sequences, FiniteSets

CONSTANTS
  MaxPages,         \* maxAttestationPages
  MaxAttestations,  \* maxAttestations
  PageSize          \* bound: attestations on one page of the server

(***************************************************************************)
(* What an attestation of the list can be to the client: without a bundle  *)
(* URL, with one it refuses to request, with a bundle the policy refuses,  *)
(* and with one that verifies for this release and this asset.             *)
(***************************************************************************)
Attested == {"noURL", "unsafeURL", "unrelated", "valid"}

(* What nextAttestationPage finds in a Link header: nothing, a next page   *)
(* of the same list, or something it refuses.                              *)
Link == {"none", "next", "refused"}

ASSUME BoundsAssumption ==
  MaxPages \in Nat \ {0} /\ MaxAttestations \in Nat /\ PageSize \in Nat

Pages == UNION {[1 .. n -> Attested] : n \in 0 .. PageSize}

VARIABLES
  pc,        \* what verifyAttestation does next, "done" once it returned
  verdict,   \* what it returned: a provenance record or which error
  ctxDone,   \* the caller's context is done
  page,      \* pages walked to their end
  pageURL,   \* there is a next page to request
  link,      \* Link header of the page being walked
  rest,      \* attestations of that page still to be examined
  seen,      \* attestations listed so far
  failed,    \* firstFailure: which attestation failed it, 0 if none
  asked,     \* history: requests for pages sent, saturated above MaxPages
  listed,    \* history: the attestations of the accepted pages, in order
  outcomes   \* history: how each one examined came out

answer == <<page, pageURL, link, rest, seen, listed>>
vars == <<pc, verdict, ctxDone, answer, failed, asked, outcomes>>

Verdict == {"running", "record", "interrupted", "pageFailed", "limit",
            "noValid", "noneFound"}

Init ==
  /\ pc = "page" /\ verdict = "running"
  /\ ctxDone \in BOOLEAN
  /\ page = 0 /\ pageURL = TRUE /\ link = "none" /\ rest = <<>>
  /\ seen = 0 /\ failed = 0 /\ asked = 0
  /\ listed = <<>> /\ outcomes = <<>>

ReturnWith(v) == verdict' = v /\ pc' = "done"
Continue(l) == pc' = l /\ UNCHANGED verdict

-----------------------------------------------------------------------------
(* Pages.                                                                  *)

(* Mutated: one page too many.                                             *)
InLoopOneMore == page <= MaxPages /\ pageURL

InLoop == page < MaxPages /\ pageURL

(* One above the bound is enough to see it crossed.                        *)
Counted(n) == IF n > MaxPages THEN n ELSE n + 1

(* The head of the loop over pages.                                        *)
RequestPage ==
  /\ pc = "page" /\ InLoop
  /\ IF ctxDone
       THEN ReturnWith("interrupted") /\ UNCHANGED asked
       ELSE Continue("listing") /\ asked' = Counted(asked)
  /\ UNCHANGED <<ctxDone, answer, failed, outcomes>>

(* A redirect, a status, a size, a decoding or a transport error.  A       *)
(* timeout of the client or of the caller is found by errors.Is.           *)
PageFails ==
  /\ pc = "listing"
  /\ ReturnWith("pageFailed") \/ ReturnWith("interrupted")
  /\ UNCHANGED <<ctxDone, answer, failed, asked, outcomes>>

(* Mutated: the limit is one of each page, not of the list.                *)
ReceivePageForgetsSeen ==
  /\ pc = "listing"
  /\ \E attestations \in Pages, l \in Link :
       IF Len(attestations) > MaxAttestations
         THEN ReturnWith("limit") /\ UNCHANGED answer
         ELSE /\ Continue("examine")
              /\ rest' = attestations /\ link' = l
              /\ seen' = seen + Len(attestations)
              /\ listed' = listed \o attestations
              /\ UNCHANGED <<page, pageURL>>
  /\ UNCHANGED <<ctxDone, failed, asked, outcomes>>

ReceivePage ==
  /\ pc = "listing"
  /\ \E attestations \in Pages, l \in Link :
       IF Len(attestations) > MaxAttestations - seen
         THEN ReturnWith("limit") /\ UNCHANGED answer
         ELSE /\ Continue("examine")
              /\ rest' = attestations /\ link' = l
              /\ seen' = seen + Len(attestations)
              /\ listed' = listed \o attestations
              /\ UNCHANGED <<page, pageURL>>
  /\ UNCHANGED <<ctxDone, failed, asked, outcomes>>

(* Mutated: pages before the first attestation are not counted.            *)
FollowLinkSkipsEmpty ==
  /\ pc = "examine" /\ rest = <<>>
  /\ IF link = "refused"
       THEN ReturnWith("pageFailed") /\ UNCHANGED <<page, pageURL>>
       ELSE /\ Continue("page")
            /\ pageURL' = (link = "next")
            /\ page' = IF seen = 0 THEN page ELSE page + 1
  /\ UNCHANGED <<ctxDone, link, rest, seen, listed, failed, asked, outcomes>>

(* nextAttestationPage and the increment of the loop.                      *)
FollowLink ==
  /\ pc = "examine" /\ rest = <<>>
  /\ IF link = "refused"
       THEN ReturnWith("pageFailed") /\ UNCHANGED <<page, pageURL>>
       ELSE /\ Continue("page")
            /\ pageURL' = (link = "next")
            /\ page' = page + 1
  /\ UNCHANGED <<ctxDone, link, rest, seen, listed, failed, asked, outcomes>>

(* The loop ended without a record.                                        *)
Finish ==
  /\ pc = "page" /\ ~InLoop
  /\ ReturnWith(IF pageURL THEN "limit"
                ELSE IF failed # 0 THEN "noValid" ELSE "noneFound")
  /\ UNCHANGED <<ctxDone, answer, failed, asked, outcomes>>

-----------------------------------------------------------------------------
(* Attestations.                                                           *)

Examined(o) == outcomes' = Append(outcomes, o)

(* keepFirstError, and on to the next attestation.                         *)
KeepFirstError(o) ==
  /\ Examined(o)
  /\ failed' = IF failed = 0 THEN Len(outcomes) + 1 ELSE failed
  /\ rest' = Tail(rest)
  /\ Continue("examine")

Interrupted ==
  /\ Examined("context") /\ ReturnWith("interrupted")
  /\ UNCHANGED <<failed, rest>>

(* Mutated: the context is only looked at between pages.                   *)
ExamineBlind ==
  /\ pc = "examine" /\ rest # <<>>
  /\ \/ /\ Head(rest) \in {"noURL", "unsafeURL"}
        /\ KeepFirstError("failed")
     \/ /\ Head(rest) \notin {"noURL", "unsafeURL"}
        /\ Continue("fetching")
        /\ UNCHANGED <<failed, rest, outcomes>>
  /\ UNCHANGED <<ctxDone, page, pageURL, link, seen, listed, asked>>

(* The head of the loop over attestations: a bundle URL that is missing,   *)
(* or that fetchAttestationBundle refuses, costs no request.               *)
Examine ==
  /\ pc = "examine" /\ rest # <<>>
  /\ \/ /\ ctxDone
        /\ ReturnWith("interrupted")
        /\ UNCHANGED <<failed, rest, outcomes>>
     \/ /\ ~ctxDone /\ Head(rest) \in {"noURL", "unsafeURL"}
        /\ KeepFirstError("failed")
     \/ /\ ~ctxDone /\ Head(rest) \notin {"noURL", "unsafeURL"}
        /\ Continue("fetching")
        /\ UNCHANGED <<failed, rest, outcomes>>
  /\ UNCHANGED <<ctxDone, page, pageURL, link, seen, listed, asked>>

(* Mutated: the first bundle that cannot be fetched ends the walk.         *)
RequestBundleGivesUp ==
  /\ pc = "fetching"
  /\ \/ Continue("reading") /\ UNCHANGED <<failed, rest, outcomes>>
     \/ Examined("failed") /\ ReturnWith("noValid") /\ UNCHANGED <<failed, rest>>
     \/ ctxDone /\ Interrupted
  /\ UNCHANGED <<ctxDone, page, pageURL, link, seen, listed, asked>>

(* Mutated: the error is replaced by one without the URL before anyone     *)
(* asks whether it was the context's.                                      *)
RequestBundleRedacts ==
  /\ pc = "fetching"
  /\ \/ Continue("reading") /\ UNCHANGED <<failed, rest, outcomes>>
     \/ KeepFirstError(IF ctxDone THEN "context" ELSE "failed")
  /\ UNCHANGED <<ctxDone, page, pageURL, link, seen, listed, asked>>

(* client.Do of fetchAttestationBundle.  Its error is replaced by one that *)
(* wraps nothing unless the caller's context is done by then: a timeout of *)
(* the client before the headers only fails the attestation.               *)
RequestBundle ==
  /\ pc = "fetching"
  /\ \/ Continue("reading") /\ UNCHANGED <<failed, rest, outcomes>>
     \/ ctxDone /\ Interrupted
     \/ ~ctxDone /\ \E o \in {"failed", "unanswered"} : KeepFirstError(o)
  /\ UNCHANGED <<ctxDone, page, pageURL, link, seen, listed, asked>>

(* Its status, sizes and snappy framing, and the body, which is read under *)
(* the caller's context and the client's timeout: errors.Is finds either   *)
(* in the error of a read it cut short.                                    *)
ReadBundle ==
  /\ pc = "reading"
  /\ \/ Continue("verifying") /\ UNCHANGED <<failed, rest, outcomes>>
     \/ KeepFirstError("failed")
     \/ Interrupted
  /\ UNCHANGED <<ctxDone, page, pageURL, link, seen, listed, asked>>

(* Mutated: only the class of the error is looked at, not whether there is *)
(* one.                                                                    *)
VerifyAnything ==
  /\ pc = "verifying"
  /\ \/ /\ Examined("verified") /\ ReturnWith("record")
        /\ UNCHANGED <<failed, rest>>
     \/ Interrupted
  /\ UNCHANGED <<ctxDone, page, pageURL, link, seen, listed, asked>>

(* VerifyAttestation of the configured verifier, and the provenance record *)
(* of a bundle it accepts.  It may fail on a valid bundle too: the trusted *)
(* root cannot be fetched.  An error that is a context's may be that of    *)
(* the shared fetch of the root (VerifierCache), not the caller's.         *)
Verify ==
  /\ pc = "verifying"
  /\ \/ /\ Head(rest) = "valid"
        /\ Examined("verified") /\ ReturnWith("record")
        /\ UNCHANGED <<failed, rest>>
     \/ KeepFirstError("failed")
     \/ Interrupted
  /\ UNCHANGED <<ctxDone, page, pageURL, link, seen, listed, asked>>

-----------------------------------------------------------------------------
(* The caller cancels its context, or its deadline passes.                 *)
Cancel ==
  /\ pc # "done" /\ ~ctxDone
  /\ ctxDone' = TRUE
  /\ UNCHANGED <<pc, verdict, answer, failed, asked, outcomes>>

Step ==
  \/ RequestPage \/ PageFails \/ ReceivePage \/ FollowLink \/ Finish
  \/ Examine \/ RequestBundle \/ ReadBundle \/ Verify

Next == Step \/ Cancel

Spec == Init /\ [][Next]_vars

(* verifyAttestation keeps running, and every request it waits for ends:   *)
(* the client has an overall timeout of each request (selfupdate.go:199).  *)
(* Nobody is obliged to cancel.                                            *)
FairSpec == Spec /\ WF_vars(Step)

-----------------------------------------------------------------------------
(* Properties.                                                             *)

TypeOK ==
  /\ pc \in {"page", "listing", "examine", "fetching", "reading",
            "verifying", "done"}
  /\ verdict \in Verdict /\ (verdict = "running") = (pc # "done")
  /\ ctxDone \in BOOLEAN /\ pageURL \in BOOLEAN /\ link \in Link
  /\ page \in 0 .. MaxPages /\ asked \in Nat
  /\ seen \in 0 .. MaxAttestations /\ failed \in Nat
  /\ rest \in Seq(Attested) /\ listed \in Seq(Attested)
  /\ outcomes \in Seq({"verified", "failed", "unanswered", "context"})

Failed == {"failed", "unanswered"}
Failing(s) == \A i \in DOMAIN s : s[i] \in Failed

(* A record is made for the attestation examined last, it is one that is   *)
(* valid for the release, and all before it failed: nothing else in the    *)
(* list, and no error of the server, can stand for a verification          *)
(* (attestation.go:100-101).                                               *)
RecordIsEarned ==
  verdict = "record" =>
    LET n == Len(outcomes) IN
    /\ n > 0 /\ outcomes[n] = "verified" /\ listed[n] = "valid"
    /\ \A i \in 1 .. n - 1 : outcomes[i] \in Failed

(* "No valid attestation" is only said of a complete list: the last page   *)
(* was read, every attestation on every page was examined, each failed for *)
(* a reason of its own or was not answered within the client's timeout,    *)
(* none with an error that was the caller's context's, also where the code *)
(* replaces that error by one without the URL, and the error reported is   *)
(* that of the first (attestation.go:95, 102, 113-119, 269-273).           *)
RejectionIsComplete ==
  verdict \in {"noValid", "noneFound"} =>
    /\ ~pageURL
    /\ Len(outcomes) = Len(listed) /\ Failing(outcomes)
    /\ verdict = "noValid" => failed = 1
    /\ verdict = "noneFound" => listed = <<>>

(* Unusable attestations do not hide a valid one: a walk that listed one   *)
(* and met no trouble with it ends with the record, whatever came before   *)
(* it, unless the caller cancelled or a request was cut short              *)
(* (attestation.go:90-106).                                                *)
ValidIsFound ==
  \A i \in DOMAIN listed :
    listed[i] = "valid" /\ pc = "done" /\ verdict # "record" =>
      \/ verdict = "interrupted"
      \/ i <= Len(outcomes) /\ outcomes[i] \in Failed

(* The server cannot make the client work without end: not more than       *)
(* MaxPages lists are requested and not more than MaxAttestations entries  *)
(* are examined, over all pages (attestation.go:64, 80).                   *)
WorkIsBounded ==
  /\ asked <= MaxPages
  /\ Len(listed) <= MaxAttestations /\ Len(outcomes) <= MaxAttestations

(* Once its context is done the call sends no further request, of a page   *)
(* or of a bundle (attestation.go:65, 86).                                 *)
NoRequestAfterCancel ==
  [][ctxDone => /\ asked' = asked
                /\ pc' = "fetching" => pc = "fetching"]_vars

(* What a walk can still do: a page costs a request, its list and its      *)
(* link, an attestation its examination, the request of its bundle, its    *)
(* body and its verification.                                              *)
Ahead == [page |-> 6, listing |-> 5, examine |-> 4, fetching |-> 3, reading |-> 2,
          verifying |-> 1]
PagesLeft == MaxPages - page
EntriesLeft == MaxAttestations - seen + Len(rest)
Left == IF pc = "done" THEN 0 ELSE 3 * PagesLeft + 4 * EntriesLeft + Ahead[pc]

(* Every step of the walk uses up some of the work the limits leave, and   *)
(* only the caller's cancellation does not: whatever the pages hold and    *)
(* wherever their links lead, a walk ends after at most 6 steps more than  *)
(* three for each page and four for each attestation that the limits       *)
(* allow, empty pages and entries that cannot be used included             *)
(* (attestation.go:64, 80).                                                *)
WorkRunsOut ==
  [][Left' \in 0 .. Left - 1 \/ UNCHANGED <<pc, answer, failed, outcomes>>]_vars

(* The walk ends, even over a list that never does (attestation.go:64).    *)
Terminates == <>(pc = "done")

=============================================================================
