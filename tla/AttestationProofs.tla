------------------------- MODULE AttestationProofs -------------------------
(***************************************************************************)
(* The safety properties of Attestation, for every number of pages and     *)
(* attestations and for pages of any length.                               *)
(*                                                                         *)
(* The walk keeps one account: the outcomes so far and the attestations    *)
(* still to be examined make up the list of all accepted pages, in order,  *)
(* and while it runs every outcome is a failure, of which the first is the *)
(* one reported.  What a return says of the list follows from the account  *)
(* at the step that returns.                                               *)
(***************************************************************************)
EXTENDS Attestation, TLAPS

(* What is left to examine is the end of the list.                         *)
Account ==
  /\ Len(outcomes) + Len(rest) = Len(listed)
  /\ \A i \in 1 .. Len(rest) : rest[i] = listed[Len(outcomes) + i]
  /\ \A i \in 1 .. Len(outcomes) : outcomes[i] \in Failed
  /\ failed = IF Len(outcomes) = 0 THEN 0 ELSE 1

(* Where in a page, and after how many requests, each step is taken.       *)
Progress ==
  /\ pc \in {"page", "listing"} => rest = <<>>
  /\ pc \in {"fetching", "reading", "verifying"} => rest # <<>>
  /\ pc = "page" => asked = page
  /\ pc \in {"listing", "examine", "fetching", "reading", "verifying"} =>
       asked = page + 1 /\ page < MaxPages

Inv ==
  /\ TypeOK
  /\ Len(listed) = seen
  /\ pc # "done" => Account /\ Progress
  /\ RecordIsEarned /\ RejectionIsComplete /\ ValidIsFound /\ WorkIsBounded

-----------------------------------------------------------------------------
(* A page is a finite sequence of attestations.                            *)
LEMMA PagesAreSequences == \A s \in Pages : s \in Seq(Attested)
<1> SUFFICES ASSUME NEW s \in Pages PROVE s \in Seq(Attested)
  OBVIOUS
<1>1. PICK n \in 0 .. PageSize : s \in [1 .. n -> Attested]
  BY DEF Pages
<1> QED BY <1>1, BoundsAssumption

(* The walk starts with an empty account.                                  *)
LEMMA InitInv == Init => Inv
<1> SUFFICES ASSUME Init PROVE Inv
  OBVIOUS
<1>1. TypeOK
  BY BoundsAssumption DEF Init, TypeOK, Verdict, Link, Attested
<1>2. Account /\ Progress
  BY DEF Init, Account, Progress
<1> QED
  BY <1>1, <1>2, BoundsAssumption DEF Init, Inv, RecordIsEarned,
     RejectionIsComplete, ValidIsFound, WorkIsBounded

(* A step that returns an error leaves the account as it stands, so what   *)
(* it says of the list can be read off the account.                        *)
LEMMA ReturnsError ==
  ASSUME Inv, pc # "done", pc' = "done",
         verdict' \in {"interrupted", "pageFailed", "limit"},
         verdict' # "interrupted" => rest = <<>>,
         UNCHANGED <<ctxDone, answer, failed, asked, outcomes>>
  PROVE Inv'
<1> USE DEF answer
<1>1. TypeOK'
  BY DEF Inv, TypeOK, Verdict
<1>2. ValidIsFound'
  BY DEF Inv, ValidIsFound, Account, TypeOK
<1> QED
  BY <1>1, <1>2 DEF Inv, RecordIsEarned, RejectionIsComplete, WorkIsBounded

LEMMA RequestPageStep == Inv /\ RequestPage => Inv'
<1> SUFFICES ASSUME Inv, RequestPage PROVE Inv'
  OBVIOUS
<1>1. CASE ctxDone
  BY <1>1, ReturnsError DEF RequestPage, ReturnWith
<1>2. CASE ~ctxDone
  <2>0. /\ asked = page /\ page < MaxPages /\ asked' = asked + 1
        /\ pc' = "listing" /\ verdict' = verdict /\ pc = "page"
        /\ rest = <<>>
        /\ UNCHANGED <<ctxDone, page, pageURL, link, rest, seen, listed,
                       failed, outcomes>>
    BY <1>2, BoundsAssumption DEF Inv, RequestPage, Continue, InLoop, Counted,
       Progress, TypeOK, answer
  <2>1. TypeOK'
    BY <2>0 DEF Inv, TypeOK
  <2>2. Account' /\ Progress'
    BY <2>0 DEF Inv, Account, Progress
  <2>3. WorkIsBounded'
    BY <2>0, BoundsAssumption DEF Inv, WorkIsBounded, TypeOK
  <2> QED
    BY <2>0, <2>1, <2>2, <2>3 DEF Inv, TypeOK, RecordIsEarned,
       RejectionIsComplete, ValidIsFound
<1> QED BY <1>1, <1>2

LEMMA PageFailsStep == Inv /\ PageFails => Inv'
  BY ReturnsError DEF Inv, PageFails, ReturnWith, Progress

(* The page's attestations join the list and what is left to examine.      *)
LEMMA ReceivePageStep == Inv /\ ReceivePage => Inv'
<1> SUFFICES ASSUME Inv, ReceivePage PROVE Inv'
  OBVIOUS
<1>1. PICK s \in Pages, l \in Link :
        IF Len(s) > MaxAttestations - seen
          THEN ReturnWith("limit") /\ UNCHANGED answer
          ELSE /\ Continue("examine")
               /\ rest' = s /\ link' = l
               /\ seen' = seen + Len(s)
               /\ listed' = listed \o s
               /\ UNCHANGED <<page, pageURL>>
  BY DEF ReceivePage
<1>2. /\ pc = "listing" /\ rest = <<>> /\ Account /\ Progress /\ TypeOK
      /\ UNCHANGED <<ctxDone, failed, asked, outcomes>>
  BY DEF Inv, ReceivePage, Progress
<1>3. s \in Seq(Attested) /\ Len(s) \in Nat
  BY PagesAreSequences
<1>4. CASE Len(s) > MaxAttestations - seen
  BY <1>1, <1>2, <1>4, ReturnsError DEF ReturnWith
<1>5. CASE ~(Len(s) > MaxAttestations - seen)
  <2>0. /\ pc' = "examine" /\ verdict' = verdict
        /\ rest' = s /\ link' = l /\ seen' = seen + Len(s)
        /\ listed' = listed \o s
        /\ UNCHANGED <<page, pageURL>>
    BY <1>1, <1>5 DEF Continue
  <2>1. seen + Len(s) <= MaxAttestations
    BY <1>2, <1>3, <1>5, BoundsAssumption DEF TypeOK
  <2>2. /\ listed' \in Seq(Attested)
        /\ Len(listed') = Len(listed) + Len(s)
        /\ \A i \in 1 .. Len(s) : listed'[Len(listed) + i] = s[i]
    BY <1>2, <1>3, <2>0 DEF TypeOK
  <2>3. TypeOK'
    BY <1>2, <1>3, <2>0, <2>1, <2>2, BoundsAssumption DEF TypeOK
  <2>4. Len(outcomes) = Len(listed)
    BY <1>2 DEF Account, TypeOK
  <2>5. Account'
    BY <1>2, <1>3, <2>0, <2>2, <2>4 DEF Account, TypeOK
  <2>6. Progress'
    BY <1>2, <2>0 DEF Progress
  <2>7. Len(listed') = seen'
    BY <2>0, <2>2 DEF Inv
  <2>8. WorkIsBounded'
    BY <1>2, <2>0, <2>1, <2>4, <2>7, BoundsAssumption
    DEF Inv, WorkIsBounded, TypeOK
  <2> QED
    BY <1>2, <2>0, <2>3, <2>5, <2>6, <2>7, <2>8 DEF Inv, TypeOK,
       RecordIsEarned, RejectionIsComplete, ValidIsFound
<1> QED BY <1>4, <1>5

LEMMA FollowLinkStep == Inv /\ FollowLink => Inv'
<1> SUFFICES ASSUME Inv, FollowLink PROVE Inv'
  OBVIOUS
<1>1. CASE link = "refused"
  BY <1>1, ReturnsError DEF FollowLink, ReturnWith, answer
<1>2. CASE link # "refused"
  <2>0. /\ pc = "examine" /\ rest = <<>> /\ pc' = "page"
        /\ verdict' = verdict /\ pageURL' = (link = "next")
        /\ page' = page + 1 /\ page < MaxPages /\ asked = page + 1
        /\ UNCHANGED <<ctxDone, link, rest, seen, listed, failed, asked,
                       outcomes>>
    BY <1>2 DEF Inv, FollowLink, Continue, Progress
  <2>1. TypeOK'
    <3>1. page' \in 0 .. MaxPages
      BY <2>0, BoundsAssumption DEF Inv, TypeOK
    <3> QED BY <2>0, <3>1 DEF Inv, TypeOK
  <2>2. Account' /\ Progress'
    BY <2>0 DEF Inv, Account, Progress
  <2> QED
    BY <2>0, <2>1, <2>2 DEF Inv, TypeOK, RecordIsEarned,
       RejectionIsComplete, ValidIsFound, WorkIsBounded
<1> QED BY <1>1, <1>2

(* Only here is a list said to be without a valid attestation: the account *)
(* says that all of it was examined.                                       *)
LEMMA FinishStep == Inv /\ Finish => Inv'
<1> SUFFICES ASSUME Inv, Finish PROVE Inv'
  OBVIOUS
<1>0. /\ pc = "page" /\ pc' = "done" /\ rest = <<>> /\ Account /\ TypeOK
      /\ verdict' = IF pageURL THEN "limit"
                    ELSE IF failed # 0 THEN "noValid" ELSE "noneFound"
      /\ UNCHANGED <<ctxDone, answer, failed, asked, outcomes>>
  BY DEF Inv, Finish, ReturnWith, Progress
<1>1. CASE pageURL
  BY <1>0, <1>1, ReturnsError
<1>2. CASE ~pageURL
  <2>1. Len(outcomes) = Len(listed)
    BY <1>0 DEF Account, TypeOK
  <2>2. TypeOK'
    BY <1>0, <1>2 DEF TypeOK, Verdict, answer
  <2>3. RejectionIsComplete'
    BY <1>0, <1>2, <2>1 DEF RejectionIsComplete, Failing, Account, TypeOK,
       answer
  <2>4. ValidIsFound'
    BY <1>0, <2>1 DEF ValidIsFound, Account, TypeOK, answer
  <2> QED
    BY <1>0, <1>2, <2>2, <2>3, <2>4 DEF Inv, RecordIsEarned, WorkIsBounded,
       answer
<1> QED BY <1>1, <1>2

-----------------------------------------------------------------------------
(* An attestation that failed moves from what is left to the outcomes.     *)
LEMMA FailureStep ==
  ASSUME NEW o \in Failed,
         Inv, pc # "done", pc # "page", pc # "listing", rest # <<>>,
         KeepFirstError(o),
         UNCHANGED <<ctxDone, page, pageURL, link, seen, listed, asked>>
  PROVE Inv'
<1>0. /\ TypeOK /\ Account /\ Progress
      /\ pc' = "examine" /\ verdict' = verdict
      /\ outcomes' = Append(outcomes, o) /\ rest' = Tail(rest)
      /\ failed' = IF failed = 0 THEN Len(outcomes) + 1 ELSE failed
  BY DEF Inv, KeepFirstError, Examined, Continue
<1>1. /\ Len(rest) \in Nat /\ Len(rest) > 0
      /\ Len(outcomes) \in Nat /\ Len(listed) \in Nat
      /\ Tail(rest) \in Seq(Attested) /\ Len(Tail(rest)) = Len(rest) - 1
      /\ \A i \in 1 .. Len(Tail(rest)) : Tail(rest)[i] = rest[i + 1]
  BY <1>0 DEF TypeOK
<1>2. /\ outcomes' \in Seq({"verified", "failed", "unanswered", "context"})
      /\ Len(outcomes') = Len(outcomes) + 1
      /\ \A i \in 1 .. Len(outcomes) : outcomes'[i] = outcomes[i]
      /\ outcomes'[Len(outcomes) + 1] = o
  BY <1>0 DEF TypeOK, Failed
<1>3. TypeOK'
  <2>1. failed' \in Nat
    BY <1>0, <1>1 DEF TypeOK
  <2> QED BY <1>0, <1>1, <1>2, <2>1 DEF TypeOK
<1>4. Account'
  <2>1. Len(outcomes') + Len(rest') = Len(listed')
    BY <1>0, <1>1, <1>2 DEF Account
  <2>2. \A i \in 1 .. Len(rest') : rest'[i] = listed'[Len(outcomes') + i]
    <3> SUFFICES ASSUME NEW i \in 1 .. Len(rest')
                 PROVE rest'[i] = listed'[Len(outcomes') + i]
      OBVIOUS
    <3>1. rest'[i] = rest[i + 1] /\ i + 1 \in 1 .. Len(rest)
      BY <1>0, <1>1
    <3>2. rest[i + 1] = listed[Len(outcomes) + (i + 1)]
      BY <1>0, <3>1 DEF Account
    <3>3. Len(outcomes) + (i + 1) = Len(outcomes') + i
      BY <1>0, <1>1, <1>2
    <3> QED BY <3>1, <3>2, <3>3
  <2>3. \A i \in 1 .. Len(outcomes') : outcomes'[i] \in Failed
    BY <1>0, <1>1, <1>2 DEF Account
  <2>4. failed' = IF Len(outcomes') = 0 THEN 0 ELSE 1
    BY <1>0, <1>1, <1>2 DEF Account
  <2> QED BY <2>1, <2>2, <2>3, <2>4 DEF Account
<1>5. Progress'
  BY <1>0 DEF Inv, Progress, TypeOK
<1>6. WorkIsBounded'
  <2>1. Len(outcomes') <= Len(listed')
    BY <1>0, <1>1, <1>2 DEF Account
  <2> QED
    BY <1>1, <1>2, <2>1, BoundsAssumption DEF Inv, WorkIsBounded, TypeOK
<1> QED
  BY <1>0, <1>3, <1>4, <1>5, <1>6 DEF Inv, TypeOK, RecordIsEarned,
     RejectionIsComplete, ValidIsFound

(* A walk that is cut short while it examines an attestation.              *)
LEMMA InterruptedStep ==
  ASSUME Inv, pc # "done", pc # "page", pc # "listing", rest # <<>>,
         Interrupted,
         UNCHANGED <<ctxDone, page, pageURL, link, seen, listed, asked>>
  PROVE Inv'
<1>0. /\ TypeOK /\ Account
      /\ pc' = "done" /\ verdict' = "interrupted"
      /\ outcomes' = Append(outcomes, "context")
      /\ UNCHANGED <<failed, rest>>
  BY DEF Inv, Interrupted, Examined, ReturnWith
<1>1. /\ Len(rest) \in Nat /\ Len(rest) > 0
      /\ Len(outcomes) \in Nat /\ Len(listed) \in Nat
  BY <1>0 DEF TypeOK
<1>2. /\ outcomes' \in Seq({"verified", "failed", "unanswered", "context"})
      /\ Len(outcomes') = Len(outcomes) + 1
  BY <1>0 DEF TypeOK
<1>3. TypeOK'
  BY <1>0, <1>2 DEF TypeOK, Verdict
<1>4. WorkIsBounded'
  BY <1>0, <1>1, <1>2, BoundsAssumption DEF Inv, Account, WorkIsBounded, TypeOK
<1> QED
  BY <1>0, <1>3, <1>4 DEF Inv, RecordIsEarned, RejectionIsComplete,
     ValidIsFound

(* The account names the attestation that the record is for.               *)
LEMMA RecordStep ==
  ASSUME Inv, pc = "verifying", Head(rest) = "valid", Examined("verified"),
         ReturnWith("record"), UNCHANGED <<failed, rest>>,
         UNCHANGED <<ctxDone, page, pageURL, link, seen, listed, asked>>
  PROVE Inv'
<1>0. /\ TypeOK /\ Account /\ rest # <<>>
      /\ pc' = "done" /\ verdict' = "record"
      /\ outcomes' = Append(outcomes, "verified")
  BY DEF Inv, Examined, ReturnWith, Progress
<1>1. /\ Len(rest) \in Nat /\ Len(rest) > 0 /\ Head(rest) = rest[1]
      /\ Len(outcomes) \in Nat /\ Len(listed) \in Nat
  BY <1>0 DEF TypeOK
<1>2. /\ outcomes' \in Seq({"verified", "failed", "unanswered", "context"})
      /\ Len(outcomes') = Len(outcomes) + 1
      /\ \A i \in 1 .. Len(outcomes) : outcomes'[i] = outcomes[i]
      /\ outcomes'[Len(outcomes) + 1] = "verified"
  BY <1>0 DEF TypeOK
<1>3. TypeOK'
  BY <1>0, <1>2 DEF TypeOK, Verdict
<1>4. listed[Len(outcomes) + 1] = "valid"
  BY <1>0, <1>1 DEF Account
<1>5. RecordIsEarned'
  BY <1>0, <1>1, <1>2, <1>4 DEF RecordIsEarned, Account
<1>6. WorkIsBounded'
  BY <1>0, <1>1, <1>2, BoundsAssumption DEF Inv, Account, WorkIsBounded, TypeOK
<1> QED
  BY <1>0, <1>3, <1>5, <1>6 DEF Inv, RejectionIsComplete, ValidIsFound

LEMMA ExamineStep == Inv /\ Examine => Inv'
<1> SUFFICES ASSUME Inv, Examine PROVE Inv'
  OBVIOUS
<1>1. CASE ctxDone
  BY <1>1, ReturnsError DEF Examine, ReturnWith, answer
<1>2. CASE ~ctxDone /\ KeepFirstError("failed")
  BY <1>2, FailureStep DEF Examine, Failed
<1>3. CASE /\ ~ctxDone /\ Continue("fetching")
           /\ UNCHANGED <<failed, rest, outcomes>>
  <2>1. /\ pc = "examine" /\ pc' = "fetching" /\ rest # <<>>
        /\ verdict' = verdict
        /\ UNCHANGED <<ctxDone, page, pageURL, link, rest, seen, listed,
                       failed, asked, outcomes>>
    BY <1>3 DEF Examine, Continue
  <2>2. TypeOK' /\ Account' /\ Progress'
    BY <2>1 DEF Inv, TypeOK, Account, Progress
  <2> QED
    BY <2>1, <2>2 DEF Inv, TypeOK, RecordIsEarned, RejectionIsComplete,
       ValidIsFound, WorkIsBounded
<1> QED BY <1>1, <1>2, <1>3 DEF Examine

(* On to the next thing to do for the same attestation.                    *)
LEMMA SameAttestation ==
  ASSUME Inv, pc \in {"fetching", "reading"}, pc' \in {"reading", "verifying"},
         verdict' = verdict, UNCHANGED <<failed, rest, outcomes>>,
         UNCHANGED <<ctxDone, page, pageURL, link, seen, listed, asked>>
  PROVE  Inv'
<1>1. TypeOK' /\ Account' /\ Progress'
  BY DEF Inv, TypeOK, Account, Progress
<1> QED
  BY <1>1 DEF Inv, TypeOK, RecordIsEarned, RejectionIsComplete, ValidIsFound,
     WorkIsBounded

LEMMA RequestBundleStep == Inv /\ RequestBundle => Inv'
<1> SUFFICES ASSUME Inv, RequestBundle PROVE Inv'
  OBVIOUS
<1>0. /\ pc = "fetching" /\ rest # <<>>
      /\ UNCHANGED <<ctxDone, page, pageURL, link, seen, listed, asked>>
  BY DEF Inv, RequestBundle, Progress
<1>1. CASE Continue("reading") /\ UNCHANGED <<failed, rest, outcomes>>
  BY <1>0, <1>1, SameAttestation DEF Continue
<1>2. CASE \E o \in Failed : KeepFirstError(o)
  BY <1>0, <1>2, FailureStep
<1>3. CASE Interrupted
  BY <1>0, <1>3, InterruptedStep
<1> QED BY <1>1, <1>2, <1>3 DEF RequestBundle, Failed

LEMMA ReadBundleStep == Inv /\ ReadBundle => Inv'
<1> SUFFICES ASSUME Inv, ReadBundle PROVE Inv'
  OBVIOUS
<1>0. /\ pc = "reading" /\ rest # <<>>
      /\ UNCHANGED <<ctxDone, page, pageURL, link, seen, listed, asked>>
  BY DEF Inv, ReadBundle, Progress
<1>1. CASE Continue("verifying") /\ UNCHANGED <<failed, rest, outcomes>>
  BY <1>0, <1>1, SameAttestation DEF Continue
<1>2. CASE KeepFirstError("failed")
  BY <1>0, <1>2, FailureStep DEF Failed
<1>3. CASE Interrupted
  BY <1>0, <1>3, InterruptedStep
<1> QED BY <1>1, <1>2, <1>3 DEF ReadBundle

LEMMA VerifyStep == Inv /\ Verify => Inv'
<1> SUFFICES ASSUME Inv, Verify PROVE Inv'
  OBVIOUS
<1>0. /\ pc = "verifying" /\ rest # <<>>
      /\ UNCHANGED <<ctxDone, page, pageURL, link, seen, listed, asked>>
  BY DEF Inv, Verify, Progress
<1>1. CASE /\ Head(rest) = "valid" /\ Examined("verified")
           /\ ReturnWith("record") /\ UNCHANGED <<failed, rest>>
  BY <1>0, <1>1, RecordStep
<1>2. CASE KeepFirstError("failed")
  BY <1>0, <1>2, FailureStep DEF Failed
<1>3. CASE Interrupted
  BY <1>0, <1>3, InterruptedStep
<1> QED BY <1>1, <1>2, <1>3 DEF Verify

LEMMA CancelStep == Inv /\ Cancel => Inv'
<1> SUFFICES ASSUME Inv, Cancel PROVE Inv'
  OBVIOUS
<1>1. /\ ctxDone' = TRUE
      /\ UNCHANGED <<pc, verdict, page, pageURL, link, rest, seen, listed,
                     failed, asked, outcomes>>
  BY DEF Cancel, answer
<1>2. TypeOK' /\ (Account <=> Account') /\ (Progress <=> Progress')
  BY <1>1 DEF Inv, TypeOK, Account, Progress
<1> QED
  BY <1>1, <1>2 DEF Inv, RecordIsEarned, RejectionIsComplete, ValidIsFound,
     WorkIsBounded

LEMMA StutterStep == Inv /\ UNCHANGED vars => Inv'
  BY DEF Inv, vars, answer, TypeOK, Account, Progress, RecordIsEarned,
     RejectionIsComplete, ValidIsFound, WorkIsBounded, Failing

-----------------------------------------------------------------------------
(* The account is kept throughout every walk (attestation.go:47-120).      *)
THEOREM WalkInvariant == Spec => []Inv
<1>1. Inv /\ [Next]_vars => Inv'
  BY RequestPageStep, PageFailsStep, ReceivePageStep, FollowLinkStep,
     FinishStep, ExamineStep, RequestBundleStep, ReadBundleStep, VerifyStep,
     CancelStep, StutterStep DEF Next, Step
<1> QED BY <1>1, InitInv, PTL DEF Spec

(* A provenance record is only made for a listed attestation that          *)
(* verified, after all before it failed (attestation.go:100-101).          *)
THEOREM RecordsAreEarned == Spec => []RecordIsEarned
  BY WalkInvariant, PTL DEF Inv

(* Type correctness of the walk and what it reports                        *)
(* (attestation.go:45-119).                                                *)
THEOREM TypeCorrect == Spec => []TypeOK
  BY WalkInvariant, PTL DEF Inv

(* "No valid attestation" is only said of a list that was read to its end  *)
(* and of which every entry failed by itself or went unanswered, and none  *)
(* with the error of a context (attestation.go:113-119, 269-273).          *)
THEOREM RejectionsAreComplete == Spec => []RejectionIsComplete
  BY WalkInvariant, PTL DEF Inv

(* What comes before it does not hide a valid attestation                  *)
(* (attestation.go:90-106).                                                *)
THEOREM ValidOnesAreFound == Spec => []ValidIsFound
  BY WalkInvariant, PTL DEF Inv

(* The two limits bound the work, whatever the server answers              *)
(* (attestation.go:64, 80).                                                *)
THEOREM WorkStaysBounded == Spec => []WorkIsBounded
  BY WalkInvariant, PTL DEF Inv

(* No request is sent once the context is done (attestation.go:65, 86).    *)
THEOREM CancelledWalksAskNothing == Spec => NoRequestAfterCancel
<1> DEFINE Quiet == ctxDone => /\ asked' = asked
                               /\ pc' = "fetching" => pc = "fetching"
<1>1. [Next]_vars => [Quiet]_vars
  BY DEF Next, Step, vars, RequestPage, PageFails, ReceivePage, FollowLink,
     Finish, Examine, RequestBundle, ReadBundle, Verify, Cancel, ReturnWith, Continue,
     KeepFirstError, Interrupted
<1> QED BY <1>1, PTL DEF Spec, NoRequestAfterCancel

-----------------------------------------------------------------------------
(* Each kind of step uses up what it stands for.                           *)

(* What is left is a number while the limits hold (attestation.go:80).     *)
LEMMA LeftIsNat ==
  /\ Inv => PagesLeft \in Nat /\ EntriesLeft \in Nat /\ Left \in Nat
  /\ Inv /\ pc # "done" => Ahead[pc] \in 1 .. 6 /\ Left > 0
<1> SUFFICES ASSUME Inv
             PROVE  /\ PagesLeft \in Nat /\ EntriesLeft \in Nat /\ Left \in Nat
                    /\ pc # "done" => Ahead[pc] \in 1 .. 6 /\ Left > 0
  OBVIOUS
<1>1. /\ page \in Nat /\ page <= MaxPages /\ seen \in Nat /\ seen <= MaxAttestations
      /\ Len(rest) \in Nat /\ MaxPages \in Nat
  BY BoundsAssumption DEF Inv, TypeOK
<1>2. PagesLeft \in Nat /\ EntriesLeft \in Nat
  BY <1>1, BoundsAssumption DEF PagesLeft, EntriesLeft
<1>3. pc # "done" => Ahead[pc] \in 1 .. 6
  BY DEF Inv, TypeOK, Ahead
<1> QED BY <1>2, <1>3 DEF Left

(* A return uses up everything.                                            *)
LEMMA ReturnUsesUp ==
  ASSUME Inv, pc # "done", pc' = "done" PROVE Left' \in 0 .. Left - 1
  BY LeftIsNat DEF Left

(* A page or an attestation outweighs what there is to do for it.          *)
LEMMA Weighing ==
  ASSUME NEW p \in Nat, NEW m \in Nat, NEW a \in 1 .. 6,
         NEW q \in Nat, NEW n \in Nat, NEW b \in 1 .. 6,
         \/ q = p /\ n = m /\ b < a
         \/ q = p /\ n = m - 1 /\ b = 4
         \/ q = p - 1 /\ n = m /\ a = 4 /\ b = 6
  PROVE  3 * q + 4 * n + b \in 0 .. (3 * p + 4 * m + a) - 1
  OBVIOUS

(* On to a later point of the loops with the same pages and attestations,  *)
(* or to an earlier one with a page or an attestation less.                *)
LEMMA LoopUsesUp ==
  ASSUME Inv, Inv', pc # "done", pc' # "done",
         \/ PagesLeft' = PagesLeft /\ EntriesLeft' = EntriesLeft /\ Ahead[pc'] < Ahead[pc]
         \/ PagesLeft' = PagesLeft /\ EntriesLeft' = EntriesLeft - 1 /\ pc' = "examine"
         \/ /\ PagesLeft' = PagesLeft - 1 /\ EntriesLeft' = EntriesLeft
            /\ pc = "examine" /\ pc' = "page"
  PROVE  Left' \in 0 .. Left - 1
<1>1. /\ PagesLeft \in Nat /\ EntriesLeft \in Nat /\ Ahead[pc] \in 1 .. 6
      /\ Left = 3 * PagesLeft + 4 * EntriesLeft + Ahead[pc]
  BY LeftIsNat DEF Left
<1>2. /\ PagesLeft' \in Nat /\ EntriesLeft' \in Nat /\ Ahead[pc'] \in 1 .. 6
      /\ Left' = 3 * PagesLeft' + 4 * EntriesLeft' + Ahead[pc']
  <2>1. /\ (Inv => PagesLeft \in Nat /\ EntriesLeft \in Nat)'
        /\ (Inv /\ pc # "done" => Ahead[pc] \in 1 .. 6)'
    BY LeftIsNat, PTL
  <2>2. Ahead' = Ahead
    BY DEF Ahead
  <2> QED BY <2>1, <2>2 DEF Left
<1>3. Ahead["examine"] = 4 /\ Ahead["page"] = 6
  BY DEF Ahead
<1>4. Left' \in 0 .. Left - 1
  BY <1>1, <1>2, <1>3, Weighing
<1> QED BY <1>4

(* The walk comes to its end within a number of steps that only the limits *)
(* determine (attestation.go:64, 80): no fairness is needed to bound it.   *)
THEOREM WalksRunOut == Spec => WorkRunsOut
<1> DEFINE Uses == Left' \in 0 .. Left - 1
           Rests == UNCHANGED <<pc, answer, failed, outcomes>>
<1>1. ASSUME Inv, Inv', [Next]_vars PROVE Uses \/ Rests
  <2> USE DEF Inv, TypeOK
  <2>0. /\ Len(rest) \in Nat
        /\ rest # <<>> => Len(Tail(rest)) = Len(rest) - 1
        /\ pc \in {"fetching", "reading", "verifying"} => rest # <<>>
        /\ pc = "listing" => rest = <<>>
    BY <1>1 DEF Progress
  <2>1. CASE RequestPage
    <3>1. pc = "page" /\ (pc' = "done" \/ (pc' = "listing" /\ UNCHANGED answer))
      BY <2>1 DEF RequestPage, ReturnWith, Continue
    <3>2. CASE pc' = "listing" /\ UNCHANGED answer
      <4>1. PagesLeft' = PagesLeft /\ EntriesLeft' = EntriesLeft /\ Ahead[pc'] < Ahead[pc]
        BY <3>1, <3>2 DEF answer, Ahead, PagesLeft, EntriesLeft
      <4> QED BY <1>1, <3>1, <3>2, <4>1, LoopUsesUp
    <3> QED BY <1>1, <3>1, <3>2, ReturnUsesUp
  <2>2. CASE PageFails \/ Finish
    <3>1. pc # "done" /\ pc' = "done"
      BY <2>2 DEF PageFails, Finish, ReturnWith
    <3> QED BY <1>1, <3>1, ReturnUsesUp
  <2>3. CASE ReceivePage
    <3>1. PICK s \in Pages, l \in Link :
            IF Len(s) > MaxAttestations - seen
              THEN ReturnWith("limit") /\ UNCHANGED answer
              ELSE /\ Continue("examine")
                   /\ rest' = s /\ link' = l
                   /\ seen' = seen + Len(s)
                   /\ listed' = listed \o s
                   /\ UNCHANGED <<page, pageURL>>
      BY <2>3 DEF ReceivePage
    <3>2. Len(s) \in Nat /\ pc = "listing" /\ Len(rest) = 0
      BY <2>0, <2>3, PagesAreSequences DEF ReceivePage
    <3>3. CASE pc' = "done"
      BY <1>1, <3>2, <3>3, ReturnUsesUp
    <3>4. CASE pc' # "done"
      <4>1. pc' = "examine" /\ rest' = s /\ seen' = seen + Len(s) /\ page' = page
        BY <3>1, <3>4 DEF ReturnWith, Continue
      <4>2. PagesLeft' = PagesLeft /\ EntriesLeft' = EntriesLeft
        BY <1>1, <3>2, <4>1, BoundsAssumption DEF PagesLeft, EntriesLeft
      <4>3. Ahead[pc'] < Ahead[pc]
        BY <3>2, <4>1 DEF Ahead
      <4> QED BY <1>1, <3>2, <4>1, <4>2, <4>3, LoopUsesUp
    <3> QED BY <3>3, <3>4
  <2>4. CASE FollowLink
    <3>1. /\ pc = "examine"
          /\ pc' = "done" \/ (pc' = "page" /\ page' = page + 1 /\ UNCHANGED <<seen, rest>>)
      BY <2>4 DEF FollowLink, ReturnWith, Continue
    <3>2. CASE pc' = "page" /\ page' = page + 1 /\ UNCHANGED <<seen, rest>>
      <4>1. PagesLeft' = PagesLeft - 1 /\ EntriesLeft' = EntriesLeft
        BY <1>1, <3>2, BoundsAssumption DEF PagesLeft, EntriesLeft
      <4> QED BY <1>1, <3>1, <3>2, <4>1, LoopUsesUp
    <3> QED BY <1>1, <3>1, <3>2, ReturnUsesUp
  <2>5. CASE Examine \/ RequestBundle \/ ReadBundle \/ Verify
    <3>1. /\ pc \in {"examine", "fetching", "reading", "verifying"}
          /\ UNCHANGED <<page, seen>>
          /\ \/ pc' = "done"
             \/ pc' = "examine" /\ rest # <<>> /\ rest' = Tail(rest)
             \/ pc = "examine" /\ pc' = "fetching" /\ UNCHANGED rest
             \/ pc = "fetching" /\ pc' = "reading" /\ UNCHANGED rest
             \/ pc = "reading" /\ pc' = "verifying" /\ UNCHANGED rest
      BY <2>0, <2>5 DEF Examine, RequestBundle, ReadBundle, Verify, KeepFirstError, Interrupted,
         ReturnWith, Continue
    <3>2. CASE pc' = "done"
      BY <1>1, <3>1, <3>2, ReturnUsesUp
    <3>3. CASE pc' = "examine" /\ rest # <<>> /\ rest' = Tail(rest)
      <4>1. PagesLeft' = PagesLeft /\ EntriesLeft' = EntriesLeft - 1
        BY <1>1, <2>0, <3>1, <3>3, BoundsAssumption DEF PagesLeft, EntriesLeft
      <4> QED BY <1>1, <3>1, <3>3, <4>1, LoopUsesUp
    <3>4. CASE /\ UNCHANGED rest
               /\ \/ pc = "examine" /\ pc' = "fetching"
                  \/ pc = "fetching" /\ pc' = "reading"
                  \/ pc = "reading" /\ pc' = "verifying"
      <4>1. PagesLeft' = PagesLeft /\ EntriesLeft' = EntriesLeft /\ Ahead[pc'] < Ahead[pc]
        BY <3>1, <3>4 DEF Ahead, PagesLeft, EntriesLeft
      <4> QED BY <1>1, <3>1, <3>4, <4>1, LoopUsesUp
    <3> QED BY <3>1, <3>2, <3>3, <3>4
  <2>6. CASE Cancel \/ UNCHANGED vars
    BY <2>6 DEF Cancel, vars
  <2> QED BY <1>1, <2>1, <2>2, <2>3, <2>4, <2>5, <2>6 DEF Next, Step
<1>2. Inv /\ Inv' /\ [Next]_vars => [Uses \/ Rests]_vars
  BY <1>1
<1> QED
  BY <1>2, WalkInvariant, PTL DEF Spec, WorkRunsOut
=============================================================================
