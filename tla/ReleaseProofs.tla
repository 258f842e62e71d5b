--------------------------- MODULE ReleaseProofs ---------------------------
(***************************************************************************)
(* What a plan pins and where the token goes, for every set of tags and    *)
(* releases of any number of assets.                                       *)
(*                                                                         *)
(* The loop over the assets knows of those it has passed that the selected *)
(* one alone has the expected name; every page leads back to the first     *)
(* one's host.                                                             *)
(***************************************************************************)
EXTENDS Release, TLAPS

Selecting == {"select", "page", "bundle"}

(* What the loop knows of the assets before index.                         *)
Scanned ==
  LET s == metadata.assets IN
  /\ s \in Seq(Asset) /\ index \in 1 .. Len(s) + 1
  /\ \A i \in 1 .. Len(s) : i < index /\ s[i].named => i = selected
  /\ selected # None =>
       /\ selected \in 1 .. Len(s) /\ selected < index
       /\ s[selected].named /\ Acceptable(s[selected])

Inv ==
  /\ pc = "metadata" => index = 1 /\ selected = None
  /\ pc \in Selecting => Scanned
  /\ pc \in {"page", "bundle"} =>
       /\ index > Len(metadata.assets) /\ selected # None
       /\ asked \in {metadata.tag, Latest}
       /\ page.scheme = "https" /\ page.host = "api.github.com"
  /\ pc = "asset" => request.purpose = "asset" /\ request.token = FALSE
  /\ PlanIsUnambiguous /\ TokenStaysHome

USE ConstantsAssumption DEF Selecting

-----------------------------------------------------------------------------
(* A response's assets are a sequence of assets.                           *)
LEMMA AssetsAreSequences == \A m \in Metadata : m.assets \in Seq(Asset)
<1> SUFFICES ASSUME NEW m \in Metadata PROVE m.assets \in Seq(Asset)
    OBVIOUS
<1>1. PICK n \in 0 .. MaxAssets : m.assets \in [1 .. n -> Asset]
    BY DEF Metadata
<1>2. QED
    BY <1>1

(* Nothing has been asked or planned at first.                             *)
LEMMA InitInv == Init => Inv
  BY DEF Init, Inv, PlanIsUnambiguous, TokenStaysHome

(* A request to a proper URL, with the token only for the API.             *)
LEMMA SendStep ==
  ASSUME NEW purpose \in {"api", "bundle", "asset"}, NEW u, NEW token \in BOOLEAN,
         Send(purpose, u, token),
         u.scheme = "https", u.plain,
         token => u.host = "api.github.com",
         purpose = "asset" => u.host \in {"github.com", "content"},
         purpose = "bundle" => u.host = "bundles"
  PROVE  TokenStaysHome'
<1>1. request' = [purpose |-> purpose, url |-> u, token |-> token]
    BY DEF Send
<1>2. request'.purpose = purpose /\ request'.url = u /\ request'.token = token
    BY <1>1
<1>3. QED
    BY <1>2 DEF TokenStaysHome

(* The URL of the API is a plain HTTPS one of its host.                   *)
LEMMA ApiUrl ==
  Api.scheme = "https" /\ Api.host = "api.github.com" /\ Api.plain
  BY DEF Api, Https

(* The request for release metadata goes to the API with the token.        *)
LEMMA AskStep == Inv /\ Ask => Inv'
<1> SUFFICES ASSUME Inv, Ask PROVE Inv'
    OBVIOUS
<1>1. TokenStaysHome'
    BY ApiUrl, SendStep DEF Ask
<1>2. pc' = "metadata" /\ plan' = None /\ index' = 1 /\ selected' = None
    BY DEF Ask
<1>3. QED
    BY <1>1, <1>2 DEF Inv, PlanIsUnambiguous

(* A response that is refused ends the check, one that is not starts the   *)
(* loop over its assets.                                                   *)
LEMMA ReceiveMetadataStep == Inv /\ ReceiveMetadata => Inv'
<1> SUFFICES ASSUME Inv, ReceiveMetadata PROVE Inv'
    OBVIOUS
<1>1. metadata' \in Metadata /\ pc' = "select" /\ index' = 1 /\ selected' = None
    BY DEF Inv, ReceiveMetadata
<1>2. metadata'.assets \in Seq(Asset)
    BY <1>1, AssetsAreSequences
<1>3. Scanned'
    BY <1>1, <1>2 DEF Scanned
<1>4. PlanIsUnambiguous' /\ TokenStaysHome'
    BY DEF Inv, ReceiveMetadata, PlanIsUnambiguous, TokenStaysHome
<1>5. QED
    BY <1>1, <1>3, <1>4 DEF Inv

(* One more asset: the only one of its name so far, or of another name.    *)
LEMMA ExamineStep == Inv /\ Examine => Inv'
<1> SUFFICES ASSUME Inv, Examine PROVE Inv'
    OBVIOUS
<1> DEFINE s == metadata.assets
<1>1. /\ Scanned /\ s \in Seq(Asset) /\ index \in 1 .. Len(s)
      /\ index' = index + 1 /\ pc' = "select"
      /\ UNCHANGED <<request, metadata, page, plan>>
    BY DEF Inv, Examine, Scanned
<1>2. s' = s
    BY <1>1
<1>3. ASSUME ~s[index].named, selected' = selected PROVE Scanned'
    <2>1. \A i \in 1 .. Len(s) : i < index' /\ s[i].named => i = selected'
        BY <1>1, <1>3 DEF Scanned
    <2>2. selected' # None =>
            /\ selected' \in 1 .. Len(s) /\ selected' < index'
            /\ s[selected'].named /\ Acceptable(s[selected'])
        BY <1>1, <1>3 DEF Scanned
    <2>3. index' \in 1 .. Len(s) + 1
        BY <1>1
    <2>4. QED
        BY <1>1, <1>2, <2>1, <2>2, <2>3 DEF Scanned
<1>4. ASSUME s[index].named, selected = None, Acceptable(s[index]), selected' = index
      PROVE  Scanned'
    <2>1. \A i \in 1 .. Len(s) : i < index => ~s[i].named
        BY <1>1, <1>4 DEF Scanned
    <2>2. \A i \in 1 .. Len(s) : i < index' /\ s[i].named => i = selected'
        BY <1>1, <1>4, <2>1
    <2>3. /\ selected' \in 1 .. Len(s) /\ selected' < index'
          /\ index' \in 1 .. Len(s) + 1
        BY <1>1, <1>4
    <2>4. s[selected'].named /\ Acceptable(s[selected'])
        BY <1>4
    <2>5. QED
        BY <1>1, <1>2, <2>2, <2>3, <2>4 DEF Scanned
<1>5. Scanned'
    BY <1>3, <1>4 DEF Examine
<1>6. QED
    BY <1>1, <1>5 DEF Inv, PlanIsUnambiguous, TokenStaysHome

(* When the loop has passed all assets, the selected one alone has the     *)
(* name.                                                                   *)
LEMMA PlanStep ==
  ASSUME Inv, Plan, Scanned, index > Len(metadata.assets), selected # None,
         asked \in {metadata.tag, Latest}
  PROVE  Inv'
<1> DEFINE s == metadata.assets
<1>1. /\ s \in Seq(Asset) /\ selected \in 1 .. Len(s) /\ DOMAIN s = 1 .. Len(s)
      /\ s[selected].named /\ Acceptable(s[selected])
      /\ \A i \in 1 .. Len(s) : s[i].named => i = selected
    BY DEF Scanned
<1>2. {i \in DOMAIN s : s[i].named} = {selected}
    BY <1>1
<1>3. /\ plan'.assets = s /\ plan'.asset = selected
      /\ plan'.wanted = asked /\ plan'.tag = metadata.tag
    BY DEF Plan
<1>4. PlanIsUnambiguous'
    BY <1>1, <1>2, <1>3 DEF PlanIsUnambiguous
<1>5. QED
    BY <1>4 DEF Inv, Plan, TokenStaysHome

(* The walk's pages and bundles are requested within the policy.           *)
LEMMA AttestationSteps ==
  Inv /\ (AskForAttestations \/ FollowPage \/ FetchBundle \/ RejectBundle) => Inv'
<1>1. ASSUME Inv, AskForAttestations PROVE Inv'
    <2>1. TokenStaysHome'
        BY <1>1, ApiUrl, SendStep DEF AskForAttestations
    <2>2. page'.scheme = "https" /\ page'.host = "api.github.com"
        BY <1>1, ApiUrl DEF AskForAttestations
    <2>3. QED
        BY <1>1, <2>1, <2>2 DEF Inv, AskForAttestations, Selected, Scanned, PlanIsUnambiguous
<1>2. ASSUME Inv, FollowPage PROVE Inv'
    <2>1. PICK u \in Url : NextPage(u) /\ page' = u /\ Send("api", u, TRUE)
        BY <1>2 DEF FollowPage
    <2>2. u.scheme = "https" /\ u.host = "api.github.com" /\ u.plain
        BY <1>2, <2>1 DEF Inv, FollowPage, NextPage
    <2>3. TokenStaysHome'
        BY <2>1, <2>2, SendStep
    <2>4. QED
        BY <1>2, <2>1, <2>2, <2>3 DEF Inv, FollowPage, Scanned, PlanIsUnambiguous
<1>3. ASSUME Inv, FetchBundle PROVE Inv'
    <2>1. TokenStaysHome'
        BY <1>3, SendStep DEF FetchBundle, BundleURL
    <2>2. QED
        BY <1>3, <2>1 DEF Inv, FetchBundle, Scanned, PlanIsUnambiguous
<1>4. ASSUME Inv, RejectBundle PROVE Inv'
    BY <1>4 DEF Inv, RejectBundle, Scanned, PlanIsUnambiguous, TokenStaysHome
<1>5. QED
    BY <1>1, <1>2, <1>3, <1>4

(* The asset's URL and its redirects are requested within the policy.      *)
LEMMA DownloadSteps == Inv /\ (Download \/ RedirectAsset) => Inv'
<1>1. ASSUME Inv, Download PROVE Inv'
    <2> DEFINE u == plan.assets[plan.asset].url
    <2>1. Send("asset", u, FALSE) /\ u.plain /\ u.scheme = "https" /\ u.host = "github.com"
        BY <1>1 DEF Download, ValidURL
    <2>2. TokenStaysHome'
        BY <2>1, SendStep
    <2>3. request'.purpose = "asset" /\ request'.token = FALSE
        BY <2>1 DEF Send
    <2>4. QED
        BY <1>1, <2>2, <2>3 DEF Inv, Download, PlanIsUnambiguous
<1>2. ASSUME Inv, RedirectAsset PROVE Inv'
    <2>1. PICK u \in Url : RedirectAllowed(u) /\ Send("asset", u, request.token)
        BY <1>2 DEF RedirectAsset
    <2>2. request.token = FALSE
        BY <1>2 DEF Inv, RedirectAsset
    <2>3. TokenStaysHome'
        BY <2>1, <2>2, SendStep DEF RedirectAllowed
    <2>4. request'.purpose = "asset" /\ request'.token = FALSE
        BY <2>1, <2>2 DEF Send
    <2>5. QED
        BY <1>2, <2>3, <2>4 DEF Inv, RedirectAsset, PlanIsUnambiguous
<1>3. QED
    BY <1>1, <1>2

(* Every step keeps the invariant.                                         *)
LEMMA NextInv == Inv /\ [Next]_vars => Inv'
<1> SUFFICES ASSUME Inv, [Next]_vars PROVE Inv'
    OBVIOUS
<1>1. CASE Fail \/ Downloaded
    BY <1>1 DEF Fail, Downloaded, Inv, PlanIsUnambiguous, TokenStaysHome
<1>2. CASE PlanByDigest
    BY <1>2, PlanStep DEF PlanByDigest, Selected, Inv
<1>3. CASE PlanByAttestation
    BY <1>3, PlanStep DEF PlanByAttestation, Inv
<1>4. CASE UNCHANGED vars
    BY <1>4 DEF vars, Inv, Scanned, PlanIsUnambiguous, TokenStaysHome
<1>5. QED
    BY <1>1, <1>2, <1>3, <1>4, AskStep, ReceiveMetadataStep, ExamineStep,
       AttestationSteps, DownloadSteps DEF Next

-----------------------------------------------------------------------------
(* The loop's knowledge and the URLs' origin are kept throughout.          *)
THEOREM ReleaseInvariant == Spec => []Inv
<1>1. QED
    BY InitInv, NextInv, PTL DEF Spec

(* Only the single acceptable asset of its name is planned for             *)
(* (http.go:133-158).                                                      *)
THEOREM PlansAreUnambiguous == Spec => []PlanIsUnambiguous
<1>1. Inv => PlanIsUnambiguous
    BY DEF Inv
<1>2. QED
    BY <1>1, ReleaseInvariant, PTL

(* No chain of links and redirects takes the token or a request elsewhere  *)
(* (http.go:191-209, attestation.go:183-266).                              *)
THEOREM TokensStayHome == Spec => []TokenStaysHome
<1>1. Inv => TokenStaysHome
    BY DEF Inv
<1>2. QED
    BY <1>1, ReleaseInvariant, PTL
=============================================================================
