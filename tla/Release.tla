------------------------------ MODULE Release ------------------------------
(***************************************************************************)
(* What a Check accepts from the network, and whom Check and Apply ask:    *)
(* fetchRelease and the URL policy (http.go), the requests of              *)
(* verifyAttestation (attestation.go), buildPlan and Check (selfupdate.go) *)
(* and the request for the asset.  Every answer is the network's choice:   *)
(* metadata, assets, links and redirects.  The walk over the attestations  *)
(* is module Attestation's, the download Download's; here it matters what  *)
(* is requested, and with which token.                                     *)
(***************************************************************************)
EXTENDS Naturals, Sequences, FiniteSets

CONSTANTS
  Version,    \* exact vMAJOR.MINOR.PATCH tags
  Unstable,   \* any other tag
  Latest,     \* what Check asks for instead of a tag
  MaxSize,    \* maxArchiveBytes
  MaxAssets,  \* bound: assets of a release
  None

ASSUME ConstantsAssumption ==
  /\ Unstable \notin Version /\ Latest \notin Version /\ None \notin Nat
  /\ MaxSize \in Nat \ {0} /\ MaxAssets \in Nat

(***************************************************************************)
(* A URL: "content" is any githubusercontent.com host, "bundles" the host  *)
(* attestation bundles are kept on.  A plain URL has no credentials and no *)
(* fragment; path tells whether path and query are those a next page must  *)
(* have.  Whatever else makes a URL invalid is left to Fail.               *)
(***************************************************************************)
Host == {"api.github.com", "github.com", "content", "bundles", "elsewhere"}
Url == [scheme : {"https", "http"}, host : Host, port : BOOLEAN,
        plain : BOOLEAN, path : {"page", "other"}]
Https(host) == [scheme |-> "https", host |-> host, port |-> FALSE,
                plain |-> TRUE, path |-> "other"]
Api == Https("api.github.com")

(* A URL as it should be, or wrong in one way.                             *)
Near(u) == {v \in Url : Cardinality({f \in DOMAIN u : v[f] # u[f]}) <= 1}

(* An asset of the expected name and as it should be; one of another name, *)
(* and those wrong in one way.                                             *)
Good == [named |-> TRUE, size |-> 1, url |-> Https("github.com"), digest |-> TRUE]
Asset ==
  {[Good EXCEPT !.named = FALSE], [Good EXCEPT !.digest = FALSE]}
  \cup {[Good EXCEPT !.size = n] : n \in 0 .. MaxSize + 1}
  \cup {[Good EXCEPT !.url = u] : u \in Near(Good.url)}

(* Draft, prerelease and published are folded into ready, with everything  *)
(* else that a JSON object of a release needs.                             *)
Metadata == [ready : BOOLEAN, tag : Version \cup {Unstable},
             page : Near(Https("github.com")),
             assets : UNION {[1 .. n -> Asset] : n \in 0 .. MaxAssets}]

VARIABLES
  attest,    \* whether the configuration has an attestation policy
  pc,        \* what the updater does next
  asked,     \* the tag CheckVersion asks for, or Latest
  request,   \* the last request: its purpose, its URL, and its token
  metadata,  \* what the API answered
  index,     \* the asset the loop looks at
  selected,  \* its choice, an index, or None
  page,      \* the attestation page
  plan       \* the release and asset planned for, or None

vars == <<attest, pc, asked, request, metadata, index, selected, page, plan>>

Init ==
  /\ attest \in BOOLEAN
  /\ pc = "ready" /\ asked = Latest /\ request = None /\ metadata = None
  /\ index = 1 /\ selected = None /\ page = None /\ plan = None

Send(purpose, url, token) ==
  request' = [purpose |-> purpose, url |-> url, token |-> token]

(* Check, or CheckVersion with a stable tag, asks the API with the token.  *)
Ask ==
  /\ pc \in {"ready", "planned"}
  /\ asked' \in Version \cup {Latest}
  /\ Send("api", Api, TRUE)
  /\ pc' = "metadata" /\ plan' = None
  /\ metadata' = None /\ index' = 1 /\ selected' = None /\ page' = None
  /\ UNCHANGED attest

(* validateURL; the test servers' allowHTTP is never set outside tests.    *)
ValidURL(u, host) == u.plain /\ u.scheme = "https" /\ u.host = host

(* An error anywhere ends the call without a plan.                         *)
Fail ==
  /\ pc \in {"metadata", "select", "page", "bundle", "asset"}
  /\ pc' = "ready"
  /\ metadata' = None /\ index' = 1 /\ selected' = None /\ page' = None
  /\ UNCHANGED <<attest, asked, request, plan>>

(* The checks before the loop over the assets.                             *)
ReceiveMetadata ==
  /\ pc = "metadata"
  /\ metadata' \in {m \in Metadata :
       m.ready /\ m.tag \in Version /\ ValidURL(m.page, "github.com")}
  /\ pc' = "select"
  /\ UNCHANGED <<attest, asked, request, index, selected, page, plan>>

Acceptable(a) ==
  /\ a.size \in 1 .. MaxSize /\ ValidURL(a.url, "github.com") /\ a.digest

(* Mutated: the first asset of the name is taken.                          *)
ExamineFirst ==
  LET a == metadata.assets[index] IN
  /\ pc = "select" /\ index <= Len(metadata.assets)
  /\ IF a.named
     THEN /\ Acceptable(a)
          /\ selected' = index /\ index' = Len(metadata.assets) + 1
     ELSE index' = index + 1 /\ UNCHANGED selected
  /\ UNCHANGED <<attest, pc, asked, request, metadata, page, plan>>

(* One asset: of another name, or the only one so far and acceptable.      *)
Examine ==
  LET a == metadata.assets[index] IN
  /\ pc = "select" /\ index <= Len(metadata.assets)
  /\ \/ ~a.named /\ UNCHANGED selected
     \/ a.named /\ selected = None /\ Acceptable(a) /\ selected' = index
  /\ index' = index + 1
  /\ UNCHANGED <<attest, pc, asked, request, metadata, page, plan>>

(* buildPlan, with what resolving and hashing the executable may refuse.   *)
Plan ==
  /\ plan' = [tag |-> metadata.tag, wanted |-> asked,
              assets |-> metadata.assets, asset |-> selected]
  /\ pc' = "planned"
  /\ UNCHANGED <<attest, asked, request, metadata, index, selected, page>>

(* An asset was selected, and a tag asked for is the one answered with.    *)
Selected ==
  /\ pc = "select" /\ index > Len(metadata.assets)
  /\ selected # None
  /\ asked # Latest => metadata.tag = asked

PlanByDigest == Selected /\ ~attest /\ Plan

AskForAttestations ==
  /\ Selected /\ attest
  /\ page' = Api
  /\ Send("api", Api, TRUE)
  /\ pc' = "page"
  /\ UNCHANGED <<attest, asked, metadata, index, selected, plan>>

(* Mutated: a relative or absolute link is followed wherever it leads.     *)
NextPageAnywhere(u) == u.path = "page"

(* nextAttestationPage: the link stays on the scheme, host and path of the *)
(* page it is on, and keeps the query's parameters.                        *)
NextPage(u) ==
  /\ u.path = "page" /\ u.plain
  /\ u.scheme = page.scheme /\ u.host = page.host /\ u.port = page.port

FollowPage ==
  /\ pc = "page"
  /\ \E u \in Url :
       /\ NextPage(u)
       /\ page' = u
       /\ Send("api", u, TRUE)
  /\ UNCHANGED <<attest, pc, asked, metadata, index, selected, plan>>

(* fetchAttestationBundle, for the URL an attestation names and for every  *)
(* redirect after it.                                                      *)
BundleURL(u) ==
  u.plain /\ u.scheme = "https" /\ u.host = "bundles" /\ ~u.port

FetchBundle ==
  /\ pc \in {"page", "bundle"}
  /\ \E u \in Url : BundleURL(u) /\ Send("bundle", u, FALSE)
  /\ pc' = "bundle"
  /\ UNCHANGED <<attest, asked, metadata, index, selected, page, plan>>

(* The verifier rejects the bundle, or accepts it.                         *)
RejectBundle ==
  /\ pc = "bundle"
  /\ pc' = "page"
  /\ UNCHANGED <<attest, asked, request, metadata, index, selected, page, plan>>

PlanByAttestation == pc = "bundle" /\ Plan

(* Apply requests the planned asset, and follows the redirects that        *)
(* assetRedirectAllowed allows.                                            *)
Download ==
  LET u == plan.assets[plan.asset].url IN
  /\ pc = "planned"
  /\ ValidURL(u, "github.com")
  /\ Send("asset", u, FALSE)
  /\ pc' = "asset"
  /\ UNCHANGED <<attest, asked, metadata, index, selected, page, plan>>

RedirectAllowed(u) ==
  u.plain /\ u.scheme = "https" /\ ~u.port /\ u.host \in {"github.com", "content"}

(* The client sends no token along that the first request did not have.    *)
RedirectAsset ==
  /\ pc = "asset"
  /\ \E u \in Url : RedirectAllowed(u) /\ Send("asset", u, request.token)
  /\ UNCHANGED <<attest, pc, asked, metadata, index, selected, page, plan>>

(* The asset has arrived; the updater may check again.                     *)
Downloaded ==
  /\ pc = "asset"
  /\ pc' = "ready"
  /\ metadata' = None /\ index' = 1 /\ selected' = None /\ page' = None
  /\ UNCHANGED <<attest, asked, request, plan>>

Next ==
  \/ Ask \/ Fail \/ ReceiveMetadata \/ Examine \/ PlanByDigest
  \/ AskForAttestations \/ FollowPage \/ FetchBundle \/ RejectBundle
  \/ PlanByAttestation \/ Download \/ RedirectAsset \/ Downloaded

Spec == Init /\ [][Next]_vars

-----------------------------------------------------------------------------
(* A plan exists only for a release in which the expected name is the name *)
(* of one asset, and pins that one, whichever of two would have been       *)
(* valid and wherever in the list it stands; a plan of CheckVersion is for *)
(* the tag asked for (http.go:66-79, 133-158).                             *)
PlanIsUnambiguous ==
  plan # None =>
    /\ {i \in DOMAIN plan.assets : plan.assets[i].named} = {plan.asset}
    /\ Acceptable(plan.assets[plan.asset])
    /\ plan.wanted \in {plan.tag, Latest}

(* The token goes to the GitHub API only, over HTTPS, and every other      *)
(* request to the hosts of its purpose: no chain of pages, bundle URLs and *)
(* redirects leads elsewhere (Config.GitHubToken, selfupdate.go:74-77).    *)
TokenStaysHome ==
  request # None => LET u == request.url IN
    /\ u.scheme = "https" /\ u.plain
    /\ request.token => u.host = "api.github.com"
    /\ request.purpose = "asset" => u.host \in {"github.com", "content"}
    /\ request.purpose = "bundle" => u.host = "bundles"
=============================================================================
