------------------------ MODULE VerifierCacheProofs ------------------------
(***************************************************************************)
(* The safety properties of VerifierCache, for every number of callers,    *)
(* every cache period and a clock that runs for any time.                  *)
(*                                                                         *)
(* What makes them hold is what the flight knows when it is shared: the    *)
(* cache is as old as the last store says, a flight that fetches began to  *)
(* do so after the cache had expired and has at least its timeout from     *)
(* then on, its result is newer than itself, and every waiter's call is    *)
(* counted from no later than the flight's start.                          *)
(***************************************************************************)
EXTENDS VerifierCache, TLAPS

(* The cache and the clock.                                                *)
CacheOK ==
  /\ stored <= now
  /\ expires = IF stored = 0 THEN 0 ELSE stored + Period

(* The flight: times of its life, and what it is about to report.          *)
FlightOK ==
  /\ opened <= now /\ begun <= now
  /\ flight.phase # "none" => opened # 0
  /\ flight.phase \in {"fetch", "store"} =>
       begun # 0 /\ (stored # 0 => begun >= stored + Period)
  /\ flight.phase = "fetch" => deadline >= opened + Timeout
  /\ flight.phase = "finish" =>
       \/ flight.result.what = "verifier" /\ opened < flight.result.expires
       \/ flight.result.what = "failed" /\ begun # 0
       \/ flight.result.what = "deadline" /\ begun # 0 /\ now >= opened + Timeout

(* One caller: what it waits for, what it was sent and what it got.        *)
CallerOK(c) ==
  /\ since[c] <= now
  /\ c \in waiters => /\ pc[c] = "waiting" /\ flight.phase # "none"
                      /\ since[c] <= opened
  /\ inbox[c] # Nothing =>
       /\ pc[c] = "waiting" /\ c \notin waiters
       /\ \/ inbox[c].what = "verifier" /\ since[c] < inbox[c].expires
          \/ inbox[c].what = "failed" /\ "failed" \in failing[c]
          \/ /\ inbox[c].what = "deadline" /\ "deadline" \in failing[c]
             /\ now >= since[c] + Timeout
  /\ pc[c] # "idle" => got[c] = Nothing
  /\ got[c].what = "verifier" => since[c] < got[c].expires
  /\ got[c].what \in {"failed", "deadline"} => got[c].what \in failing[c]
  /\ got[c].what = "deadline" => now >= since[c] + Timeout
  /\ got[c].what = "cancelled" => ctxDone[c]

Inv == TypeOK /\ CacheOK /\ FlightOK /\ \A c \in Caller : CallerOK(c)

(* The records of the model are outcomes.                                  *)
LEMMA OutcomesTyped ==
  /\ Nothing \in Outcome /\ Failure \in Outcome /\ Cancelled \in Outcome
  /\ OutOfTime \in Outcome /\ OutOfTime.what = "deadline"
  /\ \A e \in Expiry : Built(e) \in Outcome
  /\ Nothing.what = "none" /\ Failure.what = "failed"
  /\ Cancelled.what = "cancelled"
  /\ \A e \in Expiry : Built(e).what = "verifier" /\ Built(e).expires = e
BY TimeAssumption DEF Nothing, Failure, OutOfTime, Cancelled, Built, Outcome, Expiry

(* Nobody has called, nothing is stored.                                   *)
LEMMA InitInv == Init => Inv
<1> SUFFICES ASSUME Init PROVE Inv
  OBVIOUS
<1>1. TypeOK
  BY OutcomesTyped, TimeAssumption DEF Init, TypeOK, Phase, Expiry
<1>2. CacheOK /\ FlightOK
  BY DEF Init, CacheOK, FlightOK
<1>3. ASSUME NEW c \in Caller PROVE CallerOK(c)
  <2>1. /\ since[c] = 0 /\ now = 1 /\ c \notin waiters /\ pc[c] = "idle"
        /\ inbox[c] = Nothing /\ got[c].what = "none"
    BY OutcomesTyped DEF Init
  <2> QED BY <2>1 DEF CallerOK
<1> QED BY <1>1, <1>2, <1>3 DEF Inv

-----------------------------------------------------------------------------
(* A call ends with an outcome that is right for it.                       *)
LEMMA ReturnStep ==
  ASSUME NEW c \in Caller, NEW outcome \in Outcome, Inv, Return(c, outcome),
         outcome.what = "verifier" => since[c] < outcome.expires,
         outcome.what \in {"failed", "deadline"} => outcome.what \in failing[c],
         outcome.what = "deadline" => now >= since[c] + Timeout,
         outcome.what = "cancelled" => ctxDone[c],
         UNCHANGED <<now, expires, flight, deadline, ctxDone, since, failing,
                     stored, opened, begun>>
  PROVE Inv'
<1>1. TypeOK'
  <2>1. Nothing \in Outcome
    BY OutcomesTyped
  <2>2. inbox' \in [Caller -> Outcome] /\ got' \in [Caller -> Outcome]
    BY <2>1 DEF Inv, TypeOK, Return
  <2>3. /\ pc' \in [Caller -> {"idle", "lookup", "join", "waiting"}]
        /\ waiters' \subseteq Caller
    BY DEF Inv, TypeOK, Return
  <2> QED BY <2>2, <2>3 DEF Inv, TypeOK
<1>2. CacheOK' /\ FlightOK'
  BY DEF Inv, CacheOK, FlightOK
<1>3. ASSUME NEW d \in Caller PROVE CallerOK(d)'
  <2>1. CASE d = c
    BY <2>1, OutcomesTyped DEF Inv, CallerOK, Return, TypeOK
  <2>2. CASE d # c
    BY <2>2 DEF Inv, CallerOK, Return, TypeOK
  <2> QED BY <2>1, <2>2
<1> QED BY <1>1, <1>2, <1>3 DEF Inv

(* A call begins with a clean slate.                                       *)
LEMMA CallStep == ASSUME NEW c \in Caller, Inv, Call(c) PROVE Inv'
<1>1. TypeOK'
  BY OutcomesTyped DEF Inv, TypeOK, Call
<1>2. CacheOK' /\ FlightOK'
  BY DEF Inv, CacheOK, FlightOK, Call
<1>3. ASSUME NEW d \in Caller PROVE CallerOK(d)'
  <2>1. CASE d = c
    BY <2>1, OutcomesTyped DEF Inv, CallerOK, Call, TypeOK
  <2>2. CASE d # c
    BY <2>2 DEF Inv, CallerOK, Call, TypeOK
  <2> QED BY <2>1, <2>2
<1> QED BY <1>1, <1>2, <1>3 DEF Inv

(* The first look returns what is fresh now, and so since the call began.  *)
LEMMA LookupStep == ASSUME NEW c \in Caller, Inv, Lookup(c) PROVE Inv'
<1>1. CASE Fresh
  <2>1. Built(expires) \in Outcome /\ Built(expires).what = "verifier"
        /\ since[c] < Built(expires).expires
    BY <1>1, OutcomesTyped DEF Inv, TypeOK, CallerOK, Fresh, Expiry
  <2> QED BY <1>1, <2>1, ReturnStep DEF Lookup
<1>2. CASE ~Fresh
  <2>1. TypeOK'
    BY <1>2 DEF Inv, TypeOK, Lookup
  <2>2. CacheOK' /\ FlightOK'
    BY <1>2 DEF Inv, CacheOK, FlightOK, Lookup
  <2>3. ASSUME NEW d \in Caller PROVE CallerOK(d)'
    BY <1>2 DEF Inv, CallerOK, Lookup, TypeOK
  <2> QED BY <2>1, <2>2, <2>3 DEF Inv
<1> QED BY <1>1, <1>2

(* A caller that joins counts from the flight's start at the latest.       *)
LEMMA JoinStep == ASSUME NEW c \in Caller, Inv, Join(c) PROVE Inv'
<1>1. TypeOK'
  BY OutcomesTyped DEF Inv, TypeOK, Join, Phase
<1>2. CacheOK' /\ FlightOK'
  BY DEF Inv, CacheOK, FlightOK, Join, TypeOK
<1>3. ASSUME NEW d \in Caller PROVE CallerOK(d)'
  <2>1. CASE flight.phase = "none"
    BY <2>1 DEF Inv, CallerOK, Join, TypeOK
  <2>2. CASE flight.phase # "none"
    <3>1. /\ since'[d] <= since[d] /\ since'[d] \in Nat
          /\ d = c => since'[d] <= opened /\ pc'[d] = "waiting"
          /\ d # c => pc'[d] = pc[d] /\ (d \in waiters' <=> d \in waiters)
      BY <2>2 DEF Inv, TypeOK, Join
    <3>2. /\ pc[c] = "join" /\ since[d] \in Nat /\ now \in Nat /\ opened \in Nat
          /\ UNCHANGED <<now, flight, opened, inbox, got, failing, ctxDone>>
          /\ inbox[d].expires \in Nat /\ got[d].expires \in Nat
      BY <2>2, TimeAssumption DEF Inv, TypeOK, Join, Outcome, Expiry
    <3> QED BY <2>2, <3>1, <3>2, TimeAssumption DEF Inv, CallerOK
  <2> QED BY <2>1, <2>2
<1> QED BY <1>1, <1>2, <1>3 DEF Inv

LEMMA GiveUpStep == ASSUME NEW c \in Caller, Inv, GiveUp(c) PROVE Inv'
  BY OutcomesTyped, ReturnStep DEF GiveUp

LEMMA TakeOutcomeStep == ASSUME NEW c \in Caller, Inv, TakeOutcome(c) PROVE Inv'
<1>1. inbox[c] \in Outcome
  BY DEF Inv, TypeOK
<1>2. /\ inbox[c].what = "verifier" => since[c] < inbox[c].expires
      /\ inbox[c].what \in {"failed", "deadline"} => inbox[c].what \in failing[c]
      /\ inbox[c].what = "deadline" => now >= since[c] + Timeout
      /\ inbox[c].what # "cancelled"
  BY DEF Inv, CallerOK, TakeOutcome
<1> QED BY <1>1, <1>2, ReturnStep DEF TakeOutcome

LEMMA CancelStep == ASSUME NEW c \in Caller, Inv, Cancel(c) PROVE Inv'
<1>1. TypeOK'
  BY DEF Inv, TypeOK, Cancel
<1>2. CacheOK' /\ FlightOK'
  BY DEF Inv, CacheOK, FlightOK, Cancel
<1>3. ASSUME NEW d \in Caller PROVE CallerOK(d)'
  BY DEF Inv, CallerOK, Cancel, TypeOK
<1> QED BY <1>1, <1>2, <1>3 DEF Inv

-----------------------------------------------------------------------------
(* A step of the flight before it reports touches no caller.               *)
LEMMA CallersUntouched ==
  ASSUME Inv, flight.phase # "none", flight'.phase # "none",
         UNCHANGED <<now, waiters, call, failing, opened>>
  PROVE \A c \in Caller : CallerOK(c)'
  BY DEF Inv, CallerOK, call

(* The second look: a verifier found is fresh now, and a fetch begins only *)
(* after the last one stored has expired.                                  *)
LEMMA LookAgainStep == Inv /\ LookAgain => Inv'
<1> SUFFICES ASSUME Inv, LookAgain PROVE Inv'
  OBVIOUS
<1>1. TypeOK'
  BY OutcomesTyped, TimeAssumption DEF Inv, TypeOK, LookAgain, Phase, call
<1>2. CacheOK'
  BY DEF Inv, CacheOK, LookAgain
<1>3. FlightOK'
  <2>1. /\ opened \in Nat /\ now \in Nat /\ expires \in Nat /\ now # 0
        /\ stored \in Nat /\ opened <= now /\ begun <= now /\ opened # 0
        /\ UNCHANGED <<now, opened, stored>>
    BY TimeAssumption DEF Inv, TypeOK, FlightOK, LookAgain, Expiry
  <2>2. CASE Fresh /\ flight' = [phase |-> "finish", result |-> Built(expires)]
             /\ UNCHANGED <<begun, deadline>>
    <3>1. /\ flight'.phase = "finish" /\ flight'.result.what = "verifier"
          /\ flight'.result.expires = expires
      BY <2>2, OutcomesTyped DEF Inv, TypeOK
    <3> QED BY <2>1, <2>2, <3>1 DEF FlightOK, Fresh
  <2>3. CASE ~Fresh /\ flight' = [flight EXCEPT !.phase = "fetch"]
             /\ begun' = now /\ deadline' = now + Timeout
    <3>1. flight'.phase = "fetch"
      BY <2>3 DEF Inv, TypeOK
    <3> QED BY <2>1, <2>3, <3>1, TimeAssumption DEF Inv, CacheOK, FlightOK, Fresh
  <2> QED BY <2>2, <2>3 DEF LookAgain
<1>4. \A c \in Caller : CallerOK(c)'
  BY CallersUntouched DEF Inv, TypeOK, LookAgain
<1> QED BY <1>1, <1>2, <1>3, <1>4 DEF Inv

LEMMA FetchedStep == Inv /\ Fetched => Inv'
<1> SUFFICES ASSUME Inv, Fetched PROVE Inv'
  OBVIOUS
<1>1. TypeOK'
  BY DEF Inv, TypeOK, Fetched, Phase, call
<1>2. CacheOK' /\ FlightOK'
  BY DEF Inv, TypeOK, CacheOK, FlightOK, Fetched
<1>3. \A c \in Caller : CallerOK(c)'
  BY CallersUntouched DEF Inv, TypeOK, Fetched
<1> QED BY <1>1, <1>2, <1>3 DEF Inv

LEMMA FetchFailsStep == Inv /\ FetchFails => Inv'
<1> SUFFICES ASSUME Inv, FetchFails PROVE Inv'
  OBVIOUS
<1>1. TypeOK'
  BY OutcomesTyped DEF Inv, TypeOK, FetchFails, Phase, call
<1>2. CacheOK' /\ FlightOK'
  BY OutcomesTyped DEF Inv, TypeOK, CacheOK, FlightOK, FetchFails
<1>3. \A c \in Caller : CallerOK(c)'
  BY CallersUntouched DEF Inv, TypeOK, FetchFails
<1> QED BY <1>1, <1>2, <1>3 DEF Inv

(* The error at the deadline comes a whole timeout after the flight began. *)
LEMMA FetchTimesOutStep == Inv /\ FetchTimesOut => Inv'
<1> SUFFICES ASSUME Inv, FetchTimesOut PROVE Inv'
  OBVIOUS
<1>1. TypeOK'
  BY OutcomesTyped DEF Inv, TypeOK, FetchTimesOut, Phase, call
<1>2. CacheOK' /\ FlightOK'
  BY OutcomesTyped, TimeAssumption
  DEF Inv, TypeOK, CacheOK, FlightOK, FetchTimesOut
<1>3. \A c \in Caller : CallerOK(c)'
  BY CallersUntouched DEF Inv, TypeOK, FetchTimesOut
<1> QED BY <1>1, <1>2, <1>3 DEF Inv

LEMMA StoreStep == Inv /\ Store => Inv'
<1> SUFFICES ASSUME Inv, Store PROVE Inv'
  OBVIOUS
<1>0. now + Period \in Expiry /\ now # 0
  BY TimeAssumption DEF Inv, TypeOK, Expiry
<1>1. TypeOK'
  BY <1>0, OutcomesTyped DEF Inv, TypeOK, Store, Phase, call
<1>2. CacheOK'
  BY <1>0 DEF Inv, TypeOK, CacheOK, Store
<1>3. FlightOK'
  BY <1>0, OutcomesTyped, TimeAssumption
  DEF Inv, TypeOK, CacheOK, FlightOK, Store
<1>4. \A c \in Caller : CallerOK(c)'
  BY CallersUntouched DEF Inv, TypeOK, Store
<1> QED BY <1>1, <1>2, <1>3, <1>4 DEF Inv

(* Every waiter is sent a result newer than the flight, and so than its    *)
(* own call, or a failure that is reported now.                            *)
LEMMA FinishStep == Inv /\ Finish => Inv'
<1> SUFFICES ASSUME Inv, Finish PROVE Inv'
  OBVIOUS
<1>0. flight.result \in Outcome /\ flight.phase = "finish"
      /\ flight.result.what \in {"verifier", "failed", "deadline"}
  BY DEF Inv, TypeOK, FlightOK, Finish
<1>1. TypeOK'
  <2>1. failing' \in [Caller -> SUBSET {"failed", "deadline", "cancelled"}]
    BY <1>0 DEF Inv, TypeOK, Finish, Report
  <2> QED BY <1>0, <2>1, OutcomesTyped
          DEF Inv, TypeOK, Finish, Send, Report, Phase
<1>2. CacheOK' /\ FlightOK'
  BY DEF Inv, TypeOK, CacheOK, FlightOK, Finish, Report
<1>3. ASSUME NEW c \in Caller PROVE CallerOK(c)'
  <2>1. /\ waiters' = {} /\ since' = since /\ now' = now /\ pc' = pc
        /\ got' = got /\ ctxDone' = ctxDone
        /\ inbox'[c] = IF c \in waiters THEN flight.result ELSE inbox[c]
        /\ failing[c] \subseteq failing'[c]
        /\ flight.result.what # "verifier" /\ begun # 0 =>
             flight.result.what \in failing'[c]
    BY DEF Finish, Send, Report
  <2>2. CASE c \in waiters
    <3>0. /\ since[c] \in Nat /\ opened \in Nat /\ now \in Nat
          /\ flight.result.expires \in Nat /\ since[c] <= opened
          /\ inbox'[c] = flight.result
      BY <1>0, <2>1, <2>2, TimeAssumption
      DEF Inv, TypeOK, CallerOK, Outcome, Expiry
    <3>1. \/ inbox'[c].what = "verifier" /\ since'[c] < inbox'[c].expires
          \/ inbox'[c].what = "failed" /\ "failed" \in failing'[c]
          \/ /\ inbox'[c].what = "deadline" /\ "deadline" \in failing'[c]
             /\ now' >= since'[c] + Timeout
      BY <1>0, <2>1, <3>0, TimeAssumption DEF Inv, FlightOK
    <3> QED BY <2>1, <2>2, <3>1 DEF Inv, CallerOK
  <2>3. CASE c \notin waiters
    BY <2>1, <2>3 DEF Inv, CallerOK
  <2> QED BY <2>2, <2>3
<1> QED BY <1>1, <1>2, <1>3 DEF Inv

LEMMA TickStep == Inv /\ Tick => Inv'
<1> SUFFICES ASSUME Inv, Tick PROVE Inv'
  OBVIOUS
<1>1. TypeOK'
  BY TimeAssumption DEF Inv, TypeOK, Tick, call
<1>2. CacheOK' /\ FlightOK'
  BY TimeAssumption DEF Inv, TypeOK, CacheOK, FlightOK, Tick
<1>3. ASSUME NEW c \in Caller PROVE CallerOK(c)'
  BY TimeAssumption DEF Inv, TypeOK, CallerOK, Tick, call
<1> QED BY <1>1, <1>2, <1>3 DEF Inv

LEMMA StutterStep == Inv /\ UNCHANGED vars => Inv'
  BY DEF Inv, vars, call, TypeOK, CacheOK, FlightOK, CallerOK

-----------------------------------------------------------------------------
(* The cache, the flight and the callers agree throughout (sigstore.go:    *)
(* 106-155).                                                               *)
THEOREM CacheInvariant == Spec => []Inv
<1>1. Inv /\ [Next]_vars => Inv'
  <2> SUFFICES ASSUME Inv, [Next]_vars PROVE Inv'
    OBVIOUS
  <2>1. ASSUME NEW c \in Caller, Call(c) \/ Work(c) \/ Cancel(c) PROVE Inv'
    BY <2>1, CallStep, LookupStep, JoinStep, GiveUpStep, TakeOutcomeStep,
       CancelStep DEF Work
  <2>2. CASE Flight
    BY <2>2, LookAgainStep, FetchedStep, FetchFailsStep, FetchTimesOutStep,
       StoreStep, FinishStep
    DEF Flight
  <2>3. CASE Tick
    BY <2>3, TickStep
  <2>4. CASE UNCHANGED vars
    BY <2>4, StutterStep
  <2> QED BY <2>1, <2>2, <2>3, <2>4 DEF Next
<1> QED BY <1>1, InitInv, PTL DEF Spec

(* Type correctness of the cache, its flight and its callers               *)
(* (sigstore.go:95-170).                                                   *)
THEOREM TypeCorrect == Spec => []TypeOK
<1>1. Inv => TypeOK
  BY DEF Inv
<1> QED BY <1>1, CacheInvariant, PTL

(* A verifier handed out was good when the call, or the flight it joined,  *)
(* began (sigstore.go:107, 111, 151).                                      *)
THEOREM VerifiersAreFresh == Spec => []NoExpiredVerifier
<1>1. Inv => NoExpiredVerifier
  BY DEF Inv, CallerOK, NoExpiredVerifier
<1> QED BY <1>1, CacheInvariant, PTL

(* Two successful fetches are at least the cache period apart              *)
(* (sigstore.go:111).                                                      *)
THEOREM FetchesKeepTheirDistance == Spec => []FetchesAreSpaced
<1>1. Inv => FetchesAreSpaced
  BY DEF Inv, FlightOK, FetchesAreSpaced
<1> QED BY <1>1, CacheInvariant, PTL

(* A failure is heard only by calls during which it was reported, and as   *)
(* the kind of failure it was (sigstore.go:119).                           *)
THEOREM FailuresAreForgotten == Spec => []FailuresAreNotCached
<1>1. Inv => FailuresAreNotCached
  BY DEF Inv, CallerOK, FailuresAreNotCached
<1> QED BY <1>1, CacheInvariant, PTL

(* An error that is a context's is that of the caller's own context, or of *)
(* a fetch that has had its whole timeout since the call, or the flight it *)
(* joined, began (sigstore.go:119-120, 138, 157-168).                      *)
THEOREM CancelsAreOnesOwn == Spec => []CancelIsOnesOwn
<1>1. Inv => CancelIsOnesOwn
  BY DEF Inv, CallerOK, CancelIsOnesOwn
<1> QED BY <1>1, CacheInvariant, PTL

=============================================================================
