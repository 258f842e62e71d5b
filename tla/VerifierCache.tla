--------------------------- MODULE VerifierCache ---------------------------
(***************************************************************************)
(* Verifier.configuredVerifier (sigstore/sigstore.go): goroutines that     *)
(* verify attestations share one Verifier.  It keeps the verifier built    *)
(* from Sigstore's trusted root for a day, and callers that find none      *)
(* share one fetch of the root through a singleflight group.               *)
(*                                                                         *)
(* The callers, the goroutine that fetches and the clock interleave at     *)
(* every lock operation and channel; a caller's context may be done at any *)
(* time, a fetch may fail and may take any time.                           *)
(***************************************************************************)
EXTENDS Naturals

CONSTANTS
  Caller,   \* goroutines that call VerifyAttestation
  Period,   \* trustedRootCachePeriod
  Timeout,  \* trustedRootHTTPTimeout
  MaxTime   \* bound: how long the clock runs

ASSUME TimeAssumption ==
  Period \in Nat \ {0} /\ Timeout \in Nat \ {0} /\ MaxTime \in Nat \ {0}

(***************************************************************************)
(* A verifier is known by the time it expires; 0 is no verifier (the clock *)
(* starts at 1).  What configuredVerifier returns, and what a flight sends *)
(* to its waiters, is an outcome.  Two kinds of error are a context's to   *)
(* errors.Is: "cancelled", the caller's own, and "deadline", which wraps   *)
(* that of the fetch.                                                      *)
(***************************************************************************)
Expiry == 0 .. MaxTime + Period
Outcome == [what : {"none", "verifier", "failed", "deadline", "cancelled"},
            expires : Expiry]
Nothing == [what |-> "none", expires |-> 0]
Failure == [what |-> "failed", expires |-> 0]
OutOfTime == [what |-> "deadline", expires |-> 0]
Cancelled == [what |-> "cancelled", expires |-> 0]
Built(e) == [what |-> "verifier", expires |-> e]

VARIABLES
  now,       \* time.Now()
  expires,   \* verifierExpires, 0 while verifier is nil
  flight,    \* the function running under the key "public-root": what it
             \* does next, and what it returns
  deadline,  \* that of every request of the fetch, 0 while there is none
  waiters,   \* callers whose channel that flight will send to
  pc,        \* pc[c]: what caller c does next
  ctxDone,   \* ctxDone[c]: the context of its call is done
  inbox,     \* inbox[c]: what the channel of its call holds
  got,       \* got[c]: what its last call returned
  since,     \* history: since[c] is when its call began, or the flight it
             \* joined if that is earlier
  failing,   \* history: failing[c]: the errors of fetches reported since
  stored,    \* history: when a root was last stored, 0 if never
  opened,    \* history: when the flight began, 0 while there is none
  begun      \* history: when it began to fetch, 0 if it did not

call == <<pc, ctxDone, inbox, got, since>>
vars == <<now, expires, flight, deadline, waiters, call, failing, stored, opened,
          begun>>

Phase == {"none", "look", "fetch", "store", "finish"}

Init ==
  /\ now = 1 /\ expires = 0 /\ deadline = 0 /\ waiters = {}
  /\ flight = [phase |-> "none", result |-> Nothing]
  /\ pc = [c \in Caller |-> "idle"]
  /\ ctxDone = [c \in Caller |-> FALSE]
  /\ inbox = [c \in Caller |-> Nothing]
  /\ got = [c \in Caller |-> Nothing]
  /\ since = [c \in Caller |-> 0]
  /\ failing = [c \in Caller |-> {}]
  /\ stored = 0 /\ opened = 0 /\ begun = 0

(* Mutated: a verifier is good until after its last moment.                *)
FreshToTheEnd == now <= expires /\ expires # 0

(* cachedVerifier finds a verifier.                                        *)
Fresh == now < expires

-----------------------------------------------------------------------------
(* A call.                                                                 *)

Return(c, outcome) ==
  /\ pc' = [pc EXCEPT ![c] = "idle"]
  /\ got' = [got EXCEPT ![c] = outcome]
  /\ inbox' = [inbox EXCEPT ![c] = Nothing]
  /\ waiters' = waiters \ {c}

(* VerifyAttestation with a context that is not done, and a bundle it can  *)
(* parse: otherwise it returns before it needs the verifier.               *)
Call(c) ==
  /\ pc[c] = "idle"
  /\ pc' = [pc EXCEPT ![c] = "lookup"]
  /\ ctxDone' = [ctxDone EXCEPT ![c] = FALSE]
  /\ since' = [since EXCEPT ![c] = now]
  /\ failing' = [failing EXCEPT ![c] = {}]
  /\ got' = [got EXCEPT ![c] = Nothing]
  /\ UNCHANGED <<now, expires, flight, deadline, waiters, inbox, stored,
                 opened, begun>>

(* The first look at the cache.                                            *)
Lookup(c) ==
  /\ pc[c] = "lookup"
  /\ IF Fresh
       THEN Return(c, Built(expires))
       ELSE /\ pc' = [pc EXCEPT ![c] = "join"]
            /\ UNCHANGED <<got, inbox, waiters>>
  /\ UNCHANGED <<now, expires, flight, deadline, ctxDone, since, failing, stored,
                 opened, begun>>

(* DoChan: into the flight that is under way, or into one of its own.      *)
Join(c) ==
  /\ pc[c] = "join"
  /\ pc' = [pc EXCEPT ![c] = "waiting"]
  /\ waiters' = waiters \cup {c}
  /\ \/ /\ flight.phase = "none"
        /\ flight' = [phase |-> "look", result |-> Nothing]
        /\ opened' = now
        /\ UNCHANGED since
     \/ /\ flight.phase # "none"
        /\ since' = [since EXCEPT ![c] = IF opened < @ THEN opened ELSE @]
        /\ UNCHANGED <<flight, opened>>
  /\ UNCHANGED <<now, expires, deadline, ctxDone, inbox, got, failing, stored, begun>>

(* Mutated: the caller waits for the flight whatever its context says.     *)
GiveUpNever(c) ==
  /\ pc[c] = "waiting" /\ ctxDone[c] /\ inbox[c] # Nothing
  /\ Return(c, Cancelled)
  /\ UNCHANGED <<now, expires, flight, deadline, ctxDone, since, failing, stored,
                 opened, begun>>

(* The two branches of the select; either may run when both are ready.     *)
GiveUp(c) ==
  /\ pc[c] = "waiting" /\ ctxDone[c]
  /\ Return(c, Cancelled)
  /\ UNCHANGED <<now, expires, flight, deadline, ctxDone, since, failing, stored,
                 opened, begun>>

TakeOutcome(c) ==
  /\ pc[c] = "waiting" /\ inbox[c] # Nothing
  /\ Return(c, inbox[c])
  /\ UNCHANGED <<now, expires, flight, deadline, ctxDone, since, failing, stored,
                 opened, begun>>

Cancel(c) ==
  /\ pc[c] # "idle" /\ ~ctxDone[c]
  /\ ctxDone' = [ctxDone EXCEPT ![c] = TRUE]
  /\ UNCHANGED <<now, expires, flight, deadline, waiters, pc, inbox, got, since,
                 failing, stored, opened, begun>>

-----------------------------------------------------------------------------
(* The flight.                                                             *)

(* Mutated: no second look at the cache.                                   *)
LookAgainNever ==
  /\ flight.phase = "look"
  /\ flight' = [flight EXCEPT !.phase = "fetch"]
  /\ begun' = now /\ deadline' = now + Timeout
  /\ UNCHANGED <<now, expires, waiters, call, failing, stored, opened>>

(* Mutated: the client, and with it the deadline, is made once for all     *)
(* fetches of the verifier.                                                *)
LookAgainOldClient ==
  /\ flight.phase = "look"
  /\ \/ /\ Fresh
        /\ flight' = [phase |-> "finish", result |-> Built(expires)]
        /\ UNCHANGED <<begun, deadline>>
     \/ /\ ~Fresh
        /\ flight' = [flight EXCEPT !.phase = "fetch"]
        /\ begun' = now /\ deadline' = 1 + Timeout
  /\ UNCHANGED <<now, expires, waiters, call, failing, stored, opened>>

(* The second look at the cache: an earlier flight may have filled it      *)
(* between a caller's first look and its DoChan.  A fetch gets a client of *)
(* its own, whose requests all end at one deadline.                        *)
LookAgain ==
  /\ flight.phase = "look"
  /\ \/ /\ Fresh
        /\ flight' = [phase |-> "finish", result |-> Built(expires)]
        /\ UNCHANGED <<begun, deadline>>
     \/ /\ ~Fresh
        /\ flight' = [flight EXCEPT !.phase = "fetch"]
        /\ begun' = now /\ deadline' = now + Timeout
  /\ UNCHANGED <<now, expires, waiters, call, failing, stored, opened>>

Fetched ==
  /\ flight.phase = "fetch"
  /\ flight' = [flight EXCEPT !.phase = "store"]
  /\ UNCHANGED <<now, expires, deadline, waiters, call, failing, stored,
                 opened, begun>>

(* Mutated: the fetch runs under the context of a caller.                  *)
FetchFailsWithCaller ==
  /\ flight.phase = "fetch"
  /\ \E c \in waiters :
       flight' = [phase |-> "finish",
                  result |-> IF ctxDone[c] THEN Cancelled ELSE Failure]
  /\ UNCHANGED <<now, expires, deadline, waiters, call, failing, stored,
                 opened, begun>>

(* The root cannot be fetched, or no verifier can be built from it.        *)
FetchFails ==
  /\ flight.phase = "fetch"
  /\ flight' = [phase |-> "finish", result |-> Failure]
  /\ UNCHANGED <<now, expires, deadline, waiters, call, failing, stored,
                 opened, begun>>

(* A request of the fetch, the headers or the body of its answer, is cut   *)
(* short at the deadline: the error wraps DeadlineExceeded.                *)
FetchTimesOut ==
  /\ flight.phase = "fetch" /\ now >= deadline
  /\ flight' = [phase |-> "finish", result |-> OutOfTime]
  /\ UNCHANGED <<now, expires, deadline, waiters, call, failing, stored,
                 opened, begun>>

Store ==
  /\ flight.phase = "store"
  /\ expires' = now + Period
  /\ stored' = now
  /\ flight' = [phase |-> "finish", result |-> Built(now + Period)]
  /\ UNCHANGED <<now, deadline, waiters, call, failing, opened, begun>>

Send(cs) ==
  inbox' = [c \in Caller |-> IF c \in cs THEN flight.result ELSE inbox[c]]

(* The flight is over; what the callers of the moment have lived to see.   *)
Report ==
  /\ deadline' = 0 /\ opened' = 0 /\ begun' = 0
  /\ failing' = IF begun = 0 THEN failing ELSE
       [c \in Caller |-> failing[c] \cup ({flight.result.what} \ {"verifier"})]

(* Mutated: a flight that failed stays, as one of sync.Once would.         *)
FinishOnce ==
  /\ flight.phase = "finish"
  /\ Send(waiters) /\ Report
  /\ waiters' = {}
  /\ flight' = IF flight.result.what # "verifier" THEN flight
               ELSE [phase |-> "none", result |-> Nothing]
  /\ UNCHANGED <<now, expires, pc, ctxDone, got, since, stored>>

(* Mutated: only one of the waiters hears of the outcome.                  *)
FinishOne ==
  /\ flight.phase = "finish"
  /\ Send(IF waiters = {} THEN {} ELSE {CHOOSE c \in waiters : TRUE})
  /\ Report
  /\ waiters' = {}
  /\ flight' = [phase |-> "none", result |-> Nothing]
  /\ UNCHANGED <<now, expires, pc, ctxDone, got, since, stored>>

(* singleflight forgets the key and sends the result to every channel in   *)
(* one critical section of the group.                                      *)
Finish ==
  /\ flight.phase = "finish"
  /\ Send(waiters) /\ Report
  /\ waiters' = {}
  /\ flight' = [phase |-> "none", result |-> Nothing]
  /\ UNCHANGED <<now, expires, pc, ctxDone, got, since, stored>>

Tick ==
  /\ now < MaxTime
  /\ now' = now + 1
  /\ UNCHANGED <<expires, flight, deadline, waiters, call, failing, stored,
                 opened, begun>>

-----------------------------------------------------------------------------
Work(c) == Lookup(c) \/ Join(c) \/ GiveUp(c) \/ TakeOutcome(c)
Flight ==
  LookAgain \/ Fetched \/ FetchFails \/ FetchTimesOut \/ Store \/ Finish

Next ==
  \/ \E c \in Caller : Call(c) \/ Work(c) \/ Cancel(c)
  \/ Flight
  \/ Tick

Spec == Init /\ [][Next]_vars

(* Goroutines that can run do.  Nothing makes the fetch end.               *)
HungSpec == Spec /\ \A c \in Caller : WF_vars(Work(c))

(* The fetch ends, by its 20-second deadline (sigstore.go:157-168).        *)
FlightsEnd == WF_vars(Flight)

-----------------------------------------------------------------------------
(* Properties.                                                             *)

TypeOK ==
  /\ now \in 1 .. MaxTime /\ expires \in Expiry
  /\ deadline \in Nat /\ stored \in Nat /\ opened \in Nat /\ begun \in Nat
  /\ flight \in [phase : Phase, result : Outcome]
  /\ waiters \subseteq Caller
  /\ pc \in [Caller -> {"idle", "lookup", "join", "waiting"}]
  /\ ctxDone \in [Caller -> BOOLEAN]
  /\ failing \in [Caller -> SUBSET {"failed", "deadline", "cancelled"}]
  /\ inbox \in [Caller -> Outcome] /\ got \in [Caller -> Outcome]
  /\ since \in [Caller -> Nat]

(* A verifier is never handed out that had already expired when the call,  *)
(* or the flight it joined, began, whether it comes from the cache, from a *)
(* flight that found the cache filled, or from a fetch (sigstore.go:107,   *)
(* 111, 151).                                                              *)
NoExpiredVerifier ==
  \A c \in Caller : got[c].what = "verifier" => since[c] < got[c].expires

(* Two fetches that succeed are at least Period apart, however the callers *)
(* interleave: a fetch never begins while a stored root is still good      *)
(* (sigstore.go:111).                                                      *)
FetchesAreSpaced ==
  flight.phase \in {"fetch", "store"} /\ stored # 0 => begun >= stored + Period

(* A caller hears of a failure only if a fetch that failed in that very    *)
(* way was reported during its own call: an error is never remembered      *)
(* beyond the flight that met it, and the next call tries again            *)
(* (sigstore.go:119).                                                      *)
FailuresAreNotCached ==
  \A c \in Caller : got[c].what \in {"failed", "deadline"} => got[c].what \in failing[c]

(* Who gives up gives up alone.  What the attestation walk would take for  *)
(* the end of its caller's context (attestation.go:102, 311) is that of    *)
(* this very caller, or the fetch it shared has had its whole timeout by   *)
(* the time it returns, counted from no earlier than its call or the       *)
(* flight it joined: the cancellation or the shorter deadline of the       *)
(* caller that started the fetch, and the deadline of an earlier fetch, do *)
(* not reach it (sigstore.go:119-120, 138, 157-168).                       *)
CancelIsOnesOwn ==
  \A c \in Caller :
    got[c].what \in {"cancelled", "deadline"} /\ ~ctxDone[c] => now >= since[c] + Timeout

(* If fetches end, every call returns: no waiter is forgotten by a flight  *)
(* it joined at the last moment (sigstore.go:137-145).                     *)
CallsReturn ==
  FlightsEnd => \A c \in Caller : pc[c] # "idle" ~> pc[c] = "idle"

(* A caller whose context is done returns even if the fetch it waits for   *)
(* never does (sigstore.go:138).                                           *)
CancelReturns ==
  \A c \in Caller : pc[c] = "waiting" /\ ctxDone[c] ~> pc[c] = "idle"

=============================================================================
