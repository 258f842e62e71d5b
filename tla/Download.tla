------------------------------ MODULE Download ------------------------------
(***************************************************************************)
(* downloadToFile (http.go): one release asset is fetched, through         *)
(* redirects, into a file.  The client has no overall timeout; an idle     *)
(* timer, armed before the request and again around every read of the      *)
(* body, cancels the request instead.  The server and the network do what  *)
(* they like, the clock runs, and the timer's function runs some time      *)
(* after the timer expires.                                                *)
(***************************************************************************)
EXTENDS Naturals

CONSTANTS
  Limit,     \* maxArchiveBytes
  MaxError,  \* maxErrorBytes
  MaxVia,    \* requests a redirect may come after: 10 in the code
  MaxBody,   \* bound: the longest body a server sends
  Idle       \* downloadIdleTimeout

ASSUME LimitAssumption ==
  /\ Limit \in Nat /\ MaxError \in Nat /\ MaxBody \in Nat /\ MaxVia \in Nat
  /\ Idle \in Nat \ {0}

(***************************************************************************)
(* A response: whether its status is 2xx, the length of its body, whether  *)
(* its bytes are those of the published archive, and how the body ends:    *)
(* after Content-Length bytes, with a last chunk, or when the connection   *)
(* is closed.                                                              *)
(***************************************************************************)
Response == [success : BOOLEAN, size : 0 .. MaxBody, published : BOOLEAN,
             ends : {"length", "chunk", "close"}]
NoResponse == [success |-> FALSE, size |-> 0, published |-> FALSE, ends |-> "close"]

VARIABLES
  pc,       \* what the download does next
  via,      \* requests made so far
  response,
  read,     \* bytes of the body the loop has read
  written,  \* bytes of the body in the file
  result,   \* what downloadToFile returned
  timer,    \* time left until the idle timer expires, 0 when not running
  due,      \* the timer has expired, its function has yet to run
  stalled,  \* the timer's function has cancelled the request
  caller,   \* the caller's context is done
  quiet,    \* history: time since a byte of the body, or the start
  waited    \* history: the quiet time before the byte being reported

clock == <<timer, due, stalled, caller, quiet, waited>>
vars == <<pc, via, response, read, written, result, clock>>

Init ==
  /\ pc = "begin" /\ via = 0 /\ response = NoResponse
  /\ read = 0 /\ written = 0 /\ result = "none"
  /\ timer = 0 /\ due = FALSE /\ stalled = FALSE /\ caller = FALSE
  /\ quiet = 0 /\ waited = 0

CtxDone == caller \/ stalled

(* downloadToFile returns: the deferred functions stop the timer and       *)
(* cancel the request, and its locals are gone.                            *)
Return(outcome) ==
  /\ pc' = "returned" /\ result' = outcome
  /\ via' = 0 /\ read' = 0
  /\ timer' = 0 /\ due' = FALSE /\ stalled' = FALSE /\ quiet' = 0 /\ waited' = 0
  /\ UNCHANGED <<response, written, caller>>

(* Mutated: the idle timer is armed for the body only.                     *)
BeginUntimed ==
  /\ pc = "begin"
  /\ pc' = "request" /\ via' = 1
  /\ UNCHANGED <<response, read, written, result, clock>>

Begin ==
  /\ pc = "begin"
  /\ pc' = "request" /\ via' = 1
  /\ timer' = Idle /\ quiet' = 0
  /\ UNCHANGED <<response, read, written, result, due, stalled, caller, waited>>

(* client.Do follows a redirect that assetRedirectAllowed allows.          *)
Redirect ==
  /\ pc = "request" /\ via < MaxVia
  /\ via' = via + 1
  /\ UNCHANGED <<pc, response, read, written, result, clock>>

(* client.Do fails: no answer, a redirect refused or one too many.         *)
RequestFails == pc = "request" /\ Return("failed")

Respond ==
  /\ pc = "request"
  /\ response' \in Response
  /\ pc' = IF ~response'.success THEN "message"
           ELSE IF response'.ends = "length" /\ response'.size > Limit
                THEN "refuse" ELSE "loop"
  /\ UNCHANGED <<via, read, written, result, clock>>

(* Content-Length exceeds the limit.                                       *)
Refuse == pc = "refuse" /\ Return("failed")

(* A byte of the message of an error response: nothing resets the timer.   *)
Message ==
  /\ pc = "message" /\ read < MaxError + 1 /\ read < response.size
  /\ read' = read + 1
  /\ UNCHANGED <<pc, via, response, written, result, clock>>

MessageEnds ==
  /\ pc = "message" /\ read = MaxError + 1
  /\ Return("failed")

(* The end of the message, or of the connection.                           *)
MessageStops == pc = "message" /\ Return("failed")

(* Mutated: the body is read without a LimitReader.                        *)
MoreAlways == TRUE

(* Mutated: the LimitReader stops at the limit.                            *)
MoreExact == read < Limit

(* The LimitReader lets one byte more than the limit through.              *)
More == read < Limit + 1

(* io.Copy asks for bytes: the idleTimeoutReader resets the timer and      *)
(* reads the body.                                                         *)
StartRead ==
  /\ pc = "loop" /\ More
  /\ pc' = "reading" /\ timer' = Idle
  /\ UNCHANGED <<via, response, read, written, result, due, stalled, caller, quiet,
                 waited>>

(* Bytes arrive; some may have been received before the context was done.  *)
Receive ==
  /\ pc = "reading" /\ read < response.size
  /\ read' = read + 1
  /\ pc' = "report" /\ quiet' = 0 /\ waited' = quiet
  /\ UNCHANGED <<via, response, written, result, timer, due, stalled, caller>>

(* Mutated: the timer is not reset after the read.                         *)
ReportOnOldTimer ==
  /\ pc = "report"
  /\ pc' = "write" /\ waited' = 0
  /\ UNCHANGED <<via, response, read, written, result, timer, due, stalled, caller,
                 quiet>>

(* The progress callback, which the countingReader calls inside the timed  *)
(* read, has returned, and the idleTimeoutReader resets the timer again.   *)
Report ==
  /\ pc = "report"
  /\ pc' = "write" /\ timer' = Idle /\ waited' = 0
  /\ UNCHANGED <<via, response, read, written, result, due, stalled, caller, quiet>>

(* The file and the hash get the bytes.                                    *)
Write ==
  /\ pc = "write"
  /\ written' = read
  /\ pc' = "loop"
  /\ UNCHANGED <<via, response, read, result, clock>>

WriteFails == pc = "write" /\ Return("failed")

(* The body ends where it should, or where the connection is closed and    *)
(* nothing tells the difference.                                           *)
EndOfBody ==
  /\ pc = "reading"
  /\ read = response.size \/ response.ends = "close"
  /\ Return(IF written > Limit THEN "failed" ELSE "ok")

(* The connection breaks, and the body has an end that did not come.       *)
BodyFails == pc = "reading" /\ Return("failed")

(* The LimitReader has no bytes left: the body is too long.                *)
LimitReached ==
  /\ pc = "loop" /\ ~More
  /\ Return(IF written > Limit THEN "failed" ELSE "ok")

(* A request or a read is cut short because its context is done.           *)
Interrupted ==
  /\ pc \in {"request", "message", "reading"} /\ CtxDone
  /\ Return("failed")

-----------------------------------------------------------------------------
Running == pc \notin {"begin", "returned"}

Tick ==
  /\ Running
  /\ quiet' = IF quiet < Idle THEN quiet + 1 ELSE quiet
  /\ timer' = IF timer = 0 THEN 0 ELSE timer - 1
  /\ due' = (due \/ timer = 1)
  /\ UNCHANGED <<pc, via, response, read, written, result, stalled, caller, waited>>

TimerFires ==
  /\ due
  /\ due' = FALSE /\ stalled' = TRUE
  /\ UNCHANGED <<pc, via, response, read, written, result, timer, caller, quiet,
                 waited>>

Cancel ==
  /\ Running /\ ~caller
  /\ caller' = TRUE
  /\ UNCHANGED <<pc, via, response, read, written, result, timer, due, stalled, quiet,
                 waited>>

(* What the download does by itself.                                       *)
Step ==
  Begin \/ Refuse \/ MessageEnds \/ StartRead \/ Report \/ Write
  \/ LimitReached \/ Interrupted

(* What comes from the network and the disk, if it comes.                  *)
World ==
  Redirect \/ RequestFails \/ Respond \/ Message \/ MessageStops \/ Receive
  \/ WriteFails \/ EndOfBody \/ BodyFails

Next == Step \/ World \/ Tick \/ TimerFires \/ Cancel

-----------------------------------------------------------------------------
(* A download that succeeds has written the whole body and no more than    *)
(* the limit, unless only the end of the connection marks the body's end   *)
(* and it came early: an oversized body is refused, not cut to the limit   *)
(* (http.go:288, 305-309).                                                 *)
WholeOrRefused ==
  result = "ok" =>
    /\ written <= Limit
    /\ written = response.size \/ response.ends = "close"

InBody == pc \in {"loop", "reading", "report", "write"}

(* While a body is read the idle timer never expires before an idle        *)
(* timeout has gone by since a byte came: the last one or, while the       *)
(* callback has the last one and the second reset is still to come, the    *)
(* one before it.  However many short waits, callbacks and writes a long   *)
(* download has, they do not add up to a stall; one wait and the callback  *)
(* after it do, and so does one long write (http.go:220-225, 234-243).     *)
TimerMeansSilence ==
  [][~due /\ due' /\ InBody => waited' + quiet' >= Idle]_vars

(* What README.md:161 and http.go:213-215 say: a download stops after an   *)
(* idle timeout without progress.  The callback runs inside the timed      *)
(* read, so that a wait and a callback which are each shorter than that    *)
(* stop it together, however recently bytes came (http.go:222-223, 240).   *)
StallMeansSilence ==
  [][~due /\ due' /\ InBody => quiet' = Idle]_vars
=============================================================================
