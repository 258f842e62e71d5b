---------------------------- MODULE FetchProofs ----------------------------
(***************************************************************************)
(* Of a fetch, what Download and Extract promise: for every limit and      *)
(* every idle timeout, whatever the server sends and whenever the clock    *)
(* ticks; for archives of any number of members of any sizes.              *)
(***************************************************************************)
EXTENDS Fetch, Sequences, FiniteSetTheorems, SequenceTheorems, TLAPS

Phase == {"begin", "request", "refuse", "message", "loop", "reading", "report",
          "write", "returned"}

Typed ==
  /\ pc \in Phase /\ response \in Response
  /\ read \in Nat /\ written \in Nat
  /\ timer \in 0 .. Idle /\ quiet \in 0 .. Idle /\ due \in BOOLEAN
  /\ waited \in 0 .. Idle

(* Between two reads everything that was read is in the file.              *)
Counts ==
  /\ pc \in {"begin", "request", "loop", "reading"} => written = read
  /\ pc \in {"begin", "request"} => read = 0
  /\ pc \in {"loop", "reading", "report", "write"} => read <= response.size

(* The timer was reset no earlier than the last byte came; while the       *)
(* callback runs, no earlier than the byte before it did.                  *)
TimerLags ==
  /\ timer > 0 => waited + quiet + timer >= Idle
  /\ pc # "report" => waited = 0

Inv ==
  /\ Typed /\ Counts /\ TimerLags
  /\ WholeOrRefused
  /\ result = "ok" => pc = "returned"

USE LimitAssumption DEF clock, Phase

-----------------------------------------------------------------------------
(* A fetch starts with no byte and a fresh timer.                          *)
LEMMA InitInv == FetchInit => Inv
<1> SUFFICES ASSUME FetchInit PROVE Inv
    OBVIOUS
<1>0. 0 \in 0 .. Idle
    OBVIOUS
<1>1. NoResponse \in Response
    BY DEF NoResponse, Response
<1>2. Typed
    BY <1>0, <1>1 DEF FetchInit, Init, Typed
<1>3. QED
    BY <1>2 DEF FetchInit, Init, Inv, Counts, TimerLags, WholeOrRefused

(* A failed return keeps the invariant, and so does one that succeeds with *)
(* a body within the limit that is whole or that nothing says is not.      *)
LEMMA ReturnStep ==
  ASSUME NEW answer, Inv, Return(answer),
         answer = "ok" =>
           written <= Limit /\ (written = response.size \/ response.ends = "close")
  PROVE  Inv'
<1>0. 0 \in 0 .. Idle
    OBVIOUS
<1>1. Typed'
    BY <1>0 DEF Inv, Typed, Return
<1>2. Counts' /\ TimerLags'
    BY DEF Return, Counts, TimerLags
<1>3. result' = answer /\ pc' = "returned" /\ UNCHANGED <<written, response>>
    BY DEF Return
<1>4. WholeOrRefused'
    BY <1>3 DEF WholeOrRefused
<1>5. QED
    BY <1>1, <1>2, <1>3, <1>4 DEF Inv

(* The program's own steps.                                                *)
LEMMA StepInv == Inv /\ Step => Inv'
<1> SUFFICES ASSUME Inv, Step PROVE Inv'
    OBVIOUS
<1> USE DEF Inv, Typed, Counts, TimerLags, WholeOrRefused
<1>1. CASE Begin
    BY <1>1 DEF Begin
<1>2. CASE Refuse \/ MessageEnds \/ Interrupted
    BY <1>2, ReturnStep DEF Refuse, MessageEnds, Interrupted
<1>3. CASE StartRead
    BY <1>3 DEF StartRead
<1>4. CASE Report \/ Write
    BY <1>4 DEF Report, Write
<1>5. CASE LimitReached
    <2>1. written > Limit
        BY <1>5 DEF LimitReached, More
    <2>2. Return("failed")
        BY <1>5, <2>1 DEF LimitReached
    <2>3. QED
        BY <2>2, ReturnStep
<1>6. QED
    BY <1>1, <1>2, <1>3, <1>4, <1>5 DEF Step

(* The steps of the network and the disk.                                  *)
LEMMA WorldInv == Inv /\ World => Inv'
<1> SUFFICES ASSUME Inv, World PROVE Inv'
    OBVIOUS
<1> USE DEF Inv, Typed, Counts, TimerLags, WholeOrRefused
<1>1. CASE Redirect
    BY <1>1 DEF Redirect
<1>2. CASE RequestFails \/ MessageStops \/ WriteFails \/ BodyFails
    BY <1>2, ReturnStep DEF RequestFails, MessageStops, WriteFails, BodyFails
<1>3. CASE Respond
    BY <1>3 DEF Respond, Response
<1>4. CASE Message
    BY <1>4 DEF Message
<1>5. CASE Receive
    <2>1. /\ pc = "reading" /\ pc' = "report" /\ read' = read + 1
          /\ read < response.size /\ read <= response.size
          /\ quiet' = 0 /\ waited' = quiet /\ waited' + quiet' = quiet
          /\ UNCHANGED <<response, written, result, timer, due>>
        BY <1>5 DEF Receive
    <2>2. response.size \in Nat
        BY DEF Response
    <2>3. Typed' /\ Counts'
        BY <2>1, <2>2
    <2>4. TimerLags'
        <3>1. waited \in Nat /\ (timer > 0 => waited + quiet + timer >= Idle)
            OBVIOUS
        <3>2. waited = 0
            BY <2>1
        <3>3. QED
            BY <2>1, <3>1, <3>2
    <2>5. QED
        BY <2>1, <2>3, <2>4
<1>6. CASE EndOfBody
    <2>1. written = response.size \/ response.ends = "close"
        BY <1>6 DEF EndOfBody
    <2>2. CASE written > Limit
        <3>1. Return("failed")
            BY <1>6, <2>2 DEF EndOfBody
        <3>2. QED
            BY <3>1, ReturnStep
    <2>3. CASE ~(written > Limit)
        <3>1. Return("ok") /\ written <= Limit
            BY <1>6, <2>3 DEF EndOfBody
        <3>2. QED
            BY <2>1, <3>1, ReturnStep
    <2>4. QED
        BY <2>2, <2>3
<1>7. QED
    BY <1>1, <1>2, <1>3, <1>4, <1>5, <1>6 DEF World

(* Time passes for the timer only while it runs.                           *)
LEMMA TickInv == Inv /\ Tick => Inv'
  BY DEF Inv, Typed, Counts, TimerLags, WholeOrRefused, Tick

(* The clock, the timer's function and the caller's context.               *)
LEMMA NextInv == Inv /\ [FetchNext]_fvars => Inv'
<1> SUFFICES ASSUME Inv, [FetchNext]_fvars PROVE Inv'
    OBVIOUS
<1> USE DEF Inv, Typed, Counts, TimerLags, WholeOrRefused
<1>1. CASE TimerFires \/ Cancel \/ CancelExtraction
    BY <1>1 DEF TimerFires, Cancel, CancelExtraction
<1>2. CASE UNCHANGED vars
    BY <1>2 DEF vars
<1>3. QED
    BY <1>1, <1>2, StepInv, WorldInv, TickInv
    DEF FetchNext, Downloading, Extracting, Next, fvars

-----------------------------------------------------------------------------
(* The file is as long as was read, and the timer no older than the last   *)
(* byte, or the one before it while the last is reported, throughout every *)
(* fetch (http.go:220-225, 234-243, 252-315).                              *)
THEOREM FetchInvariant == FetchSpec => []Inv
<1>1. QED
    BY InitInv, NextInv, PTL DEF FetchSpec

(* A download is whole and within the limit, or refused (http.go:305-311). *)
THEOREM DownloadsAreWhole == FetchSpec => []WholeOrRefused
<1>1. Inv => WholeOrRefused
    BY DEF Inv
<1>2. QED
    BY <1>1, FetchInvariant, PTL

(* The idle timer expires only when an idle timeout has gone by since a    *)
(* byte came, the last one or, while the callback has that, the one before *)
(* it (http.go:220-225, 234-243).                                          *)
THEOREM TimersMeanSilence == FetchSpec => TimerMeansSilence
<1> DEFINE Silent ==
      ~due /\ due' /\ InBody => waited' + quiet' >= Idle
<1>1. ASSUME Inv, [FetchNext]_fvars PROVE [Silent]_vars
    <2>1. CASE Tick
        BY <1>1, <2>1 DEF Inv, Typed, TimerLags, Tick
    <2>2. CASE Step
        <3>1. due' => due
            BY <2>2, <1>1 DEF Step, Begin, Refuse, MessageEnds, StartRead,
               Report, Write, LimitReached, Interrupted, Return, Inv, Typed
        <3>2. QED
            BY <3>1
    <2>3. CASE World
        <3>1. due' => due
            BY <2>3, <1>1 DEF World, Redirect, RequestFails, Respond, Message,
               MessageStops, Receive, WriteFails, EndOfBody, BodyFails, Return,
               Inv, Typed
        <3>2. QED
            BY <3>1
    <2>4. CASE TimerFires \/ Cancel \/ CancelExtraction
        BY <2>4 DEF TimerFires, Cancel, CancelExtraction
    <2>5. CASE UNCHANGED vars
        BY <2>5
    <2>6. QED
        BY <1>1, <2>1, <2>2, <2>3, <2>4, <2>5
        DEF FetchNext, Downloading, Extracting, Next, fvars
<1>2. QED
    BY <1>1, FetchInvariant, PTL DEF FetchSpec, TimerMeansSilence

-----------------------------------------------------------------------------
(* The extraction.  What the loop has looked at when it comes to a member. *)

Members == archive.members

(* A tar reader cannot tell a member's data from what its header declares. *)
Readable ==
  /\ archive.format \in {"tar", "zip"}
  /\ Members \in Seq(E!Member)
  /\ archive.format = "tar" =>
       \A i \in 1 .. Len(Members) : Members[i].actual = Members[i].declared

Untouched == index = 1 /\ budget = MaxExpanded + 1 /\ staged = <<>> /\ outcome = "none"

(* Before the member at index nothing has the executable's name, or the    *)
(* one member that is staged.                                              *)
IsExecutable(m) ==
  /\ m.name = "root" /\ m.regular
  /\ m.declared \in 1 .. MaxBinary /\ m.actual = m.declared

FoundOnce ==
  \/ /\ staged = <<>>
     /\ \A j \in 1 .. index - 1 : Members[j].name = "other"
  \/ \E i \in 1 .. index - 1 :
       /\ staged = <<i>> /\ IsExecutable(Members[i])
       /\ \A j \in 1 .. index - 1 : j # i => Members[j].name = "other"

(* What is left of the limit is what the members before index did not use. *)
BudgetLeft ==
  archive.format = "tar" =>
    budget + Cardinality(E!Units(archive, index - 1)) = MaxExpanded + 1

EInv ==
  /\ step \in {"open", "next", "returned"}
  /\ Readable
  /\ index \in 1 .. Len(Members) + 1 /\ budget \in Nat
  /\ step = "open" => Untouched
  /\ step = "next" => outcome = "none"
  /\ FoundOnce /\ BudgetLeft
  /\ ExtractsExactly

-----------------------------------------------------------------------------
(* The units of a stream.  The sum of the members' sizes is the number of  *)
(* their units, so that one more member adds its own and no prefix has     *)
(* more than the whole.                                                    *)

(* What the first k members take is finite, and the k-th takes its header  *)
(* and its data (maxExpandedArchiveBytes counts what tarReader.Next reads).*)
LEMMA UnitsOfMembers ==
  ASSUME NEW a, a.members \in Seq(E!Member), NEW k \in 0 .. Len(a.members)
  PROVE  /\ IsFiniteSet(E!Units(a, k)) /\ Cardinality(E!Units(a, k)) \in Nat
         /\ k = 0 => Cardinality(E!Units(a, k)) = 0
         /\ k > 0 => Cardinality(E!Units(a, k)) =
                       Cardinality(E!Units(a, k - 1)) + 1 + a.members[k].declared
<1> USE SizeAssumption
<1>1. ASSUME NEW n \in 0 .. Len(a.members)
      PROVE  IsFiniteSet(E!Units(a, n)) /\ Cardinality(E!Units(a, n)) \in Nat
    <2>1. IsFiniteSet(1 .. n) /\ IsFiniteSet(E!Size)
        BY FS_Interval DEF E!Size
    <2>2. IsFiniteSet((1 .. n) \X E!Size)
        BY <2>1, FS_Product
    <2>3. E!Units(a, n) \in SUBSET ((1 .. n) \X E!Size)
        BY DEF E!Units
    <2>4. QED
        BY <2>2, <2>3, FS_Subset, FS_CardinalityType
<1>2. CASE k = 0
    <2>1. E!Units(a, k) = {}
        BY <1>2 DEF E!Units
    <2>2. QED
        BY <1>1, <1>2, <2>1, FS_EmptySet
<1>3. CASE k > 0
    <2> DEFINE d == a.members[k].declared
               Own == {k} \X (0 .. d)
    <2>1. k - 1 \in 0 .. Len(a.members) /\ k \in 1 .. Len(a.members)
        BY <1>3
    <2>2. a.members[k] \in E!Member
        BY <2>1
    <2>3. d \in 0 .. MaxBinary + 1
        BY <2>2 DEF E!Member, E!Size
    <2>4. E!Units(a, k) = E!Units(a, k - 1) \cup Own
        <3>1. ASSUME NEW u \in E!Units(a, k) PROVE u \in E!Units(a, k - 1) \cup Own
            <4>1. /\ u = <<u[1], u[2]>> /\ u[1] \in 1 .. k /\ u[2] \in E!Size
                  /\ u[2] <= a.members[u[1]].declared
                BY DEF E!Units
            <4>2. CASE u[1] = k
                BY <4>1, <4>2, <2>3 DEF E!Size
            <4>3. CASE u[1] # k
                <5>1. u[1] \in 1 .. k - 1
                    BY <4>1, <4>3
                <5>2. QED
                    BY <4>1, <5>1 DEF E!Units
            <4>4. QED
                BY <4>2, <4>3
        <3>2. ASSUME NEW u \in Own PROVE u \in E!Units(a, k)
            BY <2>1, <2>3 DEF E!Units, E!Size
        <3>3. ASSUME NEW u \in E!Units(a, k - 1) PROVE u \in E!Units(a, k)
            BY <2>1 DEF E!Units
        <3>4. QED
            BY <3>1, <3>2, <3>3
    <2>5. E!Units(a, k - 1) \cap Own = {}
        BY <2>1 DEF E!Units
    <2>6. IsFiniteSet(Own) /\ Cardinality(Own) = d + 1
        <3> HIDE DEF d
        <3>0. 0 \in Int /\ d \in Int /\ ~(0 > d) /\ d - 0 + 1 = d + 1
            BY <2>3
        <3>1. IsFiniteSet(0 .. d) /\ Cardinality(0 .. d) = d + 1
            BY <3>0, FS_Interval
        <3>2. IsFiniteSet({k}) /\ Cardinality({k}) = 1
            BY FS_Singleton
        <3>3. IsFiniteSet(Own) /\ Cardinality(Own) = 1 * (d + 1)
            BY <3>1, <3>2, FS_Product
        <3>4. QED
            BY <3>3, <2>3
    <2>7. Cardinality(E!Units(a, k)) =
            Cardinality(E!Units(a, k - 1)) + Cardinality(Own) - Cardinality({})
        <3>1. IsFiniteSet(E!Units(a, k - 1))
            BY <1>1, <2>1
        <3>2. QED
            BY <2>4, <2>5, <2>6, <3>1, FS_Union
    <2>8. Cardinality({}) = 0
        BY FS_EmptySet
    <2> HIDE DEF Own
    <2>9. QED
        <3> HIDE DEF d
        <3>0. d \in Nat /\ Cardinality(Own) = d + 1
            BY <2>3, <2>6
        <3>1. Cardinality(E!Units(a, k - 1)) \in Nat
            BY <1>1, <2>1
        <3>2. Cardinality(E!Units(a, k)) = Cardinality(E!Units(a, k - 1)) + 1 + d
            BY <2>7, <2>8, <3>0, <3>1
        <3>3. IsFiniteSet(E!Units(a, k)) /\ Cardinality(E!Units(a, k)) \in Nat
            BY <1>1
        <3>4. QED
            BY <1>3, <3>2, <3>3 DEF d
<1>4. QED
    BY <1>2, <1>3

(* The counting that Extract was instantiated with is the one the facts on *)
(* finite sets are about (archive.go's sizes are counted once).            *)
LEMMA SameCardinality == \A S : E!Cardinality(S) = Cardinality(S)
  BY DEF E!Cardinality, Cardinality

(* No prefix of an archive takes more than the whole, whose end is one     *)
(* unit more.                                                              *)
LEMMA PrefixWithinWhole ==
  ASSUME NEW a, a.members \in Seq(E!Member), NEW k \in 0 .. Len(a.members)
  PROVE  /\ Cardinality(E!Units(a, k)) + 1 <= E!Expanded(a)
         /\ E!Expanded(a) = Cardinality(E!Units(a, Len(a.members))) + 1
<1>1. Len(a.members) \in Nat /\ Len(a.members) \in 0 .. Len(a.members)
    OBVIOUS
<1>2. /\ IsFiniteSet(E!Units(a, Len(a.members)))
      /\ Cardinality(E!Units(a, Len(a.members))) \in Nat
    BY <1>1, UnitsOfMembers
<1>3. E!Units(a, k) \in SUBSET E!Units(a, Len(a.members))
    BY <1>1 DEF E!Units
<1>4. Cardinality(E!Units(a, k)) <= Cardinality(E!Units(a, Len(a.members)))
    BY <1>2, <1>3, FS_Subset
<1>5. Cardinality(E!Units(a, k)) \in Nat
    BY UnitsOfMembers
<1>6. QED
    BY <1>2, <1>4, <1>5, SameCardinality DEF E!Expanded

-----------------------------------------------------------------------------
(* The loop.                                                               *)

(* Nothing is staged, and the loop is at the first member.                 *)
LEMMA InitEInv == FetchInit => EInv
<1> SUFFICES ASSUME FetchInit PROVE EInv
    OBVIOUS
<1>1. /\ step = "open" /\ Untouched
      /\ archive.format = "tar" /\ Members = <<>> /\ budget = MaxExpanded + 1
    BY DEF FetchInit, E!Init, Untouched, Members
<1>2. Members \in Seq(E!Member) /\ Len(Members) = 0 /\ 0 \in 0 .. Len(Members)
    BY <1>1
<1>3. Cardinality(E!Units(archive, 0)) = 0
    BY <1>2, UnitsOfMembers DEF Members
<1>4. BudgetLeft
    BY <1>1, <1>3, SizeAssumption DEF BudgetLeft, Untouched
<1>5. QED
    BY <1>1, <1>2, <1>4, SizeAssumption
    DEF EInv, Readable, Untouched, FoundOnce, ExtractsExactly, E!ExtractsExactly

(* Opening an archive: its members are looked at from the first.           *)
LEMMA OpenStep == EInv /\ E!Open => EInv'
<1> SUFFICES ASSUME EInv, E!Open PROVE EInv'
    OBVIOUS
<1>1. /\ step' = "next"
      /\ index = 1 /\ budget = MaxExpanded + 1 /\ staged = <<>> /\ outcome = "none"
      /\ UNCHANGED <<index, budget, staged, outcome>>
    BY DEF E!Open, EInv, Untouched
<1>2. PICK format \in {"tar", "zip"} : archive' \in E!Archive(format)
    BY DEF E!Open
<1>3. PICK n \in 0 .. MaxMembers : Members' \in [1 .. n -> E!Members(format)]
    BY <1>2 DEF E!Archive, Members
<1>4. archive'.format = format
    BY <1>2 DEF E!Archive
<1>5. n \in Nat /\ E!Members(format) \subseteq E!Member
    BY <1>3, SizeAssumption DEF E!Members
<1>6. Members' \in Seq(E!Member) /\ Len(Members') = n /\ n \in Nat
    BY <1>3, <1>5
<1>7. Readable'
    <2>1. ASSUME format = "tar", NEW i \in 1 .. n
          PROVE  Members'[i].actual = Members'[i].declared
        <3>1. Members'[i] \in E!Members(format)
            BY <1>3
        <3>2. QED
            BY <2>1, <3>1 DEF E!Members
    <2>2. QED
        BY <1>2, <1>4, <1>6, <2>1 DEF Readable
<1>8. Cardinality(E!Units(archive', 0)) = 0
    <2>1. archive'.members \in Seq(E!Member) /\ 0 \in 0 .. Len(archive'.members)
        BY <1>6 DEF Members
    <2>2. QED
        BY <2>1, UnitsOfMembers
<1>9. BudgetLeft'
    <2>1. index' - 1 = 0
        BY <1>1
    <2>2. BudgetLeft' <=> (archive'.format = "tar" =>
             budget' + Cardinality(E!Units(archive', index' - 1)) = MaxExpanded + 1)
        BY DEF BudgetLeft
    <2>3. QED
        BY <1>1, <1>8, <2>1, <2>2, SizeAssumption
<1>10. index' \in 1 .. Len(Members') + 1
    BY <1>1, <1>6
<1>11. FoundOnce'
    BY <1>1 DEF FoundOnce
<1>12. ExtractsExactly'
    BY <1>1 DEF ExtractsExactly, E!ExtractsExactly
<1>13. QED
    BY <1>1, <1>7, <1>9, <1>10, <1>11, <1>12, SizeAssumption DEF EInv

(* The member at index is one the archive has.                             *)
LEMMA CurrentMember ==
  ASSUME EInv, E!More
  PROVE  /\ index \in 1 .. Len(Members) /\ index - 1 \in 0 .. Len(Members)
         /\ E!Current = Members[index] /\ E!Current \in E!Member
         /\ E!Current.declared \in Nat
<1>1. Len(Members) \in Nat /\ index \in 1 .. Len(Members)
    BY DEF EInv, Readable, E!More, Members
<1>2. E!Current = Members[index] /\ E!Current \in E!Member
    BY <1>1 DEF EInv, Readable, E!Current, Members
<1>3. QED
    BY <1>1, <1>2, SizeAssumption DEF E!Member, E!Size

(* A member that is skipped or taken leaves at most one member found.      *)
LEMMA LookedAt ==
  ASSUME EInv, E!More, UNCHANGED archive,
         \/ E!Skip(E!Current)
         \/ E!Take(E!Current) /\ E!Current.actual = E!Current.declared
  PROVE  FoundOnce' /\ index' = index + 1
<1>1. /\ index \in 1 .. Len(Members) /\ E!Current = Members[index]
      /\ Members' = Members /\ index' = index + 1
    BY CurrentMember DEF Members, E!Skip, E!Take
<1>2. 1 .. index' - 1 = (1 .. index - 1) \cup {index}
    BY <1>1
<1>3. CASE E!Skip(E!Current)
    <2>1. staged' = staged /\ Members[index].name = "other"
        BY <1>1, <1>3 DEF E!Skip
    <2>2. QED
        BY <1>1, <1>2, <2>1 DEF EInv, FoundOnce
<1>4. CASE E!Take(E!Current) /\ E!Current.actual = E!Current.declared
    <2>1. staged = <<>> /\ staged' = <<index>>
        BY <1>4 DEF E!Take, E!Accepts, E!found
    <2>2. IsExecutable(Members[index])
        BY <1>1, <1>4 DEF E!Take, E!Accepts, IsExecutable
    <2>3. \A j \in 1 .. index - 1 : Members[j].name = "other"
        BY <2>1 DEF EInv, FoundOnce
    <2>4. QED
        BY <1>1, <1>2, <2>1, <2>2, <2>3 DEF FoundOnce
<1>5. QED
    BY <1>1, <1>3, <1>4

(* Past the last member, the one that is staged is the only one of the     *)
(* executable's name, or there is none.                                    *)
LEMMA AllLookedAt ==
  ASSUME EInv, ~E!More
  PROVE  /\ index = Len(Members) + 1
         /\ E!found => /\ Len(staged) = 1 /\ staged[1] \in DOMAIN Members
                       /\ IsExecutable(Members[staged[1]])
                       /\ \A j \in DOMAIN Members \ {staged[1]} : Members[j].name = "other"
         /\ ~E!found => \A i \in DOMAIN Members : ~E!Proper(archive, i)
<1>1. Len(Members) \in Nat /\ DOMAIN Members = 1 .. Len(Members)
    BY DEF EInv, Readable
<1>2. index = Len(Members) + 1
    BY <1>1 DEF EInv, E!More, Members
<1>3. DOMAIN Members = 1 .. index - 1
    BY <1>1, <1>2
<1>4. CASE E!found
    <2>1. PICK i \in 1 .. index - 1 :
             /\ staged = <<i>> /\ IsExecutable(Members[i])
             /\ \A j \in 1 .. index - 1 : j # i => Members[j].name = "other"
        BY <1>4 DEF EInv, FoundOnce, E!found
    <2>2. QED
        BY <1>2, <1>3, <1>4, <2>1
<1>5. CASE ~E!found
    <2>1. \A j \in DOMAIN Members : Members[j].name = "other"
        BY <1>3, <1>5 DEF EInv, FoundOnce, E!found
    <2>2. QED
        BY <1>2, <1>5, <2>1 DEF E!Proper, Members
<1>6. QED
    BY <1>4, <1>5

(* A return keeps what was found, and its answer is the right one.         *)
LEMMA AnswerStep ==
  ASSUME EInv, NEW what, E!Return(what),
         what = "ok" => Len(staged) = 1 /\ E!Proper(archive, staged[1]),
         what = "refused" => \A i \in DOMAIN Members : ~E!Proper(archive, i)
  PROVE  EInv'
<1>1. /\ step' = "returned" /\ outcome' = what
      /\ UNCHANGED <<archive, index, budget, staged>>
    BY DEF E!Return
<1>2. ExtractsExactly'
    BY <1>1 DEF ExtractsExactly, E!ExtractsExactly, E!Proper, E!Expanded, E!Units, Members
<1>3. Members' = Members /\ Readable' /\ FoundOnce' /\ BudgetLeft'
    BY <1>1 DEF EInv, Members, Readable, FoundOnce, BudgetLeft, E!Units
<1>4. QED
    BY <1>1, <1>2, <1>3 DEF EInv

(* What is left of a tar stream's limit tells how long it is so far; a     *)
(* proper archive leaves at least its end and one unit more.               *)
LEMMA LimitTells ==
  ASSUME EInv, archive.format = "tar"
  PROVE  /\ index - 1 \in 0 .. Len(Members)
         /\ \A i : E!Proper(archive, i) => budget > 1
         /\ ~E!More /\ budget > 1 => E!Expanded(archive) <= MaxExpanded
         /\ E!More => \A i : E!Proper(archive, i) => 1 + E!Current.declared < budget
<1> USE SizeAssumption
<1> DEFINE before == Cardinality(E!Units(archive, index - 1))
           whole == E!Expanded(archive)
<1>1. /\ Len(Members) \in Nat /\ index - 1 \in 0 .. Len(Members) /\ index \in Nat
      /\ Members \in Seq(E!Member) /\ budget \in Nat
    BY DEF EInv, Readable
<1>2. before \in Nat /\ before + 1 <= whole /\ budget + before = MaxExpanded + 1
    BY <1>1, UnitsOfMembers, PrefixWithinWhole DEF EInv, BudgetLeft, Members
<1>3. whole \in Nat
    <2>1. /\ Len(Members) \in 0 .. Len(Members)
          /\ whole = Cardinality(E!Units(archive, Len(Members))) + 1
        BY <1>1, PrefixWithinWhole DEF Members
    <2>2. Cardinality(E!Units(archive, Len(Members))) \in Nat
        BY <1>1, <2>1, UnitsOfMembers DEF Members
    <2>3. QED
        BY <2>1, <2>2
<1>4. \A i : E!Proper(archive, i) => whole <= MaxExpanded
    BY DEF E!Proper
<1>5. ~E!More => whole = before + 1
    <2>1. ~E!More => index - 1 = Len(Members)
        BY <1>1 DEF E!More, Members
    <2>2. QED
        BY <1>1, <2>1, PrefixWithinWhole DEF Members
<1>6. ASSUME E!More PROVE before + 2 + E!Current.declared <= whole
    <2>1. /\ index \in 0 .. Len(Members) /\ index > 0
          /\ E!Current = Members[index] /\ E!Current.declared \in Nat
        BY <1>1, <1>6, CurrentMember
    <2>2. Cardinality(E!Units(archive, index)) = before + 1 + E!Current.declared
        BY <1>1, <2>1, UnitsOfMembers DEF Members
    <2>3. Cardinality(E!Units(archive, index)) + 1 <= whole
        BY <1>1, <2>1, PrefixWithinWhole DEF Members
    <2>4. QED
        BY <1>2, <1>3, <2>1, <2>2, <2>3
<1>7. E!More => E!Current.declared \in Nat
    BY CurrentMember
<1> HIDE DEF before, whole
<1>8. \A i : E!Proper(archive, i) => budget > 1
    BY <1>1, <1>2, <1>3, <1>4
<1>9. ~E!More /\ budget > 1 => whole <= MaxExpanded
    BY <1>1, <1>2, <1>3, <1>5
<1>10. ASSUME E!More, NEW i, E!Proper(archive, i)
       PROVE  1 + E!Current.declared < budget
    BY <1>1, <1>2, <1>3, <1>4, <1>6, <1>7, <1>10
<1>11. QED
    BY <1>1, <1>8, <1>9, <1>10 DEF whole

(* The members of a tar archive, one header and its data after the other.  *)
LEMMA TarMemberStep == EInv /\ E!TarMember => EInv'
<1> SUFFICES ASSUME EInv, E!TarMember PROVE EInv'
    OBVIOUS
<1>1. /\ E!More /\ archive.format = "tar" /\ step = "next"
      /\ 1 + E!Current.declared <= budget
      /\ budget' = budget - (1 + E!Current.declared)
      /\ E!Skip(E!Current) \/ E!Take(E!Current)
      /\ UNCHANGED <<step, archive, outcome>>
    BY DEF E!TarMember, E!InLoop
<1>2. /\ index \in 1 .. Len(Members) /\ E!Current = Members[index]
      /\ E!Current.declared \in Nat /\ Members \in Seq(E!Member)
      /\ E!Current.actual = E!Current.declared
    BY <1>1, CurrentMember DEF EInv, Readable
<1>3. FoundOnce' /\ index' = index + 1
    BY <1>1, <1>2, LookedAt
<1>4. Members' = Members /\ Readable'
    BY <1>1 DEF EInv, Readable, Members
<1>5. budget' \in Nat
    BY <1>1, <1>2 DEF EInv
<1>6. BudgetLeft'
    <2>1. /\ index \in 0 .. Len(Members) /\ index > 0
          /\ index - 1 \in 0 .. Len(Members)
        BY <1>2
    <2>2. /\ Cardinality(E!Units(archive, index)) =
               Cardinality(E!Units(archive, index - 1)) + 1 + E!Current.declared
          /\ Cardinality(E!Units(archive, index - 1)) \in Nat
        BY <1>2, <2>1, UnitsOfMembers DEF Members
    <2>3. budget + Cardinality(E!Units(archive, index - 1)) = MaxExpanded + 1
        BY <1>1 DEF EInv, BudgetLeft
    <2>4. budget' + Cardinality(E!Units(archive, index)) = MaxExpanded + 1
        BY <1>1, <1>2, <2>2, <2>3 DEF EInv
    <2>5. archive' = archive /\ index' - 1 = index
        BY <1>1, <1>2, <1>3
    <2>6. E!Units(archive, index - 1)' = E!Units(archive, index)
        BY <2>5 DEF E!Units
    <2>7. QED
        BY <2>4, <2>5, <2>6 DEF BudgetLeft
<1>7. outcome' = outcome /\ archive' = archive
    BY <1>1
<1>8. ExtractsExactly'
    BY <1>1, <1>7 DEF EInv, ExtractsExactly, E!ExtractsExactly
<1>9. QED
    BY <1>1, <1>2, <1>3, <1>4, <1>5, <1>6, <1>8 DEF EInv

(* Neither the members of a zip archive nor its limits are counted.        *)
LEMMA ZIPMemberStep == EInv /\ E!ZIPMember => EInv'
<1> SUFFICES ASSUME EInv, E!ZIPMember PROVE EInv'
    OBVIOUS
<1>1. /\ E!More /\ archive.format = "zip" /\ step = "next"
      /\ E!Skip(E!Current) \/ (E!Take(E!Current) /\ E!Current.actual = E!Current.declared)
      /\ UNCHANGED <<step, archive, budget, outcome>>
    BY DEF E!ZIPMember, E!InLoop
<1>2. index \in 1 .. Len(Members) /\ Members' = Members
    BY <1>1, CurrentMember DEF Members
<1>3. FoundOnce' /\ index' = index + 1
    BY <1>1, LookedAt
<1>4. Readable' /\ BudgetLeft'
    BY <1>1, <1>2 DEF EInv, Readable, BudgetLeft
<1>5. ExtractsExactly'
    BY <1>1 DEF EInv, ExtractsExactly, E!ExtractsExactly
<1>6. QED
    BY <1>1, <1>2, <1>3, <1>4, <1>5 DEF EInv

(* A member of the executable's name that is not taken: no archive with it *)
(* is proper, for a proper one has no second and its only one is taken.    *)
LEMMA WrongMember ==
  ASSUME EInv, E!More, E!Current.name # "other",
         ~(E!Accepts(E!Current) /\ E!Current.actual = E!Current.declared)
  PROVE  \A i \in DOMAIN Members : ~E!Proper(archive, i)
<1> SUFFICES ASSUME NEW i \in DOMAIN Members, E!Proper(archive, i) PROVE FALSE
    OBVIOUS
<1>1. index \in 1 .. Len(Members) /\ E!Current = Members[index]
    BY CurrentMember
<1>2. DOMAIN Members = 1 .. Len(Members)
    BY DEF EInv, Readable
<1>3. i = index
    BY <1>1, <1>2 DEF E!Proper, Members
<1>4. E!found
    BY <1>1, <1>3 DEF E!Accepts, E!Proper, Members
<1>5. PICK j \in 1 .. index - 1 : Members[j].name = "root"
    BY <1>4 DEF EInv, FoundOnce, E!found, IsExecutable
<1>6. j \in DOMAIN Members \ {i}
    BY <1>1, <1>2, <1>3, <1>5
<1>7. QED
    BY <1>5, <1>6 DEF E!Proper, Members

(* Where the loops end.                                                    *)
LEMMA EndStep == EInv /\ (E!TarEnd \/ E!ZIPEnd) => EInv'
<1> SUFFICES ASSUME EInv, E!TarEnd \/ E!ZIPEnd PROVE EInv'
    OBVIOUS
<1> DEFINE left == IF budget = 0 THEN 0 ELSE budget - 1
           Alone == /\ Len(staged) = 1 /\ staged[1] \in DOMAIN Members
                    /\ IsExecutable(Members[staged[1]])
                    /\ \A j \in DOMAIN Members \ {staged[1]} : Members[j].name = "other"
<1>1. CASE E!TarEnd
    <2> DEFINE what == IF left > 0 /\ E!found THEN "ok" ELSE "refused"
    <2>1. /\ archive.format = "tar"
          /\ ~E!More \/ budget = 0
          /\ E!Return(what)
        BY <1>1 DEF E!TarEnd, E!InLoop, E!WithinLimit
    <2>2. budget \in Nat /\ (left > 0 <=> budget > 1)
        BY DEF EInv
    <2>3. ASSUME what = "ok"
          PROVE  Len(staged) = 1 /\ E!Proper(archive, staged[1])
        <3>1. budget > 1 /\ E!found /\ ~E!More
            BY <2>1, <2>2, <2>3
        <3>2. Alone /\ E!Expanded(archive) <= MaxExpanded
            BY <2>1, <3>1, AllLookedAt, LimitTells
        <3>3. QED
            BY <2>1, <3>2 DEF E!Proper, IsExecutable, Members
    <2>4. ASSUME what = "refused"
          PROVE  \A i \in DOMAIN Members : ~E!Proper(archive, i)
        <3>1. CASE ~(budget > 1)
            BY <2>1, <3>1, LimitTells
        <3>2. CASE budget > 1
            <4>1. ~E!found /\ ~E!More
                BY <2>1, <2>2, <2>4, <3>2
            <4>2. QED
                BY <4>1, AllLookedAt
        <3>3. QED
            BY <3>1, <3>2
    <2> HIDE DEF what
    <2>5. QED
        BY <2>1, <2>3, <2>4, AnswerStep
<1>2. CASE E!ZIPEnd
    <2> DEFINE what == IF E!found THEN "ok" ELSE "refused"
    <2>1. /\ archive.format = "zip" /\ ~E!More /\ Len(Members) <= MaxEntries
          /\ E!Return(what)
        BY <1>2 DEF E!ZIPEnd, E!InLoop, Members
    <2>2. ASSUME what = "ok"
          PROVE  Len(staged) = 1 /\ E!Proper(archive, staged[1])
        <3>1. Alone
            BY <2>1, <2>2, AllLookedAt
        <3>2. QED
            BY <2>1, <3>1 DEF E!Proper, IsExecutable, Members
    <2>3. ASSUME what = "refused"
          PROVE  \A i \in DOMAIN Members : ~E!Proper(archive, i)
        BY <2>1, <2>3, AllLookedAt
    <2> HIDE DEF what
    <2>4. QED
        BY <2>1, <2>2, <2>3, AnswerStep
<1>3. QED
    BY <1>1, <1>2

(* The returns from inside the loops, and those the context or a reader    *)
(* causes.                                                                 *)
LEMMA RefusalStep ==
  EInv /\ (E!TarCutShort \/ E!ZIPWrong \/ E!Reject \/ E!Interrupted \/ E!Breaks) => EInv'
<1> SUFFICES ASSUME EInv,
                    E!TarCutShort \/ E!ZIPWrong \/ E!Reject \/ E!Interrupted \/ E!Breaks
             PROVE  EInv'
    OBVIOUS
<1> DEFINE Improper == \A i \in DOMAIN Members : ~E!Proper(archive, i)
<1>1. ASSUME E!Return("refused"), Improper PROVE EInv'
    BY <1>1, AnswerStep
<1>2. CASE E!TarCutShort
    <2>1. /\ archive.format = "tar" /\ E!More /\ budget < 1 + E!Current.declared
          /\ E!Return("refused")
        BY <1>2 DEF E!TarCutShort, E!InLoop
    <2>2. E!Current.declared \in Nat /\ budget \in Nat
        BY <2>1, CurrentMember DEF EInv
    <2>3. Improper
        BY <2>1, <2>2, LimitTells
    <2>4. QED
        BY <1>1, <2>1, <2>3
<1>3. CASE E!ZIPWrong
    <2>1. archive.format = "zip" /\ E!Return("refused")
        BY <1>3 DEF E!ZIPWrong, E!InLoop
    <2>2. CASE Len(Members) > MaxEntries
        <3>1. Len(Members) \in Nat
            BY DEF EInv, Readable
        <3>2. Improper
            BY <2>1, <2>2, <3>1, SizeAssumption DEF E!Proper, Members
        <3>3. QED
            BY <1>1, <2>1, <3>2
    <2>3. CASE E!More /\ E!Accepts(E!Current) /\ E!Current.actual # E!Current.declared
        <3>1. E!Current.name # "other"
            BY <2>3 DEF E!Accepts
        <3>2. Improper
            BY <2>3, <3>1, WrongMember
        <3>3. QED
            BY <1>1, <2>1, <3>2
    <2>4. QED
        BY <1>3, <2>2, <2>3 DEF E!ZIPWrong, Members
<1>4. CASE E!Reject
    <2>1. E!More /\ E!Current.name # "other" /\ ~E!Accepts(E!Current) /\ E!Return("refused")
        BY <1>4 DEF E!Reject
    <2>2. QED
        BY <1>1, <2>1, WrongMember
<1>5. CASE E!Interrupted \/ E!Breaks
    <2>1. E!Return("broken")
        BY <1>5 DEF E!Interrupted, E!Breaks
    <2>2. QED
        BY <2>1, AnswerStep
<1>6. QED
    BY <1>2, <1>3, <1>4, <1>5

(* Nothing else touches an extraction.                                     *)
LEMMA NextEInv == EInv /\ [FetchNext]_fvars => EInv'
<1> SUFFICES ASSUME EInv, [FetchNext]_fvars PROVE EInv'
    OBVIOUS
<1>1. CASE E!Next
    BY <1>1, OpenStep, TarMemberStep, ZIPMemberStep, EndStep, RefusalStep
    DEF E!Next, E!Step
<1>2. CASE UNCHANGED extraction
    <2>1. UNCHANGED <<step, archive, index, budget, staged, outcome>>
        BY <1>2 DEF extraction
    <2>2. Members' = Members /\ Readable' /\ FoundOnce' /\ BudgetLeft' /\ ExtractsExactly'
        BY <2>1 DEF EInv, Members, Readable, FoundOnce, BudgetLeft, E!Units,
           ExtractsExactly, E!ExtractsExactly, E!Proper, E!Expanded
    <2>3. QED
        BY <2>1, <2>2 DEF EInv, Untouched
<1>3. QED
    BY <1>1, <1>2 DEF FetchNext, Downloading, Extracting, CancelExtraction, fvars,
       vars, extraction

(* The extraction succeeds for exactly the archives it is to accept: of    *)
(* any number of members, whatever their names, sizes and order, and       *)
(* whatever the limits (archive.go:31-101, 120-172).                       *)
THEOREM ExtractionsAreExact == FetchSpec => []ExtractsExactly
<1>1. EInv => ExtractsExactly
    BY DEF EInv
<1>2. QED
    BY <1>1, InitEInv, NextEInv, PTL DEF FetchSpec
-----------------------------------------------------------------------------
(* The fetch as two steps, of AtomicFetch.                                 *)

(* The extraction starts after the download, and has an answer at its end. *)
Stages ==
  /\ pc # "returned" => step = "open"
  /\ step # "returned" => outcome = "none"
  /\ step = "returned" => outcome \in {"ok", "refused", "broken"}

(* A fetch starts with the download (selfupdate.go:416).                   *)
LEMMA StagesInit == FetchInit => Stages
    BY DEF FetchInit, Init, E!Init, Stages

(* What AtomicFetch sees of a fetch.                                       *)
Seen == <<Progress, Acceptable, Taken>>

(* A download that has returned stays as it was: the timer's function may  *)
(* still run, which no answer depends on (http.go:252-256).                *)
LEMMA DownloadIsOver ==
  ASSUME pc = "returned", Next \/ CancelExtraction \/ UNCHANGED vars
  PROVE  UNCHANGED <<pc, response, written, result>>
<1>1. ~Step
    BY DEF Step, Begin, Refuse, MessageEnds, StartRead, Report, Write, LimitReached,
       Interrupted
<1>2. ~World
    BY DEF World, Redirect, RequestFails, Respond, Message, MessageStops, Receive,
       WriteFails, EndOfBody, BodyFails
<1>3. QED
    BY <1>1, <1>2 DEF Next, Tick, TimerFires, Cancel, Running, CancelExtraction, vars

(* A return of the extraction is the step that answers.                    *)
LEMMA AnswerMaps ==
  ASSUME Stages, pc = "returned", DigestMatches, step # "returned",
         EInv', UNCHANGED vars, NEW what \in {"ok", "refused", "broken"}, E!Return(what)
  PROVE  Stages' /\ Atomic!Next
<1>1. /\ step' = "returned" /\ outcome' = what /\ outcome = "none"
      /\ UNCHANGED <<archive, staged, pc, response, written, result>>
    BY DEF Stages, E!Return, vars
<1>2. Stages'
    BY <1>1 DEF Stages
<1>3. DigestMatches' /\ Progress = "verified" /\ Progress' = what
    BY <1>1 DEF DigestMatches, Progress
<1>4. Acceptable' = Acceptable
    BY <1>1 DEF Acceptable, E!Proper, E!Expanded, E!Units
<1>5. Taken = 0 /\ Taken' = (IF what = "ok" THEN staged[1] ELSE 0)
    BY <1>1 DEF Taken
<1>6. CASE what = "ok"
    <2>1. E!Proper(archive, staged[1])'
        BY <1>1, <1>6 DEF EInv, ExtractsExactly, E!ExtractsExactly
    <2>2. staged[1] \in Acceptable
        BY <1>4, <1>1, <2>1 DEF Acceptable, E!Proper
    <2>3. Atomic!Take
        BY <1>3, <1>4, <1>5, <1>6, <2>2 DEF Atomic!Take
    <2>4. QED
        BY <1>2, <2>3 DEF Atomic!Next
<1>7. CASE what = "refused"
    <2>1. Acceptable' = {}
        BY <1>1, <1>7 DEF EInv, ExtractsExactly, E!ExtractsExactly, Acceptable
    <2>2. Atomic!Refuse
        BY <1>3, <1>4, <1>5, <1>7, <2>1 DEF Atomic!Refuse
    <2>3. QED
        BY <1>2, <2>2 DEF Atomic!Next
<1>8. CASE what = "broken"
    <2>1. Atomic!Break
        BY <1>3, <1>4, <1>5, <1>8 DEF Atomic!Break
    <2>2. QED
        BY <1>2, <2>1 DEF Atomic!Next
<1>9. QED
    BY <1>6, <1>7, <1>8

(* The extraction's steps: opening shows the archive, a member that is     *)
(* skipped or staged shows nothing, and the last step answers.             *)
LEMMA ExtractingMaps ==
  ASSUME Stages, EInv, EInv', Extracting
  PROVE  Stages' /\ (Atomic!Next \/ UNCHANGED Seen)
<1>1. /\ pc = "returned" /\ DigestMatches /\ E!Next /\ UNCHANGED vars
      /\ UNCHANGED <<pc, response, written, result>> /\ DigestMatches'
    BY DEF Extracting, vars, DigestMatches
<1>2. CASE E!Open
    <2>1. /\ step = "open" /\ step' = "next" /\ outcome = "none" /\ outcome' = "none"
          /\ UNCHANGED staged
        BY <1>2 DEF E!Open, Stages
    <2>2. /\ Stages' /\ Progress = "verified" /\ Progress' = "verified"
          /\ Taken' = Taken
        BY <1>1, <2>1 DEF Stages, Progress, Taken
    <2>3. Acceptable' \subseteq Nat
        <3>1. Members' \in Seq(E!Member)
            BY DEF EInv, Readable
        <3>2. DOMAIN Members' \subseteq Nat
            BY <3>1
        <3>3. QED
            BY <3>2 DEF Acceptable, Members
    <2>4. Atomic!Open
        BY <2>2, <2>3 DEF Atomic!Open
    <2>5. QED
        BY <2>2, <2>4 DEF Atomic!Next
<1>3. CASE E!TarMember \/ E!ZIPMember
    <2>1. /\ step = "next" /\ step' = "next" /\ outcome = "none" /\ outcome' = "none"
          /\ archive' = archive
        BY <1>3 DEF E!TarMember, E!ZIPMember, E!InLoop, Stages
    <2>2. Stages' /\ Progress' = Progress /\ Taken' = Taken
        BY <1>1, <2>1 DEF Stages, Progress, Taken
    <2>3. Acceptable' = Acceptable
        BY <2>1 DEF Acceptable, E!Proper, E!Expanded, E!Units
    <2>4. QED
        BY <2>2, <2>3 DEF Seen
<1>4. ASSUME NEW what \in {"ok", "refused", "broken"}, E!Return(what), step # "returned"
      PROVE  Stages' /\ Atomic!Next
    BY <1>1, <1>4, AnswerMaps
<1>5. CASE E!TarEnd \/ E!ZIPEnd
    <2>1. step = "next" /\ (E!Return("ok") \/ E!Return("refused"))
        BY <1>5 DEF E!TarEnd, E!ZIPEnd, E!InLoop
    <2>2. QED
        BY <1>4, <2>1
<1>6. CASE E!TarCutShort \/ E!ZIPWrong \/ E!Reject
    <2>1. step = "next" /\ E!Return("refused")
        BY <1>6 DEF E!TarCutShort, E!ZIPWrong, E!Reject, E!InLoop
    <2>2. QED
        BY <1>4, <2>1
<1>7. CASE E!Interrupted \/ E!Breaks
    <2>1. step # "returned" /\ E!Return("broken")
        BY <1>7 DEF E!Interrupted, E!Breaks
    <2>2. QED
        BY <1>4, <2>1
<1>8. QED
    BY <1>1, <1>2, <1>3, <1>5, <1>6, <1>7 DEF E!Next, E!Step

(* The download's steps: all but its return show nothing.                  *)
LEMMA DownloadingMaps ==
  ASSUME Stages, UNCHANGED extraction, Next \/ CancelExtraction \/ UNCHANGED vars
  PROVE  Stages' /\ (Atomic!Next \/ UNCHANGED Seen)
<1>1. UNCHANGED <<step, archive, staged, outcome>>
    BY DEF extraction
<1>2. Acceptable' = Acceptable /\ Taken' = Taken
    BY <1>1 DEF Acceptable, E!Proper, E!Expanded, E!Units, Taken
<1>3. CASE pc = "returned"
    <2>1. UNCHANGED <<pc, response, written, result>>
        BY <1>3, DownloadIsOver
    <2>2. Stages' /\ Progress' = Progress
        BY <1>1, <2>1 DEF Stages, Progress, DigestMatches
    <2>3. QED
        BY <1>2, <2>2 DEF Seen
<1>4. CASE pc # "returned"
    <2>1. Stages' /\ step' = "open" /\ Progress = "download"
        BY <1>1, <1>4 DEF Stages, Progress
    <2>2. Progress' \in {"download", "verified", "failed"}
        BY <2>1 DEF Progress
    <2>3. CASE Progress' = "download"
        BY <1>2, <2>1, <2>3 DEF Seen
    <2>4. CASE Progress' \in {"verified", "failed"}
        BY <1>2, <2>1, <2>4 DEF Atomic!Next, Atomic!Download
    <2>5. QED
        BY <2>1, <2>2, <2>3, <2>4
<1>5. QED
    BY <1>3, <1>4

(* A fetch comes to two steps, whatever is fetched and in however many     *)
(* reads: a download, and, only of what the digest matches, one member     *)
(* taken, which is the one there is (selfupdate.go:416-425).               *)
THEOREM FetchIsAtomic == FetchSpec => FetchesAtomically
<1>1. FetchInit => Stages /\ Atomic!Init
    <2> SUFFICES ASSUME FetchInit PROVE Stages /\ Atomic!Init
        OBVIOUS
    <2>1. /\ pc = "begin" /\ step = "open" /\ outcome = "none"
          /\ archive.members = <<>>
        BY DEF FetchInit, Init, E!Init
    <2>2. QED
        BY <2>1, StagesInit DEF Atomic!Init, Progress, Acceptable, Taken
<1>2. EInv /\ EInv' /\ Stages /\ [FetchNext]_fvars
        => Stages' /\ [Atomic!Next]_Atomic!avars
    <2> SUFFICES ASSUME EInv, EInv', Stages, [FetchNext]_fvars
                 PROVE  Stages' /\ (Atomic!Next \/ UNCHANGED Seen)
        BY DEF Seen, Atomic!avars
    <2>1. QED
        BY ExtractingMaps, DownloadingMaps
        DEF FetchNext, Downloading, CancelExtraction, fvars, extraction, vars
<1>3. QED
    BY <1>1, <1>2, InitEInv, NextEInv, PTL
    DEF FetchSpec, FetchesAtomically, Atomic!Spec
-----------------------------------------------------------------------------
(* The work a fetch has left.                                              *)

(* No more is read than the LimitReaders let through, and of a zip archive *)
(* no more than its entries is looked at.                                  *)
Within ==
  /\ via \in Nat /\ (pc = "begin" => via = 0)
  /\ pc = "refuse" => read = 0
  /\ pc = "message" => read <= MaxError + 1
  /\ pc = "reading" => read <= Limit
  /\ pc \in {"loop", "report", "write"} => read <= Limit + 1
  /\ archive.format = "zip" => index <= MaxEntries + 1

WInv == Inv /\ EInv /\ Stages /\ Within

(* The limits hold at the start (http.go:257, archive.go:105).             *)
LEMMA InitWithin == FetchInit => Within
  BY SizeAssumption DEF FetchInit, Init, E!Init, Within

(* Each read asks for one byte more than the limit at most (http.go:305).  *)
LEMMA DownloadWithin ==
  ASSUME Inv, Within, UNCHANGED extraction, Next \/ CancelExtraction \/ UNCHANGED vars
  PROVE  Within'
<1>0. UNCHANGED <<archive, index>>
    BY DEF extraction
<1> USE DEF Inv, Typed, Counts, Within
<1>1. CASE Begin \/ Refuse \/ MessageEnds \/ StartRead \/ LimitReached \/ Interrupted
    BY <1>0, <1>1 DEF Begin, Refuse, MessageEnds, StartRead, LimitReached, Interrupted,
       Return, More
<1>2. CASE Report \/ Write \/ Redirect \/ RequestFails \/ Respond
    BY <1>0, <1>2 DEF Report, Write, Redirect, RequestFails, Respond, Return
<1>3. CASE Message \/ MessageStops \/ Receive
    BY <1>0, <1>3 DEF Message, MessageStops, Receive, Return
<1>4. CASE WriteFails \/ EndOfBody \/ BodyFails
    BY <1>0, <1>4 DEF WriteFails, EndOfBody, BodyFails, Return
<1>5. CASE Tick \/ TimerFires \/ Cancel \/ CancelExtraction \/ UNCHANGED vars
    BY <1>0, <1>5 DEF Tick, TimerFires, Cancel, CancelExtraction, vars
<1>6. QED
    BY <1>1, <1>2, <1>3, <1>4, <1>5 DEF Next, Step, World

(* A zip archive with more entries is not looked into (archive.go:107).    *)
LEMMA ExtractionWithin ==
  ASSUME EInv, Within, Extracting PROVE Within'
<1>0. UNCHANGED <<pc, via, read>>
    BY DEF Extracting, vars
<1>1. CASE E!ZIPMember
    <2>1. /\ index \in 1 .. Len(Members) /\ Len(Members) <= MaxEntries
          /\ Len(Members) \in Nat /\ index' = index + 1 /\ archive' = archive
        BY <1>1, CurrentMember DEF E!ZIPMember, E!Skip, E!Take, EInv, Readable, Members
    <2>2. index' <= MaxEntries + 1
        BY <2>1, SizeAssumption
    <2>3. QED
        BY <1>0, <2>1, <2>2 DEF Within
<1>2. CASE E!Open
    <2>1. index = 1 /\ index' = 1
        BY <1>2 DEF E!Open, EInv, Untouched
    <2>2. QED
        BY <1>0, <2>1, SizeAssumption DEF Within
<1>3. CASE E!TarMember
    BY <1>0, <1>3 DEF E!TarMember, E!InLoop, Within
<1>4. CASE E!TarCutShort \/ E!TarEnd \/ E!ZIPWrong \/ E!ZIPEnd \/ E!Reject
           \/ E!Interrupted \/ E!Breaks
    BY <1>0, <1>4 DEF E!TarCutShort, E!TarEnd, E!ZIPWrong, E!ZIPEnd, E!Reject,
       E!Interrupted, E!Breaks, E!Return, Within
<1>5. QED
    BY <1>1, <1>2, <1>3, <1>4 DEF Extracting, E!Next, E!Step

(* A byte of the body outweighs what there is to do for it.                *)
LEMMA Weighing ==
  ASSUME NEW r \in Nat, NEW m \in Nat, NEW a \in 1 .. 4,
         NEW q \in Nat, NEW n \in Nat, NEW b \in 1 .. 4,
         \/ q <= r /\ n <= m /\ b < a
         \/ q < r /\ n <= m /\ b = a
         \/ q <= r /\ n = m - 1 /\ b < a + 4
  PROVE  q + 4 * n + b < r + 4 * m + a
  OBVIOUS

(* What is left is a number.                                               *)
LEMMA DownloadLeftIsNat ==
  /\ WInv => DownloadLeft \in Nat
  /\ WInv /\ pc # "returned" =>
       /\ RedirectsLeft \in Nat /\ BytesLeft \in Nat /\ Ahead[pc] \in 1 .. 4
       /\ DownloadLeft > 0
<1> SUFFICES ASSUME WInv
             PROVE  /\ DownloadLeft \in Nat
                    /\ pc # "returned" =>
                         /\ RedirectsLeft \in Nat /\ BytesLeft \in Nat
                         /\ Ahead[pc] \in 1 .. 4 /\ DownloadLeft > 0
    OBVIOUS
<1>1. CASE pc = "returned"
    BY <1>1 DEF DownloadLeft
<1>2. CASE pc # "returned"
    <2>1. Ahead[pc] \in 1 .. 4
        BY <1>2 DEF WInv, Inv, Typed, Ahead
    <2>2. BytesLeft \in Nat
        BY <1>2 DEF WInv, Inv, Typed, Counts, Within, BytesLeft
    <2>3. RedirectsLeft \in Nat
        BY DEF WInv, Within, RedirectsLeft
    <2>4. QED
        BY <1>2, <2>1, <2>2, <2>3 DEF DownloadLeft
<1>3. QED
    BY <1>1, <1>2

LEMMA ExtractionLeftIsNat ==
  WInv => ExtractionLeft \in Nat /\ (step # "returned" => ExtractionLeft > 0)
<1> SUFFICES ASSUME WInv
             PROVE  ExtractionLeft \in Nat /\ (step # "returned" => ExtractionLeft > 0)
    OBVIOUS
<1>1. CASE step = "open"
    BY <1>1, SizeAssumption DEF ExtractionLeft
<1>2. CASE step = "returned"
    BY <1>2 DEF ExtractionLeft
<1>3. CASE step = "next"
    <2>1. /\ archive.format \in {"tar", "zip"} /\ budget \in Nat
          /\ index \in Nat /\ (archive.format = "zip" => index <= MaxEntries + 1)
        BY DEF WInv, EInv, Readable, Within
    <2>2. CASE archive.format = "tar"
        BY <1>3, <2>1, <2>2 DEF ExtractionLeft
    <2>3. CASE archive.format = "zip"
        BY <1>3, <2>1, <2>3, SizeAssumption DEF ExtractionLeft
    <2>4. QED
        BY <2>1, <2>2, <2>3
<1>4. QED
    BY <1>1, <1>2, <1>3 DEF WInv, EInv

(* A redirect, a byte or the next thing to do uses up some of a download.  *)
LEMMA DownloadUsesUp ==
  ASSUME WInv, WInv', Next
  PROVE  DownloadLeft' < DownloadLeft
         \/ UNCHANGED <<pc, via, response, read, written, result>>
<1>0. /\ read \in Nat /\ via \in Nat
    BY DEF WInv, Inv, Typed, Within
<1>1. ASSUME pc # "returned", pc' = "returned" PROVE DownloadLeft' < DownloadLeft
    BY <1>1, DownloadLeftIsNat DEF DownloadLeft
<1>2. ASSUME pc # "returned", pc' # "returned",
             \/ /\ RedirectsLeft' <= RedirectsLeft /\ BytesLeft' <= BytesLeft
                /\ Ahead[pc'] < Ahead[pc]
             \/ /\ RedirectsLeft' < RedirectsLeft /\ BytesLeft' <= BytesLeft
                /\ pc' = pc
             \/ /\ RedirectsLeft' <= RedirectsLeft /\ BytesLeft' = BytesLeft - 1
                /\ Ahead[pc'] < Ahead[pc] + 4
      PROVE  DownloadLeft' < DownloadLeft
    <2>1. /\ RedirectsLeft \in Nat /\ BytesLeft \in Nat /\ Ahead[pc] \in 1 .. 4
          /\ DownloadLeft = RedirectsLeft + 4 * BytesLeft + Ahead[pc]
        BY <1>2, DownloadLeftIsNat DEF DownloadLeft
    <2>2. /\ RedirectsLeft' \in Nat /\ BytesLeft' \in Nat /\ Ahead[pc'] \in 1 .. 4
          /\ DownloadLeft' = RedirectsLeft' + 4 * BytesLeft' + Ahead[pc']
        <3>1. (WInv /\ pc # "returned" =>
                 RedirectsLeft \in Nat /\ BytesLeft \in Nat /\ Ahead[pc] \in 1 .. 4)'
            BY DownloadLeftIsNat, PTL
        <3>2. Ahead' = Ahead
            BY DEF Ahead
        <3>3. QED
            BY <1>2, <3>1, <3>2 DEF DownloadLeft
    <2>3. QED
        BY <1>2, <2>1, <2>2, Weighing
<1>3. CASE Begin
    <2>1. pc = "begin" /\ pc' = "request" /\ via' = 1 /\ read' = read /\ via = 0
        BY <1>3 DEF Begin, WInv, Within
    <2>2. /\ RedirectsLeft' <= RedirectsLeft /\ BytesLeft' <= BytesLeft
          /\ Ahead[pc'] < Ahead[pc]
        BY <2>1 DEF RedirectsLeft, BytesLeft, Ahead
    <2>3. QED
        BY <1>2, <2>1, <2>2
<1>4. CASE Redirect
    <2>1. pc = "request" /\ pc' = pc /\ via < MaxVia /\ via' = via + 1 /\ read' = read
        BY <1>4 DEF Redirect
    <2>2. RedirectsLeft' < RedirectsLeft /\ BytesLeft' <= BytesLeft
        BY <1>0, <2>1 DEF RedirectsLeft, BytesLeft
    <2>3. QED
        BY <1>2, <2>1, <2>2
<1>5. CASE Respond
    <2>1. /\ pc = "request" /\ pc' \in {"message", "refuse", "loop"}
          /\ UNCHANGED <<via, read>> /\ read = 0
        BY <1>5 DEF Respond, WInv, Inv, Counts
    <2>2. /\ RedirectsLeft' <= RedirectsLeft /\ BytesLeft' <= BytesLeft
          /\ Ahead[pc'] < Ahead[pc]
        <3>1. RedirectsLeft' <= RedirectsLeft
            BY <1>0, <2>1 DEF RedirectsLeft
        <3>2. BytesLeft' <= BytesLeft
            BY <2>1 DEF BytesLeft
        <3>3. Ahead[pc'] < Ahead[pc]
            BY <2>1 DEF Ahead
        <3>4. QED
            BY <3>1, <3>2, <3>3
    <2>3. QED
        BY <1>2, <2>1, <2>2
<1>6. CASE StartRead \/ Report \/ Write
    <2>1. /\ \/ pc = "loop" /\ pc' = "reading"
             \/ pc = "report" /\ pc' = "write"
             \/ pc = "write" /\ pc' = "loop"
          /\ UNCHANGED <<via, read>>
        BY <1>6 DEF StartRead, Report, Write
    <2>2. /\ RedirectsLeft' <= RedirectsLeft /\ BytesLeft' <= BytesLeft
          /\ Ahead[pc'] < Ahead[pc]
        BY <1>0, <2>1 DEF RedirectsLeft, BytesLeft, Ahead
    <2>3. QED
        BY <1>2, <2>1, <2>2
<1>7. CASE Message \/ Receive
    <2>1. /\ (pc = "message" /\ pc' = "message") \/ (pc = "reading" /\ pc' = "report")
          /\ via' = via /\ read' = read + 1
        BY <1>7 DEF Message, Receive
    <2>2. /\ RedirectsLeft' <= RedirectsLeft /\ BytesLeft' = BytesLeft - 1
          /\ Ahead[pc'] < Ahead[pc] + 4
        BY <1>0, <2>1 DEF RedirectsLeft, BytesLeft, Ahead
    <2>3. QED
        BY <1>2, <2>1, <2>2
<1>8. CASE Refuse \/ MessageEnds \/ LimitReached \/ Interrupted
    BY <1>1, <1>8 DEF Refuse, MessageEnds, LimitReached, Interrupted, Return
<1>9. CASE RequestFails \/ MessageStops \/ WriteFails \/ EndOfBody \/ BodyFails
    BY <1>1, <1>9 DEF RequestFails, MessageStops, WriteFails, EndOfBody, BodyFails, Return
<1>10. CASE Tick \/ TimerFires \/ Cancel
    BY <1>10 DEF Tick, TimerFires, Cancel
<1>11. QED
    BY <1>3, <1>4, <1>5, <1>6, <1>7, <1>8, <1>9, <1>10 DEF Next, Step, World

(* A member uses up some of what an extraction may still look at.          *)
LEMMA ExtractionUsesUp ==
  ASSUME WInv, WInv', E!Next
  PROVE  ExtractionLeft' < ExtractionLeft
<1>0. /\ ExtractionLeft \in Nat /\ (step # "returned" => ExtractionLeft > 0)
      /\ budget \in Nat /\ index \in Int /\ archive.format \in {"tar", "zip"}
      /\ archive'.format \in {"tar", "zip"}
    BY ExtractionLeftIsNat DEF WInv, EInv, Readable
<1>1. ASSUME step # "returned", step' = "returned" PROVE ExtractionLeft' < ExtractionLeft
    BY <1>0, <1>1 DEF ExtractionLeft
<1>2. CASE E!Open
    <2>1. step = "open" /\ step' = "next" /\ index' = 1 /\ budget' = MaxExpanded + 1
        BY <1>2 DEF E!Open, WInv, EInv, Untouched
    <2>2. ExtractionLeft = MaxExpanded + MaxEntries + 3
        BY <2>1 DEF ExtractionLeft
    <2>3. ExtractionLeft' \in {MaxExpanded + 2, MaxEntries + 1}
        <3>1. CASE archive'.format = "tar"
            BY <2>1, <3>1, SizeAssumption DEF ExtractionLeft
        <3>2. CASE archive'.format = "zip"
            BY <2>1, <3>2, SizeAssumption DEF ExtractionLeft
        <3>3. QED
            BY <1>0, <3>1, <3>2
    <2>4. QED
        BY <2>2, <2>3, SizeAssumption
<1>3. CASE E!TarMember
    <2>1. /\ step = "next" /\ step' = "next" /\ archive.format = "tar" /\ archive' = archive
          /\ budget' = budget - (1 + E!Current.declared) /\ E!More
        BY <1>3 DEF E!TarMember, E!InLoop
    <2>2. E!Current.declared \in Nat
        BY <2>1, CurrentMember DEF WInv
    <2>3. ExtractionLeft = budget + 1 /\ ExtractionLeft' = budget' + 1
        BY <2>1 DEF ExtractionLeft
    <2>4. QED
        BY <1>0, <2>1, <2>2, <2>3
<1>4. CASE E!ZIPMember
    <2>1. /\ step = "next" /\ step' = "next" /\ archive.format = "zip" /\ archive' = archive
          /\ index' = index + 1
        BY <1>4 DEF E!ZIPMember, E!InLoop, E!Skip, E!Take
    <2>2. ExtractionLeft = MaxEntries + 2 - index /\ ExtractionLeft' = MaxEntries + 2 - index'
        BY <2>1 DEF ExtractionLeft
    <2>3. QED
        BY <1>0, <2>1, <2>2, SizeAssumption
<1>5. CASE E!TarCutShort \/ E!TarEnd \/ E!ZIPWrong \/ E!ZIPEnd \/ E!Reject
           \/ E!Interrupted \/ E!Breaks
    BY <1>1, <1>5 DEF E!TarCutShort, E!TarEnd, E!ZIPWrong, E!ZIPEnd, E!Reject,
       E!Interrupted, E!Breaks, E!InLoop, E!Return
<1>6. QED
    BY <1>2, <1>3, <1>4, <1>5 DEF E!Next, E!Step
(* Less of the one and no more of the other is less.                       *)
LEMMA AddingUp ==
  ASSUME NEW d \in Nat, NEW e \in Nat, NEW f \in Nat, NEW g \in Nat,
         (f < d /\ g = e) \/ (f = d /\ g < e)
  PROVE  f + g \in 0 .. (d + e) - 1
  OBVIOUS

(* A fetch comes to its end within a number of steps that only its limits  *)
(* determine, and neither the server nor the archive; the clock's and the  *)
(* caller's steps are not counted (http.go:268, 282, 305, archive.go:43,   *)
(* 107).                                                                   *)
THEOREM FetchesRunOut == FetchSpec => WorkRunsOut
<1> DEFINE Uses == Left' \in 0 .. Left - 1
           Rests == UNCHANGED <<pc, via, response, read, written, result, extraction>>
<1>1. FetchInit => WInv
    BY InitInv, InitEInv, InitWithin, StagesInit DEF WInv
<1>2. WInv /\ [FetchNext]_fvars => WInv'
    <2> SUFFICES ASSUME WInv, [FetchNext]_fvars PROVE WInv'
        OBVIOUS
    <2>1. Inv' /\ EInv'
        BY NextInv, NextEInv DEF WInv
    <2>2. CASE Extracting
        BY <2>1, <2>2, ExtractingMaps, ExtractionWithin DEF WInv
    <2>3. CASE UNCHANGED extraction /\ (Next \/ CancelExtraction \/ UNCHANGED vars)
        BY <2>1, <2>3, DownloadingMaps, DownloadWithin DEF WInv
    <2>4. QED
        BY <2>2, <2>3 DEF FetchNext, Downloading, CancelExtraction, fvars, extraction, vars
<1>3. ASSUME WInv, WInv', [FetchNext]_fvars PROVE Uses \/ Rests
    <2>1. /\ DownloadLeft \in Nat /\ ExtractionLeft \in Nat
          /\ DownloadLeft' \in Nat /\ ExtractionLeft' \in Nat
        <3>1. DownloadLeft \in Nat /\ ExtractionLeft \in Nat
            BY <1>3, DownloadLeftIsNat, ExtractionLeftIsNat
        <3>2. (WInv => DownloadLeft \in Nat /\ ExtractionLeft \in Nat)'
            BY DownloadLeftIsNat, ExtractionLeftIsNat, PTL
        <3>3. QED
            BY <1>3, <3>1, <3>2
    <2>2. ASSUME \/ DownloadLeft' < DownloadLeft /\ ExtractionLeft' = ExtractionLeft
                 \/ DownloadLeft' = DownloadLeft /\ ExtractionLeft' < ExtractionLeft
          PROVE  Uses
        <3>1. Left = DownloadLeft + ExtractionLeft /\ Left' = DownloadLeft' + ExtractionLeft'
            BY DEF Left
        <3>2. DownloadLeft' + ExtractionLeft' \in 0 .. (DownloadLeft + ExtractionLeft) - 1
            BY <2>1, <2>2, AddingUp
        <3>3. QED
            BY <3>1, <3>2
    <2>3. CASE Downloading
        <3>1. ExtractionLeft' = ExtractionLeft /\ UNCHANGED extraction
            BY <2>3 DEF Downloading, extraction, ExtractionLeft
        <3>2. CASE DownloadLeft' < DownloadLeft
            BY <2>2, <3>1, <3>2
        <3>3. CASE UNCHANGED <<pc, via, response, read, written, result>>
            BY <3>1, <3>3
        <3>4. QED
            BY <1>3, <2>3, <3>2, <3>3, DownloadUsesUp DEF Downloading
    <2>4. CASE Extracting
        <3>1. DownloadLeft' = DownloadLeft
            BY <2>4 DEF Extracting, vars, DownloadLeft, RedirectsLeft, BytesLeft, Ahead
        <3>2. ExtractionLeft' < ExtractionLeft
            BY <1>3, <2>4, ExtractionUsesUp DEF Extracting
        <3>3. QED
            BY <2>2, <3>1, <3>2
    <2>5. CASE CancelExtraction \/ UNCHANGED fvars
        BY <2>5 DEF CancelExtraction, fvars, vars
    <2> HIDE DEF Uses, Rests
    <2>6. QED
        BY <1>3, <2>3, <2>4, <2>5 DEF FetchNext
<1>4. WInv /\ WInv' /\ [FetchNext]_fvars => [Uses \/ Rests]_fvars
    BY <1>3
<1>5. QED
    BY <1>1, <1>2, <1>4, PTL DEF FetchSpec, WorkRunsOut
=============================================================================
