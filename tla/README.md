# A TLA+ model of go-selfupdate

go-selfupdate lets a Go program replace its own executable with a GitHub
release. This directory models the parts of it where the order of events
matters, checks them with TLC on small instances, and proves the main safety
properties with TLAPS for every value of the constants. Source references are
to the repository's root (`selfupdate.go:467`, `sigstore.go` is
`sigstore/sigstore.go`).

## The system

| Component | State it keeps | Operations | What makes it correct | Module |
|---|---|---|---|---|
| Configuration (`New`) | an immutable `Updater` | validate and copy a `Config` | no invalid updater exists | not modelled |
| `Check`, `CheckVersion`, `buildPlan` | a `Plan`, a snapshot | resolve the executable, fetch a release, verify its attestation, fingerprint | the plan describes one release and one executable | Release, Apply (snapshot) |
| Release metadata (`fetchRelease`) | none | one request, select the asset | one asset, unambiguous and within the limits | Release |
| Attestation walk (`verifyAttestation`) | position in a paginated list | fetch pages and bundles, verify | fail closed, bounded, not misled by bad entries | Attestation |
| Sigstore verifier (`sigstore/`) | cached verifier with expiry, a singleflight | `VerifyAttestation` | fresh, fetched once, errors forgotten with the fetch that met them, cancellation of one caller not felt by another | VerifierCache |
| `Apply` | the call's temporary files, the lock | lock, sweep, download, verify, stage, replace, clean up | installs what was planned over what was fingerprinted, in one step for whoever looks, reports truly | Apply, AtomicInstall |
| Lock (`lock_*.go`) | a file lock | poll, release | exclusion, and freedom after a crash | Apply |
| Temporary files, staging (`install.go`) | files beside the executable | create, sweep, extract, sync, chmod | never executable and partial, never swept while live | Apply, UnixDurability |
| Unix replacement | the executable | rename, sync directory | atomic, also over a power loss; commit reported whatever follows | Apply, UnixDurability, DurableProgram |
| Windows replacement | executable and hidden backups | move aside, hide, install, roll back, delete | the program is never lost, failures restore it | Apply |
| Download (`http.go`) | a stream, an idle timer | copy within a limit | whole or refused, ends whatever the server does | Download, Fetch |
| Extraction (`archive.go`) | a stream | find and copy one member | exactly one regular member, within the limits, none but of the archive the digest is of | Extract, Fetch, AtomicFetch |
| URL policy, redirects | none | predicates over each URL | only trusted hosts, the token to the API only | Release |
| Statement policy (`sigstore.go`) | none | predicates over a verified bundle | exact subjects and identities | not modelled |
| TUF deadline client | one deadline | cut a fetch short | a fetch ends, and not before its time | VerifierCache |

How they interact. A caller makes an `Updater` and calls `Check`, which fetches
release metadata, walks the attestations if a policy is set (each bundle goes
to an `AttestationVerifier`, usually the cached Sigstore one that other
goroutines share) and fingerprints the executable. The caller later passes the
plan to `Apply`. Between the two anything may happen: other processes of the
same program apply their own plans, an installer replaces the executable, the
symlink to it moves. Processes share nothing but the directory of the
executable: the executable, a lock file, and files told apart by name patterns
only. Within a call, Go's deferred functions clean up in reverse order, each
may fail, and `errors.Join` adds their errors to a result that may already have
committed.

What is hard: concurrent updaters and a sweep that deletes by name; kills
between any two system calls, above all between the two Windows renames;
fingerprints that are stale when used; errors after the commit; rollbacks that
fail; cancellation that races the lock; a server that paginates for ever;
context errors and bundle errors taken for each other; a shared fetch whose
initiator leaves, and whose own deadline looks like the caller's; a timer that
races the reads and callbacks it guards; limits that are
counted in several places; what a power loss keeps of writes nobody synced.
`PROJECT.json` lists each of these hazards at its line, with the properties
that cover it or the reason none does.

## Modules

### Apply

`Apply.tla` has one action per system call of `Check` and `Apply` that another
process can see, together with the code that follows it up to the next one.
The correspondence of variables:

- `target`, `stages`, `archives`, `backups`: the executable at each path and
  the three kinds of files beside it, by the random suffix of their names. A
  file has its bytes (a release version, a local build, or `Corrupt`), its
  executable mode and the Windows hidden attribute;
- `link`: where `filepath.EvalSymlinks` leads (`resolveExecutable`);
- `lock`: who holds `<path>.selfupdate.lock`;
- `pc`, `plan`, `job`, `cancelled`, `cur`, `img`: per process, the next system
  call, its plan, the local variables of its Apply call with the `Result` and
  the error it will return, its context, its `CurrentVersion`, and the file it
  runs from, which on Windows can be renamed but neither deleted nor replaced;
- `snap`, `swapped`: history, read by properties only.

The actions in the order of the code: `Check`, `FingerprintPlan`;
`BeginApply` (all the guards); `Acquire`, `StopWaiting`, `LockFails`;
`Recheck`, `SweepBackups`, `SweepStages`, `SweepArchives`, `Fingerprint`,
`CreateArchive`, `Download`, `VerifyDigest`, `CreateStage`, `Extract`,
`ChmodStage`, `Refingerprint`, `Precommit`; `RenameStage`, `SyncDirectory` on
Unix and `MoveAside`, `HideBackup`, `InstallStage`, `Rollback`,
`UnhideTarget`, `DropBackup` on Windows; the deferred `RemoveStage`,
`RemoveArchive`, `Release`. `Fail` and `Interrupt` are the error returns of
the steps before the replacement. `Cancel`, `Crash`, `Start`,
`ExternalInstall` and `Relink` are what the program does not decide.

What is abstracted: a directory sweep and a fingerprint are one step each
(other updaters cannot interleave with a sweep, for they need the lock, and a
file is hashed by reading one open file); ten random names that all exist
count as a failed creation; names, platform and the provenance record in the
guards of `Apply` always match because a plan is immutable and only accepted
by the updater that made it; a call that `Apply` refuses before the lock is no
step, for it changes nothing. Only the executable bit of the mode is kept.
`Check` makes a plan that asks for a version or one that does not, whether or
not the updater has opted in to downgrades: to refuse the former without the
opt-in is up to `BeginApply` (`Admits`).

### AtomicInstall and AtomicApply

`AtomicInstall` is what `Apply` promises, without its system calls: there is
always one program at each path that counts; a call claims the path while that
program is the one its plan was made from; then it either swaps the program
for its release in one step, or withdraws and leaves a program that was there
during the claim. Other installers may interfere at any moment.

`AtomicApply` extends `Apply` by two history variables and instantiates the
abstract module: `program` is `last`, the program last seen at the path (so
that the Windows gap between the two renames counts as the program it hides);
a fingerprinted plan is the decision; the lock from the second fingerprint to
the rename is the claim. The swap is `RenameStage` on Unix and the successful
`InstallStage` on Windows. `Rollback`, which may succeed or fail, and every
refusal before it are a withdrawal; a kill drops the decision, claim and all.

### UnixDurability

`UnixDurability.tla` is `stageExecutable` and the Unix `replaceExecutable`
over a file system with memory and disk: `dir` and `file` are what programs
see, `diskDir` and `diskFile` what a power loss leaves. The kernel writes back
any directory entry, any file's bytes and any file's mode at any time and in
any order; only `file.Sync` and `syncDirectory` make something durable. Of the
file system (external to the repository) it assumes what POSIX promises and no
ordering of one file system's journal. Actions are `Begin`, `Sweep`,
`CreateStage`, `Extract`, `SyncFile`, `ChmodFile`, `SyncStageDirectory`,
`Rename`, `SyncTargetDirectory`, `Fail` after any of them, and `WriteBack`,
`PowerLoss`, `Kill`, `Start`. One process updates at a time, because Apply has
the lock, each time to a newer release; other installers are left to Apply.

`DurableProgram` is what all of this comes to: one program that is whole at any
moment, replaced in one step, all its bytes made durable at once, and only then
promised to the caller; a power loss falls back on the durable one, never
behind the promise. The refinement (`ProgramIsDurable`) reads the installed
program off the memory's entry of the executable's name and the durable one off
the disk's.

### Download, Extract and Fetch

`Download.tla` is `downloadToFile` one byte at a time: the request and its
redirects, error responses, `Content-Length` against the limit, the loop of
`io.Copy` over a `LimitedReader` of one byte more than the limit, and the idle
timer. The timer is a countdown (`timer`), an expiry whose function has yet to
run (`due`) and the cancellation it causes (`stalled`), because a read may
succeed between any two of them. A byte that has arrived (`Receive`) is first
reported, to the progress callback, which the code calls inside the timed read
(`Report`; only then is the timer reset again), and then written (`Write`); the
clock may run before each. `quiet`, the time since a byte came, and `waited`,
what it was before the byte that is being reported, are history.

`Extract.tla` is `extractTarGzContext` and `extractZIPContext` over every
archive of up to `MaxMembers` members: names (the executable's, a nested one of
the same base name, another), kinds, declared and actual sizes. A tar header
is one unit of the expanded size; the limit may fall inside a member, between
two, or on the end marker. What gzip, tar and zip readers do with the framing
is external and enters as a list of members that may break off anywhere.

`Fetch.tla` runs the two in a row under one context, as Apply does, with the
digest check between them. The digest matches when every byte of the body was
written and the bytes are those of the published archive (`published`, the
server's choice). `AtomicFetch` is what `Apply` takes a fetch for,
and models as the two steps `Download` and `Extract`: the download comes to an
end, with the published archive or without; then the one member that may be
installed is taken at once, and it is refused for no reason but that there is
none. `FetchesAtomically` maps the reads and the loop over the members, which
writes the stage before it has seen the last of them, to these steps.

### Release

`Release.tla` is one updater that checks and downloads over and over:
`Ask`, `ReceiveMetadata`, the loop over the assets (`Examine`), the plan by
digest or by attestation (`FollowPage`, `FetchBundle` with its redirects,
`RejectBundle`), and the asset request with its redirects. A URL is a record
of scheme, host, port, path and whether it is plain (no credentials, query or
fragment that the policy refuses); an asset of the metadata is right or wrong
in one way. `token` in `request` is whether the Authorization header is sent.
`allowHTTP` is set by the repository's tests only and is left out.

### Attestation

`Attestation.tla` is `verifyAttestation` against a free server. `pc`, `page`,
`pageURL`, `rest`, `seen`, `failed`, `verdict` are its local variables and
what it returns; `asked`, `listed`, `outcomes` are history. An attestation is
one of four kinds (no URL, a URL that is refused, a bundle the policy refuses,
a valid one), a Link header one of three. A request of a page, and the body of
a bundle (`ReadBundle`), may fail in their own way or with an error that
`errors.Is` finds to be a context's, the latter also when the caller's context
is not done, since the HTTP client's timeout is one too. The request of a
bundle (`RequestBundle`) is different: the code replaces its error by one that
wraps nothing, unless the caller's context is done by then, so that the client's
timeout before the headers (`unanswered`) only fails that attestation.
`attestationAPIURL` fails only for a base URL that `New` never sets.

### VerifierCache

`VerifierCache.tla` is `configuredVerifier` with several goroutines: the first
look at the cache, `DoChan`, the `select`, and the function the flight runs
(second look, fetch, store, report). `singleflight` is modelled from its use:
one flight per key, the key forgotten and all waiters sent the result in one
step. The clock ticks between any two steps; a fetch takes any time. Each fetch
has a client of its own with one deadline for all its requests (`deadline`, set
`Timeout` after the fetch began): from then on a request may be cut short
(`FetchTimesOut`), with an error that wraps `DeadlineExceeded` and goes to
every waiter. Other time limits inside the transport are no context's and count
as failures (`FetchFails`). Two kinds of outcome are thus a context's error for
whoever asks `errors.Is`: the caller's own, and the fetch's. `opened`, `begun`,
`stored`, `since`, `failing` are history. The freshness property counts a call
from its start or from the start of the flight it joins, whichever is earlier:
a caller may join a flight that is about to report, and the verifier it is
handed may have expired by the time of the call if the flight was slow to
report.

### MC and proof modules

`MCApply`, `MCAtomicApply` and `MCUnixDurability` add symmetry sets,
`MCAttestation` is the entry point of its run; `Fetch`, `Release` and
`VerifierCache` are checked as they are. `ApplyProofs`, `ApplyOutcomeProofs`,
`AtomicApplyProofs`, `AttestationProofs`, `VerifierCacheProofs`,
`UnixDurabilityProofs`, `FetchProofs` and `ReleaseProofs` hold the theorems;
the second and third build on the first.

Operators introduced by "Mutated:" are not part of the model. Each is a
plausible mistake in one definition, and `PROJECT.json` says which property
catches it.

## Runs

| Run | Instance | Shows |
|---|---|---|
| `unix` | 2 processes, 1 path, 2 names, 2 versions, one opted in to downgrades, 1 Apply each of a plan of either kind, installs of an older release or a foreign program | no partial executable; true `Committed`; no temporary files after success; replacements as planned, a downgrade only where both plan and updater ask for it; Apply implements AtomicInstall |
| `windows` | the same on Windows, plans of `Check` only, installs of releases | in addition: the program survives every crash and failed rollback, in a backup with the very bytes last seen; failures restore it |
| `retry` | 1 process, 3 Applies, Windows | what one call leaves, the next sweeps or reports: `CleanupPending` is exact |
| `relink` | 2 processes, 2 paths, a moving symlink | live files are kept from sweeps: each lock protects the files beside it |
| `live` | 2 processes, Windows, 1 name, weak fairness | locks come free; a cancelled call stops |
| `durability` | 4 files, 2 stages, 3 releases | a power loss at any moment leaves a whole release, no older than the last update without error, and nothing partial that could run; refines DurableProgram |
| `durability_mode` | the same | expected violation: the installed file's mode is not synced (see Limits) |
| `fetch` | limit 2, bodies to 4, idle time 2, archives to 3 members | oversized and cut bodies refused; short waits and callbacks do not add up to a stall; exactly the proper archives extracted, of verified archives only (refines AtomicFetch); every step uses up work the limits allow; a fetch ends |
| `fetch_stall` | the same | expected violation: a wait and the callback after it, each shorter than the idle timeout, stop a download together (see Limits) |
| `release` | 2 versions, releases of up to 3 assets | one unambiguous acceptable asset per plan; the token and the requests stay on their hosts |
| `attestation` | 3 pages of up to 3, limit 5 | every list within and beyond the limits; every step uses up work the limits allow; the walk ends |
| `cache` | 2 callers, period 2, timeout 1, clock to 4, fair callers, a fetch that may hang | freshness, spacing of fetches, errors not remembered; a context error is the caller's own or that of a fetch that had its whole time; a cancelled caller returns; every call does if fetches end |

Bounds. Two processes are all that hold, wait for, or sweep at one time can be
told apart by: one holder and one other; `retry` covers long sequences of one.
Two names let a leftover file coexist with a live one. Two versions make every
order of newer, equal and older; `AllowDowngrade` holds for one process and not
the other. `Targeted` bounds the plans that are made: both kinds in `unix`;
only those that ask for a version in `retry`, since `Apply` looks at the kind
once, in `Admits`, and admits every plan of that kind it would admit of the
other; only plans of `Check` in the remaining runs, where nobody has opted in
and the two are admitted alike. `MaxApplies` bounds calls (each may repeat the
whole protocol; leftovers of one call meet a later call of the other process).
`Outside` is what other programs install: in `unix` an older release, which may
bring back what an update has replaced, and a foreign program, while the newer
release comes by updates; nothing in `relink`, where the symlink supplies the
changes. In `durability` two updates can be followed through every order of
syncs, write-backs and losses: four files are the old executable in memory and
on disk, the stage and one left over. In `fetch` a body can fall short of, meet
and exceed the limit by one and by more; the redirect and error-message limits
are met; the idle time of 2 can be a wait and a callback; an archive can hold
the executable between two others or twice, and exceed each limit by one. In
`release` three assets put two of the expected name around or after another. In
`attestation` the limit of 5 is met in the middle of the second and third page,
and three full pages exceed it, as 3 x 100 meets 300 in the code; pages longer
than `per_page` are included because the code does not rely on the server to
keep to it. In `cache` a verifier can expire and be fetched again, the second
fetch can run beyond a deadline later than the first one's, and one caller
starts, joins or outlives the other's flight. Names are interchangeable, and so
are processes with the same `AllowDowngrade`; symmetry is used in no run with a
liveness property.

Fairness. `live`: a process that is not killed takes its next step: system
calls return, a stalled download ends by the idle timer, the lock is polled by
a timer. It is weak fairness of the whole process, so it does not promise that
a given waiter gets the lock: with polling, none does. Nothing is assumed of
`Cancel`, `Crash`, `Start` or installers. `attestation`: each request ends
because the client has a timeout (`selfupdate.go:199`; a caller that brings a
client without one gives the guarantee up). `cache`: goroutines run; that a
fetch ends, by its 20-second deadline, is a hypothesis of `CallsReturn` and not
assumed for `CancelReturns`. `fetch`: the program's own steps, the clock and
expired timers; nothing of the server or the network, so that it is the code
that ends the fetch. A progress callback and a write to the file are taken to
return, however late: nothing in the code could end them. `Attestation` and
`Fetch` stop when the walk or the fetch has returned, so their runs allow that.

## Proofs

All proofs are for arbitrary constants that satisfy the modules' assumptions:
any finite or infinite sets of processes, paths, names and versions, either
platform, any limits, any number of callers, files, assets and bytes.

`ApplyProofs` proves `TypeOK`, `LiveFilesKept`, `NeverExecutablePartial`,
`ExecutableRecoverable`, `CommittedIsAuthoritative` and the action properties
`ReplacesAsPlanned` and `NeverDowngradesUnasked`. None is inductive. The
invariant `Inv` has three parts: types; `FilesOK`, what holds of the files
whoever runs (backups are runnable, executable stages are releases, a missing
executable has a backup); and `Own(p)`, what process p knows at its program
point: it holds the lock of its plan's path from `locked` to `defer`, its files
exist with the content the steps so far gave them, and its history agrees with
them. Each action has a lemma in two halves: p's step re-establishes `Own(p)`,
and its footprint is limited (`OnlyBy(p)`: p changes files only beside a path
it has locked). The noninterference lemma then carries `Own(q)` of every other
q over the step, because two processes cannot hold one lock. The lock is thus
the whole reason why sweeping by name is safe. `NeverDowngradesUnasked` looks
from the replacement back to the guards of `Apply`, which a call passes once
and long before: the plan it admitted is the plan it installs from
(`CallKeepsPlan`), and the lemma on what a replacement installs
(`SwapInstalls`) is shared with `ReplacesAsPlanned`. "Newer" is newer than the
program that makes the call, as documented, and not than whatever is at the
path by then.

`ApplyOutcomeProofs` proves what a caller may rely on when `Apply` returns:
`FailureRestores`, `PendingMeansBackup` and `SuccessLeavesNoTemps`. All three
speak of the deferred functions only, where it is too late to see why they
hold. `Outcome(p)` carries them back: what the second fingerprint saw is at
the path, in the call's backup, or back at the path (`SeenKept`); `swept` says
whether there are backups besides the call's own (`BackupsKnown`); after the
sweeps the temporary files are those the call remembers (`TempsKnown`); and an
uncommitted call that returns has an error (`ErrorTold`). The footprints of
`ApplyProofs` carry `Outcome(q)` of the others over p's step.

`AtomicApplyProofs` proves the refinement, `InstallsAtomically`, and
`GapHoldsLast`. `AInv` says what the history variables remember: what is at a
path is what was last seen there, a gap has a runnable backup of it, a claim
has seen what is there now, and so it has the bytes of the backup it may have
to restore. Every action of `Apply` then falls into a few kinds by what it
does to p's plan, to p's claim and to the program at p's path: hidden, decide,
forget, claim, swap, withdraw, or another installer's interference. One lemma
per kind maps it to the abstract action, and one per action of `Apply` says
which kind it is. `AtomicSpec` implies `Spec`, so all the theorems above hold
of it too. `DecisionAssumption` (a decision is not `None`) is the one
assumption it adds.

`AttestationProofs` proves `RecordIsEarned`, `RejectionIsComplete`,
`ValidIsFound`, `WorkIsBounded`, `NoRequestAfterCancel` and `WorkRunsOut`. The
invariant is an account: outcomes so far plus what is left of the page are the
list so far, in order, and while the walk runs all outcomes are failures.
`WorkRunsOut` is the part of termination that needs no fairness: `Left`, a
natural number fixed by `MaxPages` and `MaxAttestations`, at most 6 more than
three for each page and four for each attestation, falls with every step but a
cancellation.

`VerifierCacheProofs` proves `NoExpiredVerifier`, `FetchesAreSpaced`,
`FailuresAreNotCached` and `CancelIsOnesOwn`. The invariant ties the cache to
the last store, the flight's result and its deadline to the flight's start, and
each waiter's start to the flight's. `CancelIsOnesOwn` needs all of it: an error
of the fetch's deadline reaches callers whose contexts are not done, and what is
proved is that it comes no earlier than `Timeout` after the call, or the flight
it joined, began.

`UnixDurabilityProofs` proves `PowerLossKeepsProgram`, `CommitIsDurable`,
`NoRunnablePartialOnDisk` and the refinement `ProgramIsDurable`. The invariant
says that the file the executable's name leads to, in memory and on disk (these
may be two files), has durable bytes of a release at least as new as promised;
that no other name, in memory or on disk, leads to the stage being written; and
what each sync has established by its program point. For the refinement it adds
that the stage a rename is about to install is newer than what is installed;
each write-back of the executable's entry is then the abstract step that makes
the program durable, and all other writes are hidden.

`FetchProofs` proves `WholeOrRefused` and `TimerMeansSilence`: the file is as
long as what was read, and while a body is read the running timer and the time
since the last byte add up to at least the idle time; while the callback has
that byte the wait for it counts too (`TimerLags`). It proves
`ExtractsExactly` for archives of any number of members: the invariant `EInv`
says that before the current member either nothing has the executable's base
name and nothing is staged, or one member has it, is proper and is the one
staged (`FoundOnce`); and that what is left of a tar stream's limit is the
limit less what the members so far take (`BudgetLeft`). A sum over the members
would need an induction over data, so the size is stated as the cardinality of
a set, the units of the members: one member more adds its own units, a disjoint
set, and a prefix is a subset, which is all the proof needs of a sum. From
`EInv` follows the refinement `FetchesAtomically`, with `Stages`, which says
that the extraction starts after the download and answers at its end. And
`WorkRunsOut`: `Left`, a natural number fixed by `MaxVia`, `Limit`, `MaxError`,
`MaxExpanded` and `MaxEntries` only, falls with every step but those of the
clock, the timer and the caller; `Within` says that no read passes its limit.
`MaxBody` and `MaxMembers`, the bounds of the model, do not occur in it.

`ReleaseProofs` proves `PlanIsUnambiguous` and `TokenStaysHome`: the selected
asset is the only one of its name among those the loop has passed, and the
page of every pagination link is on the API's host.

Each proof module also proves its `TypeOK` where the component has one. The
runs do not check again what the theorems make redundant: the type invariants
of Attestation, VerifierCache and UnixDurability, and `CommitIsDurable`, which
`ProgramIsDurable` says as a refinement.

Only model-checked: the liveness properties (`LockComesFree`, `CancelStops`,
`Terminates`, `CallsReturn`, `CancelReturns`, `FetchEnds`), since liveness under
fairness is out of the prover's reach. Of `Terminates` and `FetchEnds` the
theorems on `WorkRunsOut` leave only that a step is taken as long as one can
be, which is the fairness, and for `FetchEnds` that the idle timer ends a wait.

## Limits of the guarantees

Worth knowing, and not faults by the documentation:

- a program another installer puts in place between the second fingerprint
  and the rename is overwritten; `ReplacesAsPlanned` says exactly that much;
- "newer" is relative to the running program's version: a long-running old
  process may check and install a release older than the one on disk;
- a crash between the Windows renames leaves only the backup, and neither
  `Check` nor `Apply` can then resolve the executable; a user has to move it
  back (README, "Security");
- lock waiters are served in no order.

- README (line 159) says that Unix syncs the file after the rename. The code
  syncs it before it sets its mode (`install.go:160-163`) and syncs only the
  directory afterwards; `durability_mode` shows an update that has returned
  without error and whose mode a power loss could still undo. The bytes are
  safe, which `durability` shows;
- README (line 74) says other archive members are ignored. A nested member
  with the executable's base name is not: it makes the archive invalid
  (`archive.go:58-63`, `116-121`), which the model follows;
- README (line 161) says a download stops "after 30 seconds without progress".
  The progress callback runs inside the timed read, before the second reset
  (`http.go:222-223`, `240`, `300-302`): a wait for bytes and the callback that
  reports them stop it together when they come to 30 seconds, although bytes
  came less than that ago; `fetch_stall` shows one. So does a single write of 30
  seconds, since nothing resets the timer while it lasts. What does hold is
  `TimerMeansSilence`;
- bundle redirects are bounded by the HTTP client's timeout only
  (`attestation.go:265`), as the code sets no limit of its own;
- a verifier's own deadline (`sigstore.go:119`, `161`), and the HTTP client's
  timeout while a page is requested or a bundle's body is read
  (`attestation.go:283`), are taken for the end of the caller's context by the
  attestation walk; the client's timeout before a bundle's headers is not.

## Not modelled, and what is left

- `New`: one-time validation of strings, with no later effect but the values
  the models take as constants.
- The Sigstore statement policy: a pure predicate over the result of an
  external library; its outcome is an input of `Attestation`.
- String-level parsing of URLs, Link headers, tags, digests and dates; message
  texts; build, lint and release files.
- The 25 ms polling of the lock has no queue, so nothing can be promised to
  one waiter; there is no property to state.
