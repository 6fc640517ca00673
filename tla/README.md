# Verification of Ridge's coordination

Ridge (`src/ridge`, Python) runs file and process operations on named
resources — this machine, Docker containers, SSH hosts, S3 buckets — for
several callers at once: command line invocations, MCP servers, background
jobs, tasks with delegated scopes. Nothing in it is a long-lived server. Every
caller is a process of its own that can be killed at any moment, and what they
agree on lives in one SQLite database, a few files and a few `flock`s under the
state directory. The project models that agreement: who may work on what, how
long, what happens to a reservation when somebody disappears, what a background
job's recorded verdict says of the processes behind it, what a delegated scope
lets its holder do, what an answer, an error or a silence says of the work that
was asked for, what is left of a destination when a copy dies, and what a reader
sees who comes page by page.

## The system

| component | source | state it keeps | operations | interacts with |
|---|---|---|---|---|
| claim algebra | `claims.py` | none | `contains`, `covers`, `conflicts`, `normalize` | called inside every admission |
| coordination | `coordination.py` | tables `lock_sessions`, `lock_operations`; one flock per caller's operation | `acquire`, renew/release, `admit`, `operation`, `validate_job`, `finish`, `force_release`, reconcile/drain, listing | callers' processes by flock; jobs through `admit`/`finish` in the job's own transaction; scopes through an access check in the transaction |
| background jobs | `jobs.py` | table `jobs`, `payload`, `owner.lock`, `outcome.json`, logs, preparation locks | `submit` (idempotent), `get`, `list`, `cancel`, `logs`, `finish`, `_reconcile` | settles the claim; starts the supervisor; observers race it |
| job supervisor and worker | `_job_runner.py` | the flock on `owner.lock`, a gate pipe, a process group | `_run`, `_stop_group`, `_work` | claims the row, polls it, publishes through `finish` |
| access scopes | `_access.py` | table `access_scopes` | `issue`, `resolve`, `check`, `revoke`, `inspect`, `list` | checked inside every admission transaction |
| service and admission | `application.py`, `_planning.py`, `backends/_footprints.py` | none of its own | `_operation`, `acquire_locks`, the operations, listings, submissions | plans, admits, calls a backend, validates the plan, widens and retries |
| managed sessions | `sessions.py` | lease state, a renewal thread or task | enter, renew, check, exit | renews a lock session |
| transfers | `transfer.py`, `backends/_transfer.py`, `backends/_scripts/transfer.py` | staging directory, phase file, backup | export, stage, commit, abort, cancel | a helper process on another machine, over a stream |
| local, Docker, SSH providers | `backends/{local,docker,ssh,_helper}.py`, `backends/_scripts/operations.py` | a staged file, processes of a command | write, read, stat, list, delete, exec, probe | the calling process, or a helper behind a transport |
| deletion helper | `backends/_scripts/deletion.py` | none | delete an entry or a tree | within the helper, or the calling process |
| S3 provider | `backends/s3.py` | a multipart upload, the locals of both ends of a copy | read, write, stat, delete, list, open a source or a destination | botocore, which repeats requests |
| data views | `_views.py` | none | path translation | planning |
| configuration, registry | `config.py`, `registry.py` | none | parsing, lookup | everything |
| front ends | `cli.py`, `mcp.py` | none | request translation | the service |

What makes this code hard is that the processes share no memory and no
supervisor. A reservation has to survive the process that made it for exactly as
long as work started under it may still be going on. A process that finds
another one's row cannot ask it anything; it only can try a flock. Every
transaction first repairs what it finds, so every reader is a writer. And the
end of a job is seen by three parties (its supervisor, whoever polls it, whoever
cancels it), any of which may die while it is recording it. And whoever works
through a helper or a store learns what was done from an answer that may never
come, while the other side cannot tell a caller that is slow from one that is gone.

Properties that make the components correct:

* coordination: no two reservations conflict unless one is an operation of the
  other's session; running work is always reserved; sessions outlive what was
  admitted under them; a lost caller is found out and only an operator may
  vouch for it; closed sessions never reopen;
* submissions: one job per idempotency key, a retry never in its own way, no
  payload missing, no file left over;
* jobs: row, payload and claim settle together and once; the claim outlives the
  work; a verdict other than "lost" is true of the processes; completion and
  cancellation are serialised; whatever dies, somebody reaches a verdict;
* scopes: a child never has a right one of its ancestors lacks; closure is
  final, reaches every descendant and survives the refusal that observed it;
* admission: the work stays within claims that were made from the words of the
  request alone, wherever links make the words lead;
* managed sessions: the body never runs on believing a lease that ended;
* transfers: the destination is the old tree or the new one, whichever step
  died; an answer "aborted" or "committed" is true;
* providers and deletion: a claim is let go of only when nothing of its call can
  act any more; what was answered stands; a read keeps its limit; whoever has a
  time limit comes back;
* S3: an object is the whole stream or what it was; parts are what the store takes;
  an upload is not left behind without an attempt to abort it;
* listings: who is told that there is no more has had everything there was.

## Modules

| module | models | kind |
|---|---|---|
| `Claims` | `claims.py` | pure operators |
| `ClaimRights` | the rights claims denote, and what the relations should say of them | pure operators |
| `Reservations` | what `coordination.py` promises, abstractly | specification |
| `Coordination` | `coordination.py`: both tables, flocks, callers, clock | specification, refines `Reservations` |
| `JobClaim` | the contract between a job's processes and its claim's row | specification |
| `Jobs` | `jobs.py`, `_job_runner.py`: one job, all its processes | specification, refines `JobClaim` |
| `Submission` | `JobManager.submit`: how several submissions become jobs | specification |
| `ManagedSession` | `sessions.py`: one owner, its renewer, the row | specification |
| `Admission` | `application.py`, `_planning.py`, footprint guard: from words to work | specification over `Claims` |
| `AccessScopes` | `_access.py`: rows, requests in progress, configurations | specification |
| `Replacement` | what a copy promises its caller | specification |
| `Transfer` | `transfer.py` and both ends of a copy, with their helpers | specification, refines `Replacement` |
| `S3Upload` | both S3 endpoints of a copy, the SDK, the store's uploads | specification, refines `Replacement` |
| `Operations` | one call on a resource: the service's `_operation`, the local backend, `_helper.py` and what runs on the other side, single requests to S3 | specification |
| `Listing` | pages of jobs, locks, directories, buckets and logs | specification |
| `MCCoordination`, `MCJobs`, `MCSubmission`, `MCAdmission`, `MCAccessScopes`, `MCOperations` | small instances | TLC |
| `CoordinationProofs` | theorems about `Coordination`, and about `ClaimRights` and `ManagedSession`, whose formulas have names of their own so that all three can be extended | TLAPS |
| `SubmissionProofs` | theorems about `Submission`, and about `Listing`, whose formulas have names of their own too | TLAPS |
| `JobsProofs`, `AccessScopesProofs`, `OperationsProofs`, `TransferProofs`, `AdmissionProofs`, `S3UploadProofs` | theorems | TLAPS |

A definition whose comment says "mutant of" another one is that definition with
a plausible bug in it; it is used nowhere, and stands there to show that the
property beside which PROJECT.json lists it can fail.

How they fit together: `Coordination` is the centre. `Reservations` says what
its users may rely on, and each of them is modelled against a part of it that is
small enough to see whole: `Jobs` and its claim's row meet in `JobClaim`,
`Submission` and `Admission` reserve in one step what `Coordination` reserves in
a transaction, `ManagedSession` sees one row. `Operations` looks at the other side
of the same row: `Coordination` lets its effects end when they like and takes as a
premise that an answer, or an exception out of local work, means that they have;
`Operations` has the helper, the command and the transport behind the effect, and
`ReleasedIsOver` is that premise. `Listing` relies for the log of a job on what
`Jobs` shows of a verdict. `AccessScopes`, `Transfer` and `S3Upload` share no state
with `Coordination`.

### Coordination

`session` and `op` are the two tables; a row whose status is `none` is an
identity nobody has drawn yet (they are uuid4, never reused). `now` is
`time.time()`. `agent` and `effect` are what the tables cannot see: the process
acting under an operation, and the work it dispatched, which may outlive it.

Every public method is one `BEGIN IMMEDIATE` transaction, so one action. The
reconciliation at its start (`_reconcile`: expire, orphan, drain) is part of the
action: `SweptOps` and `SweptSessions` are the tables as the body finds them. A
body that raises rolls back, its reconciliation included; a refused call
therefore changes nothing and is a disabled action. `admit` reconciles twice in
one transaction with no clock or flock change of consequence between the two,
which equals once. The flock is not a variable: `operation()` takes it before
the row exists and closes it after the row is settled, so it is held exactly
while `agent[o] = "inside"`.

Premises, each read from the code: the clock does not go back; `InProcess` (one
local operation that executes nothing) is why an ordinary exception may be taken
for the end of the work; a body that returns has finished its work (both are what
`Operations` shows); a settling transaction that fails leaves the row as a crash
does.

### Jobs and the contract

`Jobs` follows one job from its commit to its verdict: the submitter, the
supervisor's control state (`sup.pc`, one label per point between two accesses
to shared state), the worker and its process group, the gate pipe, the outcome
file, the flock on `owner.lock`, and observers between `get()` reading the row
and `_reconcile` finishing it. Every process may die between any two steps and
every step of a supervisor may raise; where that happens in `finish()` the payload
may be gone already, and the supervisor goes on without it (`Raises`).
`JobSettles` takes for granted that the job's directory is there; what becomes of a
job without one is in `Submission`.

`Coordination` and `Jobs` meet in one row. `Coordination.FinishJob` may settle a
job's claim as safe only when its effect is over; that is a statement about
processes which only `Jobs` can justify, so the two are composed by contract
(`JobClaim`): `Jobs` implements it (`KeepsContract`), and in `Coordination` no
transaction of anybody else settles, revives or authorises a job's row behind
its supervisor's back (`JobsUnderContract`).

Abstractions: the process group is what `ps` can see of the worker's group (a
descendant that leaves the session is invisible to the code too); the worker's
publication and exit are one step; an observer's row read and lock are one step,
since the row is read again under the lock; `_stop_group`'s kill empties the
whole group in one step, or fails to; every job has a payload.

### Submissions

`Submission` takes several processes from `submit()` to the launch of the
supervisor: the preparation lock with its time limit, the write transaction, the
look-up of the key before and after the preparation, the candidate claim of the
preparation, admission, directory, payload, insert, commit, and the removal of
files on the way out. Requests are records: their digest, whether they carry the
key (there is one), whether they prepare, whether they have a payload. Any two
claims conflict, which is the hardest case for retries. Errors may occur at
every step and processes die between any two; a process that dies over its
preparation leaves an uncertain candidate that only an operator releases.

How a job ends is `Jobs`' matter; here it matters that `finish()` does it in two
steps, the payload and then the row, and may die or raise between them (`Settles`,
`Unlinks`, remembered in `ending`), and that whoever wants to end a job opens
`owner.lock` in its directory (`Look`, `JobEnds`). An interrupt that is delivered as
`commit()` returns is still inside the `try`: the files of a committed job are then
removed. If nobody looked at it before, its directory goes too (`Lost`), and from then
on `_reconcile()` fails over it: nobody can bring that job to its end, its claim stays
active, and every operation, submission and listing of locks that begins with
`reconcile_claims()` fails (`Call`), except that a preparation takes the failure for a
place it cannot look at (`PrepareBroadly`). `FilesAccounted` confines this to jobs that
nobody was told of, `EndsUnlessLost` says that all others end, and `AbandonedEnds` is
the promise of the documentation, which the run `submission_abandoned` refutes.

### Managed sessions

`ManagedSession` is one owner with its renewer and the row they hold. Both
helpers are one module: `kind` chooses between the thread, which is never
interrupted and looks at its stop event where it waits, and the task, whose
requests, its release included, may time out or be cancelled on the way and be
served later (`stray`).
What `check()` reads and writes from both sides (`open`, `error`, `deadline`) is
one variable each; a step is what lies between two accesses to the database or
the clock. `time.time()` and `time.monotonic()` are one clock: a host that is
suspended, or whose wall clock is set, is outside the model and listed as a
hazard. `closing` and `closed` rows are not told apart (draining is
`Coordination`'s), and leases are granted while they end in modelled time.

### Admission

`Admission` is about what claims are for. The file system has two levels; an
entry is absent, a file, a directory, or a link to a first-level name, and `Worlds`
are the arrangements a file system can have. Requests name places; what they do
follows links as the providers do (`Resolved` for reading, `Leaf` for the entry
that is replaced or removed). `Plan` sees only the words. `Guard` is the footprint
guard under the admitted claims. A command may rearrange everything. Crashes,
leases and uncertainty are `Coordination`'s; here a caller reserves, validates,
widens, works and gives back, or submits a job whose worker plans again.
`Depends` and `Changes`, what an outcome may depend on and may change, are defined
on the world and not on claims, so that `NoInterference` says independently of
them what they achieve. Left out: case folding of names, mounts and special files
(the guard refuses them where it sees them), hard links (writes replace entries),
jobs submitted from within a lock session, and anybody who changes the file
system behind Ridge's back, which Ridge's documentation excludes. A validation is one step, because the claims it runs under
protect what it reads — that is `StillValid`.

### Access scopes

A scope's row keeps its parent, its rights for use and for delegation, its
expiry and the fingerprints of its resources. A request reads the configuration,
checks its scope, constructs providers, checks again and acts in a transaction
that checks a third time; any number of requests, revocations and edits of the
configuration fall between these steps. `line` in the code's walk is the chain of
parents. `told` and `work` are history: the closures somebody was told of, and the
work that was admitted, with the scope it was admitted for. Data roots are left
out (a child's chain of roots extends its parent's, whatever it is).

### Transfers

`Transfer` follows one copy: an exporter, the caller, a stager, and one control
helper each for commit and abort. The payload is a number of chunks, each with
the version of the source it was read from; a source that changes is one chunk
longer. A connection may break while its helper goes on, and a helper may die
between any two renames or removals; each of its file operations may fail.
`Replacement` is what the caller is promised. Directories created above the
destination are left out (they are removed only while empty), and so are the
checks of archive members. `fs.old` says what became of the previous destination,
so that `KeepsPromise` would see it lost, and not only replaced. Both endpoints are
helpers; two S3 endpoints are in `S3Upload`, one of each kind is not modelled.

### Copies between objects

`S3Upload` is `copy()` over the two endpoints of `s3.py`. Data is counted in units,
and the n-th unit of the stream is the number n, so that an object that is not the
stream, doubled, shortened or out of order, differs from it. `caller` holds the locals
of both endpoints; `Fail` is the `except` clause with `cancel()` before and `abort()`
after `finish()` has returned. `wire` is the SDK: an attempt that was sent may be
served once, again, after the caller has given it up, or never, and its answer may
be lost. The store is modelled from its use: it publishes an upload in one step,
takes an upload that is completed or aborted for gone, and may answer a repeated
completion either way. `PublishedIsWhole`, `PartsFit` and `UploadsAccounted` are
the endpoint's own; `KeepsPromise` is that of every copy (`Replacement`). An error,
even an ordinary one, can leave an upload that nobody aborts where the answer to its
creation never arrived: its identity is not known, which is what `known` excludes.

### Operations on a resource

`Operations` follows calls on one destination from the admission of a row to its
settlement. `provider` says who does the work: the calling process, a helper behind
`docker exec` or `ssh`, or an object store. `work[c].pc` walks through `main()` of the
helper, which the local backend shares step by step (parents, staged file, content,
rename; the look at a size and the reading; entries of a tree); `link` is the
transport. A helper reads its request to the end of its input, so an input that is cut
within the content of a write looks like a short file (`HelperReads`), and the torn
content may be published: no answer goes over a link that is cut, so the row
stays, and that is `ReleasedIsOver`. `command` is what `exec` started: it may write,
it may leave a process that has the output open, and a time limit kills the first
process only. A detached process that closed its output is its author's own.

`Settled` and `SafeError` are the exception rule of `Coordination.operation()` for the
claim of a whole resource; an interrupt proves nothing, and a dead caller's row is
found by `Reconcile`. `forced` remembers whether an operator vouched for work that was
still going on, which voids `AnswersStand` and not `ReleasedIsOver`. `last` is history:
the mutating call admitted last. `HasTimeout` says who gives up by itself; `delete` and
an `exec` without a limit do not. Contents are known by their writer, so one file
stands for all; a nested directory is removed like an entry.

`write_object()` goes through a client that repeats requests (`Retry`, up to
`Attempts` times), and nothing makes a store forget an attempt that was given up: one
that it has whole may be served at any time, also when its repetition was answered, the
claim released and the next call answered (`ServeLate`). `AnswersStand` names exactly
these contents (`Strays`) as what a caller may find in place of its own. The client for
deletions sends one attempt (`Retried`); with the other one, answered writes would
vanish, which is the mutant of `AnswersStand`. Reads are repeated too, and what becomes
of their late attempts nobody sees.

### Listings

`Listing` is a reader who repeats a call until there is no more. Rows appear, vanish,
are shown and hidden between any two accesses to the store. `jobs.list()` and
`list_locks()` fetch rows in batches behind the last one seen and look up each row's
authority apart; a job that is not finished is reconciled under a check of its own,
which may fail and end the call (`Refresh`). `list_data()` of a directory counts
entries, which is all it promises: `NothingMissed` holds it to its word only where
nothing moved. `read_log()` looks at the status, the content and the size in this
order; its writers end before the verdict, unless the job is lost. `steady` and
`moved` are history. Page sizes may differ between calls. The order of a listing is
given by `Place`, how many members of a set come no later than one of them.

## Runs

| run | asks | instance |
|---|---|---|
| `ownership` | can conflicting reservations coexist, or conflicting work meet, whatever expires, dies or is forced? is running work always reserved? who can end a session? | 2 sessions, 2 operations, three requests: a file, a command, broad |
| `coordination_contract` | is every transaction a grant, a drop, both or neither? do job rows follow their contract? are lost callers and expired sessions found? | 1 session, 2 operations, two requests |
| `jobs` | do row, claim, payload and verdict tell the truth, do the processes keep the contract, and does every job end? | 2 observers beside submitter, supervisor and worker |
| `transfer` | is the destination old or new and the answer true, whoever dies when? | a source of 2 chunks, 3 once it changed |
| `scopes` | do rights only shrink, can ancestors stop what they delegated, and is a closure on record and a barrier? | 2 scopes, nested or side by side, 2 requests in progress, 2 rights, an expiry, three configurations: one loses a right, one a resource besides |
| `submission` | one job per key, retries that do not meet, files that match rows? does every job end that has its directory, whatever breaks off? | 3 submissions: a keyed write, its retry and any other, or a keyed write, a keyed command and a write without key |
| `submission_abandoned` | is every abandoned job reconciled, as `docs/guides/jobs.md` says? It is not | 2 submissions, any of these requests |
| `managed_session` | is a check that passes right, one that fails final, and is the session given back? | a lease of 3, renewed after 1, time to 8: two renewals and an expiry after either |
| `admission` | do claims made from words keep the work apart in every file system? | 2 callers, 2 names with one entry below each, a read, a write, a deletion, two copies (one of an entry over the directory it is in) and a command, sessions for three of them |
| `operations` | does a released claim mean that the work is over, does an answer stand, does a read keep its limit, and does whoever can give up come back? | 2 calls, each kind of provider, every pair of kinds that a claim lets meet or keeps apart, a directory that is there or not |
| `s3_upload` | is a published object the whole stream, and an upload accounted for? | streams of 0, 3, 4 and 7 units in chunks of up to 2, parts of 3, 2 parts, 2 uploads: nothing, exactly a part, one more, and more than fits |
| `listing` | has a reader who was told so seen everything? | 5 items, pages of 1 and 2, batches of 2, each of the five listings |

The relations of `Claims` are compared with the rights claims denote before either run
of `MCCoordination` starts (`AlgebraAssumption`): all pairs of sets of up to two
claims on paths of length 2, where prefix, equal and sibling scopes occur. A
containment that is tried one way only, a mode that is ignored or a claim that is
normalized away are also found by `NoInterference` in `admission`.

The bounds are on identities and on the clock (`MaxTime`, `Horizon`). Conflict, coverage
and draining relate at most a session, one operation under it and one foreign
holder, so two operations and one or two sessions show every pattern; one tick
separates "not expired" from "expired". `Jobs` and `Submission` have no counter to
bound. `Attempts` is 2 in `operations`: one late attempt is as good as several, as they
all write the same. Three submissions are a preparing one, its retry and a stranger
(`Mixes` in `MCSubmission`; symmetry is not used, as the run has a liveness property). In
`Admission` two names are enough for a link before, at and below a path, for
chains and for loops. Two chunks tell a stream that is cut, mixed or complete; in
`S3Upload` four sizes lie around the limits of a part and of their number, and a
second upload is the creation that was repeated. In `Operations` a call meets one
that is admitted after it, beside it, or after a force-release; what more there could
be is the subject of `OperationsProofs`. Five items are two batches and a row more.
In `AccessScopes` one request closes what the other one works under, or its parent;
chains of any length are `AccessScopesProofs`'.

`CHECK_DEADLOCK FALSE` is said where the system stops: an enumeration that has
reached its bounds, a job, a copy, a listing, a submission or a session that is
over, a call that waits for a helper nobody bounds.

Fairness. Nothing in `coordination.py` sweeps in the background: the two
liveness properties hold because somebody keeps listing locks (`WF(Observe)`),
and would not hold without. In `Jobs` the supervisor is scheduled by the system
(`WF(Supervision)`), time passes (`WF(StartupExpires)`), and a caller keeps
asking for the job, as `cancel()` and the front ends do (`WF(Observe(o))`), and
is not killed every single time it holds the lock (`SF(Judge(o))`,
`SF(Conclude(o))`). In `Transfer` every process that exists is scheduled, in
`Admission` every caller goes on with the request it has, in `Operations` a caller
goes on, its time limits run out and somebody looks at the rows (`WF(Comeback(c))`)
and local work gets on (`WF(Local(c))`) while nothing is assumed of transports, helpers
and commands, in `Submission` submitters go on and somebody keeps asking for every job
(`WF(Submission(c))`, `WF(Look(c))`, `WF(JobEnds(c))`; that he may end it is a matter
of time, which `Jobs` has), and in `ManagedSession`
time passes, calls return (a thread's are local transactions, a task's have time
limits) and somebody uses the database (`WF(Sweep)`), without which an expired row
stays. In `Transfer` a connection that breaks is assumed to be noticed by its two
ends. `S3Upload` and `Listing` promise no progress. No failure is ever fair, and no
process is assumed to succeed.

## Findings

`docs/guides/jobs.md` (lines 108–110) says that inspection, listing, log reads and
identical resubmission reconcile an abandoned `starting` job to `lost`. The run
`submission_abandoned` shows a job of which this is not so: the submitter is
interrupted as `commit()` returns (`jobs.py:224`), the handler for `BaseException`
removes the directory of the job that is on record by then (`jobs.py:225-230`), and
`_reconcile()` raises `FileNotFoundError` where it opens `owner.lock` in it
(`jobs.py:539`), each time it is tried. `force_release()` does not help, because the
claim is not uncertain.

## Proofs

TLAPS proves for every set of identities, resource, request and lease:

* `CoordinationProofs`: `Inv` is inductive — types, `NoConflictingOwnership`,
  `OpsWithinSession`, and what the tables say of the processes
  (`AgentsAccounted`). Exclusiveness is not inductive alone: an operation admitted
  under a session skips that session in the conflict check, so it needs that the
  session covers it (`CoverageExcludes` then transfers the session's own
  exclusiveness); and that running work is reserved needs that whoever may still
  dispatch work has a live row. From `Inv` follow the invariants of the
  `ownership` run; `SessionShields` (nobody else's running work
  conflicts with a session), `ClosedForGood`, `LeaseHonoured` and
  `UncertainNeedsOperator` are proved too.
  `Coordination` implements `Reservations`: a step
  drops the set of holders its reconciliation and body end, and grants at most
  one; the lemmas show that a swept session drops only after its operations.
  And each job's row implements `JobClaim` (`JobsUnderContract`): a row that is not
  a job's becomes one only by its admission, and every step leaves a job's row
  alone, moves its worker, settles it once or force-releases it.

  The same module proves what the algebra below means, for claims of any depth:
  coverage is transitive, and is a containment of rights; two claims collide exactly
  when some path is touched by both and one of them may change it, because the
  scopes that contain a path are nested; and a normal form keeps every right,
  because among the claims that entitle to a right a shortest one, exclusive if
  there is such a one, is not made redundant by another (`CoverageIsSound`,
  `ConflictIsInterference`, `NormalizeKeepsMeaning`).

  And what the object that holds a session may rely on, for every lease:
  `TrustedLease` needs that the local deadline never runs
  ahead of the row's: the first one is counted from a reading taken before the
  other clock's, the next ones from before the call that extends the row
  (`OwnerTimes`), and that nobody but the owner's exit and the clock ends the session
  (`OwnerPhases`). `FailsForGood` follows because whoever fails leaves `error` behind.
* `JobsProofs`: `Inv` is inductive — the safety properties together with who may
  hold the flock, what an observer's finding still says, the order of a launch,
  what the supervisor's locals prove, and what an outcome, a released claim and a
  missing payload say of the processes. `EndedIsOver` is the conjunction of three
  of them, each a theorem too (`SettledTogether`, `OnlyLostLeavesProcesses`,
  `PayloadOutlivesWorker`; the last one says of a supervisor that goes on after
  `finish()` raised that its worker has ended). `TerminalFinal`, `SupervisorOwnsRunning` and the
  refinement `KeepsContract` are proved from it.
* `AccessScopesProofs`: `Inv` relates every row to its parent (rights, expiry,
  depth), a request in progress to what it has checked, and admitted work to its
  lineage. That rights shrink along a whole lineage follows from the parents by
  well-foundedness of the depth. `ChildrenWithin`, `Resolvable`, `ToldIsClosed`,
  `AncestorsCanStop`, `ClosedForGood` and `ClosureIsBarrier` are proved.
* `SubmissionProofs`: `Inv` says that whoever is between the look-up of the key and
  the commit is the only writer (`Exclusive`), so what the look-up found is still
  so at the insert (`KeyFree`); that twins which prepare take turns at the key's
  lock, so a candidate in a retry's way belongs to somebody who died; at which
  point of a submission which files exist (`Files`); and that who was told of a job was
  told of one whose directory cannot be removed any more, because it was supervised,
  ended or looked at (`Announced`). `Idempotent` and `FilesAccounted` follow.

  Of `Listing` the same module proves `NothingMissed`. Places are distinct numbers up
  to the size of a set, so `Sorted` enumerates it (`Places`, `SortedSet`), and what is
  not among the first of a set is above all of them (`FirstOfSet`): a batch that is not
  full leaves nothing behind, a full one only what comes after its last row.
  `ListingInv` says what the cursor stands for. In listings that are resumed behind a
  row or a key, what was there all along and lies no further than the cursor has been
  returned, in order (`Behind`); between the cursor and the row looked at last it is on
  the page, and from there on in the batch, or behind a full one (`Ahead`) — this is why
  the cursor of a page of jobs must be the last job on it, and why a page whose call
  fails may be dropped. The cursor of a directory counts entries of a fixed sequence
  while nothing moves (`Entries`); that of a log counts bytes of a prefix (`Bytes`),
  which no longer grows once a terminal status other than lost was read (`Written`).
  Two lemmas (`PageStep`, `LastPageStep`) say what a page must hold for the cursor that
  is handed out with it, one (`SkimStep`) what a row that is passed must leave covered;
  each action then has to meet these.
* `OperationsProofs`: `Inv` follows one call at a time — `Shape` relates the phases
  of caller, row and server, `Place` says who may be at which step, `Torn` that
  content cut short comes with a link that is cut, `Left` where a staged file can
  be — and two conjuncts say what calls do to each other: beside the last mutating
  call that was admitted every other one is over or does not change anything
  (`Exclusive`), so what it has done stands (`Told`), except an operator was
  careless or a store serves late what a write had given up; nothing but writes to a
  store leaves such attempts (`Resends`). One lemma (`Serves`) shows that any step of whoever serves a call keeps
  all of it, if the step keeps to a few conditions; each action then has to meet
  these. `ReleasedIsOver`, `AnswersStand` and `ReadsWithinLimit` follow, for any
  number of calls and any requests.
* `TransferProofs`: `Inv` says for a source of any size what the source may have become
  while somebody watches it (`SourceWatched`), what exporter and stager know of it
  (`SourceKnown`, `StagerKnown`), which helper exists in which phase of the caller
  (`HelpersKnown`), and what the journal and the directories hold for each
  of these (`FilesKnown`). That what is published is the source as it was at one
  moment (`PublishedIsSnapshot`) takes the count of chunks, the exporter's last look
  and the caller's order of finishing together; `OneWriter` and the refinement of
  `Replacement` follow from the same invariant.
* `AdmissionProofs`: `Inv` has the rows of the callers (`Rows`), that claims on record
  exclude each other (`Apart`) and `StillValid`. A path the guard accepted means
  the place it names, so work stays at and below what it writes;
  a step elsewhere changes what a valid request found only if it
  writes a place the request's claims cover, and then the two conflict.
  `NoInterference` follows from `StillValid` and `Apart`. Of a session `StillValid` says
  it only for the places that lie below nothing the session may change
  (`Outermost`): below such a place work under the session may end what validation
  found, and nothing relies on it, because each operation is validated again.
  Proved for any finite set of places closed under parents with two levels, and any
  requests that are well-formed, copies of trees included.
* `S3UploadProofs`: `Inv` says what has been streamed — every part is full
  except the last, so the n-th counts from `(n - 1) * PartSize` and the parts
  put together are the stream (`Streamed`) —, where caller, SDK and
  store are (`Phases`), what was sent and is awaited or answered (`Requested`), and
  what the store holds of it, requests delivered twice included (`Stored`).
  `PublishedIsWhole`, `PartsFit`, `UploadsAccounted` and the refinement of
  `Replacement` follow, for every size of part, chunk and stream.

The assumptions are each module's named one: leases and depths are positive,
requests are well-formed, null values lie outside the sets they complete. No set
of identities is assumed to be finite, except the places of a file system and the
items of a listing.

Every safety invariant and every action property of the runs is a theorem. Some
theorems state properties that no run lists (`OpsWithinSession`, `ClosedForGood`,
`SessionShields`, `UncertainNeedsOperator`, `TerminalFinal`, `SupervisorOwnsRunning`,
`CoverageIsSound`, `ConflictIsInterference`, `NormalizeKeepsMeaning`,
`ClaimOutlivesWork`, `Resolvable`, `FailsForGood`, the type invariants and the
inductive invariants): they were checked with TLC before they were proved.

Only model-checked: liveness (`OrphanReported`, `ExpiredSessionDrains`, `JobSettles`,
`EndsUnlessLost`, `CopyEnds`, `RequestEnds`, `GivenBack`, `CallsSettle`), for which there is no backend,
nor for ENABLED.

## Not modelled, and why

* `cli.py`, `mcp.py`, `__main__.py`: they translate requests and results; the
  rules are in the service they call.
* `config.py`, `registry.py`, `resource.py`, `provider.py`, `conformance.py`,
  `authorization.py`'s policies: parsing and look-up without shared state. What a
  configuration says enters `AccessScopes` as a constant.
* `_scope_wire.py`, the encoding of claims, scopes and rows: formats.
* data roots: `_views.py` and `_scripts/roots.py` narrow a path and follow its links;
  no state, and a walk whose only question is how names are put together.
* of the providers: what they are constructed from, the properties they are
  inspected for, the limits on sizes and counts other than those named above, errors
  as they are worded.
* `temporary.unlink()` failing in the `finally` of a local write, which would leave a
  staged file behind a claim that is let go of, and a second interrupt while a copy
  cleans up.
* of transfers: checks of archive members, created parents, and copies between an
  object and a file system, whose two halves are in `Transfer` and `S3Upload`.
* of the store: prefixes of keys, and versions of objects under their names.
* `integrations/`, `examples/` and scripts: programs that use Ridge.

Two hazards have no property. A host that is suspended, or whose clock is set back,
makes the local deadline of a managed session outlast its row (`sessions.py`); the
modules have one clock. And a request that read the configuration before a resource
was replaced closes a scope issued after it, for good (`_access.py`): that is what the
code does, and nothing says whose configuration should count.

## Plan

Done, in this order: `Claims`, `Coordination` with `Reservations`, `Jobs` with
`JobClaim`, `Transfer` with `Replacement`, `AccessScopes`, `Admission`,
`ManagedSession`, `Submission`, `S3Upload`, `Operations`, `Listing`; proofs about all of
them.

Next, model: data roots in `AccessScopes` and `Admission`, as chains of prefixes;
copies between an object and a file system.
