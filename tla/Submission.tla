----------------------------- MODULE Submission -----------------------------
(***************************************************************************)
(* How background jobs come into being: JobManager.submit in               *)
(* src/ridge/jobs.py, up to the launch of the supervisor, where module     *)
(* Jobs takes over.  Processes submit requests, some of them retries of    *)
(* each other under one idempotency key, and die or fail anywhere.         *)
(*                                                                         *)
(* Every request claims the whole of one resource, so that any two claims  *)
(* conflict.  A request that needs a look at the file system first (a      *)
(* write, a copy, a deletion) prepares: it holds a candidate claim of its  *)
(* own while it looks (module Admission), outside the transaction that     *)
(* later inserts the job.                                                  *)
(***************************************************************************)
CONSTANTS
    Submitters,   \* processes, one submission each
    Requests,     \* what they may submit
    Nobody        \* no submitter

\* What a submitter may be told instead of a job.
Refusal == {"none", "different", "busy", "conflict", "twin", "error"}

\* digest: request_digest; keyed: submitted under the idempotency key.
ASSUME SubmissionAssumption ==
    /\ Nobody \notin Submitters
    /\ Submitters \cap Refusal = {}
    /\ \A r \in Requests :
        /\ {r.keyed, r.prepares, r.payload} \subseteq BOOLEAN
        /\ "digest" \in DOMAIN r

VARIABLES
    request,    \* of each submitter
    pc, prepared,
    answer,     \* what each submitter was told
    lock,       \* who holds the key's preparation lock
    writer,     \* who is in a write transaction of the database
    candidate,  \* the preparation's claim of each submitter
    job,        \* the row of the job each submitter created
    files,      \* what there is of the job directory each submitter made
    launched,   \* submitters that started a supervisor
    leftover,   \* history: submitters that were killed, or could not clean up
    ending      \* history: jobs that finish() got no further with than their payload

local == << request, prepared >>
database == << writer, candidate, job >>
history == << leftover, ending >>

vars == << local, pc, answer, lock, database, files, launched, history >>

PC == {"new", "locking", "begin", "checking", "preparing", "looking", "admitting",
       "mkdir", "storing", "inserting", "committed", "cleanup", "launching", "done", "dead"}

Answer == Refusal \cup Submitters

\* owner: owner.lock, made by whoever looks at an unfinished job.
Path == {"directory", "part", "payload", "owner"}

Init ==
    /\ request \in [Submitters -> Requests]
    /\ pc = [c \in Submitters |-> "new"]
    /\ prepared = [c \in Submitters |-> FALSE]
    /\ answer = [c \in Submitters |-> "none"]
    /\ lock = Nobody /\ writer = Nobody
    /\ candidate = [c \in Submitters |-> "none"]
    /\ job = [c \in Submitters |-> "none"]
    /\ files = [c \in Submitters |-> {}]
    /\ launched = {} /\ leftover = {} /\ ending = {}
-----------------------------------------------------------------------------
Twins(b, c) == b # c /\ request[b] = request[c] /\ request[c].keyed

\* Whose claims are in the way of c.
Claimants(c) ==
    {b \in Submitters \ {c} : candidate[b] # "none" \/ job[b] = "unfinished"}

\* The job on record under the key.
Existing == {b \in Submitters : request[b].keyed /\ job[b] # "none"}

Goes(c, step) == pc' = [pc EXCEPT ![c] = step]

\* The preparation lock is released, and what the transaction wrote with it.
Ends(c, told) ==
    /\ Goes(c, "done")
    /\ answer' = [answer EXCEPT ![c] = told]
    /\ lock' = IF lock = c THEN Nobody ELSE lock
    /\ writer' = IF writer = c THEN Nobody ELSE writer

\* _reconcile() opens owner.lock, in a directory that has to be there.
Lost == {b \in Submitters : job[b] = "unfinished" /\ "directory" \notin files[b]}

Visited(jobs) ==
    [b \in Submitters |->
        files[b] \cup IF b \in jobs /\ job[b] = "unfinished" THEN {"owner"} ELSE {}]

Told(blockers, c) == IF \E b \in blockers : Twins(b, c) THEN "twin" ELSE "conflict"
-----------------------------------------------------------------------------
\* reconcile_claims() looks at every unfinished job, and raises over a lost one.
Call(c) ==
    /\ pc[c] = "new"
    /\ IF Lost = {}
       THEN /\ Goes(c, IF request[c].keyed /\ request[c].prepares THEN "locking" ELSE "begin")
            /\ files' = Visited(Submitters)
            /\ UNCHANGED << answer, lock, writer >>
       ELSE Ends(c, "error") /\ UNCHANGED files
    /\ UNCHANGED << local, candidate, job, launched, history >>

\* Mutant of TakeLock: the file was unlinked, and the lock is on another inode.
TakeLockElsewhere(c) ==
    /\ pc[c] = "locking"
    /\ Goes(c, "begin")
    /\ lock' = c
    /\ UNCHANGED << local, answer, database, files, launched, history >>

TakeLock(c) ==
    /\ pc[c] = "locking" /\ lock = Nobody
    /\ Goes(c, "begin")
    /\ lock' = c
    /\ UNCHANGED << local, answer, database, files, launched, history >>

LockTimesOut(c) ==
    /\ pc[c] = "locking" /\ lock # Nobody
    /\ Ends(c, "busy")
    /\ UNCHANGED << local, candidate, job, files, launched, history >>

Begin(c) ==
    /\ pc[c] = "begin" /\ writer = Nobody
    /\ Goes(c, "checking")
    /\ writer' = c
    /\ UNCHANGED << local, answer, lock, candidate, job, files, launched, history >>

Found == CHOOSE b \in Existing : TRUE

\* The key is looked up before a preparation and again after it; get() looks at
\* the job it has, too.
Replay(c) ==
    /\ pc[c] = "checking" /\ request[c].keyed /\ Existing # {}
    /\ \/ /\ request[Found].digest # request[c].digest
          /\ Ends(c, "different") /\ UNCHANGED files
       \/ /\ request[Found].digest = request[c].digest /\ Found \in Lost
          /\ Ends(c, "error") /\ UNCHANGED files
       \/ /\ request[Found].digest = request[c].digest /\ Found \notin Lost
          /\ Ends(c, Found) /\ files' = Visited({Found})
    /\ UNCHANGED << local, candidate, job, launched, history >>

Check(c) ==
    /\ pc[c] = "checking" /\ ~(request[c].keyed /\ Existing # {})
    /\ IF request[c].prepares /\ ~prepared[c]
       THEN Goes(c, "preparing") /\ writer' = Nobody
       ELSE Goes(c, "admitting") /\ UNCHANGED writer
    /\ UNCHANGED << local, answer, lock, candidate, job, files, launched, history >>

\* _submission_claims(): a candidate is admitted, and released after the look.
Prepare(c) ==
    /\ pc[c] = "preparing" /\ writer = Nobody /\ Lost = {}
    /\ files' = Visited(Submitters)
    /\ IF Claimants(c) = {}
       THEN /\ Goes(c, "looking")
            /\ candidate' = [candidate EXCEPT ![c] = "active"]
            /\ UNCHANGED << answer, lock, writer >>
       ELSE Ends(c, Told(Claimants(c), c)) /\ UNCHANGED candidate
    /\ UNCHANGED << local, job, launched, history >>

\* The OSError of reconcile_claims() counts as a place that cannot be looked at.
PrepareBroadly(c) ==
    /\ pc[c] = "preparing" /\ Lost # {}
    /\ Goes(c, "begin")
    /\ prepared' = [prepared EXCEPT ![c] = TRUE]
    /\ UNCHANGED << request, answer, lock, database, files, launched, history >>

Prepared(c) ==
    /\ pc[c] = "looking" /\ writer = Nobody
    /\ Goes(c, "begin")
    /\ prepared' = [prepared EXCEPT ![c] = TRUE]
    /\ candidate' = [candidate EXCEPT ![c] = "none"]
    /\ UNCHANGED << request, answer, lock, writer, job, files, launched, history >>

\* The look fails in a way the job would not survive.
PreparationFails(c) ==
    /\ pc[c] = "looking" /\ writer = Nobody
    /\ Ends(c, "error")
    /\ candidate' = [candidate EXCEPT ![c] = "none"]
    /\ UNCHANGED << local, job, files, launched, history >>

\* The job's claim is visible to nobody before the commit.
Admit(c) ==
    /\ pc[c] = "admitting"
    /\ IF Claimants(c) = {}
       THEN Goes(c, "mkdir") /\ UNCHANGED << answer, lock, writer >>
       ELSE Ends(c, Told(Claimants(c), c))
    /\ UNCHANGED << local, candidate, job, files, launched, history >>

MakeDirectory(c) ==
    /\ pc[c] = "mkdir"
    /\ Goes(c, IF request[c].payload THEN "storing" ELSE "inserting")
    /\ files' = [files EXCEPT ![c] = {"directory"}]
    /\ UNCHANGED << local, answer, lock, database, launched, history >>

\* The payload may be cut short by an error.
Store(c) ==
    /\ pc[c] = "storing"
    /\ \/ /\ Goes(c, "inserting")
          /\ files' = [files EXCEPT ![c] = @ \cup {"payload"}]
       \/ /\ Goes(c, "cleanup")
          /\ files' \in {files, [files EXCEPT ![c] = @ \cup {"part"}]}
    /\ UNCHANGED << local, answer, lock, database, launched, history >>

\* INSERT INTO jobs, where keys are unique, and commit
Commit(c) ==
    /\ pc[c] = "inserting"
    /\ ~request[c].keyed \/ Existing = {}
    /\ Goes(c, "committed")
    /\ job' = [job EXCEPT ![c] = "unfinished"]
    /\ writer' = Nobody
    /\ UNCHANGED << local, answer, lock, candidate, files, launched, history >>

CommitFails(c) ==
    /\ pc[c] = "inserting"
    /\ Goes(c, "cleanup")
    /\ UNCHANGED << local, answer, lock, database, files, launched, history >>

\* An interrupt that arrives as commit() returns undoes the files of a job that
\* is there.
Interrupted(c) ==
    /\ pc[c] = "committed"
    /\ Goes(c, "cleanup")
    /\ UNCHANGED << local, answer, lock, database, files, launched, history >>

\* Mutant of Cleaned: the payload is not removed before its directory.
CleanedDirectory(c) == IF files[c] = {"directory"} THEN {} ELSE files[c]

\* rmdir() fails over the owner.lock of somebody who looked meanwhile.
Cleaned(c) == IF "owner" \in files[c] THEN {"directory", "owner"} ELSE {}

\* Files are removed before the connection is closed; failures are suppressed.
Cleanup(c) ==
    /\ pc[c] = "cleanup"
    /\ Ends(c, "error")
    /\ \/ files' = [files EXCEPT ![c] = Cleaned(c)] /\ UNCHANGED leftover
       \/ /\ leftover' = leftover \cup {c}
          /\ files' \in {files, [files EXCEPT ![c] = @ \ {"part", "payload"}]}
    /\ UNCHANGED << local, candidate, job, launched, ending >>

Proceed(c) ==
    /\ pc[c] = "committed"
    /\ Goes(c, "launching")
    /\ UNCHANGED << local, answer, lock, database, files, launched, history >>

Launch(c) ==
    /\ pc[c] = "launching"
    /\ Ends(c, c)
    /\ launched' = launched \cup {c}
    /\ UNCHANGED << local, candidate, job, files, history >>

\* Mutant of Settles: the payload has to be there.
SettlesStored(c) ==
    /\ request[c].payload => "payload" \in files[c]
    /\ job' = [job EXCEPT ![c] = "finished"]
    /\ files' \in {files, [files EXCEPT ![c] = @ \ {"payload"}]}
    /\ UNCHANGED ending

\* finish(): the payload goes, if the end of its readers is verified and it can be
\* removed, and then the row with its claim.
Settles(c) ==
    /\ job' = [job EXCEPT ![c] = "finished"]
    /\ files' \in {files, [files EXCEPT ![c] = @ \ {"payload"}]}
    /\ UNCHANGED ending

\* It dies or raises after the first and before the second.
Unlinks(c) ==
    /\ files' = [files EXCEPT ![c] = @ \ {"payload"}]
    /\ ending' = ending \cup {c}
    /\ UNCHANGED job

Finishes(c) == job[c] = "unfinished" /\ writer = Nobody /\ (Settles(c) \/ Unlinks(c))

\* Popen() raises, and finish() may do so before it has done anything.
LaunchFails(c) ==
    /\ pc[c] = "launching"
    /\ Finishes(c) \/ UNCHANGED << job, files, ending >>
    /\ Ends(c, "error")
    /\ UNCHANGED << local, candidate, launched, leftover >>

\* Scope checks, the database and the file system may fail anywhere else.
Fails(c) ==
    /\ pc[c] \in {"begin", "checking", "preparing", "admitting", "mkdir"}
    /\ Ends(c, "error")
    /\ UNCHANGED << local, candidate, job, files, launched, history >>

\* SQLite rolls the transaction of a dead process back, the kernel drops its lock.
Dies(c) ==
    /\ pc[c] \notin {"new", "done", "dead"}
    /\ Goes(c, "dead")
    /\ lock' = IF lock = c THEN Nobody ELSE lock
    /\ writer' = IF writer = c THEN Nobody ELSE writer
    /\ candidate' = [candidate EXCEPT ![c] = IF @ = "active" THEN "uncertain" ELSE @]
    /\ leftover' = leftover \cup {c}
    /\ UNCHANGED << local, answer, job, files, launched, ending >>

\* The supervisor, or who asks for the job, opens its owner.lock ...
Look(c) ==
    /\ job[c] = "unfinished" /\ "directory" \in files[c]
    /\ files' = Visited({c})
    /\ UNCHANGED << local, pc, answer, lock, database, launched, history >>

\* ... before the job ends, or is given up because nobody started it.
JobEnds(c) ==
    /\ "owner" \in files[c] /\ Finishes(c)
    /\ UNCHANGED << local, pc, answer, lock, writer, candidate, launched, leftover >>

\* An operator releases the candidate a dead submitter left.
ForceRelease(c) ==
    /\ candidate[c] = "uncertain" /\ writer = Nobody
    /\ candidate' = [candidate EXCEPT ![c] = "none"]
    /\ UNCHANGED << local, pc, answer, lock, writer, job, files, launched, history >>

Submission(c) ==
    \/ Call(c) \/ TakeLock(c) \/ LockTimesOut(c) \/ Begin(c) \/ Replay(c) \/ Check(c)
    \/ Prepare(c) \/ PrepareBroadly(c) \/ Prepared(c) \/ PreparationFails(c)
    \/ Admit(c) \/ MakeDirectory(c) \/ Store(c)
    \/ Commit(c) \/ CommitFails(c) \/ Cleanup(c)
    \/ Proceed(c) \/ Launch(c) \/ LaunchFails(c)

Next ==
    \E c \in Submitters :
        \/ Submission(c) \/ Interrupted(c) \/ Fails(c) \/ Dies(c)
        \/ Look(c) \/ JobEnds(c) \/ ForceRelease(c)

Spec == Init /\ [][Next]_vars

\* Submitters go on, and somebody keeps asking for every job.
Fairness ==
    \A c \in Submitters :
        WF_vars(Submission(c)) /\ WF_vars(Look(c)) /\ WF_vars(JobEnds(c))

FairSpec == Spec /\ Fairness
-----------------------------------------------------------------------------
TypeOK ==
    /\ request \in [Submitters -> Requests]
    /\ pc \in [Submitters -> PC]
    /\ prepared \in [Submitters -> BOOLEAN]
    /\ answer \in [Submitters -> Answer]
    /\ {lock, writer} \subseteq Submitters \cup {Nobody}
    /\ candidate \in [Submitters -> {"none", "active", "uncertain"}]
    /\ job \in [Submitters -> {"none", "unfinished", "finished"}]
    /\ files \in [Submitters -> SUBSET Path]
    /\ {launched, leftover, ending} \subseteq SUBSET Submitters

\* A retry is not another request: there is one job under a key, who is told of a
\* job asked for that one, and a submission does not stand in the way of its own
\* retries, unless it died over its preparation and nobody can tell how far it
\* came (_submit, _preparation_lock).
Idempotent ==
    /\ \A b, c \in Existing : b = c
    /\ \A b, c \in Submitters :
        /\ answer[c] = b => request[b].digest = request[c].digest /\ job[b] # "none"
        /\ answer[c] = "twin" => \E d \in leftover : Twins(d, c) /\ ~prepared[d]

\* A supervisor is only started for a job whose directory stays until its end,
\* and whose payload stays until its end begins; files without a row are on their
\* way to one, unless cleaning up failed; and an interrupt as commit() returns,
\* which takes the directory from under a job so that nobody can ever end it, does
\* so only to a job that nobody has been told of (_submit, finish, _reconcile).
FilesAccounted ==
    \A c \in Submitters :
        /\ c \in launched /\ job[c] = "unfinished" =>
                /\ "directory" \in files[c]
                /\ request[c].payload => "payload" \in files[c] \/ c \in ending
        /\ files[c] # {} /\ job[c] = "none" =>
                pc[c] \in {"storing", "inserting", "cleanup"} \/ c \in leftover
        /\ c \in Lost => \A b \in Submitters : answer[b] # c

\* Whoever asks for a job that nobody works on any more brings it to an end, also
\* after an end that broke off between its two steps, unless it lost its directory.
EndsUnlessLost ==
    \A c \in Submitters :
        job[c] = "unfinished" ~> (job[c] = "finished" \/ c \in Lost)

\* The documentation has no such exception (docs/guides/jobs.md on start-up).
AbandonedEnds ==
    \A c \in Submitters : job[c] = "unfinished" ~> job[c] = "finished"
=============================================================================
