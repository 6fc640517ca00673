-------------------------------- MODULE Jobs --------------------------------
(***************************************************************************)
(* One background job: src/ridge/jobs.py and src/ridge/_job_runner.py.     *)
(*                                                                         *)
(* A submitter commits the job and its claim in one transaction and then   *)
(* starts a supervisor.  The supervisor takes the job's owner.lock, claims *)
(* the row, starts a gated worker in a process group of its own, and polls *)
(* the row, the worker's outcome file and the process table.  Observers    *)
(* (get, list, cancel's own polling) finish what has no live owner.  Every *)
(* process may die between any two steps, and any step of a supervisor may *)
(* raise.  Jobs share nothing but the database, so one job is enough.      *)
(***************************************************************************)
EXTENDS Naturals

CONSTANTS
    Observers,   \* processes that call get() on the job
    Nobody       \* owner.lock is free

ASSUME JobsAssumption ==
    /\ Nobody \notin Observers
    /\ Nobody # "supervisor"
    /\ "supervisor" \notin Observers

VARIABLES
    job,        \* row of table jobs, and status of its row in lock_operations
    submitter,  \* the call of submit()
    owner,      \* holder of the flock on owner.lock
    sup,        \* the supervisor process
    worker,     \* the worker process, its process group and its remote work
    gate,       \* the pipe that authorizes the worker
    outcome,    \* outcome.json
    observer    \* what each observer is about to do

vars == << job, submitter, owner, sup, worker, gate, outcome, observer >>

Terminal == {"succeeded", "failed", "cancelled", "lost"}

Unfinished == {"starting", "running"}

Result == {"none", "succeeded", "failed", "cancelled"}

\* expired: STARTUP_SECONDS have passed since submitted_at.
Job == [status  : {"none"} \cup Unfinished \cup Terminal,
        cancel  : BOOLEAN,
        expired : BOOLEAN,
        payload : BOOLEAN,
        local   : BOOLEAN,
        claim   : {"none", "active", "uncertain", "released"},
        forced  : BOOLEAN]

\* next: why the supervisor is stopping the process group; stopped and kept:
\* the locals stopped and worker_stopped; seen: the cancellation it last read.
Supervisor == [pc      : {"none", "lock", "claim", "spawn", "gate", "loop", "poll",
                          "snapshot", "recheck", "stop", "decide", "except",
                          "exceptRead", "exceptFinish", "exceptRetry", "gone"},
               next    : {"none", "cancel", "settle", "abandon", "except"},
               stopped : BOOLEAN,
               kept    : BOOLEAN,
               seen    : BOOLEAN]

\* children: descendants still at work; remote: work on another machine.
Worker == [pc       : {"none", "gated", "ready", "prepared", "validated",
                       "working", "returned", "gone"},
           result   : Result,
           begun    : BOOLEAN,
           children : BOOLEAN,
           remote   : BOOLEAN,
           term     : BOOLEAN]

\* _live_group(): what ps can see of the worker's process group.
GroupDead == worker.pc \in {"none", "gone"} /\ ~worker.children

\* Something may be changing the resource.
AtWork == worker.pc = "working" \/ worker.children \/ worker.remote
-----------------------------------------------------------------------------
Init ==
    /\ job = [status |-> "none", cancel |-> FALSE, expired |-> FALSE, payload |-> FALSE,
              local |-> FALSE, claim |-> "none", forced |-> FALSE]
    /\ submitter = "idle"
    /\ owner = Nobody
    /\ sup = [pc |-> "none", next |-> "none", stopped |-> FALSE, kept |-> FALSE,
              seen |-> FALSE]
    /\ worker = [pc |-> "none", result |-> "none", begun |-> FALSE,
                 children |-> FALSE, remote |-> FALSE, term |-> FALSE]
    /\ gate = "closed"
    /\ outcome = "none"
    /\ observer = [o \in Observers |-> "idle"]

\* Mutant of Accepts: a recorded cancellation does not refuse a completion.
AcceptsCompletion(status) == job.status \in Unfinished

\* The two early returns of finish().
Accepts(status) ==
    /\ job.status \in Unfinished
    /\ ~(job.cancel /\ status \in {"succeeded", "failed"})

\* Mutant of Safe: local termination is taken for the end of all work.
SafeIfStopped(status, verified) == job.status = "starting" \/ verified

\* finish(): is the claim's release proved by what the caller verified?
Safe(status, verified) ==
    \/ job.status = "starting"
    \/ verified /\ (job.local \/ status = "succeeded")

\* Mutant of Finish: the payload goes whether or not a worker may still read it.
FinishUnlinking(status, verified) ==
    /\ Accepts(status)
    /\ job' = [job EXCEPT !.status = status, !.payload = FALSE,
                          !.claim = IF Safe(status, verified) THEN "released" ELSE "uncertain"]

\* finish(): terminal row, payload and claim in one transaction.  Removing
\* the payload may fail without undoing the rest.
Finish(status, verified) ==
    /\ Accepts(status)
    /\ \E payload \in IF verified THEN {FALSE, job.payload} ELSE {job.payload} :
        job' = [job EXCEPT
            !.status = status,
            !.payload = payload,
            !.claim = IF @ = "released" THEN @
                      ELSE IF Safe(status, verified) THEN "released" ELSE "uncertain"]
-----------------------------------------------------------------------------
(* submit() and cancel() *)

\* _submit() up to its commit: claim, payload file and row.
Submit ==
    /\ submitter = "idle"
    /\ submitter' = "committed"
    /\ \E local \in BOOLEAN :
        job' = [job EXCEPT !.status = "starting", !.payload = TRUE,
                           !.local = local, !.claim = "active"]
    /\ UNCHANGED << owner, sup, worker, gate, outcome, observer >>

StartSupervisor ==
    /\ submitter = "committed"
    /\ \/ submitter' = "done" /\ sup' = [sup EXCEPT !.pc = "lock"]
       \/ submitter' = "failed" /\ UNCHANGED sup
    /\ UNCHANGED << job, owner, worker, gate, outcome, observer >>

\* Popen raised: there is no supervisor and there will be none.
ReportStartFailure ==
    /\ submitter = "failed"
    /\ submitter' = "done"
    /\ Finish("failed", TRUE) \/ (~Accepts("failed") /\ UNCHANGED job)
    /\ UNCHANGED << owner, sup, worker, gate, outcome, observer >>

\* It may die after finish() has removed the payload, too.
SubmitterDies ==
    /\ submitter \in {"committed", "failed"}
    /\ submitter' = "done"
    /\ \/ UNCHANGED job
       \/ submitter = "failed" /\ Accepts("failed") /\ job' = [job EXCEPT !.payload = FALSE]
    /\ UNCHANGED << owner, sup, worker, gate, outcome, observer >>

Cancel ==
    /\ job.status \in Unfinished
    /\ job' = [job EXCEPT !.cancel = TRUE]
    /\ UNCHANGED << submitter, owner, sup, worker, gate, outcome, observer >>

StartupExpires ==
    /\ job.status # "none" /\ ~job.expired
    /\ job' = [job EXCEPT !.expired = TRUE]
    /\ UNCHANGED << submitter, owner, sup, worker, gate, outcome, observer >>

\* Coordination.force_release(), by an operator.
ForceRelease ==
    /\ job.claim = "uncertain"
    /\ job' = [job EXCEPT !.claim = "released", !.forced = TRUE]
    /\ UNCHANGED << submitter, owner, sup, worker, gate, outcome, observer >>
-----------------------------------------------------------------------------
(* _run(): the supervisor *)

At(pc) == [sup EXCEPT !.pc = pc]

Move(next) ==
    /\ sup' = next
    /\ UNCHANGED << job, submitter, owner, worker, gate, outcome, observer >>

\* The process ends: the kernel frees the flock and closes the pipe.
Exit ==
    /\ sup' = At("gone")
    /\ owner' = IF owner = "supervisor" THEN Nobody ELSE owner
    /\ gate' = IF gate = "closed" THEN "eof" ELSE gate

TakeLock ==
    /\ sup.pc = "lock" /\ owner = Nobody
    /\ owner' = "supervisor"
    /\ sup' = At("claim")
    /\ UNCHANGED << job, submitter, worker, gate, outcome, observer >>

\* Blocked by an observer: the launch is kept while it can still be claimed.
GiveUpLock ==
    /\ sup.pc = "lock" /\ owner # Nobody
    /\ job.status # "starting" \/ job.expired
    /\ Exit
    /\ UNCHANGED << job, submitter, worker, outcome, observer >>

ClaimRow ==
    /\ sup.pc = "claim"
    /\ job.status = "starting" /\ ~job.cancel /\ ~job.expired
    /\ job' = [job EXCEPT !.status = "running"]
    /\ sup' = At("spawn")
    /\ UNCHANGED << submitter, owner, worker, gate, outcome, observer >>

ClaimRefused ==
    /\ sup.pc = "claim"
    /\ ~(job.status = "starting" /\ ~job.cancel /\ ~job.expired)
    /\ Exit
    /\ UNCHANGED << job, submitter, worker, outcome, observer >>

SpawnWorker ==
    /\ sup.pc = "spawn"
    /\ worker' = [worker EXCEPT !.pc = "gated"]
    /\ sup' = At("gate")
    /\ UNCHANGED << job, submitter, owner, gate, outcome, observer >>

OpenGate ==
    /\ sup.pc = "gate"
    /\ gate' = "open"
    /\ sup' = At("loop")
    /\ UNCHANGED << job, submitter, owner, worker, outcome, observer >>

\* _stop_group() is skipped once the group is known to be dead.
StopFor(why) ==
    [sup EXCEPT !.pc = IF sup.kept THEN "decide" ELSE "stop", !.next = why]

\* Mutant of ReadRow: cancellation is left to the worker.
ReadRowBlindly ==
    /\ sup.pc = "loop"
    /\ Move(At("poll"))

\* The top of the loop reads the row.
ReadRow ==
    /\ sup.pc = "loop"
    /\ Move(IF job.cancel THEN StopFor("cancel") ELSE At("poll"))

PollOutcome ==
    /\ sup.pc = "poll"
    /\ Move(IF outcome # "none" THEN StopFor("settle") ELSE At("snapshot"))

\* ps: is the group's leader still there?
Snapshot ==
    /\ sup.pc = "snapshot"
    /\ Move(At(IF worker.pc = "gone" THEN "recheck" ELSE "loop"))

\* Mutant of Recheck: the first look at the outcome file is trusted.
RecheckNothing ==
    /\ sup.pc = "recheck"
    /\ Move(StopFor("abandon"))

\* The worker may have published between the poll and the snapshot.
Recheck ==
    /\ sup.pc = "recheck"
    /\ Move(IF outcome # "none" THEN At("loop") ELSE StopFor("abandon"))

\* _stop_group(): SIGTERM, then SIGKILL, to the whole group.
Terminate ==
    /\ sup.pc = "stop" /\ ~worker.term
    /\ worker' = [worker EXCEPT !.term = TRUE]
    /\ UNCHANGED << job, submitter, owner, sup, gate, outcome, observer >>

Kill ==
    /\ sup.pc = "stop" /\ worker.term /\ ~GroupDead
    /\ worker' = [worker EXCEPT !.pc = "gone", !.children = FALSE]
    /\ UNCHANGED << job, submitter, owner, sup, gate, outcome, observer >>

Stopped(yes) ==
    [sup EXCEPT !.stopped = yes,
                !.kept = IF sup.next \in {"settle", "abandon"} THEN yes ELSE @,
                !.pc = IF sup.next = "except" THEN "exceptRead" ELSE "decide"]

StopVerified ==
    /\ sup.pc = "stop" /\ GroupDead
    /\ Move(Stopped(TRUE))

\* Neither signal emptied the group in time.
StopUnverified ==
    /\ sup.pc = "stop" /\ worker.term /\ ~GroupDead
    /\ Move(Stopped(FALSE))

\* What the supervisor publishes once it has tried to stop the group.
Verdict ==
    IF ~sup.stopped \/ sup.next = "abandon" THEN "lost"
    ELSE IF sup.next = "cancel" THEN "cancelled"
    ELSE outcome

Decide ==
    /\ sup.pc = "decide"
    /\ Finish(Verdict, sup.stopped)
    /\ Exit
    /\ UNCHANGED << submitter, worker, outcome, observer >>

\* A completion that lost against a cancellation goes round again; every
\* other path returns whatever finish() said.
DecideRefused ==
    /\ sup.pc = "decide"
    /\ ~Accepts(Verdict)
    /\ IF sup.next = "settle" /\ sup.stopped
       THEN sup' = At("loop") /\ UNCHANGED << owner, gate >>
       ELSE Exit
    /\ UNCHANGED << job, submitter, worker, outcome, observer >>

\* What its handler publishes, once it has tried that again.
ExceptVerdict ==
    IF ~sup.stopped THEN "lost" ELSE IF sup.seen THEN "cancelled" ELSE "failed"

\* The supervisor is about to publish with the group stopped: finish() removes the
\* payload before its transaction commits, and may raise, or die, in between.
Publishing ==
    \/ sup.pc = "decide" /\ sup.stopped /\ Accepts(Verdict)
    \/ sup.pc = "exceptFinish" /\ sup.stopped /\ Accepts(ExceptVerdict)
    \/ sup.pc = "exceptRetry" /\ Accepts("cancelled")

\* Any step of the supervision may raise: pipe, Popen, ps, database.  Both
\* ends of the pipe are closed by then, and the payload may be gone.
Raises ==
    /\ \/ sup.pc \in {"spawn", "gate", "loop", "poll", "snapshot", "decide"}
       \/ sup.pc = "stop" /\ sup.next # "except"
    /\ sup' = At("except")
    /\ gate' = IF gate = "closed" THEN "eof" ELSE gate
    /\ \/ UNCHANGED job
       \/ Publishing /\ job' = [job EXCEPT !.payload = FALSE]
    /\ UNCHANGED << submitter, owner, worker, outcome, observer >>

\* The handler stops what it started; another exception there is swallowed.
HandleException ==
    /\ sup.pc = "except"
    /\ Move(IF sup.kept \/ worker.pc = "none"
            THEN [sup EXCEPT !.pc = "exceptRead", !.stopped = TRUE]
            ELSE [sup EXCEPT !.pc = "stop", !.next = "except"])

StopRaises ==
    /\ sup.pc = "stop" /\ sup.next = "except"
    /\ Move(Stopped(FALSE))

ExceptRead ==
    /\ sup.pc = "exceptRead"
    /\ Move([sup EXCEPT !.pc = "exceptFinish", !.seen = job.cancel])

ExceptFinish ==
    /\ sup.pc = "exceptFinish"
    /\ \/ Finish(ExceptVerdict, sup.stopped) /\ Exit
       \/ /\ ~Accepts(ExceptVerdict)
          /\ IF sup.stopped THEN sup' = At("exceptRetry") /\ UNCHANGED << owner, gate >> ELSE Exit
          /\ UNCHANGED job
    /\ UNCHANGED << submitter, worker, outcome, observer >>

\* A cancellation arrived after the handler read the row.
ExceptRetry ==
    /\ sup.pc = "exceptRetry"
    /\ Finish("cancelled", TRUE) \/ (~Accepts("cancelled") /\ UNCHANGED job)
    /\ Exit
    /\ UNCHANGED << submitter, worker, outcome, observer >>

SupervisorDies ==
    /\ sup.pc \notin {"none", "gone"}
    /\ Exit
    /\ UNCHANGED << job, submitter, worker, outcome, observer >>

SupervisorDiesFinishing ==
    /\ Publishing
    /\ job' = [job EXCEPT !.payload = FALSE]
    /\ Exit
    /\ UNCHANGED << submitter, worker, outcome, observer >>
-----------------------------------------------------------------------------
(* _work(): the worker and its process group *)

WorkerMove(next) ==
    /\ worker' = next
    /\ UNCHANGED << job, submitter, owner, sup, gate, outcome, observer >>

PassGate ==
    /\ worker.pc = "gated"
    /\ \/ gate = "open" /\ WorkerMove([worker EXCEPT !.pc = "ready"])
       \/ gate = "eof" /\ WorkerMove([worker EXCEPT !.pc = "gone"])

\* The worker reads its own row: a cancellation that is already there wins.
Prepare ==
    /\ worker.pc = "ready"
    /\ WorkerMove(IF job.cancel
                  THEN [worker EXCEPT !.pc = "returned", !.result = "cancelled"]
                  ELSE [worker EXCEPT !.pc = "prepared"])

\* Coordination.validate_job(), reached through RidgeService._operation().
Validate ==
    /\ worker.pc = "prepared"
    /\ WorkerMove(IF job.claim = "active"
                  THEN [worker EXCEPT !.pc = "validated"]
                  ELSE [worker EXCEPT !.pc = "returned", !.result = "failed"])

\* Configuration, planning or the payload cannot be read.
PrepareFails ==
    /\ worker.pc \in {"prepared", "validated"}
    /\ WorkerMove([worker EXCEPT !.pc = "returned", !.result = "failed"])

StartWork ==
    /\ worker.pc = "validated"
    /\ WorkerMove([worker EXCEPT !.pc = "working", !.begun = TRUE, !.remote = ~job.local])

LeaveChild ==
    /\ worker.pc = "working" /\ ~worker.children
    /\ WorkerMove([worker EXCEPT !.children = TRUE])

\* The operation returned, so whatever it did on another machine is over.
WorkSucceeds ==
    /\ worker.pc = "working"
    /\ WorkerMove([worker EXCEPT !.pc = "returned", !.result = "succeeded", !.remote = FALSE])

\* It raised, which says nothing of other machines.
WorkFails ==
    /\ worker.pc = "working"
    /\ WorkerMove([worker EXCEPT !.pc = "returned", !.result = "failed"])

\* The SIGTERM handler raises _Cancelled.
Interrupted ==
    /\ worker.term /\ worker.pc \in {"ready", "prepared", "validated", "working"}
    /\ WorkerMove([worker EXCEPT !.pc = "returned", !.result = "cancelled"])

WriteOutcome ==
    /\ worker.pc = "returned"
    /\ outcome' = worker.result
    /\ worker' = [worker EXCEPT !.pc = "gone"]
    /\ UNCHANGED << job, submitter, owner, sup, gate, observer >>

WorkerDies ==
    /\ worker.pc \notin {"none", "gone"}
    /\ WorkerMove([worker EXCEPT !.pc = "gone"])

ChildEnds ==
    /\ worker.children
    /\ WorkerMove([worker EXCEPT !.children = FALSE])

RemoteEnds ==
    /\ worker.remote /\ worker.pc # "working"
    /\ WorkerMove([worker EXCEPT !.remote = FALSE])
-----------------------------------------------------------------------------
(* get() and _reconcile(): observers *)

ObserverMove(o, next, lock) ==
    /\ observer' = [observer EXCEPT ![o] = next]
    /\ owner' = lock
    /\ UNCHANGED << submitter, sup, worker, gate, outcome >>

\* The row was unfinished when get() read it, and nobody owns the job.
Observe(o) ==
    /\ observer[o] = "idle"
    /\ job.status \in Unfinished /\ owner = Nobody
    /\ ObserverMove(o, "locked", o)
    /\ UNCHANGED job

\* What is wrong with an unfinished job that nobody owns.
Finding ==
    IF job.status = "starting" /\ job.cancel THEN "cancelled"
    ELSE IF job.status = "starting" /\ job.expired THEN "expired"
    ELSE IF job.status = "running" THEN "vanished"
    ELSE "idle"

\* The row is read again under the lock.
Judge(o) ==
    /\ observer[o] = "locked"
    /\ ObserverMove(o, Finding, IF Finding = "idle" THEN Nobody ELSE owner)
    /\ UNCHANGED job

Conclude(o) ==
    /\ \/ observer[o] = "cancelled" /\ Finish("cancelled", TRUE)
       \/ observer[o] = "expired" /\ Finish("lost", TRUE)
       \/ observer[o] = "vanished" /\ Finish("lost", FALSE)
       \/ observer[o] \in {"cancelled", "expired", "vanished"}
            /\ job.status \notin Unfinished /\ UNCHANGED job
    /\ ObserverMove(o, "idle", Nobody)

\* An observer may die anywhere, and once it has removed the payload too.
ObserverDies(o) ==
    /\ observer[o] # "idle"
    /\ \/ UNCHANGED job
       \/ /\ observer[o] \in {"cancelled", "expired"} /\ job.status \in Unfinished
          /\ job' = [job EXCEPT !.payload = FALSE]
    /\ ObserverMove(o, "idle", Nobody)
-----------------------------------------------------------------------------
Submission == Submit \/ StartSupervisor \/ ReportStartFailure \/ SubmitterDies

Supervision ==
    \/ TakeLock \/ GiveUpLock \/ ClaimRow \/ ClaimRefused \/ SpawnWorker \/ OpenGate
    \/ ReadRow \/ PollOutcome \/ Snapshot \/ Recheck
    \/ Terminate \/ Kill \/ StopVerified \/ StopUnverified
    \/ Decide \/ DecideRefused
    \/ HandleException \/ StopRaises \/ ExceptRead \/ ExceptFinish \/ ExceptRetry

SupervisionFails == Raises \/ SupervisorDies \/ SupervisorDiesFinishing

Working ==
    \/ PassGate \/ Prepare \/ Validate \/ PrepareFails \/ StartWork \/ LeaveChild
    \/ WorkSucceeds \/ WorkFails \/ Interrupted \/ WriteOutcome \/ WorkerDies
    \/ ChildEnds \/ RemoteEnds

Observation == \E o \in Observers : Observe(o) \/ Judge(o) \/ Conclude(o) \/ ObserverDies(o)

Next ==
    \/ Submission \/ Supervision \/ SupervisionFails \/ Working \/ Observation
    \/ Cancel \/ StartupExpires \/ ForceRelease

Spec == Init /\ [][Next]_vars

\* The supervisor is scheduled; somebody keeps asking for the job's status,
\* as cancel() and list do, and is not killed every time it holds the lock.
Fairness ==
    /\ WF_vars(Supervision)
    /\ WF_vars(StartupExpires)
    /\ \A o \in Observers :
        WF_vars(Observe(o)) /\ SF_vars(Judge(o)) /\ SF_vars(Conclude(o))

FairSpec == Spec /\ Fairness
-----------------------------------------------------------------------------
TypeOK ==
    /\ job \in Job
    /\ submitter \in {"idle", "committed", "failed", "done"}
    /\ owner \in Observers \cup {Nobody, "supervisor"}
    /\ sup \in Supervisor
    /\ worker \in Worker
    /\ gate \in {"closed", "open", "eof"}
    /\ outcome \in Result
    /\ observer \in [Observers -> {"idle", "locked", "cancelled", "expired", "vanished"}]

\* The supervisor has claimed the job and not ended.
Supervising == sup.pc \notin {"none", "lock", "claim", "gone"}

NeverWorks == worker.pc \in {"none", "gone"} /\ ~worker.children /\ ~worker.remote

\* The row and its claim are settled together: an unfinished job holds its
\* claim, and a finished one never leaves it where only a supervisor that
\* no longer exists could settle it (finish, one transaction).
SettledTogether ==
    /\ job.status \in Unfinished => job.claim = "active"
    /\ job.status \in Terminal => job.claim \in {"released", "uncertain"}

\* The claim covers the work until the work is over, on this machine and
\* elsewhere, unless an operator vouched for it: neither a late supervisor,
\* nor an orphaned worker, nor a verdict reached without evidence opens the
\* resource to others (finish's safe, the startup fence, validate_job).
ClaimOutlivesWork ==
    (AtWork \/ worker.pc = "validated") /\ ~job.forced => job.claim \in {"active", "uncertain"}

\* A job is reported succeeded, failed or cancelled only when no process of
\* it is left on this machine and none will be started; everything else is
\* lost (_run's verdicts, _reconcile, _submit's failed launch).
OnlyLostLeavesProcesses ==
    job.status \in {"succeeded", "failed", "cancelled"} => GroupDead /\ ~Supervising

\* The staged payload stays while a worker may still read it, or one may still be
\* started (finish's unlink, also when it dies or raises before its commit and the
\* supervisor goes on without the payload).
PayloadOutlivesWorker ==
    job.status # "none" /\ ~job.payload => GroupDead /\ (Supervising => worker.pc = "gone")

\* What the end of a job gives away, nobody needs any more: its claim goes with
\* its row, its verdict is true of its processes, its payload has no reader.
EndedIsOver == SettledTogether /\ OnlyLostLeavesProcesses /\ PayloadOutlivesWorker

\* Nobody but its supervisor concludes a supervised job, so a completion
\* that is refused lost against a cancellation and the loop ends.
SupervisorOwnsRunning ==
    Supervising => job.status = "running" /\ owner = "supervisor"

\* Completion is serialized against cancellation: a job whose cancellation
\* was recorded while it was unfinished is not reported as completed.
NoCompletionAfterCancel ==
    job.cancel => job.status \notin {"succeeded", "failed"}

\* A worker that published its outcome is not written off as lost because
\* it exited between two looks of its supervisor.
PublishedNotAbandoned == sup.next = "abandon" => outcome = "none"

\* The flock tells who may conclude the job.
FlockTells ==
    /\ \A o \in Observers : observer[o] # "idle" <=> owner = o
    /\ owner = "supervisor" <=> sup.pc = "claim" \/ Supervising

\* What an observer found under the lock stays true while it holds it.
FindingsHold ==
    \A o \in Observers :
        /\ observer[o] = "cancelled" => job.cancel
        /\ observer[o] = "expired" => job.expired
        /\ observer[o] \in {"cancelled", "expired"} => job.status # "running"
        /\ observer[o] = "vanished" => job.status # "starting"
        /\ observer[o] # "idle" => job.status # "none"

\* There is a worker only behind a supervisor that claimed the job.
LaunchInOrder ==
    /\ submitter = "idle" <=> job.status = "none"
    /\ submitter # "done" => sup.pc = "none"
    /\ job.status \in {"none", "starting"} => sup.pc \in {"none", "lock", "claim", "gone"}
    /\ job.status \in {"none", "starting"} \/ sup.pc \in {"none", "lock", "claim", "spawn"} =>
        worker.pc = "none"
    /\ sup.pc \in {"gate", "loop", "poll", "snapshot", "recheck", "stop", "decide"} =>
        worker.pc # "none"
    /\ worker.pc = "none" => NeverWorks

\* The supervisor's locals say what it verified.
SupervisorKnows ==
    /\ sup.kept => sup.stopped
    /\ sup.stopped => GroupDead /\ sup.pc \notin {"none", "lock", "claim", "spawn", "gate"}
    /\ sup.next = "abandon" \/ sup.pc = "recheck" => worker.pc = "gone"
    /\ sup.next = "settle" => outcome # "none"
    /\ sup.pc = "stop" => sup.next # "none" /\ ~sup.kept
    /\ sup.pc = "decide" => sup.next \in {"cancel", "settle", "abandon"}
    /\ sup.next = "cancel" \/ sup.seen => job.cancel
    /\ sup.pc = "exceptRetry" => sup.stopped

\* What an outcome and a released claim say of the work.
WorkKnown ==
    /\ outcome # "none" => worker.pc = "gone"
    /\ worker.pc = "returned" => worker.result # "none"
    /\ outcome = "succeeded" => ~worker.remote
    /\ worker.pc = "returned" /\ worker.result = "succeeded" => ~worker.remote
    /\ job.local => ~worker.remote
    /\ job.status = "none" <=> job.claim = "none"
    /\ job.forced => job.claim = "released"
    /\ ~job.forced /\ job.claim = "released" => NeverWorks
    /\ job.status \in {"succeeded", "failed", "cancelled"} => GroupDead

\* A removed payload means that no worker runs and none will be started.
PayloadKnown ==
    job.status # "none" /\ ~job.payload =>
        /\ GroupDead /\ (Supervising => worker.pc = "gone")
        /\ job.status = "starting" =>
            job.cancel \/ job.expired \/ (submitter = "done" /\ sup.pc = "none")

\* The inductive invariant behind the safety properties.
Inv ==
    /\ TypeOK
    /\ SettledTogether
    /\ SupervisorOwnsRunning
    /\ NoCompletionAfterCancel
    /\ PublishedNotAbandoned
    /\ FlockTells
    /\ FindingsHold
    /\ LaunchInOrder
    /\ SupervisorKnows
    /\ WorkKnown
    /\ PayloadKnown

\* A verdict is final, and so is the claim it released (finish).
TerminalFinal ==
    [][job.status \in Terminal =>
        /\ job'.status = job.status
        /\ job'.claim # job.claim => ForceRelease]_vars

\* cancel() ends: whatever the race between the launch, the worker's result
\* and the request, a recorded cancellation leads to a verdict.
CancelSettles == job.cancel /\ job.status \in Unfinished ~> job.status \in Terminal

\* What its processes abandon is brought to a verdict by whoever asks for it:
\* a launch that never happens is given up, and a job whose supervisor died
\* does not stay running (STARTUP_SECONDS, _reconcile).
AbandonedSettles ==
    /\ job.status = "starting" ~> job.status # "starting"
    /\ job.status = "running" /\ sup.pc = "gone" ~> job.status \in Terminal

\* A published outcome is acted on, with its supervisor or without it.
OutcomeSettles == outcome # "none" ~> job.status \in Terminal

\* Every job comes to a verdict once it was cancelled, abandoned or is done.
JobSettles == CancelSettles /\ AbandonedSettles /\ OutcomeSettles
-----------------------------------------------------------------------------
Contract == INSTANCE JobClaim WITH
    row <- job.claim,
    may <- worker.pc \in {"validated", "working"},
    working <- AtWork,
    forced <- job.forced

\* The processes of a job keep the contract its claim is admitted under:
\* work starts only behind a validated active row, and the row is released
\* only when no work is left that could go on (finish, _work, _run).
KeepsContract == Contract!Spec
=============================================================================
