----------------------------- MODULE JobsProofs -----------------------------
(***************************************************************************)
(* The safety of a background job, for any number of observers: Inv is     *)
(* inductive, and the safety properties and the contract with Coordination *)
(* follow from it.                                                         *)
(***************************************************************************)
EXTENDS Jobs, TLAPS

USE JobsAssumption

-----------------------------------------------------------------------------
(* finish() *)

LEMMA FinishTyped ==
    ASSUME TypeOK, NEW status \in Terminal \cup {"none"}, NEW verified \in BOOLEAN,
           Finish(status, verified)
    PROVE  job' \in Job
<1>1. PICK payload \in BOOLEAN : job' = [job EXCEPT
            !.status = status,
            !.payload = payload,
            !.claim = IF @ = "released" THEN @
                      ELSE IF Safe(status, verified) THEN "released" ELSE "uncertain"]
  BY DEF Finish, TypeOK, Job
<1>2. CASE job.claim = "released" \/ Safe(status, verified)
  <2>1. job' = [job EXCEPT !.status = status, !.payload = payload, !.claim = "released"]
    BY <1>1, <1>2
  <2> QED  BY <2>1 DEF TypeOK, Job, Terminal
<1>3. CASE ~(job.claim = "released" \/ Safe(status, verified))
  <2>1. job' = [job EXCEPT !.status = status, !.payload = payload, !.claim = "uncertain"]
    BY <1>1, <1>3
  <2> QED  BY <2>1 DEF TypeOK, Job, Terminal
<1> QED  BY <1>2, <1>3

LEMMA FinishFields ==
    ASSUME TypeOK, NEW status, NEW verified \in BOOLEAN, Finish(status, verified)
    PROVE  /\ Accepts(status)
           /\ job'.status = status
           /\ job'.cancel = job.cancel /\ job'.expired = job.expired
           /\ job'.local = job.local /\ job'.forced = job.forced
           /\ ~verified => job'.payload = job.payload
           /\ job.claim # "released" /\ Safe(status, verified) => job'.claim = "released"
           /\ job.claim # "released" /\ ~Safe(status, verified) => job'.claim = "uncertain"
  BY DEF Finish, TypeOK, Job

LEMMA FinishVerified ==
    ASSUME TypeOK, NEW status, Finish(status, TRUE)
    PROVE  /\ Accepts(status)
           /\ job'.status = status
           /\ job'.cancel = job.cancel /\ job'.expired = job.expired
           /\ job'.local = job.local /\ job'.forced = job.forced
           /\ job.claim # "released" /\ Safe(status, TRUE) => job'.claim = "released"
           /\ job.claim # "released" /\ ~Safe(status, TRUE) => job'.claim = "uncertain"
  BY FinishFields

LEMMA FinishUnverified ==
    ASSUME TypeOK, NEW status, Finish(status, FALSE)
    PROVE  /\ Accepts(status)
           /\ job'.status = status
           /\ job'.cancel = job.cancel /\ job'.expired = job.expired
           /\ job'.local = job.local /\ job'.forced = job.forced
           /\ job'.payload = job.payload
           /\ job.claim # "released" /\ Safe(status, FALSE) => job'.claim = "released"
           /\ job.claim # "released" /\ ~Safe(status, FALSE) => job'.claim = "uncertain"
  BY FinishFields

-----------------------------------------------------------------------------
(* Types *)

LEMMA SubmissionTyped ==
    ASSUME TypeOK, Submission
    PROVE  TypeOK'
<1>1. CASE Submit
  <2>1. job' \in Job  BY <1>1 DEF Submit, TypeOK, Job, Unfinished, Terminal
  <2> QED  BY <1>1, <2>1 DEF Submit, TypeOK
<1>2. CASE StartSupervisor
  BY <1>2 DEF StartSupervisor, TypeOK, Supervisor
<1>3. CASE ReportStartFailure
  <2>1. job' \in Job
    <3>1. CASE UNCHANGED job  BY <3>1 DEF TypeOK
    <3>2. CASE Finish("failed", TRUE)
      BY <3>2, FinishTyped DEF TypeOK, Supervisor, Result, Terminal
    <3> QED  BY <1>3, <3>1, <3>2 DEF ReportStartFailure
  <2> QED  BY <1>3, <2>1 DEF ReportStartFailure, TypeOK, Supervisor
<1>4. CASE SubmitterDies
  <2>1. job' \in Job  BY <1>4 DEF SubmitterDies, Accepts, TypeOK, Job, Unfinished, Terminal
  <2> QED  BY <1>4, <2>1 DEF SubmitterDies, Accepts, TypeOK
<1> QED  BY <1>1, <1>2, <1>3, <1>4 DEF Submission

LEMMA SupervisionTyped ==
    ASSUME TypeOK, Supervision
    PROVE  TypeOK'
<1>1. CASE TakeLock
  BY <1>1 DEF TakeLock, At, TypeOK, Supervisor
<1>2. CASE GiveUpLock
  BY <1>2 DEF GiveUpLock, Exit, At, TypeOK, Supervisor
<1>3. CASE ClaimRow
  BY <1>3 DEF ClaimRow, At, TypeOK, Supervisor, Job, Unfinished, Terminal
<1>4. CASE ClaimRefused
  BY <1>4 DEF ClaimRefused, Exit, At, TypeOK, Supervisor
<1>5. CASE SpawnWorker
  BY <1>5 DEF SpawnWorker, At, TypeOK, Supervisor, Worker, Result
<1>6. CASE OpenGate
  BY <1>6 DEF OpenGate, At, TypeOK, Supervisor
<1>7. CASE ReadRow
  <2>1. sup' \in Supervisor  BY <1>7 DEF ReadRow, At, Move, StopFor, TypeOK, Supervisor
  <2> QED  BY <1>7, <2>1 DEF ReadRow, At, Move, StopFor, TypeOK
<1>8. CASE PollOutcome
  <2>1. sup' \in Supervisor  BY <1>8 DEF PollOutcome, At, Move, StopFor, TypeOK, Supervisor
  <2> QED  BY <1>8, <2>1 DEF PollOutcome, At, Move, StopFor, TypeOK
<1>9. CASE Snapshot
  BY <1>9 DEF Snapshot, At, Move, TypeOK, Supervisor
<1>10. CASE Recheck
  <2>1. sup' \in Supervisor  BY <1>10 DEF Recheck, At, Move, StopFor, TypeOK, Supervisor
  <2> QED  BY <1>10, <2>1 DEF Recheck, At, Move, StopFor, TypeOK
<1>11. CASE Terminate
  <2>1. worker' \in Worker  BY <1>11 DEF Terminate, TypeOK, Worker, Result
  <2> QED  BY <1>11, <2>1 DEF Terminate, TypeOK
<1>12. CASE Kill
  <2>1. worker' \in Worker  BY <1>12 DEF Kill, TypeOK, Worker, Result
  <2> QED  BY <1>12, <2>1 DEF Kill, TypeOK
<1>13. CASE StopVerified
  <2>1. sup' \in Supervisor  BY <1>13 DEF StopVerified, Move, Stopped, TypeOK, Supervisor
  <2> QED  BY <1>13, <2>1 DEF StopVerified, Move, Stopped, TypeOK
<1>14. CASE StopUnverified
  <2>1. sup' \in Supervisor  BY <1>14 DEF StopUnverified, Move, Stopped, TypeOK, Supervisor
  <2> QED  BY <1>14, <2>1 DEF StopUnverified, Move, Stopped, TypeOK
<1>15. CASE Decide
  <2>1. job' \in Job
    <3>1. CASE UNCHANGED job  BY <3>1 DEF TypeOK
    <3>2. CASE Finish(Verdict, sup.stopped)
      BY <3>2, FinishTyped DEF Verdict, TypeOK, Supervisor, Result, Terminal
    <3> QED  BY <1>15, <3>1, <3>2 DEF Decide
  <2> QED  BY <1>15, <2>1 DEF Decide, Exit, At, TypeOK, Supervisor
<1>16. CASE DecideRefused
  BY <1>16 DEF DecideRefused, At, Exit, Accepts, Verdict, TypeOK, Supervisor
<1>17. CASE HandleException
  <2>1. sup' \in Supervisor  BY <1>17 DEF HandleException, Move, TypeOK, Supervisor
  <2> QED  BY <1>17, <2>1 DEF HandleException, Move, TypeOK
<1>18. CASE StopRaises
  <2>1. sup' \in Supervisor  BY <1>18 DEF StopRaises, Move, Stopped, TypeOK, Supervisor
  <2> QED  BY <1>18, <2>1 DEF StopRaises, Move, Stopped, TypeOK
<1>19. CASE ExceptRead
  <2>1. sup' \in Supervisor  BY <1>19 DEF ExceptRead, Move, TypeOK, Supervisor, Job
  <2> QED  BY <1>19, <2>1 DEF ExceptRead, Move, TypeOK
<1>20. CASE ExceptFinish
  <2>1. job' \in Job
    <3>1. CASE UNCHANGED job  BY <3>1 DEF TypeOK
    <3>2. CASE Finish(ExceptVerdict, sup.stopped)
      BY <3>2, FinishTyped DEF ExceptVerdict, TypeOK, Supervisor, Result, Terminal
    <3> QED  BY <1>20, <3>1, <3>2 DEF ExceptFinish
  <2> QED  BY <1>20, <2>1 DEF ExceptFinish, At, Exit, TypeOK, Supervisor
<1>21. CASE ExceptRetry
  <2>1. job' \in Job
    <3>1. CASE UNCHANGED job  BY <3>1 DEF TypeOK
    <3>2. CASE Finish("cancelled", TRUE)
      BY <3>2, FinishTyped DEF TypeOK, Supervisor, Result, Terminal
    <3> QED  BY <1>21, <3>1, <3>2 DEF ExceptRetry
  <2> QED  BY <1>21, <2>1 DEF ExceptRetry, Exit, At, TypeOK, Supervisor
<1> QED  BY <1>1, <1>2, <1>3, <1>4, <1>5, <1>6, <1>7, <1>8, <1>9, <1>10, <1>11, <1>12,
       <1>13, <1>14, <1>15, <1>16, <1>17, <1>18, <1>19, <1>20, <1>21 DEF Supervision

LEMMA SupervisionFailsTyped ==
    ASSUME TypeOK, SupervisionFails
    PROVE  TypeOK'
<1>1. CASE Raises
  <2>1. job' \in Job  BY <1>1 DEF Raises, TypeOK, Job
  <2> QED  BY <1>1, <2>1 DEF Raises, At, TypeOK, Supervisor
<1>2. CASE SupervisorDies
  BY <1>2 DEF SupervisorDies, Exit, At, TypeOK, Supervisor
<1>3. CASE SupervisorDiesFinishing
  <2>1. job' \in Job  BY <1>3 DEF SupervisorDiesFinishing, Exit, Publishing, Accepts,
         Verdict, ExceptVerdict, At, TypeOK, Job, Unfinished, Terminal
  <2> QED  BY <1>3, <2>1 DEF SupervisorDiesFinishing, Exit, Publishing, Accepts, Verdict,
         ExceptVerdict, At, TypeOK, Supervisor
<1> QED  BY <1>1, <1>2, <1>3 DEF SupervisionFails

LEMMA WorkingTyped ==
    ASSUME TypeOK, Working
    PROVE  TypeOK'
<1>1. CASE PassGate
  BY <1>1 DEF PassGate, WorkerMove, TypeOK, Supervisor, Worker, Result
<1>2. CASE Prepare
  <2>1. worker' \in Worker  BY <1>2 DEF Prepare, WorkerMove, TypeOK, Worker, Result
  <2> QED  BY <1>2, <2>1 DEF Prepare, WorkerMove, TypeOK
<1>3. CASE Validate
  <2>1. worker' \in Worker  BY <1>3 DEF Validate, WorkerMove, TypeOK, Worker, Result
  <2> QED  BY <1>3, <2>1 DEF Validate, WorkerMove, TypeOK
<1>4. CASE PrepareFails
  <2>1. worker' \in Worker  BY <1>4 DEF PrepareFails, WorkerMove, TypeOK, Worker, Result
  <2> QED  BY <1>4, <2>1 DEF PrepareFails, WorkerMove, TypeOK
<1>5. CASE StartWork
  <2>1. worker' \in Worker  BY <1>5 DEF StartWork, WorkerMove, TypeOK, Worker, Result
  <2> QED  BY <1>5, <2>1 DEF StartWork, WorkerMove, TypeOK
<1>6. CASE LeaveChild
  <2>1. worker' \in Worker  BY <1>6 DEF LeaveChild, WorkerMove, TypeOK, Worker, Result
  <2> QED  BY <1>6, <2>1 DEF LeaveChild, WorkerMove, TypeOK
<1>7. CASE WorkSucceeds
  <2>1. worker' \in Worker  BY <1>7 DEF WorkSucceeds, WorkerMove, TypeOK, Worker, Result
  <2> QED  BY <1>7, <2>1 DEF WorkSucceeds, WorkerMove, TypeOK
<1>8. CASE WorkFails
  <2>1. worker' \in Worker  BY <1>8 DEF WorkFails, WorkerMove, TypeOK, Worker, Result
  <2> QED  BY <1>8, <2>1 DEF WorkFails, WorkerMove, TypeOK
<1>9. CASE Interrupted
  <2>1. worker' \in Worker  BY <1>9 DEF Interrupted, WorkerMove, TypeOK, Worker, Result
  <2> QED  BY <1>9, <2>1 DEF Interrupted, WorkerMove, TypeOK
<1>10. CASE WriteOutcome
  <2>1. worker' \in Worker  BY <1>10 DEF WriteOutcome, TypeOK, Worker, Result
  <2> QED  BY <1>10, <2>1 DEF WriteOutcome, TypeOK, Worker
<1>11. CASE WorkerDies
  <2>1. worker' \in Worker  BY <1>11 DEF WorkerDies, WorkerMove, TypeOK, Worker, Result
  <2> QED  BY <1>11, <2>1 DEF WorkerDies, WorkerMove, TypeOK
<1>12. CASE ChildEnds
  <2>1. worker' \in Worker  BY <1>12 DEF ChildEnds, WorkerMove, TypeOK, Worker, Result
  <2> QED  BY <1>12, <2>1 DEF ChildEnds, WorkerMove, TypeOK
<1>13. CASE RemoteEnds
  <2>1. worker' \in Worker  BY <1>13 DEF RemoteEnds, WorkerMove, TypeOK, Worker, Result
  <2> QED  BY <1>13, <2>1 DEF RemoteEnds, WorkerMove, TypeOK
<1> QED  BY <1>1, <1>2, <1>3, <1>4, <1>5, <1>6, <1>7, <1>8, <1>9, <1>10, <1>11, <1>12, <1>13
       DEF Working

LEMMA ObservationTyped ==
    ASSUME TypeOK, Observation
    PROVE  TypeOK'
<1>0. PICK o \in Observers : Observe(o) \/ Judge(o) \/ Conclude(o) \/ ObserverDies(o)
  BY DEF Observation
<1>1. CASE Observe(o)
  BY <1>1 DEF Observe, ObserverMove, TypeOK, Supervisor
<1>2. CASE Judge(o)
  BY <1>2 DEF Judge, ObserverMove, Finding, TypeOK, Supervisor
<1>3. CASE Conclude(o)
  <2>1. job' \in Job
    <3>1. CASE UNCHANGED job  BY <3>1 DEF TypeOK
    <3>2. CASE Finish("cancelled", TRUE)  BY <3>2, FinishTyped DEF Terminal
    <3>3. CASE Finish("lost", TRUE)  BY <3>3, FinishTyped DEF Terminal
    <3>4. CASE Finish("lost", FALSE)  BY <3>4, FinishTyped DEF Terminal
    <3> QED  BY <1>3, <3>1, <3>2, <3>3, <3>4 DEF Conclude
  <2> QED  BY <1>3, <2>1 DEF Conclude, ObserverMove, TypeOK, Supervisor
<1>4. CASE ObserverDies(o)
  <2>1. job' \in Job  BY <1>4 DEF ObserverDies, ObserverMove, TypeOK, Job, Unfinished,
         Terminal
  <2> QED  BY <1>4, <2>1 DEF ObserverDies, ObserverMove, TypeOK
<1> QED  BY <1>0, <1>1, <1>2, <1>3, <1>4

LEMMA OutsideTyped ==
    ASSUME TypeOK, Cancel \/ StartupExpires \/ ForceRelease
    PROVE  TypeOK'
<1>1. CASE Cancel
  <2>1. job' \in Job  BY <1>1 DEF Cancel, TypeOK, Job, Unfinished, Terminal
  <2> QED  BY <1>1, <2>1 DEF Cancel, TypeOK
<1>2. CASE StartupExpires
  <2>1. job' \in Job  BY <1>2 DEF StartupExpires, TypeOK, Job, Unfinished, Terminal
  <2> QED  BY <1>2, <2>1 DEF StartupExpires, TypeOK
<1>3. CASE ForceRelease
  <2>1. job' \in Job  BY <1>3 DEF ForceRelease, TypeOK, Job, Unfinished, Terminal
  <2> QED  BY <1>3, <2>1 DEF ForceRelease, TypeOK
<1> QED  BY <1>1, <1>2, <1>3

-----------------------------------------------------------------------------
(* One step per action *)

LEMMA ReportStartFailureKeeps ==
    ASSUME Inv, TypeOK', ReportStartFailure
    PROVE  Inv'
<1>1. TypeOK /\ SettledTogether
  BY DEF Inv
<1>2. CASE Finish("failed", TRUE)
  <2>1. /\ Accepts("failed")
        /\ job'.status = "failed"
        /\ UNCHANGED << job.cancel, job.expired, job.local, job.forced >>
        /\ job'.claim = IF Safe("failed", TRUE) THEN "released" ELSE "uncertain"
    BY <1>1, <1>2, FinishVerified DEF Accepts, SettledTogether, Unfinished
  <2> USE DEF Inv, TypeOK, Job, Supervisor, Worker, Result, Unfinished, Terminal,
              AtWork, Supervising, GroupDead, NeverWorks, SettledTogether,
              SupervisorOwnsRunning, NoCompletionAfterCancel, PublishedNotAbandoned, FlockTells,
              FindingsHold, LaunchInOrder, SupervisorKnows, WorkKnown, PayloadKnown
  <2> QED  BY <2>1 DEF ReportStartFailure, Accepts, Safe
<1>3. CASE UNCHANGED job
  <2> USE DEF Inv, TypeOK, Job, Supervisor, Worker, Result, Unfinished, Terminal,
              AtWork, Supervising, GroupDead, NeverWorks, SettledTogether,
              SupervisorOwnsRunning, NoCompletionAfterCancel, PublishedNotAbandoned, FlockTells,
              FindingsHold, LaunchInOrder, SupervisorKnows, WorkKnown, PayloadKnown
  <2> QED  BY <1>3 DEF ReportStartFailure
<1> QED  BY <1>2, <1>3 DEF ReportStartFailure

LEMMA ExceptRetryKeeps ==
    ASSUME Inv, TypeOK', ExceptRetry
    PROVE  Inv'
<1>1. TypeOK /\ SettledTogether
  BY DEF Inv
<1>2. CASE Finish("cancelled", TRUE)
  <2>1. /\ Accepts("cancelled")
        /\ job'.status = "cancelled"
        /\ UNCHANGED << job.cancel, job.expired, job.local, job.forced >>
        /\ job'.claim = IF Safe("cancelled", TRUE) THEN "released" ELSE "uncertain"
    BY <1>1, <1>2, FinishVerified DEF Accepts, SettledTogether, Unfinished
  <2> USE DEF Inv, TypeOK, Job, Supervisor, Worker, Result, Unfinished, Terminal,
              AtWork, Supervising, GroupDead, NeverWorks, SettledTogether,
              SupervisorOwnsRunning, NoCompletionAfterCancel, PublishedNotAbandoned, FlockTells,
              FindingsHold, LaunchInOrder, SupervisorKnows, WorkKnown, PayloadKnown
  <2> QED  BY <2>1 DEF ExceptRetry, Accepts, Safe, Exit, At
<1>3. CASE ~Accepts("cancelled") /\ UNCHANGED job
  <2> USE DEF Inv, TypeOK, Job, Supervisor, Worker, Result, Unfinished, Terminal,
              AtWork, Supervising, GroupDead, NeverWorks, SettledTogether,
              SupervisorOwnsRunning, NoCompletionAfterCancel, PublishedNotAbandoned, FlockTells,
              FindingsHold, LaunchInOrder, SupervisorKnows, WorkKnown, PayloadKnown
  <2> QED  BY <1>3 DEF ExceptRetry, Accepts, Exit, At
<1> QED  BY <1>2, <1>3 DEF ExceptRetry

LEMMA ConcludeKeeps ==
    ASSUME NEW o \in Observers, Inv, TypeOK', Conclude(o)
    PROVE  Inv'
<1>1. TypeOK /\ SettledTogether /\ FindingsHold /\ FlockTells
  BY DEF Inv
<1>2. /\ owner' = Nobody
      /\ \A p \in Observers : observer'[p] = "idle"
      /\ UNCHANGED << submitter, sup, worker, gate, outcome >>
      /\ ~Supervising /\ sup.pc # "claim"
  BY <1>1 DEF Conclude, ObserverMove, FlockTells, TypeOK
<1>3. CASE observer[o] = "cancelled" /\ Finish("cancelled", TRUE)
  <2>1. /\ Accepts("cancelled")
        /\ job'.status = "cancelled"
        /\ UNCHANGED << job.cancel, job.expired, job.local, job.forced >>
        /\ job'.claim = "released"
    BY <1>1, <1>3, FinishVerified
       DEF Accepts, Safe, SettledTogether, FindingsHold, Unfinished
  <2>2. job.status = "starting"
    BY <1>1, <1>3, <2>1 DEF Accepts, FindingsHold, Unfinished
  <2> USE DEF Inv, TypeOK, Job, Supervisor, Worker, Result, Unfinished, Terminal,
              AtWork, Supervising, GroupDead, NeverWorks, SettledTogether,
              SupervisorOwnsRunning, NoCompletionAfterCancel, PublishedNotAbandoned, FlockTells,
              FindingsHold, LaunchInOrder, SupervisorKnows, WorkKnown, PayloadKnown
  <2> QED  BY <1>2, <1>3, <2>1, <2>2
<1>4. CASE observer[o] = "expired" /\ Finish("lost", TRUE)
  <2>1. /\ Accepts("lost")
        /\ job'.status = "lost"
        /\ UNCHANGED << job.cancel, job.expired, job.local, job.forced >>
        /\ job'.claim = "released"
    BY <1>1, <1>4, FinishVerified
       DEF Accepts, Safe, SettledTogether, FindingsHold, Unfinished
  <2>2. job.status = "starting"
    BY <1>1, <1>4, <2>1 DEF Accepts, FindingsHold, Unfinished
  <2> USE DEF Inv, TypeOK, Job, Supervisor, Worker, Result, Unfinished, Terminal,
              AtWork, Supervising, GroupDead, NeverWorks, SettledTogether,
              SupervisorOwnsRunning, NoCompletionAfterCancel, PublishedNotAbandoned, FlockTells,
              FindingsHold, LaunchInOrder, SupervisorKnows, WorkKnown, PayloadKnown
  <2> QED  BY <1>2, <1>4, <2>1, <2>2
<1>5. CASE observer[o] = "vanished" /\ Finish("lost", FALSE)
  <2>1. /\ Accepts("lost")
        /\ job'.status = "lost"
        /\ UNCHANGED << job.cancel, job.expired, job.local, job.forced >>
        /\ job'.claim = "uncertain" /\ job'.payload = job.payload
    BY <1>1, <1>5, FinishUnverified
       DEF Accepts, Safe, SettledTogether, FindingsHold, Unfinished
  <2> USE DEF Inv, TypeOK, Job, Supervisor, Worker, Result, Unfinished, Terminal,
              AtWork, Supervising, GroupDead, NeverWorks, SettledTogether,
              SupervisorOwnsRunning, NoCompletionAfterCancel, PublishedNotAbandoned, FlockTells,
              FindingsHold, LaunchInOrder, SupervisorKnows, WorkKnown, PayloadKnown
  <2> QED  BY <1>2, <1>5, <2>1 DEF Accepts
<1>6. CASE job.status \notin Unfinished /\ UNCHANGED job
  <2> USE DEF Inv, TypeOK, Job, Supervisor, Worker, Result, Unfinished, Terminal,
              AtWork, Supervising, GroupDead, NeverWorks, SettledTogether,
              SupervisorOwnsRunning, NoCompletionAfterCancel, PublishedNotAbandoned, FlockTells,
              FindingsHold, LaunchInOrder, SupervisorKnows, WorkKnown, PayloadKnown
  <2> QED  BY <1>2, <1>6
<1> QED  BY <1>3, <1>4, <1>5, <1>6 DEF Conclude

LEMMA SubmissionKeeps ==
    ASSUME Inv, TypeOK', Submission
    PROVE  Inv'
<1> USE DEF Inv, TypeOK, Job, Supervisor, Worker, Result, Unfinished, Terminal,
            AtWork, Supervising, GroupDead, NeverWorks, SettledTogether,
            SupervisorOwnsRunning, NoCompletionAfterCancel, PublishedNotAbandoned, FlockTells,
            FindingsHold, LaunchInOrder, SupervisorKnows, WorkKnown, PayloadKnown
<1>1. CASE Submit
  BY <1>1, SMTT(20) DEF Submit
<1>2. CASE StartSupervisor
  BY <1>2, SMTT(20) DEF StartSupervisor
<1>3. CASE ReportStartFailure
  BY <1>3, ReportStartFailureKeeps
<1>4. CASE SubmitterDies
  BY <1>4, SMTT(20) DEF SubmitterDies, Accepts
<1> QED  BY <1>1, <1>2, <1>3, <1>4 DEF Submission

LEMMA SupervisionKeeps ==
    ASSUME Inv, TypeOK', Supervision
    PROVE  Inv'
<1> USE DEF Inv, TypeOK, Job, Supervisor, Worker, Result, Unfinished, Terminal,
            AtWork, Supervising, GroupDead, NeverWorks, SettledTogether,
            SupervisorOwnsRunning, NoCompletionAfterCancel, PublishedNotAbandoned, FlockTells,
            FindingsHold, LaunchInOrder, SupervisorKnows, WorkKnown, PayloadKnown
<1>1. CASE TakeLock
  BY <1>1, SMTT(20) DEF TakeLock, At
<1>2. CASE GiveUpLock
  BY <1>2, SMTT(20) DEF GiveUpLock, Exit, At
<1>3. CASE ClaimRow
  BY <1>3, SMTT(20) DEF ClaimRow, At
<1>4. CASE ClaimRefused
  BY <1>4, SMTT(20) DEF ClaimRefused, Exit, At
<1>5. CASE SpawnWorker
  BY <1>5, SMTT(20) DEF SpawnWorker, At
<1>6. CASE OpenGate
  BY <1>6, SMTT(20) DEF OpenGate, At
<1>7. CASE ReadRow
  BY <1>7, SMTT(20) DEF ReadRow, At, Move, StopFor
<1>8. CASE PollOutcome
  BY <1>8, SMTT(20) DEF PollOutcome, At, Move, StopFor
<1>9. CASE Snapshot
  BY <1>9, SMTT(20) DEF Snapshot, At, Move
<1>10. CASE Recheck
  BY <1>10, SMTT(20) DEF Recheck, At, Move, StopFor
<1>11. CASE Terminate
  BY <1>11, SMTT(20) DEF Terminate
<1>12. CASE Kill
  BY <1>12, SMTT(20) DEF Kill
<1>13. CASE StopVerified
  BY <1>13, SMTT(20) DEF StopVerified, Move, Stopped
<1>14. CASE StopUnverified
  BY <1>14, SMTT(20) DEF StopUnverified, Move, Stopped
<1>15. CASE Decide
  BY <1>15, FinishFields, SMTT(20) DEF Decide, Exit, Verdict, Accepts, Safe, At
<1>16. CASE DecideRefused
  BY <1>16, SMTT(20) DEF DecideRefused, At, Exit, Accepts, Verdict
<1>17. CASE HandleException
  BY <1>17, SMTT(20) DEF HandleException, Move
<1>18. CASE StopRaises
  BY <1>18, SMTT(20) DEF StopRaises, Move, Stopped
<1>19. CASE ExceptRead
  BY <1>19, SMTT(20) DEF ExceptRead, Move
<1>20. CASE ExceptFinish
  BY <1>20, FinishFields, SMTT(20) DEF ExceptFinish, At, Exit, Accepts, ExceptVerdict, Safe
<1>21. CASE ExceptRetry
  BY <1>21, ExceptRetryKeeps
<1> QED  BY <1>1, <1>2, <1>3, <1>4, <1>5, <1>6, <1>7, <1>8, <1>9, <1>10, <1>11, <1>12,
       <1>13, <1>14, <1>15, <1>16, <1>17, <1>18, <1>19, <1>20, <1>21 DEF Supervision

LEMMA SupervisionFailsKeeps ==
    ASSUME Inv, TypeOK', SupervisionFails
    PROVE  Inv'
<1> USE DEF Inv, TypeOK, Job, Supervisor, Worker, Result, Unfinished, Terminal,
            AtWork, Supervising, GroupDead, NeverWorks, SettledTogether,
            SupervisorOwnsRunning, NoCompletionAfterCancel, PublishedNotAbandoned, FlockTells,
            FindingsHold, LaunchInOrder, SupervisorKnows, WorkKnown, PayloadKnown
<1>1. CASE Raises
  <2>1. CASE UNCHANGED job
    BY <1>1, <2>1, SMTT(20) DEF Raises, At
  <2>2. CASE Publishing /\ job' = [job EXCEPT !.payload = FALSE] /\ sup.pc = "decide"
    <3>1. GroupDead /\ worker.pc = "gone" /\ job.status = "running"
      BY <2>2 DEF Publishing
    <3>2. sup' = At("except") /\ UNCHANGED << submitter, owner, worker, outcome, observer >>
      BY <1>1 DEF Raises
    <3> QED  BY <2>2, <3>1, <3>2, SMTT(20) DEF At
  <2> QED  BY <1>1, <2>1, <2>2 DEF Raises, Publishing
<1>2. CASE SupervisorDies
  BY <1>2, SMTT(20) DEF SupervisorDies, Exit, At
<1>3. CASE SupervisorDiesFinishing
  BY <1>3, SMTT(20) DEF SupervisorDiesFinishing, Exit, Publishing, Accepts, Verdict,
         ExceptVerdict, At
<1> QED  BY <1>1, <1>2, <1>3 DEF SupervisionFails

LEMMA WorkingKeeps ==
    ASSUME Inv, TypeOK', Working
    PROVE  Inv'
<1> USE DEF Inv, TypeOK, Job, Supervisor, Worker, Result, Unfinished, Terminal,
            AtWork, Supervising, GroupDead, NeverWorks, SettledTogether,
            SupervisorOwnsRunning, NoCompletionAfterCancel, PublishedNotAbandoned, FlockTells,
            FindingsHold, LaunchInOrder, SupervisorKnows, WorkKnown, PayloadKnown
<1>1. CASE PassGate
  BY <1>1, SMTT(20) DEF PassGate, WorkerMove
<1>2. CASE Prepare
  BY <1>2, SMTT(20) DEF Prepare, WorkerMove
<1>3. CASE Validate
  BY <1>3, SMTT(20) DEF Validate, WorkerMove
<1>4. CASE PrepareFails
  BY <1>4, SMTT(20) DEF PrepareFails, WorkerMove
<1>5. CASE StartWork
  BY <1>5, SMTT(20) DEF StartWork, WorkerMove
<1>6. CASE LeaveChild
  BY <1>6, SMTT(20) DEF LeaveChild, WorkerMove
<1>7. CASE WorkSucceeds
  BY <1>7, SMTT(20) DEF WorkSucceeds, WorkerMove
<1>8. CASE WorkFails
  BY <1>8, SMTT(20) DEF WorkFails, WorkerMove
<1>9. CASE Interrupted
  BY <1>9, SMTT(20) DEF Interrupted, WorkerMove
<1>10. CASE WriteOutcome
  BY <1>10, SMTT(20) DEF WriteOutcome
<1>11. CASE WorkerDies
  BY <1>11, SMTT(20) DEF WorkerDies, WorkerMove
<1>12. CASE ChildEnds
  BY <1>12, SMTT(20) DEF ChildEnds, WorkerMove
<1>13. CASE RemoteEnds
  BY <1>13, SMTT(20) DEF RemoteEnds, WorkerMove
<1> QED  BY <1>1, <1>2, <1>3, <1>4, <1>5, <1>6, <1>7, <1>8, <1>9, <1>10, <1>11, <1>12, <1>13
       DEF Working

LEMMA ObservationKeeps ==
    ASSUME Inv, TypeOK', Observation
    PROVE  Inv'
<1>0. PICK o \in Observers : Observe(o) \/ Judge(o) \/ Conclude(o) \/ ObserverDies(o)
  BY DEF Observation
<1> USE DEF Inv, TypeOK, Job, Supervisor, Worker, Result, Unfinished, Terminal,
            AtWork, Supervising, GroupDead, NeverWorks, SettledTogether,
            SupervisorOwnsRunning, NoCompletionAfterCancel, PublishedNotAbandoned, FlockTells,
            FindingsHold, LaunchInOrder, SupervisorKnows, WorkKnown, PayloadKnown
<1>1. CASE Observe(o)
  BY <1>1, SMTT(20) DEF Observe, ObserverMove
<1>2. CASE Judge(o)
  BY <1>2, SMTT(20) DEF Judge, ObserverMove, Finding
<1>3. CASE Conclude(o)
  BY <1>3, ConcludeKeeps
<1>4. CASE ObserverDies(o)
  BY <1>4, SMTT(20) DEF ObserverDies, ObserverMove
<1> QED  BY <1>0, <1>1, <1>2, <1>3, <1>4

LEMMA OutsideKeeps ==
    ASSUME Inv, TypeOK', Cancel \/ StartupExpires \/ ForceRelease
    PROVE  Inv'
<1> USE DEF Inv, TypeOK, Job, Supervisor, Worker, Result, Unfinished, Terminal,
            AtWork, Supervising, GroupDead, NeverWorks, SettledTogether,
            SupervisorOwnsRunning, NoCompletionAfterCancel, PublishedNotAbandoned, FlockTells,
            FindingsHold, LaunchInOrder, SupervisorKnows, WorkKnown, PayloadKnown
<1>1. CASE Cancel
  BY <1>1, SMTT(20) DEF Cancel
<1>2. CASE StartupExpires
  BY <1>2, SMTT(20) DEF StartupExpires
<1>3. CASE ForceRelease
  BY <1>3, SMTT(20) DEF ForceRelease
<1> QED  BY <1>1, <1>2, <1>3

-----------------------------------------------------------------------------
(* The theorems *)

LEMMA InitInv == Init => Inv
  BY DEF Init, Inv, TypeOK, Job, Supervisor, Worker, Result, Terminal, Unfinished, GroupDead,
         NeverWorks, Supervising, SettledTogether, SupervisorOwnsRunning,
         NoCompletionAfterCancel, PublishedNotAbandoned, FlockTells, FindingsHold,
         LaunchInOrder, SupervisorKnows, WorkKnown, PayloadKnown

LEMMA StepInv == Inv /\ [Next]_vars => Inv'
<1> SUFFICES ASSUME Inv, [Next]_vars  PROVE Inv'
  OBVIOUS
<1>1. TypeOK
  BY DEF Inv
<1>2. TypeOK'
  <2>1. CASE UNCHANGED vars  BY <1>1, <2>1 DEF vars, TypeOK
  <2> QED  BY <1>1, <2>1, SubmissionTyped, SupervisionTyped, SupervisionFailsTyped,
              WorkingTyped, ObservationTyped, OutsideTyped DEF Next
<1>3. CASE UNCHANGED vars
  BY <1>3 DEF vars, Inv, TypeOK, SettledTogether, SupervisorOwnsRunning, Supervising,
              NoCompletionAfterCancel, PublishedNotAbandoned, FlockTells, FindingsHold,
              LaunchInOrder, SupervisorKnows, WorkKnown, PayloadKnown, GroupDead, NeverWorks
<1> QED
  BY <1>2, <1>3, SubmissionKeeps, SupervisionKeeps, SupervisionFailsKeeps, WorkingKeeps,
     ObservationKeeps, OutsideKeeps DEF Next

\* The inductive invariant holds throughout (all of jobs.py's row changes and
\* of the supervisor's and worker's steps).
THEOREM InvHolds == Spec => []Inv
  BY InitInv, StepInv, PTL DEF Spec

LEMMA InvImplies ==
    Inv => /\ SettledTogether
           /\ ClaimOutlivesWork
           /\ OnlyLostLeavesProcesses
           /\ PayloadOutlivesWorker
           /\ SupervisorOwnsRunning
           /\ NoCompletionAfterCancel
           /\ PublishedNotAbandoned
<1> SUFFICES ASSUME Inv
             PROVE  ClaimOutlivesWork /\ OnlyLostLeavesProcesses /\ PayloadOutlivesWorker
  BY DEF Inv
<1> USE DEF Inv, TypeOK, Job, Supervisor, Worker, Result, Unfinished, Terminal, AtWork,
            Supervising, GroupDead, NeverWorks
<1>1. ClaimOutlivesWork
  BY DEF ClaimOutlivesWork, WorkKnown, LaunchInOrder
<1>2. OnlyLostLeavesProcesses
  BY DEF OnlyLostLeavesProcesses, WorkKnown, SupervisorOwnsRunning
<1>3. PayloadOutlivesWorker
  BY DEF PayloadOutlivesWorker, PayloadKnown
<1> QED  BY <1>1, <1>2, <1>3

\* A job and its claim are settled in one step (finish).
THEOREM SettledAsOne == Spec => []SettledTogether
  BY InvHolds, InvImplies, PTL

\* The claim outlives the work, whichever processes die when (finish's safe,
\* the startup fence).
THEOREM ClaimCoversWork == Spec => []ClaimOutlivesWork
  BY InvHolds, InvImplies, PTL

\* Verdicts other than "lost" leave no process behind (_run, _reconcile).
THEOREM VerdictsAreTrue == Spec => []OnlyLostLeavesProcesses
  BY InvHolds, InvImplies, PTL

\* No worker loses the payload it may still read (finish).
THEOREM PayloadStays == Spec => []PayloadOutlivesWorker
  BY InvHolds, InvImplies, PTL

\* What the end of a job gives away is not needed any more (finish, _run).
THEOREM EndIsOver == Spec => []EndedIsOver
  BY SettledAsOne, VerdictsAreTrue, PayloadStays, PTL DEF EndedIsOver

\* Only its supervisor concludes a supervised job (owner.lock).
THEOREM SupervisorDecides == Spec => []SupervisorOwnsRunning
  BY InvHolds, InvImplies, PTL

\* A recorded cancellation is never answered with a completion (finish).
THEOREM CancellationSticks == Spec => []NoCompletionAfterCancel
  BY InvHolds, InvImplies, PTL

\* A published outcome is never written off (_run's second look).
THEOREM OutcomesCount == Spec => []PublishedNotAbandoned
  BY InvHolds, InvImplies, PTL
-----------------------------------------------------------------------------
(* Steps that finish() takes, and steps that it does not *)

\* Every step but these leaves the row and its claim alone.
LEMMA RowSteps ==
    ASSUME TypeOK, [Next]_vars
    PROVE  \/ UNCHANGED << job.status, job.claim, job.forced >>
           \/ Submit \/ ClaimRow \/ ForceRelease
           \/ \E status \in Terminal \cup {"none"}, verified \in BOOLEAN :
                Finish(status, verified) /\ UNCHANGED worker
<1>1. CASE UNCHANGED vars  BY <1>1 DEF vars
<1>2. CASE Submission
  BY <1>2 DEF Submission, StartSupervisor, ReportStartFailure, SubmitterDies, TypeOK, Job, Terminal
<1>3. CASE Supervision
  <2>1. CASE Decide
    BY <2>1 DEF Decide, Verdict, TypeOK, Supervisor, Result, Terminal
  <2>2. CASE ExceptFinish
    BY <2>2 DEF ExceptFinish, ExceptVerdict, TypeOK, Supervisor, Terminal
  <2>3. CASE ExceptRetry
    BY <2>3 DEF ExceptRetry, Terminal
  <2>4. CASE ClaimRow
    BY <2>4
  <2>5. CASE UNCHANGED job
    BY <2>5
  <2> QED
    BY <1>3, <2>1, <2>2, <2>3, <2>4, <2>5
       DEF Supervision, TakeLock, GiveUpLock, ClaimRefused, SpawnWorker, OpenGate, ReadRow,
           PollOutcome, Snapshot, Recheck, Terminate, Kill, StopVerified, StopUnverified,
           DecideRefused, HandleException, StopRaises, ExceptRead, Move
<1>4. CASE SupervisionFails
  BY <1>4 DEF SupervisionFails, Raises, SupervisorDies, SupervisorDiesFinishing, TypeOK, Job
<1>5. CASE Working
  BY <1>5 DEF Working, PassGate, Prepare, Validate, PrepareFails, StartWork, LeaveChild,
              WorkSucceeds, WorkFails, Interrupted, WriteOutcome, WorkerDies, ChildEnds,
              RemoteEnds, WorkerMove
<1>6. CASE Observation
  <2>1. PICK o \in Observers : Observe(o) \/ Judge(o) \/ Conclude(o) \/ ObserverDies(o)
    BY <1>6 DEF Observation
  <2>2. CASE Conclude(o)
    BY <2>2 DEF Conclude, ObserverMove, Terminal
  <2>3. CASE Observe(o) \/ Judge(o) \/ ObserverDies(o)
    BY <2>3 DEF Observe, Judge, ObserverDies, TypeOK, Job
  <2> QED  BY <2>1, <2>2, <2>3
<1>7. CASE Cancel \/ StartupExpires
  BY <1>7 DEF Cancel, StartupExpires, TypeOK, Job
<1> QED
  BY <1>1, <1>2, <1>3, <1>4, <1>5, <1>6, <1>7 DEF Next

\* A verdict, and the claim settled with it, is final (finish's early return).
THEOREM VerdictsAreFinal == Spec => TerminalFinal
<1>1. ASSUME Inv, [Next]_vars, job.status \in Terminal
      PROVE  /\ job'.status = job.status
             /\ job'.claim # job.claim => ForceRelease
  <2>1. TypeOK /\ LaunchInOrder
    BY <1>1 DEF Inv
  <2>2. ~Submit /\ ~ClaimRow
    BY <1>1, <2>1 DEF Submit, ClaimRow, LaunchInOrder, Terminal
  <2>3. \A status, verified : ~Finish(status, verified)
    BY <1>1 DEF Finish, Accepts, Unfinished, Terminal
  <2>4. CASE ForceRelease
    BY <2>1, <2>4 DEF ForceRelease, TypeOK, Job
  <2> QED  BY <1>1, <2>1, <2>2, <2>3, <2>4, RowSteps
<1>2. Inv /\ [Next]_vars
      => [job.status \in Terminal => /\ job'.status = job.status
                                     /\ job'.claim # job.claim => ForceRelease]_vars
  BY <1>1
<1> QED  BY <1>2, InvHolds, PTL DEF Spec, TerminalFinal
-----------------------------------------------------------------------------
(* The contract with Coordination *)

\* What a step may do to the worker and its work.
LEMMA WorkSteps ==
    ASSUME Inv, [Next]_vars, worker' # worker
    PROVE  /\ UNCHANGED job
           /\ \/ Validate /\ job.claim = "active"
              \/ StartWork
              \/ /\ worker'.pc \in {"validated", "working"} => worker.pc = worker'.pc
                 /\ AtWork' => AtWork
<1>1. TypeOK /\ LaunchInOrder
  BY DEF Inv
<1> USE DEF TypeOK, Worker, Result, AtWork, NeverWorks, LaunchInOrder
<1>2. CASE UNCHANGED vars  BY <1>2 DEF vars
<1>3. CASE Submission
  BY <1>3 DEF Submission, Submit, StartSupervisor, ReportStartFailure, SubmitterDies
<1>4. CASE Supervision
  <2>1. CASE SpawnWorker  BY <1>1, <2>1 DEF SpawnWorker
  <2>2. CASE Terminate  BY <1>1, <2>2 DEF Terminate
  <2>3. CASE Kill  BY <1>1, <2>3 DEF Kill
  <2> QED
    BY <1>4, <2>1, <2>2, <2>3
       DEF Supervision, TakeLock, GiveUpLock, ClaimRow, ClaimRefused, OpenGate, ReadRow,
           PollOutcome, Snapshot, Recheck, StopVerified, StopUnverified, Decide, DecideRefused,
           HandleException, StopRaises, ExceptRead, ExceptFinish, ExceptRetry, Move
<1>5. CASE SupervisionFails
  BY <1>5 DEF SupervisionFails, Raises, SupervisorDies, SupervisorDiesFinishing
<1>6. CASE Working
  <2>1. CASE PassGate  BY <1>1, <2>1 DEF PassGate, WorkerMove
  <2>2. CASE Prepare  BY <1>1, <2>2 DEF Prepare, WorkerMove
  <2>3. CASE Validate  BY <1>1, <2>3 DEF Validate, WorkerMove
  <2>4. CASE PrepareFails  BY <1>1, <2>4 DEF PrepareFails, WorkerMove
  <2>5. CASE StartWork  BY <2>5 DEF StartWork, WorkerMove
  <2>6. CASE LeaveChild  BY <1>1, <2>6 DEF LeaveChild, WorkerMove
  <2>7. CASE WorkSucceeds  BY <1>1, <2>7 DEF WorkSucceeds, WorkerMove
  <2>8. CASE WorkFails  BY <1>1, <2>8 DEF WorkFails, WorkerMove
  <2>9. CASE Interrupted  BY <1>1, <2>9 DEF Interrupted, WorkerMove
  <2>10. CASE WriteOutcome  BY <1>1, <2>10 DEF WriteOutcome
  <2>11. CASE WorkerDies  BY <1>1, <2>11 DEF WorkerDies, WorkerMove
  <2>12. CASE ChildEnds  BY <1>1, <2>12 DEF ChildEnds, WorkerMove
  <2>13. CASE RemoteEnds  BY <1>1, <2>13 DEF RemoteEnds, WorkerMove
  <2> QED
    BY <1>6, <2>1, <2>2, <2>3, <2>4, <2>5, <2>6, <2>7, <2>8, <2>9, <2>10, <2>11, <2>12, <2>13
       DEF Working
<1>7. CASE Observation
  BY <1>7 DEF Observation, Observe, Judge, Conclude, ObserverDies, ObserverMove
<1>8. CASE Cancel \/ StartupExpires \/ ForceRelease
  BY <1>8 DEF Cancel, StartupExpires, ForceRelease
<1> QED
  BY <1>2, <1>3, <1>4, <1>5, <1>6, <1>7, <1>8 DEF Next

LEMMA ContractStep == Inv /\ Inv' /\ [Next]_vars => [Contract!Next]_(Contract!vars)
<1> SUFFICES ASSUME Inv, Inv', [Next]_vars
             PROVE  Contract!Next \/ UNCHANGED Contract!vars
  OBVIOUS
<1>1. TypeOK /\ LaunchInOrder /\ WorkKnown
  BY DEF Inv
<1>2. CASE worker' # worker
  <2>1. job' = job
    BY <1>2, WorkSteps
  <2>2. CASE Validate /\ job.claim = "active"
    <3>1. /\ job.claim = "active"
          /\ worker'.pc \in {"validated", "working"}
          /\ AtWork' = AtWork
      BY <1>1, <1>2, <2>2 DEF Validate, WorkerMove, TypeOK, Worker, AtWork
    <3> QED  BY <2>1, <3>1 DEF Contract!Next, Contract!Validate
  <2>3. CASE StartWork
    <3>1. /\ worker.pc \in {"validated", "working"}
          /\ worker'.pc \in {"validated", "working"}
          /\ AtWork'
      BY <1>1, <2>3 DEF StartWork, WorkerMove, TypeOK, Worker, AtWork
    <3> QED  BY <2>1, <3>1 DEF Contract!Next, Contract!Start
  <2>4. CASE /\ worker'.pc \in {"validated", "working"} => worker.pc = worker'.pc
             /\ AtWork' => AtWork
    <3>1. (worker'.pc \in {"validated", "working"})
             \in {worker.pc \in {"validated", "working"}, FALSE}
      <4>1. CASE worker'.pc \in {"validated", "working"}  BY <2>4, <4>1
      <4>2. CASE ~(worker'.pc \in {"validated", "working"})
        <5>1. (worker'.pc \in {"validated", "working"}) = FALSE  BY <4>2
        <5> QED  BY <5>1
      <4> QED  BY <4>1, <4>2
    <3>2. AtWork' \in {AtWork, FALSE}
      BY <1>1, <2>4 DEF AtWork
    <3> QED  BY <2>1, <3>1, <3>2 DEF Contract!Next, Contract!Withdraw
  <2> QED  BY <1>2, <2>2, <2>3, <2>4, WorkSteps
<1>3. CASE worker' = worker
  <2>1. UNCHANGED << worker.pc \in {"validated", "working"}, AtWork >>
    BY <1>3 DEF AtWork
  <2>2. CASE UNCHANGED << job.status, job.claim, job.forced >>
    BY <2>1, <2>2 DEF Contract!vars
  <2>3. CASE Submit
    <3>1. job.claim = "none" /\ job'.claim = "active" /\ job'.forced = job.forced
      BY <1>1, <2>3 DEF Submit, TypeOK, Job, LaunchInOrder, WorkKnown
    <3> QED  BY <2>1, <3>1 DEF Contract!Next, Contract!Admit
  <2>4. CASE ClaimRow
    BY <1>1, <2>1, <2>4 DEF ClaimRow, TypeOK, Job, Contract!vars
  <2>5. CASE ForceRelease
    <3>1. job.claim = "uncertain" /\ job'.claim = "released" /\ job'.forced
      BY <1>1, <2>5 DEF ForceRelease, TypeOK, Job
    <3> QED  BY <2>1, <3>1 DEF Contract!Next, Contract!ForceRelease
  <2>6. CASE \E status \in Terminal \cup {"none"}, verified \in BOOLEAN : Finish(status, verified)
    <3>1. PICK status \in Terminal \cup {"none"}, verified \in BOOLEAN : Finish(status, verified)
      BY <2>6
    <3>2. /\ job.claim = "active"
          /\ job'.forced = job.forced
          /\ job'.claim \in {"released", "uncertain"}
      <4>1. job.status \in Unfinished /\ SettledTogether
        BY <3>1 DEF Finish, Accepts, Inv
      <4> QED  BY <1>1, <3>1, <4>1, FinishFields DEF SettledTogether
    <3>3. CASE job'.claim = "uncertain"
      BY <2>1, <3>2, <3>3 DEF Contract!Next, Contract!Settle
    <3>4. CASE job'.claim = "released"
      <4>1. WorkKnown' /\ (job.forced \/ NeverWorks')
        BY <3>2, <3>4 DEF Inv, WorkKnown
      <4>2. ~job.forced
        BY <1>1, <3>2 DEF WorkKnown
      <4> QED  BY <2>1, <3>2, <3>4, <4>1, <4>2 DEF Contract!Next, Contract!Settle, AtWork, NeverWorks
    <3> QED  BY <3>2, <3>3, <3>4
  <2> QED  BY <1>1, <2>2, <2>3, <2>4, <2>5, <2>6, RowSteps
<1> QED  BY <1>2, <1>3

\* A job's processes keep the contract its claim is admitted under, which
\* Coordination relies on when a claim is settled as safe (finish).
THEOREM ContractKept == Spec => KeepsContract
<1>1. Init => Contract!Init
  BY DEF Init, Contract!Init, AtWork
<1> QED  BY <1>1, ContractStep, InvHolds, PTL DEF Spec, KeepsContract, Contract!Spec
=============================================================================
