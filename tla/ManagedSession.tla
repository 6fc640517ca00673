--------------------------- MODULE ManagedSession ---------------------------
(***************************************************************************)
(* A managed session: src/ridge/sessions.py, a caller that holds one lock  *)
(* session open while it works.  ManagedSession renews from a thread,      *)
(* ManagedMCPSession from a task that talks to a server and may be         *)
(* cancelled while its request is on the way.  The state database decides  *)
(* who owns the session (module Coordination; its rows end here as open or *)
(* closed); the object in the caller's process has to know in time when it *)
(* no longer does.                                                         *)
(*                                                                         *)
(* time.time() and time.monotonic() are one clock here: they advance       *)
(* together.  Any amount of time may pass between two steps.               *)
(***************************************************************************)
EXTENDS Integers

CONSTANTS
    Lease,    \* lease_seconds
    Horizon   \* the end of the modelled time

ASSUME ManagedSessionAssumption == Lease \in Nat \ {0} /\ Horizon \in Nat

VARIABLES
    time,
    kind,        \* "thread" or "task"
    status,      \* of the session's row: "none", "open", "closed"
    expires,     \* the row's expires_at
    stray,       \* requests nobody waits for, which the server may still execute
    pc,          \* the owner: __enter__, the body of the with statement, __exit__
    clock,       \* what the owner read last from the clock
    open, error, deadline,   \* the object, which both of its users read and write
    renewer,     \* _renew()
    mark,        \* when the renewer's wait, or its call, began
    failed       \* history: some check() or some renewal has

server == << status, expires >>
owner == << pc, clock >>
object == << open, error, deadline >>
renewal == << renewer, mark >>

ownerVars == << time, kind, server, stray, owner, object, renewal, failed >>

OwnerPC == {"new", "asking", "granted", "starting", "startFailed", "body", "using",
            "joining", "releasing", "exited", "failed", "dead"}

Stray == {"acquire", "renew", "release"}

RenewerPC == {"none", "waiting", "checking", "marking", "calling", "answered",
              "setting", "done"}
-----------------------------------------------------------------------------
\* check(), for whoever calls it: it raises unless the session is healthy, and
\* remembers a deadline that was missed.
Healthy == open /\ ~error /\ time < deadline

Missed == open /\ time >= deadline

OwnerInit ==
    /\ time = 0
    /\ kind \in {"thread", "task"}
    /\ status = "none" /\ expires = 0
    /\ stray = {}
    /\ pc = "new" /\ clock = 0
    /\ open = FALSE /\ error = FALSE /\ deadline = 0
    /\ renewer = "none" /\ mark = 0
    /\ failed = FALSE
-----------------------------------------------------------------------------
\* The state database.  Leases are granted while they end in modelled time.
MayGrant == status = "none" /\ time + Lease <= Horizon

MayExtend == status = "open" /\ time < expires /\ time + Lease <= Horizon

Extend == status' = "open" /\ expires' = time + Lease

\* Every transaction of anybody closes what has expired.
Sweep ==
    /\ status = "open" /\ expires <= time
    /\ status' = "closed"
    /\ UNCHANGED << time, kind, expires, stray, owner, object, renewal, failed >>

\* A request whose sender has given it up arrives after all, or never does.
ServeStray(r) ==
    /\ r \in stray
    /\ stray' = stray \ {r}
    /\ \/ r = "acquire" /\ MayGrant /\ Extend
       \/ r = "renew" /\ MayExtend /\ Extend
       \/ r = "release" /\ status' = "closed" /\ UNCHANGED expires
       \/ UNCHANGED server
    /\ UNCHANGED << time, kind, owner, object, renewal, failed >>
-----------------------------------------------------------------------------
\* __enter__, __aenter__
Enter ==
    /\ pc = "new"
    /\ pc' = "asking"
    /\ UNCHANGED << time, kind, server, stray, clock, object, renewal, failed >>

AcquireServed ==
    /\ pc = "asking" /\ MayGrant
    /\ pc' = "granted"
    /\ Extend
    /\ UNCHANGED << time, kind, stray, clock, object, renewal, failed >>

AcquireRefused ==
    /\ pc = "asking"
    /\ pc' = "failed"
    /\ UNCHANGED << time, kind, server, stray, clock, object, renewal, failed >>

\* The token of an acquisition that was given up is known to nobody.
AcquireTimesOut ==
    /\ kind = "task" /\ pc \in {"asking", "granted"}
    /\ pc' = "failed"
    /\ stray' = IF pc = "asking" THEN {"acquire"} ELSE stray
    /\ UNCHANGED << time, kind, server, clock, object, renewal, failed >>

\* The monotonic clock is read first, then the other one.
ReadMonotonic ==
    /\ pc = "granted"
    /\ pc' = "starting"
    /\ clock' = time
    /\ UNCHANGED << time, kind, server, stray, object, renewal, failed >>

FirstDeadline == clock + (IF expires > time THEN expires - time ELSE 0)

Start ==
    /\ pc = "starting"
    /\ pc' = "body"
    /\ open' = TRUE /\ deadline' = FirstDeadline
    /\ renewer' = "waiting" /\ mark' = time
    /\ UNCHANGED << time, kind, server, stray, clock, error, failed >>

\* The thread cannot be started.
StartFails ==
    /\ kind = "thread" /\ pc = "starting"
    /\ pc' = "startFailed"
    /\ deadline' = FirstDeadline
    /\ UNCHANGED << time, kind, server, stray, clock, open, error, renewal, failed >>

ReleaseServed ==
    /\ pc \in {"releasing", "startFailed"}
    /\ pc' = IF pc = "releasing" THEN "exited" ELSE "failed"
    /\ status' = "closed"
    /\ UNCHANGED << time, kind, expires, stray, clock, object, renewal, failed >>

\* The release fails; a task's may be on the way or answered already.
ReleaseFails ==
    /\ pc \in {"releasing", "startFailed"}
    /\ pc' = IF pc = "releasing" THEN "exited" ELSE "failed"
    /\ \/ UNCHANGED << server, stray >>
       \/ kind = "task" /\ stray' = stray \cup {"release"} /\ UNCHANGED server
       \/ kind = "task" /\ status' = "closed" /\ UNCHANGED << expires, stray >>
    /\ UNCHANGED << time, kind, clock, object, renewal, failed >>
-----------------------------------------------------------------------------
\* The owner calls check(), or an operation of its service does before it is
\* admitted (_operation_token).
OwnerChecks ==
    /\ pc = "body"
    /\ pc' = IF Healthy THEN "using" ELSE "body"
    /\ error' = (error \/ Missed)
    /\ failed' = (failed \/ ~Healthy)
    /\ UNCHANGED << time, kind, server, stray, clock, open, deadline, renewal >>

\* admit() extends the lease of the session it admits under.
OperationAdmitted ==
    /\ pc = "using" /\ MayExtend
    /\ pc' = "body"
    /\ Extend
    /\ UNCHANGED << time, kind, stray, clock, object, renewal, failed >>

OperationRefused ==
    /\ pc = "using"
    /\ pc' = "body"
    /\ UNCHANGED << time, kind, server, stray, clock, object, renewal, failed >>

\* __exit__ sets the thread's stop event, _close cancels the task.
Exit ==
    /\ pc = "body"
    /\ pc' = "joining"
    /\ UNCHANGED << time, kind, server, stray, clock, object, renewal, failed >>

Joined ==
    /\ pc = "joining" /\ renewer = "done"
    /\ pc' = "releasing"
    /\ error' = (error \/ Missed)
    /\ failed' = (failed \/ ~Healthy)
    /\ open' = FALSE
    /\ UNCHANGED << time, kind, server, stray, clock, deadline, renewal >>

\* The process of the caller is killed.
Dies ==
    /\ pc \notin {"new", "exited", "failed", "dead"}
    /\ pc' = "dead"
    /\ open' = FALSE
    /\ renewer' = "done"
    /\ stray' = stray \cup
            {r \in Stray : /\ kind = "task"
                           /\ \/ r = "acquire" /\ pc = "asking"
                              \/ r = "renew" /\ renewer = "calling"
                              \/ r = "release" /\ pc = "releasing"}
    /\ UNCHANGED << time, kind, server, clock, error, deadline, mark, failed >>
-----------------------------------------------------------------------------
\* _renew()
RenewerMove(step) ==
    /\ renewer' = step
    /\ UNCHANGED << time, kind, owner, open >>

\* The wait is over after a third of the lease, or later.
Wakes ==
    /\ renewer = "waiting" /\ 3 * (time - mark) >= Lease
    /\ RenewerMove("checking")
    /\ UNCHANGED << server, stray, mark, error, deadline, failed >>

\* Mutant of Stops: the event is not looked at.
StopsNever == FALSE

\* A thread looks at the event where it waits for the time, a task is cancelled
\* where it waits for the time or for an answer.
Stops ==
    /\ pc = "joining"
    /\ renewer \in IF kind = "thread" THEN {"waiting"} ELSE {"waiting", "calling", "answered"}
    /\ RenewerMove("done")
    /\ stray' = IF renewer = "calling" THEN stray \cup {"renew"} ELSE stray
    /\ UNCHANGED << server, mark, error, deadline, failed >>

\* A check that raises ends the renewer, and the session.
RenewerChecks(from, to) ==
    /\ renewer = from
    /\ RenewerMove(IF Healthy THEN to ELSE "done")
    /\ error' = (error \/ ~Healthy)
    /\ failed' = (failed \/ ~Healthy)
    /\ UNCHANGED << server, stray, mark, deadline >>

Marks ==
    /\ renewer = "marking"
    /\ RenewerMove("calling")
    /\ mark' = time
    /\ UNCHANGED << server, stray, error, deadline, failed >>

RenewServed ==
    /\ renewer = "calling" /\ MayExtend
    /\ RenewerMove("answered")
    /\ Extend
    /\ UNCHANGED << stray, mark, error, deadline, failed >>

\* The renewal fails, or times out while it is on the way or on the way back.
RenewFails ==
    /\ renewer \in {"calling", "answered"}
    /\ RenewerMove("done")
    /\ error' = TRUE /\ failed' = TRUE
    /\ stray' \in IF kind = "task" /\ renewer = "calling"
                  THEN {stray, stray \cup {"renew"}} ELSE {stray}
    /\ UNCHANGED << server, mark, deadline >>

\* Mutant of NextDeadline: the time the call took is not counted.
NextDeadlineLate == time + Lease

NextDeadline == mark + Lease

SetsDeadline ==
    /\ renewer = "setting"
    /\ RenewerMove("waiting")
    /\ deadline' = NextDeadline
    /\ mark' = time
    /\ UNCHANGED << server, stray, error, failed >>

RenewerStep ==
    \/ Wakes \/ Stops
    \/ RenewerChecks("checking", "marking") \/ Marks
    \/ RenewServed \/ RenewFails
    \/ RenewerChecks("answered", "setting") \/ SetsDeadline

OwnerEnters ==
    \/ AcquireServed \/ AcquireRefused \/ AcquireTimesOut
    \/ ReadMonotonic \/ Start \/ StartFails

OwnerExits == Joined \/ ReleaseServed \/ ReleaseFails

TimePasses ==
    /\ time < Horizon
    /\ time' = time + 1
    /\ UNCHANGED << kind, server, stray, owner, object, renewal, failed >>

OwnerNext ==
    \/ TimePasses \/ Sweep \/ \E r \in Stray : ServeStray(r)
    \/ Enter \/ OwnerEnters
    \/ OwnerChecks \/ OperationAdmitted \/ OperationRefused
    \/ Exit \/ OwnerExits \/ Dies
    \/ RenewerStep

OwnerSpec == OwnerInit /\ [][OwnerNext]_ownerVars

\* Time passes, somebody uses the database, and calls return: a thread's are
\* local transactions, a task's time out.
FairOwnerSpec ==
    /\ OwnerSpec
    /\ WF_ownerVars(TimePasses) /\ WF_ownerVars(Sweep) /\ WF_ownerVars(RenewerStep)
    /\ WF_ownerVars(OwnerEnters) /\ WF_ownerVars(OwnerExits)
-----------------------------------------------------------------------------
OwnerTypeOK ==
    /\ time \in Nat /\ expires \in Nat /\ clock \in Nat
    /\ deadline \in Nat /\ mark \in Nat
    /\ kind \in {"thread", "task"}
    /\ status \in {"none", "open", "closed"}
    /\ stray \subseteq Stray
    /\ pc \in OwnerPC /\ renewer \in RenewerPC
    /\ open \in BOOLEAN /\ error \in BOOLEAN /\ failed \in BOOLEAN

\* Whenever check() would pass, the database agrees: the session is open and its
\* lease has not run out, whatever was late, lost or given up (check, _renew).
TrustedLease == Healthy => status = "open" /\ time < expires

\* "permanently fails that helper, with no retry": once a check() or a
\* renewal has failed no check() passes again, for either user of the object.
FailsForGood == [][failed => ~Healthy']_ownerVars

\* However the workflow ends, its renewals end and the session is closed, by the
\* release or by its lease.
GivenBack ==
    pc \in {"joining", "releasing", "startFailed", "failed", "dead"} ~>
        pc \in {"exited", "failed", "dead"} /\ renewer \in {"none", "done"} /\ status # "open"
=============================================================================
