---------------------------- MODULE Coordination ----------------------------
(***************************************************************************)
(* Persistent cooperative claims: src/ridge/coordination.py.               *)
(*                                                                         *)
(* Two tables of one SQLite database hold the reservations of every        *)
(* process on the machine: lock sessions (leased, named by a token) and    *)
(* lock operations (one admitted operation or background job each).        *)
(* Every public method is one BEGIN IMMEDIATE transaction that first       *)
(* reconciles both tables; a body that raises rolls everything back, the   *)
(* reconciliation included, so a refused call changes nothing and appears  *)
(* here only as a disabled action.                                         *)
(*                                                                         *)
(* The database alone does not say what is really running.  agent is the   *)
(* process that acts under an admitted operation (the caller of            *)
(* Coordination.operation, or a job's worker) and effect is the work it    *)
(* dispatched on the resource, which can outlive its agent.                *)
(***************************************************************************)
EXTENDS Claims

CONSTANTS
    Sessions,    \* identities lock sessions may get (uuid4, never reused)
    Ops,         \* identities operations and jobs may get (uuid4)
    Resources,
    Key,         \* coordination key of each resource
    Requests,    \* what callers may ask for
    Leases,      \* lease_seconds they may choose
    MaxTime,     \* bound on the clock
    NoSession,   \* an operation admitted without a token
    NoPlan       \* a request whose claims are derived from its scopes

Operation == {"compute.exec", "data.list", "data.read",
              "data.write", "data.stat", "data.delete"}

Mutating == {"compute.exec", "data.write", "data.delete"}

JobScope == [resource : Resources, operation : Operation]

\* local: every resource of the request is executed by this machine.
Request == [scopes : SUBSET JobScope,
            plan   : (SUBSET Claim) \cup {NoPlan},
            local  : BOOLEAN]

ASSUME CoordinationAssumption ==
    /\ Key \in [Resources -> Domains]
    /\ Requests \subseteq Request
    /\ Leases \subseteq Nat \ {0}
    /\ MaxTime \in Nat
    /\ NoSession \notin Sessions \cup Ops
    /\ Sessions \cap Ops = {}

VARIABLES
    now,       \* time.time()
    session,   \* table lock_sessions
    op,        \* table lock_operations
    agent,     \* the process acting under each operation
    effect,    \* the work dispatched under each operation
    forced     \* operations an operator force-released

vars == << now, session, op, agent, effect, forced >>

SessionRow == [status  : {"none", "open", "closing", "released"},
               expires : Nat,
               lease   : Nat,
               scopes  : SUBSET JobScope,
               claims  : SUBSET Claim]

OpRow == [status  : {"none", "active", "uncertain", "released"},
          session : Sessions \cup {NoSession},
          job     : BOOLEAN,
          scopes  : SUBSET JobScope,
          claims  : SUBSET Claim,
          local   : BOOLEAN]

AgentState == {"idle",    \* no process yet
               "queued",  \* a job's supervisor or worker, before validate_job
               "inside",  \* may dispatch effects; a caller also owns the flock
               "done",    \* left after the row was settled
               "dead"}    \* disappeared: the kernel dropped its flock

EffectState == {"none", "running", "stopped"}

Held(row) == row.status \in {"open", "closing"}

Live(row) == row.status \in {"active", "uncertain"}
-----------------------------------------------------------------------------
\* claims(): whole-domain claims for the requested operations.
BroadClaims(scopes) ==
    Normalize({[domain |-> Key[s.resource],
                scope  |-> WholeDomain,
                mode   |-> IF s.operation \in Mutating THEN "exclusive" ELSE "shared"] :
               s \in scopes})

RequestClaims(r) ==
    IF r.plan = NoPlan THEN BroadClaims(r.scopes) ELSE Normalize(r.plan)

\* The expiry half of reconcile().
Expire(S) ==
    [s \in Sessions |->
        IF S[s].status = "open" /\ S[s].expires <= now
        THEN [S[s] EXCEPT !.status = "closing"]
        ELSE S[s]]

\* The caller holds its flock from before the row exists until it is settled.
FlockFree(o) == agent[o] # "inside"

\* Mutant: a missing caller is taken for finished work.
OrphanReleased(O) ==
    [o \in Ops |->
        IF O[o].status = "active" /\ ~O[o].job /\ FlockFree(o)
        THEN [O[o] EXCEPT !.status = "released"]
        ELSE O[o]]

\* Mutant: only operations outside a session are looked at.
OrphanSessionless(O) ==
    [o \in Ops |->
        IF O[o].status = "active" /\ ~O[o].job /\ FlockFree(o) /\ O[o].session = NoSession
        THEN [O[o] EXCEPT !.status = "uncertain"]
        ELSE O[o]]

\* The owner half of reconcile(): a caller's operation whose flock is free.
Orphan(O) ==
    [o \in Ops |->
        IF O[o].status = "active" /\ ~O[o].job /\ FlockFree(o)
        THEN [O[o] EXCEPT !.status = "uncertain"]
        ELSE O[o]]

\* Mutant: an uncertain operation does not hold its session back.
DrainUncertain(S, O) ==
    [s \in Sessions |->
        IF /\ S[s].status = "closing"
           /\ \A o \in Ops : O[o].session = s => O[o].status # "active"
        THEN [S[s] EXCEPT !.status = "released"]
        ELSE S[s]]

\* Mutant: an open session without operations is drained too.
DrainIdle(S, O) ==
    [s \in Sessions |->
        IF Held(S[s]) /\ \A o \in Ops : O[o].session = s => ~Live(O[o])
        THEN [S[s] EXCEPT !.status = "released"]
        ELSE S[s]]

\* Mutant: a settled operation still holds its session back.
DrainUnused(S, O) ==
    [s \in Sessions |->
        IF S[s].status = "closing" /\ \A o \in Ops : O[o].session # s
        THEN [S[s] EXCEPT !.status = "released"]
        ELSE S[s]]

\* drain(): a closing session is released with its last operation.
Drain(S, O) ==
    [s \in Sessions |->
        IF /\ S[s].status = "closing"
           /\ \A o \in Ops : O[o].session = s => ~Live(O[o])
        THEN [S[s] EXCEPT !.status = "released"]
        ELSE S[s]]

\* Both tables as the body of a transaction finds them.
SweptOps == Orphan(op)

SweptSessions == Drain(Expire(session), SweptOps)

\* Mutant: the operations of the caller's own session are skipped as well.
FreeOfStrangers(claims, own) ==
    /\ \A s \in Sessions \ {own} :
            Held(SweptSessions[s]) => ~Conflicts(claims, SweptSessions[s].claims)
    /\ \A o \in Ops :
            Live(SweptOps[o]) /\ (own = NoSession \/ SweptOps[o].session # own)
                => ~Conflicts(claims, SweptOps[o].claims)

\* _check(): no conflicting reservation but the caller's own session.
Free(claims, own) ==
    /\ \A s \in Sessions \ {own} :
            Held(SweptSessions[s]) => ~Conflicts(claims, SweptSessions[s].claims)
    /\ \A o \in Ops :
            Live(SweptOps[o]) => ~Conflicts(claims, SweptOps[o].claims)

\* What admit() requires of the session a token names.
MayAdmit(s, r) ==
    /\ SweptSessions[s].status = "open"
    /\ r.scopes \subseteq SweptSessions[s].scopes
    /\ Covers(SweptSessions[s].claims, RequestClaims(r))

\* finish(): the row's status, never taken back from 'released'.
Settle(O, o, safe) ==
    IF O[o].status = "released"
    THEN O
    ELSE [O EXCEPT ![o].status = IF safe THEN "released" ELSE "uncertain"]
-----------------------------------------------------------------------------
Init ==
    /\ now = 0
    /\ session = [s \in Sessions |->
            [status |-> "none", expires |-> 0, lease |-> 0,
             scopes |-> {}, claims |-> {}]]
    /\ op = [o \in Ops |->
            [status |-> "none", session |-> NoSession, job |-> FALSE,
             scopes |-> {}, claims |-> {}, local |-> FALSE]]
    /\ agent = [o \in Ops |-> "idle"]
    /\ effect = [o \in Ops |-> "none"]
    /\ forced = {}

\* acquire(): one attempt; a conflict rolls back and is retried until the
\* wait is over.
Acquire(s, r, lease) ==
    /\ session[s].status = "none"
    /\ Free(RequestClaims(r), NoSession)
    /\ session' = [SweptSessions EXCEPT ![s] =
            [status |-> "open", expires |-> now + lease, lease |-> lease,
             scopes |-> r.scopes, claims |-> RequestClaims(r)]]
    /\ op' = SweptOps
    /\ UNCHANGED << now, agent, effect, forced >>

\* session_action(release=False)
Renew(s) ==
    /\ SweptSessions[s].status = "open"
    /\ session' = Drain([SweptSessions EXCEPT ![s].expires = now + SweptSessions[s].lease],
                        SweptOps)
    /\ op' = SweptOps
    /\ UNCHANGED << now, agent, effect, forced >>

\* session_action(release=True)
Release(s) ==
    /\ session[s].status # "none"
    /\ session' = Drain([SweptSessions EXCEPT ![s].status =
                            IF @ = "open" THEN "closing" ELSE @],
                        SweptOps)
    /\ op' = SweptOps
    /\ UNCHANGED << now, agent, effect, forced >>

\* admit(): by the caller of an operation, or by job submission.
Admit(o, s, r, job) ==
    /\ op[o].status = "none"
    /\ s # NoSession => MayAdmit(s, r)
    /\ Free(RequestClaims(r), s)
    /\ op' = [SweptOps EXCEPT ![o] =
            [status |-> "active", session |-> s, job |-> job,
             scopes |-> r.scopes, claims |-> RequestClaims(r), local |-> r.local]]
    /\ session' = IF s = NoSession
                  THEN SweptSessions
                  ELSE [SweptSessions EXCEPT ![s].expires = now + SweptSessions[s].lease]
    /\ agent' = [agent EXCEPT ![o] = IF job THEN "queued" ELSE "inside"]
    /\ UNCHANGED << now, effect, forced >>

\* Mutant: the row's status is not looked at.
ValidateRow(o, r) ==
    /\ agent[o] = "queued"
    /\ op[o].job
    /\ r.scopes \subseteq op[o].scopes
    /\ Covers(op[o].claims, RequestClaims(r))
    /\ agent' = [agent EXCEPT ![o] = "inside"]
    /\ session' = SweptSessions
    /\ op' = SweptOps
    /\ UNCHANGED << now, effect, forced >>

\* validate_job(): a worker's check, in its own transaction, that the row
\* it was started for still reserves what the worker is about to do.
ValidateJob(o, r) ==
    /\ agent[o] = "queued"
    /\ op[o].status = "active" /\ op[o].job
    /\ r.scopes \subseteq op[o].scopes
    /\ Covers(op[o].claims, RequestClaims(r))
    /\ agent' = [agent EXCEPT ![o] = "inside"]
    /\ session' = SweptSessions
    /\ op' = SweptOps
    /\ UNCHANGED << now, effect, forced >>

\* The body of the operation starts, and ends, its work on the resource.
Dispatch(o) ==
    /\ agent[o] = "inside"
    /\ effect[o] = "none"
    /\ effect' = [effect EXCEPT ![o] = "running"]
    /\ UNCHANGED << now, session, op, agent, forced >>

EffectStops(o) ==
    /\ effect[o] = "running"
    /\ effect' = [effect EXCEPT ![o] = "stopped"]
    /\ UNCHANGED << now, session, op, agent, forced >>

\* operation() ends: one transaction, then the flock is closed.
Leave(o, safe) ==
    LET O == Settle(SweptOps, o, safe)
    IN  /\ agent[o] = "inside" /\ ~op[o].job
        /\ op' = O
        /\ session' = Drain(SweptSessions, O)
        /\ agent' = [agent EXCEPT ![o] = "done"]
        /\ UNCHANGED << now, effect, forced >>

\* The body returned: its work is over.
Return(o) == effect[o] # "running" /\ Leave(o, TRUE)

\* The body raised.  An Exception out of one local, non-executing operation
\* is raised by the work itself; any other exception proves nothing.
InProcess(row) ==
    /\ row.local
    /\ \E x \in row.scopes : row.scopes = {x} /\ x.operation # "compute.exec"

\* Mutant: every local failure is taken for the end of the work.
SafeFailureIfLocal(row, interrupted) == row.local

SafeFailure(row, interrupted) == ~interrupted /\ InProcess(row)

Raise(o, interrupted) ==
    /\ ~interrupted /\ InProcess(op[o]) => effect[o] # "running"
    /\ Leave(o, SafeFailure(op[o], interrupted))

\* The process is killed, or the settling transaction itself fails.
Crash(o) ==
    /\ agent[o] \in {"queued", "inside"}
    /\ agent' = [agent EXCEPT ![o] = "dead"]
    /\ UNCHANGED << now, session, op, effect, forced >>

\* The claim half of JobManager.finish(), once per job: in the job's own
\* transaction, which does not reconcile.  It calls the settlement safe
\* only for a worker that never started, or was seen to stop with no work
\* left behind; otherwise the worker may still be there.
FinishJob(o, safe) ==
    LET O == Settle(op, o, safe)
    IN  /\ op[o].job /\ op[o].status = "active"
        /\ safe => effect[o] # "running"
        /\ op' = O
        /\ session' = Drain(session, O)
        /\ agent' = [agent EXCEPT ![o] = IF safe THEN "done" ELSE @]
        /\ UNCHANGED << now, effect, forced >>

\* force_release(): an operator vouches for an uncertain operation.
ForceRelease(o) ==
    LET O == Settle(SweptOps, o, TRUE)
    IN  /\ SweptOps[o].status = "uncertain"
        /\ op' = O
        /\ session' = Drain(SweptSessions, O)
        /\ forced' = forced \cup {o}
        /\ UNCHANGED << now, agent, effect >>

\* inspect(), page(), token_scopes(): a transaction that only reconciles.
Observe ==
    /\ session' = SweptSessions
    /\ op' = SweptOps
    /\ UNCHANGED << now, agent, effect, forced >>

Tick ==
    /\ now < MaxTime
    /\ now' = now + 1
    /\ UNCHANGED << session, op, agent, effect, forced >>

Next ==
    \/ \E s \in Sessions, r \in Requests, lease \in Leases : Acquire(s, r, lease)
    \/ \E s \in Sessions : Renew(s) \/ Release(s)
    \/ \E o \in Ops, s \in Sessions \cup {NoSession}, r \in Requests, job \in BOOLEAN :
            Admit(o, s, r, job)
    \/ \E o \in Ops, r \in Requests : ValidateJob(o, r)
    \/ \E o \in Ops : Dispatch(o) \/ EffectStops(o) \/ Return(o) \/ Crash(o)
    \/ \E o \in Ops, interrupted \in BOOLEAN : Raise(o, interrupted)
    \/ \E o \in Ops, safe \in BOOLEAN : FinishJob(o, safe)
    \/ \E o \in Ops : ForceRelease(o)
    \/ Observe
    \/ Tick

Spec == Init /\ [][Next]_vars

\* Nothing in the code sweeps by itself: somebody keeps listing locks.
FairSpec == Spec /\ WF_vars(Observe)
-----------------------------------------------------------------------------
TypeOK ==
    /\ now \in Nat
    /\ session \in [Sessions -> SessionRow]
    /\ op \in [Ops -> OpRow]
    /\ agent \in [Ops -> AgentState]
    /\ effect \in [Ops -> EffectState]
    /\ forced \subseteq Ops

OpsExclusive(O) ==
    \A o, p \in Ops :
        o # p /\ Live(O[o]) /\ Live(O[p]) => ~Conflicts(O[o].claims, O[p].claims)

SessionsExclusive(S) ==
    \A s, t \in Sessions :
        s # t /\ Held(S[s]) /\ Held(S[t]) => ~Conflicts(S[s].claims, S[t].claims)

ForeignExclusive(S, O) ==
    \A o \in Ops, s \in Sessions :
        Live(O[o]) /\ Held(S[s]) /\ O[o].session # s =>
            ~Conflicts(O[o].claims, S[s].claims)

\* However transactions interleave with expiry, crashes and recovery, no two
\* reservations conflict unless one is an operation of the other's session
\* (_check against both tables, reconcile and drain before it).
NoConflictingOwnership ==
    OpsExclusive(op) /\ SessionsExclusive(session) /\ ForeignExclusive(session, op)

WithinSession(S, O) ==
    \A o \in Ops : Live(O[o]) /\ O[o].session # NoSession =>
        LET row == S[O[o].session] IN
            Held(row) /\ O[o].scopes \subseteq row.scopes /\ Covers(row.claims, O[o].claims)

\* A session is not released, even expired or closed by its owner, before
\* every operation admitted under it is settled, and covers each of them
\* (admit's checks; drain's NOT EXISTS).
OpsWithinSession == WithinSession(session, op)

\* Work on a resource never outlives its reservation, whatever happens to
\* the process that started it, unless an operator vouched for it
\* (operation's exception rule, reconcile's 'uncertain', force_release).
EffectsReserved ==
    \A o \in Ops : effect[o] = "running" /\ o \notin forced => Live(op[o])

\* What the locks are for: conflicting operations never run at the same
\* time, except behind an operator's force_release.
EffectsExclusive ==
    \A o, p \in Ops :
        /\ o # p
        /\ {effect[o], effect[p]} = {"running"}
        /\ {o, p} \cap forced = {}
        => ~Conflicts(op[o].claims, op[p].claims)

\* The same promise to the holder of a session: while it is held, nobody
\* else's running work conflicts with it.
SessionShields ==
    \A s \in Sessions, o \in Ops :
        Held(session[s]) /\ effect[o] = "running" /\ o \notin forced
            /\ op[o].session # s
        => ~Conflicts(op[o].claims, session[s].claims)

\* What the tables say of the processes behind them: an identity nobody used
\* has neither, and whoever may still work owns a reservation.
AgentsAccounted ==
    \A o \in Ops :
        /\ op[o].status = "none" =>
                /\ agent[o] = "idle" /\ effect[o] = "none"
                /\ o \notin forced /\ op[o].session = NoSession
        /\ agent[o] = "inside" /\ ~op[o].job => op[o].status = "active"
        /\ (agent[o] = "inside" \/ effect[o] = "running") /\ o \notin forced =>
                Live(op[o])

\* The inductive invariant behind the safety properties.
Inv ==
    /\ TypeOK
    /\ NoConflictingOwnership
    /\ OpsWithinSession
    /\ AgentsAccounted

\* A session that closed or was released never reopens and its lease is
\* never extended, by renewal or by an admission (session_action, admit).
ClosedForGood ==
    [][\A s \in Sessions : session[s].status \in {"closing", "released"} =>
          /\ session'[s].status \in {session[s].status, "released"}
          /\ session'[s].expires = session[s].expires]_vars

\* Until its lease runs out only its owner closes an open session: no
\* observer, other caller or finishing operation does (reconcile, drain).
LeaseHonoured ==
    [][\A s \in Sessions :
          /\ session[s].status = "open" /\ now < session[s].expires
          /\ session'[s].status # "open"
          => Release(s)]_vars

\* An uncertain operation keeps its claim until an operator's reason is on
\* record: no late finish, observer or reconciliation settles it
\* (reconcile, finish, force_release).
UncertainNeedsOperator ==
    [][\A o \in Ops : op[o].status = "uncertain" =>
          \/ op'[o].status = "uncertain"
          \/ op'[o].status = "released" /\ ForceRelease(o)]_vars

\* A caller that disappeared is found out: its operation does not stay
\* 'active', where force_release would refuse it forever (reconcile).
OrphanReported ==
    \A o \in Ops :
        agent[o] = "dead" /\ ~op[o].job ~> op[o].status \in {"uncertain", "released"}

\* An expired session with nothing admitted under it gives its claims back
\* (reconcile, drain).
ExpiredSessionDrains ==
    \A s \in Sessions :
        (/\ session[s].status = "open" /\ session[s].expires <= now
         /\ \A o \in Ops : op[o].session = s => op[o].status = "released")
        ~> session[s].status = "released"
-----------------------------------------------------------------------------
\* The abstract reservations the two tables stand for.
SessionPhase(row) ==
    IF row.status = "none" THEN "new" ELSE IF Held(row) THEN "held" ELSE "gone"

OpPhase(row) ==
    IF row.status = "none" THEN "new" ELSE IF Live(row) THEN "held" ELSE "gone"

Holding ==
    [h \in Sessions \cup Ops |->
        IF h \in Sessions
        THEN [phase  |-> SessionPhase(session[h]),
              claims |-> session[h].claims,
              parent |-> NoSession]
        ELSE [phase  |-> OpPhase(op[h]),
              claims |-> op[h].claims,
              parent |-> op[h].session]]

Abstract == INSTANCE Reservations WITH
    holder <- Holding,
    Nobody <- NoSession,
    Wanted <- {RequestClaims(r) : r \in Requests}

\* Every transaction, with its reconciliation and whatever else happens to
\* processes and clocks, is a grant, a drop, both or neither.
RefinesReservations == Abstract!Spec
-----------------------------------------------------------------------------
\* What the tables show of one job, if o is one.
JobContract(o) == INSTANCE JobClaim WITH
    row <- IF op[o].job THEN op[o].status ELSE "none",
    may <- op[o].job /\ agent[o] = "inside",
    working <- op[o].job /\ effect[o] = "running",
    forced <- op[o].job /\ o \in forced

\* No transaction of any other caller, observer or operator settles, revives
\* or authorizes a job's claim behind its supervisor's back (reconcile's
\* job_id IS NULL, validate_job, force_release).
JobsUnderContract ==
    /\ \A o \in Ops : JobContract(o)!Init
    /\ [][\A o \in Ops : [JobContract(o)!Next]_(JobContract(o)!vars)]_vars
=============================================================================
