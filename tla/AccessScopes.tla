---------------------------- MODULE AccessScopes ----------------------------
(***************************************************************************)
(* Delegated authority: src/ridge/_access.py.                              *)
(*                                                                         *)
(* An access scope is a row that grants rights for use and rights for      *)
(* delegation, issued by the operator or by the holder of another scope.   *)
(* A request reads the configuration once, checks its scope, builds the    *)
(* providers, checks again, and then acts in a transaction that checks a   *)
(* last time.  Whoever finds a scope of the lineage revoked, expired or    *)
(* out of date with the configuration is refused, and what was found is    *)
(* committed although the request is not.                                  *)
(*                                                                         *)
(* Data roots are left out: a child's chain is its parent's, extended.     *)
(***************************************************************************)
EXTENDS Naturals, Sequences

CONSTANTS
    Scopes,     \* identities scopes may get (uuid4)
    Requests,   \* requests in progress at one time
    Rights,     \* resource and operation
    Resources,
    ResourceOf, \* resource of a right
    Configs,    \* what the configuration document may say
    Grants,     \* what may be asked for
    Expiries,   \* expires_at that may be asked for
    Never,
    Operator,   \* the actor of a request without a token
    MaxDepth,   \* _MAX_DEPTH
    MaxTime     \* bound on the clock

\* identity: fingerprint of a resource's provider, options and lock key.
Config == [policy : SUBSET Rights, delegable : SUBSET Rights, identity : [Resources -> Nat]]

Grant == [use : SUBSET Rights, delegate : SUBSET Rights]

ASSUME AccessAssumption ==
    /\ ResourceOf \in [Rights -> Resources]
    /\ Configs \subseteq Config
    /\ Grants \subseteq Grant
    /\ Never \notin Nat
    /\ Expiries \subseteq Nat \cup {Never}
    /\ Operator \notin Scopes
    /\ MaxDepth \in Nat \ {0}
    /\ MaxTime \in Nat

VARIABLES
    now,      \* datetime.now()
    config,   \* the configuration document
    scope,    \* table access_scopes
    request,  \* what each request has loaded
    work,     \* jobs, operations and reservations admitted and not settled
    told      \* scopes somebody was told are closed

vars == << now, config, scope, request, work, told >>

Terminal == {"revoked", "expired", "invalidated"}

\* line: what _lineage() reads, root first; parent_id is never changed.
Row == [status   : {"none", "active"} \cup Terminal,
        line     : Seq(Scopes),
        use      : SUBSET Rights,
        delegate : SUBSET Rights,
        expires  : Nat \cup {Never},
        pinned   : [Resources -> Nat]]

Request == [pc     : {"idle", "read", "checked", "resolved"},
            actor  : Scopes \cup {Operator},
            loaded : Configs]

Work == [owner : Scopes, right : Rights]

Past(e) == e # Never /\ e <= now

NotLater(e, f) == f = Never \/ (e # Never /\ f # Never /\ e <= f)

Granted(s) == scope[s].use \cup scope[s].delegate

\* The resources whose identity the scope was issued for.
Pinned(s) == {ResourceOf[r] : r \in Granted(s)}

Lineage(s) == {scope[s].line[i] : i \in DOMAIN scope[s].line}

Ancestors(s) == Lineage(s) \ {s}
-----------------------------------------------------------------------------
UpToDate(L, s) == \A r \in Pinned(s) : L.identity[r] = scope[s].pinned[r]

Sound(L, s) == scope[s].status = "active" /\ ~Past(scope[s].expires) /\ UpToDate(L, s)

LineageSound(L, s) == \A t \in Lineage(s) : Sound(L, t)

\* t is what _status() finds when it walks the lineage of s from the root.
FirstUnsound(L, s, t) ==
    \E i \in DOMAIN scope[s].line :
        /\ scope[s].line[i] = t
        /\ ~Sound(L, t)
        /\ \A j \in 1..i-1 : Sound(L, scope[s].line[j])

\* Mutant of Closing: the closure is rolled back with the request.
ClosingForgotten(L, V) == scope

\* _status(): the table after the lineages of V were looked at.
Closing(L, V) ==
    [t \in Scopes |->
        IF scope[t].status = "active" /\ \E s \in V : FirstUnsound(L, s, t)
        THEN [scope[t] EXCEPT !.status = IF Past(scope[t].expires) THEN "expired" ELSE "invalidated"]
        ELSE scope[t]]

Ceiling(L, s) ==
    {r \in L.policy \cap L.delegable : \A t \in Ancestors(s) : r \in scope[t].delegate}

\* resolve(): the effective grants of an active scope.
MayUse(L, s) == scope[s].use \cap Ceiling(L, s)

\* Mutant of MayDelegate: what a scope may do it may hand on.
MayDelegateUse(L, s) == MayUse(L, s) \cup (scope[s].delegate \cap Ceiling(L, s))

MayDelegate(L, s) == scope[s].delegate \cap Ceiling(L, s)

\* Mutant of MayControl: use is required of a supervisor.
MayControlUsed(L, a, w) == a \in Lineage(w.owner) /\ w.right \in MayUse(L, a)

\* check(require_owner, supervise, allow_delegation), as for a job.
MayControl(L, a, w) ==
    /\ a \in Lineage(w.owner)
    /\ w.right \in MayUse(L, a) \/ (a # w.owner /\ w.right \in MayDelegate(L, a))
-----------------------------------------------------------------------------
Init ==
    /\ now = 0
    /\ config \in Configs
    /\ scope = [s \in Scopes |->
            [status |-> "none", line |-> << >>, use |-> {}, delegate |-> {},
             expires |-> Never, pinned |-> [r \in Resources |-> 0]]]
    /\ request = [q \in Requests |->
            [pc |-> "idle", actor |-> Operator, loaded |-> config]]
    /\ work = {}
    /\ told = {}

\* read_configuration(): one read for the whole request.
Read(q, a) ==
    /\ request[q].pc = "idle"
    /\ a # Operator => scope[a].status # "none"
    /\ request' = [request EXCEPT ![q] = [pc |-> "read", actor |-> a, loaded |-> config]]
    /\ UNCHANGED << now, config, scope, work, told >>

Admissible(q) ==
    request[q].actor # Operator => LineageSound(request[q].loaded, request[q].actor)

\* load_configuration() checks twice, around the construction of providers.
Check(q) ==
    /\ request[q].pc \in {"read", "checked"} /\ Admissible(q)
    /\ request' = [request EXCEPT ![q].pc = IF @ = "read" THEN "checked" ELSE "resolved"]
    /\ UNCHANGED << now, config, scope, work, told >>

\* Any of the transactions finds the lineage closed: _ClosedScopeError.
Refuse(q) ==
    /\ request[q].pc # "idle" /\ ~Admissible(q)
    /\ scope' = Closing(request[q].loaded, {request[q].actor})
    /\ told' = told \cup {request[q].actor}
    /\ request' = [request EXCEPT ![q].pc = "idle"]
    /\ UNCHANGED << now, config, work >>

\* Refused for another reason, which rolls back, or killed.
GiveUp(q) ==
    /\ request[q].pc # "idle"
    /\ request' = [request EXCEPT ![q].pc = "idle"]
    /\ UNCHANGED << now, config, scope, work, told >>

Acts(q) == request[q].pc = "resolved" /\ Admissible(q)

Ends(q) == request' = [request EXCEPT ![q].pc = "idle"]

\* _check_delegation()
Delegable(L, a, g) ==
    /\ g.use \cup g.delegate \subseteq L.policy \cap L.delegable
    /\ a # Operator => g.use \cup g.delegate \subseteq MayDelegate(L, a)

Nests(a) == a # Operator => Len(scope[a].line) < MaxDepth

\* issue(): omitting expires_at inherits the parent's.
Issue(q, s, g, expires) ==
    LET L == request[q].loaded
        a == request[q].actor
        until == IF a = Operator \/ expires # Never THEN expires ELSE scope[a].expires
    IN  /\ Acts(q) /\ scope[s].status = "none"
        /\ Nests(a)
        /\ a # Operator => NotLater(until, scope[a].expires)
        /\ ~Past(until)
        /\ g.use \cup g.delegate # {}
        /\ Delegable(L, a, g)
        /\ scope' = [scope EXCEPT ![s] =
                [status |-> "active",
                 line |-> Append(IF a = Operator THEN << >> ELSE scope[a].line, s),
                 use |-> g.use, delegate |-> g.delegate,
                 expires |-> until, pinned |-> L.identity]]
        /\ Ends(q)
        /\ UNCHANGED << now, config, work, told >>

\* Subtrees only; the operator sees everything.
Visible(a, s) == scope[s].status # "none" /\ (a = Operator \/ a \in Lineage(s))

\* revoke(); what it finds closed already stays as it is.
Revoke(q, s) ==
    LET L == request[q].loaded IN
    /\ Acts(q) /\ Visible(request[q].actor, s)
    /\ scope' = IF LineageSound(L, s)
                THEN [scope EXCEPT ![s].status = "revoked"]
                ELSE Closing(L, {s})
    /\ told' = told \cup {s}
    /\ Ends(q)
    /\ UNCHANGED << now, config, work >>

\* inspect() and list(): some of the visible rows, each with its status.
List(q, V) ==
    LET L == request[q].loaded IN
    /\ Acts(q) /\ \A s \in V : Visible(request[q].actor, s)
    /\ scope' = Closing(L, V)
    /\ told' = told \cup {s \in V : ~LineageSound(L, s)}
    /\ Ends(q)
    /\ UNCHANGED << now, config, work >>

\* Mutant of Admit: the access that load_configuration() resolved is used.
AdmitResolved(q, r) ==
    /\ request[q].pc = "resolved" /\ request[q].actor # Operator
    /\ r \in MayUse(request[q].loaded, request[q].actor)
    /\ work' = work \cup {[owner |-> request[q].actor, right |-> r]}
    /\ Ends(q)
    /\ UNCHANGED << now, config, scope, told >>

\* check() inside the transaction that admits work.
Admit(q, r) ==
    /\ Acts(q) /\ request[q].actor # Operator
    /\ r \in MayUse(request[q].loaded, request[q].actor)
    /\ work' = work \cup {[owner |-> request[q].actor, right |-> r]}
    /\ Ends(q)
    /\ UNCHANGED << now, config, scope, told >>

\* A scope that may supervise work has it cancelled.
Control(q, w) ==
    /\ Acts(q) /\ request[q].actor # Operator
    /\ w \in work /\ MayControl(request[q].loaded, request[q].actor, w)
    /\ work' = work \ {w}
    /\ Ends(q)
    /\ UNCHANGED << now, config, scope, told >>

ChangeConfig ==
    /\ config' \in Configs
    /\ UNCHANGED << now, scope, request, work, told >>

Tick ==
    /\ now < MaxTime
    /\ now' = now + 1
    /\ UNCHANGED << config, scope, request, work, told >>

Next ==
    \/ \E q \in Requests :
        \/ \E a \in Scopes \cup {Operator} : Read(q, a)
        \/ Check(q) \/ Refuse(q) \/ GiveUp(q)
        \/ \E s \in Scopes, g \in Grants, expires \in Expiries : Issue(q, s, g, expires)
        \/ \E s \in Scopes : Revoke(q, s)
        \/ \E V \in SUBSET Scopes : List(q, V)
        \/ \E r \in Rights : Admit(q, r)
        \/ \E w \in work : Control(q, w)
    \/ ChangeConfig
    \/ Tick

Spec == Init /\ [][Next]_vars
-----------------------------------------------------------------------------
TypeOK ==
    /\ now \in Nat
    /\ config \in Configs
    /\ scope \in [Scopes -> Row]
    /\ request \in [Requests -> Request]
    /\ work \subseteq Work
    /\ told \subseteq Scopes

\* Rights shrink and expiry comes earlier along a lineage, through every
\* level and for good: nothing a parent may not delegate is ever issued
\* below it (issue, _check_delegation, resolve's ceilings).
ChildrenWithin ==
    \A s \in Scopes : \A t \in Ancestors(s) :
        /\ Granted(s) \subseteq scope[t].delegate
        /\ NotLater(scope[s].expires, scope[t].expires)

\* Who was told that a scope is closed will not see it work again: the
\* closure was committed, on it or on an ancestor (_ClosedScopeError).
ToldIsClosed == \A s \in told : \E t \in Lineage(s) : scope[t].status \in Terminal

\* Every issued scope can be resolved: issue() and _lineage() agree on the
\* limit (_MAX_DEPTH).
Resolvable == \A s \in Scopes : Len(scope[s].line) <= MaxDepth

\* The row that _lineage() finds under a parent_id is there, leads to the
\* rows above it, and never back: rows are inserted below, never moved.
LinesAgree ==
    \A s \in Scopes :
        /\ scope[s].status # "none" => s \in Lineage(s)
        /\ \A t \in Lineage(s) :
              /\ scope[t].status # "none" /\ scope[s].status # "none"
              /\ Lineage(t) \subseteq Lineage(s)
              /\ s \in Lineage(t) => s = t

\* Requests act for scopes that were issued.
ActorsIssued ==
    \A q \in Requests :
        request[q].pc # "idle" /\ request[q].actor # Operator =>
            scope[request[q].actor].status # "none"

\* Work was allowed by the owner's row and by every row above it.
WorkWithin ==
    \A w \in work :
        /\ scope[w.owner].status # "none" /\ w.right \in scope[w.owner].use
        /\ \A t \in Ancestors(w.owner) : w.right \in scope[t].delegate

\* Whatever a scope was admitted for, each of its ancestors can stop, in any
\* configuration that still allows the right, without having the use of it
\* (check's allow_delegation; the ancestor's own ceilings).
AncestorsCanStop ==
    \A w \in work, L \in Configs :
        w.right \in L.policy \cap L.delegable =>
            \A t \in Lineage(w.owner) : MayControl(L, t, w)

\* The inductive invariant: what the rows say of each other, of the requests
\* in progress and of the work admitted (_access.py as a whole).
Inv ==
    /\ TypeOK
    /\ LinesAgree
    /\ ActorsIssued
    /\ WorkWithin
    /\ ChildrenWithin
    /\ Resolvable
    /\ ToldIsClosed

\* A closed scope stays closed, for the same reason (_status, revoke).
ClosedForGood ==
    [][\A s \in Scopes : scope[s].status \in Terminal => scope'[s].status = scope[s].status]_vars

\* Closing a scope is a barrier for its whole subtree: requests that were
\* checked before it, and configurations that are put back, admit nothing
\* after it (check in the admission transaction).
ClosureIsBarrier ==
    [][\A w \in work' \ work :
          /\ \A t \in Lineage(w.owner) : scope[t].status = "active" /\ ~Past(scope[t].expires)
          /\ w.owner \notin told]_vars
=============================================================================
