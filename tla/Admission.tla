----------------------------- MODULE Admission -----------------------------
(***************************************************************************)
(* How src/ridge/application.py turns a request into work: it plans the    *)
(* claims from the words of the request (_planning.py, _footprints.py),    *)
(* admits them, and only then looks whether the file system is as plain as *)
(* the plan took it to be (_scripts/footprints.py).  If it is not, the     *)
(* candidate is given back and the whole domain is asked for.  Sessions    *)
(* and background jobs reserve first and work later, and look again.       *)
(*                                                                         *)
(* The file system is one coordination domain, two levels deep: entries    *)
(* are files, directories and links, links lead to first-level names, and  *)
(* nobody changes it but through Ridge.  What the coordination database    *)
(* does with claims is module Coordination; here a caller reserves, works, *)
(* and gives back.                                                         *)
(***************************************************************************)
EXTENDS Claims, FiniteSets

CONSTANTS
    Callers,     \* processes that use the service, one request at a time each
    Places,      \* paths below the resource's root, of one or two parts
    Requests,    \* what they may ask for
    Sessions,    \* the requests they may open a lock session for
    NoPath,      \* the path of an action that has none
    NoRequest    \* the request of a caller without one

Domain == CHOOSE d \in Domains : TRUE

Kind == {"read", "list", "write", "delete", "copy", "exec"}

Action == [effect : {"read", "write"}, path : Places \cup {NoPath}]

\* What the service asks for, kind by kind; the tree of a copy fits where it
\* goes, two levels deep.
WellFormed(r) ==
    LET Does(effect, p) == [effect |-> effect, path |-> p]
    IN  \/ r.kind \in {"read", "list"} /\ \E p \in Places : r.actions = {Does("read", p)}
        \/ r.kind \in {"write", "delete"} /\ \E p \in Places : r.actions = {Does("write", p)}
        \/ /\ r.kind = "copy"
           /\ \E p, q \in Places :
                  p # q /\ Len(q) <= Len(p) /\ r.actions = {Does("read", p), Does("write", q)}
        \/ r.kind = "exec" /\ r.actions = {Does("write", NoPath)}

ASSUME AdmissionAssumption ==
    /\ Domains = {Domain}
    /\ IsFiniteSet(Places)
    /\ Places \subseteq {<< n >> : n \in Parts} \cup (Parts \X Parts)
    /\ \A p \in Places : << p[1] >> \in Places
    /\ \A p, q \in Places : Len(q) = 2 => << p[1], q[2] >> \in Places
    /\ NoPath \notin Places
    /\ Requests \subseteq [kind : Kind, actions : SUBSET Action]
    /\ \A r \in Requests : WellFormed(r)
    /\ Sessions \subseteq Requests
    /\ NoRequest \notin Requests

VARIABLES
    world,   \* the entry at each place
    caller   \* per caller: where it is, its request, and what it reserves

vars == << world, caller >>
-----------------------------------------------------------------------------
\* The file system.
Top == {p \in Places : Len(p) = 1}

Plain(kind) == [kind |-> kind, to |-> << >>]

Link(p) == [kind |-> "link", to |-> p]

Entry == {Plain(k) : k \in {"absent", "file", "dir"}} \cup {Link(p) : p \in Top}

Parent(p) == << p[1] >>

Below(p) == {q \in Places : Len(q) > Len(p) /\ Contains(p, q)}

Worlds ==
    {w \in [Places -> Entry] :
        \A p \in Places :
            /\ w[p].to # p
            /\ p \notin Top /\ w[p].kind # "absent" => w[Parent(p)].kind = "dir"
            /\ p \notin Top => w[p].kind # "dir"}

\* One link followed, the outermost first; a path without one stays.
Follow(w, p) ==
    IF p \in Places /\ w[Parent(p)].kind = "link" THEN w[Parent(p)].to \o Tail(p)
    ELSE IF p \in Places /\ w[p].kind = "link" THEN w[p].to
    ELSE p

\* Enough for every chain of links; what still moves after them is a loop.
MaxHops == Cardinality(Top) + 1

Trail(w, p) ==
    LET hop[n \in 0..MaxHops] == IF n = 0 THEN p ELSE Follow(w, hop[n - 1])
    IN  hop

\* resolve(): where a path leads, or nowhere.
Resolved(w, p) ==
    LET end == Trail(w, p)[MaxHops]
    IN  IF end \in Places /\ Follow(w, end) = end THEN end ELSE << >>

\* Parents resolved, the last name not: the entry that is replaced or removed.
Leaf(w, p) ==
    IF p \in Top THEN p
    ELSE LET q == Resolved(w, Parent(p))
         IN  IF q \in Top /\ w[q].kind = "dir" THEN q \o Tail(p) ELSE << >>

\* mkdir(parents=True, exist_ok=True)
WithParents(w, p) ==
    IF p \notin Top /\ w[Parent(p)].kind = "absent"
    THEN [w EXCEPT ![Parent(p)] = Plain("dir")] ELSE w

WithEntry(w, p, entry) == [w EXCEPT ![p] = entry]

Without(w, P) == [p \in Places |-> IF p \in P THEN Plain("absent") ELSE w[p]]
-----------------------------------------------------------------------------
\* What a provider makes of the file system.
PathOf(r, effect) == (CHOOSE a \in r.actions : a.effect = effect).path

Written(w, p) ==
    LET v == WithParents(w, p)
        t == Leaf(v, p)
    IN  IF t # << >> /\ v[t].kind # "dir" THEN {WithEntry(v, t, Plain("file"))} ELSE {w, v}

\* Recursive deletion is neither atomic nor rolled back.
Deleted(w, p) ==
    LET t == Leaf(w, p)
    IN  IF t = << >> THEN {w} ELSE {Without(w, Below(t)), Without(w, Below(t) \cup {t})}

\* A tree may contain links, if they stay in the tree.
Copyable(w, s) ==
    /\ w[s].kind \in {"file", "dir"}
    /\ \A q \in Below(s) : w[q].kind = "link" => w[q].to = s

\* A copied link leads to the copy of what it led to.
Moved(entry, t) == IF entry.kind = "link" THEN Link(t) ELSE entry

\* The destination must have the kind of the source, and is replaced whole.
Receives(w, t, kind) ==
    w[t].kind \in IF kind = "file" THEN {"absent", "file", "link"} ELSE {"absent", "dir"}

Copied(w, from, to) ==
    LET v == WithParents(w, to)
        s == Leaf(w, from)
        t == Leaf(v, to)
    IN  IF s # << >> /\ t # << >> /\ Copyable(w, s) /\ Receives(v, t, w[s].kind)
        THEN {[p \in Places |->
                 IF p = t THEN w[s]
                 ELSE IF p \in Below(t) /\ w[s].kind = "dir"
                 THEN Moved(w[s \o Tail(p)], t)
                 ELSE v[p]]}
        ELSE {w, v}

Outcomes(w, r) ==
    CASE r.kind = "write"  -> Written(w, PathOf(r, "write"))
      [] r.kind = "delete" -> Deleted(w, PathOf(r, "write"))
      [] r.kind = "copy"   -> Copied(w, PathOf(r, "read"), PathOf(r, "write"))
      [] r.kind = "exec"   -> Worlds
      [] OTHER             -> {w}

\* The places an action's outcome may depend on: those its path leads
\* through, and what is below where it ends.
Visited(w, p) ==
    LET ends == {Trail(w, p)[n] : n \in 0..MaxHops} \cap Places
        last == {Resolved(w, p), Leaf(w, p)} \cap Places
    IN  ends \cup {Parent(q) : q \in ends} \cup UNION {{q} \cup Below(q) : q \in last}

Depends(w, r) ==
    IF r.kind = "exec" THEN Places
    ELSE UNION {Visited(w, a.path) : a \in r.actions}

Changes(w, r) ==
    LET targets == {Leaf(w, a.path) :
                        a \in {b \in r.actions : b.effect = "write" /\ b.path # NoPath}}
    IN  {p \in Places : \E v \in Outcomes(w, r) : v[p] # w[p]}
            \cup UNION {{t} \cup Below(t) : t \in targets \cap Places}
-----------------------------------------------------------------------------
\* What is reserved for a request.
ModeOf(a) == IF a.effect = "read" THEN "shared" ELSE "exclusive"

Whole(a) == [domain |-> Domain, scope |-> WholeDomain, mode |-> ModeOf(a)]

Broad(r) == Normalize({Whole(a) : a \in r.actions})

\* plan(): from the words of the request alone.
Plan(r) ==
    Normalize({IF a.path = NoPath THEN Whole(a)
               ELSE [domain |-> Domain, scope |-> a.path, mode |-> ModeOf(a)] :
               a \in r.actions})

\* Mutant of Guard: links are followed.
GuardFollowing(w, p) == p \in Top \/ w[Parent(p)].kind \in {"dir", "link"}

\* validate_filesystem_footprint(): parents are there, nothing on the path or
\* below it is a link.
Guard(w, p) ==
    /\ p \notin Top => w[Parent(p)].kind = "dir"
    /\ \A q \in {p} \cup Below(p) : w[q].kind # "link"

Checked(w, a, claims) ==
    \/ a.path = NoPath
    \/ Covers(claims, {Whole(a)})
    \/ Guard(w, a.path)

Valid(w, r, claims) == \A a \in r.actions : Checked(w, a, claims)
-----------------------------------------------------------------------------
PC == {"idle",                                     \* nothing going on
       "granted", "open",                          \* a session, before and after validation
       "planned", "admitted", "working",           \* an operation
       "prepared", "queued", "checking"}           \* a submission, its job, its worker

Claimed == {Plan(r) : r \in Requests} \cup {Broad(r) : r \in Requests}

Caller ==
    [pc      : PC,
     job     : BOOLEAN,                       \* the request is to become a job
     request : Requests \cup {NoRequest},
     claims  : {{}} \cup Claimed,             \* planned for it, or admitted
     session : Requests \cup {NoRequest},     \* what the lock session is for
     held    : {{}} \cup Claimed]             \* the session's claims, or the job's

Idle ==
    [pc |-> "idle", job |-> FALSE, request |-> NoRequest, claims |-> {},
     session |-> NoRequest, held |-> {}]

Init ==
    /\ world \in Worlds
    /\ caller = [c \in Callers |-> Idle]

\* What the database has on record for a caller.
Reserved(c) ==
    caller[c].held \cup
        IF caller[c].pc \in {"admitted", "working"} THEN caller[c].claims ELSE {}

Free(c, claims) == \A other \in Callers \ {c} : ~Conflicts(claims, Reserved(other))

CallerMove(c, row) ==
    /\ caller' = [caller EXCEPT ![c] = row]
    /\ UNCHANGED world

\* The end of a request; a session stays, a job's row is settled.
Rested(c) ==
    IF caller[c].session = NoRequest THEN Idle
    ELSE [caller[c] EXCEPT !.pc = "open", !.request = NoRequest, !.claims = {}]

\* acquire_locks(): granted before it is validated.
Acquire(c, r) ==
    /\ caller[c].pc = "idle" /\ r \in Sessions
    /\ Free(c, Plan(r))
    /\ CallerMove(c, [Idle EXCEPT !.pc = "granted", !.session = r, !.held = Plan(r)])

ValidateSession(c) ==
    /\ caller[c].pc = "granted"
    /\ CallerMove(c, IF Valid(world, caller[c].session, caller[c].held)
                     THEN [caller[c] EXCEPT !.pc = "open"] ELSE Idle)

ValidateSessionFails(c) ==
    /\ caller[c].pc = "granted"
    /\ CallerMove(c, Idle)

CloseSession(c) ==
    /\ caller[c].pc = "open"
    /\ CallerMove(c, Idle)

\* _operation(), directly or for the preparation of a submission, which a
\* command does not need.
Ask(c, r, job) ==
    /\ caller[c].pc \in {"idle", "open"}
    /\ job => caller[c].pc = "idle"
    /\ CallerMove(c, [caller[c] EXCEPT
            !.pc = IF job /\ r.kind = "exec" THEN "prepared" ELSE "planned",
            !.job = job, !.request = r, !.claims = Plan(r)])

\* admit(): within the session, if there is one, and beside everybody else.
Admit(c) ==
    /\ caller[c].pc = "planned"
    /\ caller[c].session # NoRequest => Covers(caller[c].held, caller[c].claims)
    /\ Free(c, caller[c].claims)
    /\ CallerMove(c, [caller[c] EXCEPT !.pc = "admitted"])

\* A conflict, or a session that does not cover the operation.
Refused(c) ==
    /\ caller[c].pc \in {"planned", "prepared"}
    /\ \/ ~Free(c, caller[c].claims)
       \/ caller[c].session # NoRequest /\ ~Covers(caller[c].held, caller[c].claims)
    /\ CallerMove(c, Rested(c))

\* Mutant of Widened: the same plan is tried again.
WidenedAgain(c) == [caller[c] EXCEPT !.pc = "planned"]

\* The candidate is released before the whole domain is asked for.
Widened(c) == [caller[c] EXCEPT !.pc = "planned", !.claims = Broad(caller[c].request)]

Validate(c) ==
    /\ caller[c].pc = "admitted"
    /\ CallerMove(c, IF ~Valid(world, caller[c].request, caller[c].claims) THEN Widened(c)
                     ELSE IF caller[c].job THEN [caller[c] EXCEPT !.pc = "prepared"]
                     ELSE [caller[c] EXCEPT !.pc = "working"])

\* A failed preparation leaves the attempt to the job, under broad claims.
ValidateFails(c) ==
    /\ caller[c].pc = "admitted"
    /\ CallerMove(c, IF caller[c].job
                     THEN [caller[c] EXCEPT !.pc = "prepared",
                                            !.claims = Broad(caller[c].request)]
                     ELSE Rested(c))

\* The final admission of a submission: the row is the job's from here on.
Submit(c) ==
    /\ caller[c].pc = "prepared"
    /\ Free(c, caller[c].claims)
    /\ CallerMove(c, [caller[c] EXCEPT !.pc = "queued", !.held = caller[c].claims,
                                       !.claims = {}])

\* The worker plans anew, and must find its plan covered.
StartJob(c) ==
    /\ caller[c].pc = "queued"
    /\ CallerMove(c, IF Covers(caller[c].held, Plan(caller[c].request))
                     THEN [caller[c] EXCEPT !.pc = "checking",
                                            !.claims = Plan(caller[c].request)]
                     ELSE Idle)

\* Mutant of CheckJob: what the preparation found is taken for granted.
CheckJobTrusting(c) ==
    /\ caller[c].pc = "checking"
    /\ CallerMove(c, [caller[c] EXCEPT !.pc = "working"])

\* Claims that a worker works under: narrow, or as broad as its row.
CheckJob(c) ==
    /\ caller[c].pc = "checking"
    /\ CallerMove(c, IF Valid(world, caller[c].request, caller[c].claims)
                     THEN [caller[c] EXCEPT !.pc = "working"]
                     ELSE IF Covers(caller[c].held, Broad(caller[c].request))
                     THEN [caller[c] EXCEPT !.pc = "working",
                                            !.claims = Broad(caller[c].request)]
                     ELSE Idle)

CheckJobFails(c) ==
    /\ caller[c].pc \in {"queued", "checking"}
    /\ CallerMove(c, Idle)

Work(c) ==
    /\ caller[c].pc = "working"
    /\ world' \in Outcomes(world, caller[c].request)
    /\ UNCHANGED caller

Finish(c) ==
    /\ caller[c].pc = "working"
    /\ CallerMove(c, Rested(c))

\* What a caller does about the request it has.
Proceed(c) ==
    \/ ValidateSession(c) \/ ValidateSessionFails(c)
    \/ Admit(c) \/ Refused(c) \/ Validate(c) \/ ValidateFails(c)
    \/ Submit(c) \/ StartJob(c) \/ CheckJob(c) \/ CheckJobFails(c) \/ Finish(c)

Next ==
    \E c \in Callers :
        \/ \E r \in Requests : Acquire(c, r)
        \/ CloseSession(c)
        \/ \E r \in Requests, job \in BOOLEAN : Ask(c, r, job)
        \/ Proceed(c)
        \/ Work(c)

Spec == Init /\ [][Next]_vars

\* Callers are running programs; nothing is assumed of the order they run in.
FairSpec == Spec /\ \A c \in Callers : WF_vars(Proceed(c))
-----------------------------------------------------------------------------
TypeOK ==
    /\ world \in Worlds
    /\ caller \in [Callers -> Caller]

\* What the claims are for, said without them: while two requests are being
\* worked on, neither changes anything the other one's outcome may depend on,
\* wherever its path leads by now (plan, validate, _operation).
NoInterference ==
    \A b, c \in Callers :
        b # c /\ caller[b].pc = "working" /\ caller[c].pc = "working" =>
            Changes(world, caller[b].request) \cap Depends(world, caller[c].request) = {}

\* What a session is for, except below a place it may change: that may be gone.
Outermost(r) ==
    {b \in r.actions :
        \A a \in r.actions \ {b} : a.effect = "write" => ~Contains(a.path, b.path)}

\* What validation found holds as long as the claims do: for the work it was
\* done for, and for a session, whatever is done under it or beside it.
StillValid ==
    \A c \in Callers :
        /\ caller[c].pc = "working" => Valid(world, caller[c].request, caller[c].claims)
        /\ caller[c].session # NoRequest /\ caller[c].pc # "granted" =>
                \A a \in Outermost(caller[c].session) : Checked(world, a, caller[c].held)

\* Every request is over some time: a plan is widened once.
RequestEnds ==
    \A c \in Callers : caller[c].pc = "planned" ~> caller[c].pc \in {"idle", "open"}
=============================================================================
