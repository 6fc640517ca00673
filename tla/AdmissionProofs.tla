--------------------------- MODULE AdmissionProofs ---------------------------
(***************************************************************************)
(* The safety of Admission for any number of callers, any two-level tree   *)
(* of places and any requests.                                             *)
(***************************************************************************)
EXTENDS Admission, TLAPS, FiniteSetTheorems, SequenceTheorems

\* A place is a first-level name, or an entry below one.
LEMMA PlaceShape ==
    ASSUME NEW p \in Places
    PROVE  /\ p \in Seq(Parts)
           /\ p[1] \in Parts
           /\ << p[1] >> \in Places
           /\ \/ Len(p) = 1 /\ p = << p[1] >>
              \/ Len(p) = 2 /\ p = << p[1], p[2] >> /\ p[2] \in Parts
<1>1. << p[1] >> \in Places
  BY AdmissionAssumption
<1>2. CASE p \in {<< n >> : n \in Parts}
  <2>1. PICK n \in Parts : p = << n >>
    BY <1>2
  <2> QED BY <1>1, <2>1
<1>3. CASE p \in Parts \X Parts
  <2>1. PICK m \in Parts, n \in Parts : p = << m, n >>
    BY <1>3
  <2> QED BY <1>1, <2>1
<1> QED BY <1>2, <1>3, AdmissionAssumption

\* Every set of naturals has a least one.
LEMMA LeastNatural ==
    ASSUME NEW T, T \subseteq Nat, T # {}
    PROVE  \E i \in T : \A j \in T : i <= j
<1> DEFINE I == {1..i : i \in T}
           R == StrictSubsetOrdering(Nat)
<1>1. I \subseteq FiniteSubsetsOf(Nat) /\ I # {}
  <2>1. ASSUME NEW i \in Nat
        PROVE  1..i \in FiniteSubsetsOf(Nat)
    <3>1. IsFiniteSet(1..i)
      BY FS_Interval
    <3>2. 1..i \subseteq Nat
      OBVIOUS
    <3> QED  BY <3>1, <3>2 DEF FiniteSubsetsOf
  <2> QED  BY <2>1
<1>2. PICK A \in I : \A B \in I : << B, A >> \notin R
  <2> HIDE DEF R, I
  <2> QED  BY <1>1, WFMin, FS_StrictSubsetOrderingWellFounded DEF R
<1>3. PICK i \in T : A = 1..i
  BY <1>2
<1>4. ASSUME NEW j \in T, j < i
      PROVE  FALSE
  <2>1. 1..j \subseteq 1..i /\ 1..j # 1..i /\ 1..j \subseteq Nat /\ 1..i \subseteq Nat
    <3> i \in 1..i /\ i \notin 1..j
      BY <1>4
    <3> QED  BY <1>4
  <2>2. << 1..j, 1..i >> \in R
    BY <2>1 DEF StrictSubsetOrdering
  <2>3. 1..j \in I
    OBVIOUS
  <2> HIDE DEF R, I
  <2> QED  BY <1>2, <1>3, <2>2, <2>3
<1> QED  BY <1>3, <1>4

\* There are finitely many links to follow one after the other.
LEMMA Hops == MaxHops \in Nat
<1>1. IsFiniteSet(Top)
  BY AdmissionAssumption, FS_Subset DEF Top
<1> QED BY <1>1, FS_CardinalityType DEF MaxHops

\* A path that leads nowhere else stays where it is.
LEMMA Stays ==
    ASSUME NEW w, NEW p, Follow(w, p) = p
    PROVE  \A n \in 0..MaxHops : Trail(w, p)[n] = p
<1> DEFINE Eq(hop) == hop = [n \in 0..MaxHops |-> IF n = 0 THEN p ELSE Follow(w, hop[n - 1])]
           stay == [n \in 0..MaxHops |-> p]
<1>1. Eq(stay)
  <2>1. \A n \in 0..MaxHops : n # 0 => stay[n - 1] = p
    BY Hops
  <2> QED BY <2>1
<1>2. Trail(w, p) = CHOOSE hop : Eq(hop)
  BY DEF Trail
<1>3. Eq(Trail(w, p))
  <2> HIDE DEF Eq
  <2> QED BY <1>1, <1>2
<1> DEFINE T == {n \in 0..MaxHops : Trail(w, p)[n] # p}
<1>4. \A n \in 0..MaxHops :
          Trail(w, p)[n] = IF n = 0 THEN p ELSE Follow(w, Trail(w, p)[n - 1])
  BY <1>3
<1>5. ASSUME T # {} PROVE FALSE
  <2>1. PICK n \in T : \A m \in T : n <= m
    <3>1. T \subseteq Nat
      BY Hops
    <3> HIDE DEF T
    <3> QED BY <1>5, <3>1, LeastNatural
  <2>2. n # 0 /\ n - 1 \in 0..MaxHops /\ n - 1 \notin T
    BY <2>1, <1>4, Hops
  <2>3. Trail(w, p)[n] = p
    BY <2>1, <2>2, <1>4
  <2> QED BY <2>1, <2>3
<1> QED BY <1>5

-----------------------------------------------------------------------------
(* Places *)

\* Two levels deep, one place contains another if it is that one or its parent.
LEMMA Nesting ==
    ASSUME NEW p \in Places, NEW q \in Places
    PROVE  /\ Contains(p, q) <=> (p = q \/ (Len(p) = 1 /\ Len(q) = 2 /\ p[1] = q[1]))
           /\ q \in Below(p) <=> (Len(p) = 1 /\ Len(q) = 2 /\ p[1] = q[1])
<1>1. /\ p \in Seq(Parts)
      /\ \/ Len(p) = 1 /\ p = << p[1] >>
         \/ Len(p) = 2 /\ p = << p[1], p[2] >>
  BY PlaceShape
<1>2. /\ q \in Seq(Parts)
      /\ \/ Len(q) = 1 /\ q = << q[1] >>
         \/ Len(q) = 2 /\ q = << q[1], q[2] >>
  BY PlaceShape
<1>3. CASE Len(p) = 1
  <2>1. Contains(p, q) <=> p[1] = q[1]
    BY <1>1, <1>2, <1>3 DEF Contains
  <2>2. Len(q) = 1 /\ p[1] = q[1] => p = q
    BY <1>1, <1>2, <1>3
  <2>3. q \in Below(p) <=> Len(q) = 2 /\ p[1] = q[1]
    <3>1. Len(q) \in {1, 2}
      BY <1>2
    <3> QED BY <1>3, <2>1, <3>1 DEF Below
  <2>4. p = q => Len(q) = 1 /\ p[1] = q[1]
    BY <1>3
  <2> QED BY <1>2, <1>3, <2>1, <2>2, <2>3, <2>4
<1>4. CASE Len(p) = 2
  <2>1. Contains(p, q) <=> (Len(q) = 2 /\ p[1] = q[1] /\ p[2] = q[2])
    BY <1>1, <1>2, <1>4 DEF Contains
  <2>2. Len(q) = 2 /\ p[1] = q[1] /\ p[2] = q[2] => p = q
    BY <1>1, <1>2, <1>4
  <2> QED BY <1>1, <1>2, <1>4, <2>1, <2>2 DEF Below
<1> QED BY <1>1, <1>3, <1>4

\* An entry below a first-level name, by its own name.
LEMMA Joined ==
    ASSUME NEW p \in Places, NEW q \in Places, Len(p) = 1, Len(q) = 2
    PROVE  p \o Tail(q) = << p[1], q[2] >>
<1>1. p \in Seq(Parts) /\ p[1] \in Parts
  BY PlaceShape
<1>2. q \in Seq(Parts) /\ q[2] \in Parts
  BY PlaceShape
<1>3. Tail(q) \in Seq(Parts) /\ Len(Tail(q)) = 1 /\ Tail(q)[1] = q[2]
  <2>1. q # << >> /\ Len(q) = 2
    OBVIOUS
  <2>2. /\ Tail(q) \in Seq(Parts)
        /\ Len(Tail(q)) = Len(q) - 1
        /\ \A i \in 1..Len(Tail(q)) : Tail(q)[i] = q[i + 1]
    BY <1>2, <2>1, HeadTailProperties
  <2>3. Len(Tail(q)) = 1
    BY <2>1, <2>2
  <2>4. 1 \in 1..Len(Tail(q))
    BY <2>3
  <2>5. Tail(q)[1] = q[1 + 1]
    BY <2>2, <2>4, Zenon
  <2> QED BY <2>2, <2>3, <2>5
<1>4. /\ p \o Tail(q) \in Seq(Parts) /\ Len(p \o Tail(q)) = 2
      /\ (p \o Tail(q))[1] = p[1] /\ (p \o Tail(q))[2] = q[2]
  <2>1. /\ p \o Tail(q) \in Seq(Parts)
        /\ Len(p \o Tail(q)) = 2
        /\ \A i \in 1..2 : (p \o Tail(q))[i] = IF i <= 1 THEN p[i] ELSE Tail(q)[i - 1]
    BY <1>1, <1>3, ConcatProperties
  <2> QED BY <1>3, <2>1
<1>5. << p[1], q[2] >> \in Seq(Parts) /\ Len(<< p[1], q[2] >>) = 2
  BY <1>1, <1>2
<1>6. \A i \in 1..2 : (p \o Tail(q))[i] = << p[1], q[2] >>[i]
  BY <1>4
<1> QED BY <1>4, <1>5, <1>6, SeqEqual

\* The first level is its own parent.
LEMMA ParentShape ==
    ASSUME NEW p \in Places
    PROVE  /\ Parent(p) \in Top /\ Parent(p) \in Places
           /\ Len(Parent(p)) = 1 /\ Parent(p)[1] = p[1]
           /\ p \in Top <=> Len(p) = 1
           /\ p \in Top <=> Parent(p) = p
BY PlaceShape DEF Parent, Top

\* Under the guard a path means the place it names.
LEMMA GuardedPath ==
    ASSUME NEW w, NEW p \in Places, Guard(w, p)
    PROVE  /\ \A n \in 0..MaxHops : Trail(w, p)[n] = p
           /\ Resolved(w, p) = p
           /\ Leaf(w, p) = p
           /\ WithParents(w, p) = w
<1> USE Hops
<1>1. Follow(w, p) = p
  <2>1. w[Parent(p)].kind # "link"
    BY ParentShape DEF Guard
  <2>2. w[p].kind # "link"
    BY DEF Guard
  <2> QED BY <2>1, <2>2 DEF Follow
<1>2. \A n \in 0..MaxHops : Trail(w, p)[n] = p
  BY <1>1, Stays
<1>3. Resolved(w, p) = p
  BY <1>1, <1>2 DEF Resolved
<1>4. WithParents(w, p) = w
  BY DEF WithParents, Guard
<1>5. CASE p \notin Top
  <2>1. w[Parent(p)].kind = "dir" /\ Parent(p) \in Top
    BY <1>5, ParentShape DEF Guard
  <2>2. Follow(w, Parent(p)) = Parent(p)
    <3>1. Parent(Parent(p)) = Parent(p)
      BY <2>1, ParentShape
    <3> QED BY <2>1, <3>1, ParentShape DEF Follow
  <2>3. Resolved(w, Parent(p)) = Parent(p)
    BY <2>2, Stays, ParentShape DEF Resolved
  <2>4. Parent(p) \o Tail(p) = p
    <3>1. Len(p) = 2 /\ p = << p[1], p[2] >>
      BY <1>5, PlaceShape, ParentShape
    <3> QED BY <3>1, Joined, ParentShape
  <2> QED BY <1>2, <1>3, <1>4, <1>5, <2>1, <2>3, <2>4 DEF Leaf
<1> QED BY <1>2, <1>3, <1>4, <1>5 DEF Leaf

-----------------------------------------------------------------------------
(* Claims *)

\* What plan() makes of one action, before the plan is normalized.
ClaimOf(a) ==
    IF a.path = NoPath THEN Whole(a)
    ELSE [domain |-> Domain, scope |-> a.path, mode |-> ModeOf(a)]

\* The claims a request may be worked on under.
Planned(r) == {Plan(r), Broad(r)}

\* Somebody may change everything.
Exclusive(X) == \E x \in X : x.scope = WholeDomain /\ x.mode = "exclusive"

\* There is a domain to claim.
LEMMA DomainIs == Domain \in Domains
  BY AdmissionAssumption

\* What is planned for an action is a claim.
LEMMA ClaimTypes ==
    ASSUME NEW a \in Action
    PROVE  ClaimOf(a) \in Claim /\ Whole(a) \in Claim
<1>1. a.path # NoPath => a.path \in Places /\ a.path \in Seq(Parts)
  BY PlaceShape DEF Action
<1>2. ModeOf(a) \in LockMode
  BY DEF ModeOf, LockMode
<1>3. << >> \in Seq(Parts)
  OBVIOUS
<1>4. Whole(a) \in Claim
  BY <1>2, <1>3, DomainIs DEF Whole, Claim, LockScope, WholeDomain
<1>5. CASE a.path # NoPath
  BY <1>1, <1>2, <1>4, <1>5, DomainIs DEF ClaimOf, Claim, LockScope
<1>6. CASE a.path = NoPath
  BY <1>4, <1>6 DEF ClaimOf
<1> QED BY <1>4, <1>5, <1>6

\* A claim entitles to itself.
LEMMA EntitlesItself ==
    ASSUME NEW x \in Claim PROVE Entitles(x, x)
BY DEF Entitles, Contains, Claim, LockScope, LockMode

\* Two claims that entitle to each other are one.
LEMMA EntitlesAntisymmetric ==
    ASSUME NEW x \in Claim, NEW y \in Claim, Entitles(x, y), Entitles(y, x)
    PROVE  x = y
<1>1. x.scope \in Seq(Parts) /\ y.scope \in Seq(Parts)
  BY DEF Claim, LockScope
<1>2. Len(x.scope) = Len(y.scope) /\ \A i \in 1..Len(x.scope) : x.scope[i] = y.scope[i]
  BY <1>1 DEF Entitles, Contains
<1>3. x.scope = y.scope
  BY <1>1, <1>2, SeqEqual
<1> QED BY <1>3 DEF Entitles, Claim, LockMode

\* Normalizing a plan of at most two claims loses nothing.
LEMMA NormalizePair ==
    ASSUME NEW x \in Claim, NEW y \in Claim
    PROVE  /\ Normalize({x, y}) \subseteq {x, y}
           /\ \E c \in Normalize({x, y}) : Entitles(c, x)
           /\ \E c \in Normalize({x, y}) : Entitles(c, y)
<1>1. Normalize({x, y}) = {c \in {x, y} : \A d \in {x, y} \ {c} : ~Entitles(d, c)}
  BY DEF Normalize, Covers
<1>2. Entitles(x, x) /\ Entitles(y, y)
  BY EntitlesItself
<1>3. Entitles(x, y) /\ Entitles(y, x) => x = y
  BY EntitlesAntisymmetric
<1> QED BY <1>1, <1>2, <1>3

\* The actions of a well-formed request.
LEMMA RequestShape ==
    ASSUME NEW r \in Requests
    PROVE  /\ WellFormed(r) /\ r.actions \subseteq Action
           /\ \E a, b \in Action : r.actions = {a, b}
<1>1. WellFormed(r) /\ r.actions \subseteq Action
  BY AdmissionAssumption
<1>2. \A a \in r.actions : a \in Action
  BY <1>1
<1>3. (\E a : r.actions = {a}) \/ (\E a, b : r.actions = {a, b})
  BY <1>1 DEF WellFormed
<1>4. CASE \E a : r.actions = {a}
  <2>1. PICK a : r.actions = {a}
    BY <1>4
  <2>2. r.actions = {a, a}
    BY <2>1
  <2> QED BY <1>1, <1>2, <2>1, <2>2
<1>5. CASE \E a, b : r.actions = {a, b}
  BY <1>1, <1>2, <1>5
<1> QED BY <1>3, <1>4, <1>5

\* What is planned for a request covers every action of it, and nothing else.
LEMMA PlanCovers ==
    ASSUME NEW r \in Requests
    PROVE  /\ Plan(r) \subseteq {ClaimOf(a) : a \in r.actions}
           /\ Broad(r) \subseteq {Whole(a) : a \in r.actions}
           /\ \A a \in r.actions : \E x \in Plan(r) : Entitles(x, ClaimOf(a))
           /\ \A a \in r.actions : \E x \in Broad(r) : Entitles(x, Whole(a))
           /\ Plan(r) \subseteq Claim /\ Broad(r) \subseteq Claim
<1>1. PICK a \in Action, b \in Action : r.actions = {a, b}
  BY RequestShape
<1>2. Plan(r) = Normalize({ClaimOf(a), ClaimOf(b)})
  <2>1. {ClaimOf(c) : c \in r.actions} = {ClaimOf(a), ClaimOf(b)}
    BY <1>1
  <2>2. Plan(r) = Normalize({ClaimOf(c) : c \in r.actions})
    BY DEF Plan, ClaimOf
  <2> QED BY <2>1, <2>2
<1>3. Broad(r) = Normalize({Whole(a), Whole(b)})
  <2>1. {Whole(c) : c \in r.actions} = {Whole(a), Whole(b)}
    BY <1>1
  <2> QED BY <2>1 DEF Broad
<1>4. /\ Plan(r) \subseteq {ClaimOf(a), ClaimOf(b)}
      /\ \E x \in Plan(r) : Entitles(x, ClaimOf(a))
      /\ \E x \in Plan(r) : Entitles(x, ClaimOf(b))
  BY <1>2, ClaimTypes, NormalizePair
<1>5. /\ Broad(r) \subseteq {Whole(a), Whole(b)}
      /\ \E x \in Broad(r) : Entitles(x, Whole(a))
      /\ \E x \in Broad(r) : Entitles(x, Whole(b))
  BY <1>3, ClaimTypes, NormalizePair
<1>6. Plan(r) \subseteq Claim /\ Broad(r) \subseteq Claim
  BY <1>4, <1>5, ClaimTypes
<1> QED BY <1>1, <1>4, <1>5, <1>6

\* No place is the root.
LEMMA PlaceNamed ==
    ASSUME NEW p \in Places PROVE p # << >>
<1>1. Len(p) \in {1, 2}
  BY PlaceShape
<1> QED BY <1>1

\* Narrow or broad, what is planned covers each action and comes from the actions.
LEMMA PlannedClaims ==
    ASSUME NEW r \in Requests, NEW X \in Planned(r)
    PROVE  /\ X \subseteq Claim
           /\ \A a \in r.actions : \E x \in X : Entitles(x, ClaimOf(a))
           /\ \A x \in X : \E a \in r.actions : x = ClaimOf(a) \/ x = Whole(a)
           /\ X # {}
<1>1. \A a \in r.actions : a \in Action
  BY RequestShape
<1>2. r.actions # {}
  BY RequestShape
<1>3. CASE X = Plan(r)
  BY <1>2, <1>3, PlanCovers
<1>4. CASE X = Broad(r)
  <2>1. ASSUME NEW a \in r.actions
        PROVE  \E x \in X : Entitles(x, ClaimOf(a))
    <3>1. PICK x \in X : Entitles(x, Whole(a))
      BY <1>4, PlanCovers
    <3>2. x \in Claim /\ Len(x.scope) = 0
      BY <1>4, <3>1, PlanCovers DEF Entitles, Contains, Whole, WholeDomain, Claim, LockScope
    <3>3. ClaimOf(a) \in Claim
      BY <1>1, ClaimTypes
    <3>4. Contains(x.scope, ClaimOf(a).scope)
      BY <3>2, <3>3 DEF Contains, Claim, LockScope
    <3>5. ClaimOf(a).domain = Whole(a).domain /\ ClaimOf(a).mode = Whole(a).mode
      BY DEF ClaimOf, Whole
    <3> QED BY <3>1, <3>4, <3>5 DEF Entitles
  <2>2. X # {}
    BY <1>2, <2>1
  <2> QED BY <1>4, <2>1, <2>2, PlanCovers
<1> QED BY <1>3, <1>4 DEF Planned

\* What is planned for a request that writes has an exclusive claim for it, and
\* the whole domain only exclusively.
LEMMA WritePlanned ==
    ASSUME NEW r \in Requests, NEW X \in Planned(r),
           NEW a \in r.actions, a.effect = "write"
    PROVE  /\ \E x \in X : Entitles(x, ClaimOf(a)) /\ x.mode = "exclusive"
           /\ (\E x \in X : x.scope = WholeDomain) => Exclusive(X)
<1>1. PICK x \in X : Entitles(x, ClaimOf(a))
  BY PlannedClaims
<1>2. ClaimOf(a).mode = "exclusive" /\ Whole(a).mode = "exclusive"
  BY DEF ClaimOf, Whole, ModeOf
<1>3. x.mode = "exclusive"
  BY <1>1, <1>2 DEF Entitles
<1>4. ASSUME NEW y \in X, y.scope = WholeDomain
      PROVE  Exclusive(X)
  <2>1. CASE X = Broad(r)
    <3>1. PICK z \in X : Entitles(z, Whole(a))
      BY <2>1, PlanCovers
    <3>2. z.mode = "exclusive"
      BY <1>2, <3>1 DEF Entitles
    <3>3. PICK b \in r.actions : z = Whole(b)
      BY <2>1, PlanCovers
    <3> QED BY <3>2, <3>3 DEF Exclusive, Whole
  <2>2. CASE X = Plan(r)
    <3>1. PICK b \in r.actions : y = ClaimOf(b)
      BY <2>2, PlanCovers
    <3>2. b \in Action
      BY RequestShape
    <3>3. b.path \notin Places
      BY <1>4, <3>1, PlaceNamed, AdmissionAssumption DEF ClaimOf, WholeDomain
    <3>4. r.kind = "exec" /\ r.actions = {[effect |-> "write", path |-> NoPath]}
      BY <3>3, RequestShape DEF WellFormed
    <3>5. a = b
      BY <3>4
    <3>6. y.mode = "exclusive"
      BY <3>1, <3>5, <1>2
    <3> QED BY <1>4, <3>6 DEF Exclusive
  <2> QED BY <2>1, <2>2 DEF Planned
<1> QED BY <1>1, <1>3, <1>4

\* Where a validated request writes without the whole domain, every path of
\* it is plain.
LEMMA NarrowIsGuarded ==
    ASSUME NEW w, NEW r \in Requests, NEW X \in Planned(r), Valid(w, r, X),
           NEW a \in r.actions, a.effect = "write", ~Exclusive(X)
    PROVE  \A b \in r.actions : b.path \in Places /\ Guard(w, b.path)
<1> SUFFICES ASSUME NEW b \in r.actions
             PROVE  b.path \in Places /\ Guard(w, b.path)
  OBVIOUS
<1>1. \A x \in X : x.scope # WholeDomain
  BY WritePlanned
<1>2. b \in Action
  BY RequestShape
<1>3. ~Covers(X, {Whole(b)})
  <2> SUFFICES ASSUME NEW x \in X, Entitles(x, Whole(b)) PROVE FALSE
    BY DEF Covers
  <2>1. x.scope \in Seq(Parts)
    BY PlannedClaims DEF Claim, LockScope
  <2>2. Len(x.scope) = 0
    BY <2>1 DEF Entitles, Contains, Whole, WholeDomain
  <2>3. x.scope = << >>
    BY <2>1, <2>2
  <2> QED BY <2>3, <1>1 DEF WholeDomain
<1>4. b.path # NoPath
  <2>1. PICK x \in X : Entitles(x, ClaimOf(b))
    BY PlannedClaims
  <2> QED BY <1>3, <2>1 DEF ClaimOf, Covers
<1> QED BY <1>2, <1>3, <1>4 DEF Valid, Checked, Action

\* A request that writes nothing changes nothing.
LEMMA Reading ==
    ASSUME NEW w, NEW r \in Requests
    PROVE  \/ /\ Outcomes(w, r) = {w} /\ Changes(w, r) = {}
              /\ \A a \in r.actions : a.effect = "read"
           \/ \E a \in r.actions : a.effect = "write"
<1>1. WellFormed(r)
  BY RequestShape
<1>2. CASE r.kind \in {"read", "list"}
  <2>1. \A a \in r.actions : a.effect = "read"
    BY <1>1, <1>2 DEF WellFormed
  <2>2. Outcomes(w, r) = {w}
    BY <1>2 DEF Outcomes
  <2>3. Changes(w, r) = {}
    <3>1. {Leaf(w, a.path) : a \in {b \in r.actions : b.effect = "write" /\ b.path # NoPath}} = {}
      BY <2>1
    <3>2. {p \in Places : \E v \in Outcomes(w, r) : v[p] # w[p]} = {}
      BY <2>2
    <3> QED BY <3>1, <3>2 DEF Changes
  <2> QED BY <2>1, <2>2, <2>3
<1>3. CASE r.kind \notin {"read", "list"}
  <2>1. \E p : [effect |-> "write", path |-> p] \in r.actions
    BY <1>1, <1>3 DEF WellFormed
  <2> QED BY <2>1
<1> QED BY <1>2, <1>3

-----------------------------------------------------------------------------
(* What work does to the file system *)

\* A request writes at most one place, and a copy reads one as well.
LEMMA Paths ==
    ASSUME NEW r \in Requests, NEW a \in r.actions, a.effect = "write"
    PROVE  /\ PathOf(r, "write") = a.path
           /\ r.kind \in {"write", "delete", "copy", "exec"}
           /\ r.kind # "copy" => r.actions = {a}
           /\ r.kind = "exec" => a.path = NoPath
           /\ r.kind = "copy" =>
                  /\ [effect |-> "read", path |-> PathOf(r, "read")] \in r.actions
                  /\ PathOf(r, "read") \in Places /\ a.path \in Places
                  /\ Len(a.path) <= Len(PathOf(r, "read"))
                  /\ \A b \in r.actions :
                        b = a \/ (b.effect = "read" /\ b.path = PathOf(r, "read"))
<1>1. WellFormed(r)
  BY RequestShape
<1>2. CASE r.kind = "copy"
  <2>1. PICK p \in Places, q \in Places :
            /\ p # q /\ Len(q) <= Len(p)
            /\ r.actions = {[effect |-> "read", path |-> p], [effect |-> "write", path |-> q]}
    BY <1>1, <1>2 DEF WellFormed
  <2>2. a.path = q
    BY <2>1
  <2>3. PathOf(r, "write") = q
    <3>1. \A b \in r.actions : b.effect = "write" => b.path = q
      BY <2>1
    <3> QED BY <3>1 DEF PathOf
  <2>4. PathOf(r, "read") = p
    <3>1. \A b \in r.actions : b.effect = "read" => b.path = p
      BY <2>1
    <3>2. \E b \in r.actions : b.effect = "read"
      BY <2>1
    <3> QED BY <3>1, <3>2 DEF PathOf
  <2> QED BY <1>2, <2>1, <2>2, <2>3, <2>4
<1>3. CASE r.kind # "copy"
  <2>1. r.actions = {a} /\ r.kind \in {"write", "delete", "exec"}
        /\ (r.kind = "exec" => a.path = NoPath)
    BY <1>1, <1>3 DEF WellFormed
  <2>2. PathOf(r, "write") = a.path
    BY <2>1 DEF PathOf
  <2> QED BY <1>3, <2>1, <2>2
<1> QED BY <1>2, <1>3

\* What a file system is, part by part.
LEMMA WorldType ==
    ASSUME NEW w \in Worlds
    PROVE  /\ w \in [Places -> Entry]
           /\ \A p \in Places : p \notin Top => w[p].kind # "dir"
           /\ \A p \in Places : p \notin Top /\ w[p].kind # "absent" => w[Parent(p)].kind = "dir"
           /\ \A p \in Places : w[p].to # p
BY DEF Worlds

\* An entry is its kind, or a link to a first-level name.
LEMMA EntryKinds ==
    ASSUME NEW e \in Entry
    PROVE  /\ e.kind \in {"absent", "file", "dir", "link"}
           /\ e.kind # "link" => e = Plain(e.kind)
           /\ e.kind = "link" => e.to \in Top /\ e = Link(e.to)
BY DEF Entry, Plain, Link

\* Under the guard, work stays at the place it writes and below it, where it
\* leaves no link; and a directory that is copied onto stays one.
LEMMA GuardedWork ==
    ASSUME NEW w \in Worlds, NEW r \in Requests,
           NEW a \in r.actions, a.effect = "write",
           \A b \in r.actions : b.path \in Places /\ Guard(w, b.path),
           NEW v \in Outcomes(w, r)
    PROVE  /\ \A q \in Places : q \notin {a.path} \cup Below(a.path) => v[q] = w[q]
           /\ \A q \in {a.path} \cup Below(a.path) : v[q].kind # "link"
           /\ r.kind = "copy" /\ w[a.path].kind = "dir" => v[a.path].kind = "dir"
<1> DEFINE p == a.path
<1>1. p \in Places /\ Guard(w, p) /\ p # NoPath /\ PathOf(r, "write") = p
  BY AdmissionAssumption, Paths
<1>2. Leaf(w, p) = p /\ WithParents(w, p) = w
  BY <1>1, GuardedPath
<1>3. w \in [Places -> Entry] /\ \A q \in {p} \cup Below(p) : w[q].kind # "link"
  BY <1>1, WorldType DEF Guard
<1>4. Below(p) \subseteq Places
  BY DEF Below
<1>5. CASE v = w
  BY <1>3, <1>5
<1>6. CASE r.kind = "write"
  <2>1. v \in {WithEntry(w, p, Plain("file")), w}
    BY <1>1, <1>2, <1>6 DEF Outcomes, Written
  <2>2. CASE v = WithEntry(w, p, Plain("file"))
    BY <1>1, <1>3, <1>4, <1>6, <2>2 DEF WithEntry, Plain
  <2> QED BY <1>5, <2>1, <2>2
<1>7. CASE r.kind = "delete"
  <2>1. v \in {w, Without(w, Below(p)), Without(w, Below(p) \cup {p})}
    BY <1>1, <1>2, <1>7 DEF Outcomes, Deleted
  <2>2. CASE v \in {Without(w, Below(p)), Without(w, Below(p) \cup {p})}
    BY <1>1, <1>3, <1>4, <1>7, <2>2 DEF Without, Plain
  <2> QED BY <1>5, <2>1, <2>2
<1>8. CASE r.kind = "copy"
  <2> DEFINE s == PathOf(r, "read")
  <2>1. s \in Places /\ Guard(w, s) /\ Len(p) <= Len(s)
    BY <1>8, Paths
  <2>2. Leaf(w, s) = s
    BY <2>1, GuardedPath
  <2> DEFINE copy == [q \in Places |-> IF q = p THEN w[s]
                                       ELSE IF q \in Below(p) /\ w[s].kind = "dir"
                                       THEN Moved(w[s \o Tail(q)], p)
                                       ELSE w[q]]
  <2>3. v = w \/ (v = copy /\ Copyable(w, s) /\ Receives(w, p, w[s].kind))
    <3> HIDE DEF s, p
    <3>1. Outcomes(w, r) = Copied(w, s, p)
      BY <1>1, <1>8 DEF Outcomes, s
    <3> QED BY <1>1, <1>2, <2>2, <3>1 DEF Copied
  <2>4. ASSUME v = copy, Copyable(w, s), Receives(w, p, w[s].kind)
        PROVE  /\ \A q \in Places : q \notin {p} \cup Below(p) => v[q] = w[q]
               /\ \A q \in {p} \cup Below(p) : v[q].kind # "link"
               /\ w[p].kind = "dir" => v[p].kind = "dir"
    <3>1. \A q \in Places : q \notin {p} \cup Below(p) => v[q] = w[q]
      BY <2>4
    <3>2. v[p] = w[s] /\ w[s].kind # "link"
      BY <1>1, <2>1, <2>4 DEF Guard
    <3>3. w[p].kind = "dir" => w[s].kind = "dir"
      BY <2>4 DEF Receives, Copyable
    <3>4. ASSUME NEW q \in Below(p) PROVE v[q].kind # "link"
      <4>1. q \in Places /\ q # p /\ Len(p) = 1 /\ Len(q) = 2
        BY <1>1, <1>4, Nesting
      <4>2. CASE w[s].kind = "dir"
        <5>1. s \in Top /\ Len(s) = 1
          BY <2>1, <4>2, WorldType, ParentShape
        <5>2. s \o Tail(q) = << s[1], q[2] >> /\ << s[1], q[2] >> \in Places
          BY <2>1, <4>1, <5>1, Joined, AdmissionAssumption
        <5>3. s \o Tail(q) \in Below(s)
          BY <2>1, <5>1, <5>2, Nesting
        <5>4. w[s \o Tail(q)].kind # "link"
          BY <2>1, <5>3 DEF Guard
        <5>5. v[q] = Moved(w[s \o Tail(q)], p)
          BY <2>4, <4>1, <4>2
        <5> QED BY <5>4, <5>5 DEF Moved
      <4>3. CASE w[s].kind # "dir"
        BY <1>3, <2>4, <4>1, <4>3
      <4> QED BY <4>2, <4>3
    <3> QED BY <3>1, <3>2, <3>3, <3>4
  <2> QED BY <1>5, <2>3, <2>4
<1>9. r.kind # "exec"
  BY <1>1, Paths
<1> QED BY <1>6, <1>7, <1>8, <1>9, Paths

\* Everything such a request may change is there.
LEMMA GuardedChanges ==
    ASSUME NEW w \in Worlds, NEW r \in Requests,
           NEW a \in r.actions, a.effect = "write",
           \A b \in r.actions : b.path \in Places /\ Guard(w, b.path)
    PROVE  Changes(w, r) \subseteq {a.path} \cup Below(a.path)
<1> DEFINE targets == {Leaf(w, b.path) :
                          b \in {c \in r.actions : c.effect = "write" /\ c.path # NoPath}}
<1>1. targets \subseteq {a.path}
  <2>1. \A b \in r.actions : b.effect = "write" => b.path = a.path
    BY Paths
  <2>2. Leaf(w, a.path) = a.path
    BY GuardedPath
  <2> QED BY <2>1, <2>2
<1>2. {q \in Places : \E v \in Outcomes(w, r) : v[q] # w[q]} \subseteq {a.path} \cup Below(a.path)
  BY GuardedWork
<1>3. UNION {{t} \cup Below(t) : t \in targets \cap Places} \subseteq {a.path} \cup Below(a.path)
  BY <1>1
<1>4. Changes(w, r) = {q \in Places : \E v \in Outcomes(w, r) : v[q] # w[q]}
                         \cup UNION {{t} \cup Below(t) : t \in targets \cap Places}
  BY DEF Changes
<1> HIDE DEF targets
<1> QED BY <1>2, <1>3, <1>4

\* And what it depends on is what its paths name.
LEMMA GuardedDepends ==
    ASSUME NEW w, NEW r \in Requests, r.kind # "exec",
           \A b \in r.actions : b.path \in Places /\ Guard(w, b.path),
           NEW x \in Depends(w, r)
    PROVE  \E b \in r.actions : x \in {b.path, Parent(b.path)} \cup Below(b.path)
<1>1. PICK b \in r.actions : x \in Visited(w, b.path)
  BY DEF Depends
<1> DEFINE p == b.path
           ends == {Trail(w, p)[n] : n \in 0..MaxHops} \cap Places
           last == {Resolved(w, p), Leaf(w, p)} \cap Places
<1>2. p \in Places /\ Guard(w, p)
  OBVIOUS
<1>3. ends \subseteq {p} /\ last \subseteq {p}
  BY <1>2, GuardedPath
<1>4. x \in ends \cup {Parent(q) : q \in ends} \cup UNION {{q} \cup Below(q) : q \in last}
  BY <1>1 DEF Visited
<1> HIDE DEF ends, last
<1> QED BY <1>3, <1>4

-----------------------------------------------------------------------------
(* Work leaves a file system behind *)

\* First-level places have one part.
LEMMA TopShape ==
    ASSUME NEW p \in Places
    PROVE  /\ p \in Seq(Parts) /\ Len(p) \in {1, 2}
           /\ p \in Top <=> Len(p) = 1
           /\ Len(p) = 1 => p = << p[1] >> /\ Parent(p) = p
BY PlaceShape, ParentShape DEF Parent

\* Leaf() ends at a place as deep as the path, in a directory.
LEMMA LeafShape ==
    ASSUME NEW v, NEW p \in Places, Leaf(v, p) # << >>
    PROVE  /\ Leaf(v, p) \in Places /\ Len(Leaf(v, p)) = Len(p)
           /\ Leaf(v, p) \notin Top => v[Parent(Leaf(v, p))].kind = "dir"
<1>1. CASE p \in Top
  BY <1>1 DEF Leaf
<1>2. CASE p \notin Top
  <2> DEFINE q == Resolved(v, Parent(p))
  <2>1. q \in Top /\ v[q].kind = "dir" /\ Leaf(v, p) = q \o Tail(p)
    BY <1>2 DEF Leaf
  <2>2. q \in Places /\ Len(q) = 1 /\ Len(p) = 2
    BY <1>2, <2>1, PlaceShape, ParentShape DEF Top
  <2>3. q \o Tail(p) = << q[1], p[2] >> /\ << q[1], p[2] >> \in Places
    <3> HIDE DEF q
    <3> QED BY <2>2, Joined, AdmissionAssumption
  <2>4. Parent(q \o Tail(p)) = q
    <3> HIDE DEF q
    <3> QED BY <2>2, <2>3, TopShape DEF Parent
  <2> HIDE DEF q
  <2>5. Len(Leaf(v, p)) = 2
    BY <2>1, <2>3
  <2> QED BY <2>1, <2>2, <2>3, <2>4, <2>5
<1> QED BY <1>1, <1>2

\* mkdir of a parent leaves a tree behind,
LEMMA ParentsMade ==
    ASSUME NEW w \in Worlds, NEW p \in Places
    PROVE  WithParents(w, p) \in Worlds
<1>1. CASE p \notin Top /\ w[Parent(p)].kind = "absent"
  <2> DEFINE v == [w EXCEPT ![Parent(p)] = Plain("dir")]
  <2>1. Parent(p) \in Top /\ Parent(p) \in Places /\ Plain("dir") \in Entry
        /\ Plain("dir").kind = "dir" /\ Plain("dir").to = << >>
    BY ParentShape DEF Entry, Plain
  <2>2. v \in [Places -> Entry]
    BY <2>1, WorldType
  <2>3. \A q \in Places : v[q].to # q
    BY <2>1, WorldType, PlaceNamed
  <2>4. \A q \in Places : q \notin Top /\ v[q].kind # "absent" => v[Parent(q)].kind = "dir"
    BY <2>1, WorldType, ParentShape
  <2>5. \A q \in Places : q \notin Top => v[q].kind # "dir"
    BY <2>1, WorldType
  <2>6. v \in Worlds
    <3> HIDE DEF v
    <3> QED BY <2>2, <2>3, <2>4, <2>5 DEF Worlds
  <2> QED BY <1>1, <2>6 DEF WithParents
<1>2. CASE ~(p \notin Top /\ w[Parent(p)].kind = "absent")
  BY <1>2 DEF WithParents
<1> QED BY <1>1, <1>2

\* so does a file written in a directory,
LEMMA FileMade ==
    ASSUME NEW v \in Worlds, NEW t \in Places, v[t].kind # "dir",
           t \notin Top => v[Parent(t)].kind = "dir"
    PROVE  WithEntry(v, t, Plain("file")) \in Worlds
<1> DEFINE u == [v EXCEPT ![t] = Plain("file")]
<1>1. Plain("file") \in Entry /\ Plain("file").kind = "file" /\ Plain("file").to = << >>
  BY DEF Entry, Plain
<1>2. u \in [Places -> Entry]
  BY <1>1, WorldType
<1>3. \A q \in Places : u[q].to # q
  BY <1>1, WorldType, PlaceNamed
<1>4. \A q \in Places : q \notin Top /\ u[q].kind # "absent" => u[Parent(q)].kind = "dir"
  <2> SUFFICES ASSUME NEW q \in Places, q \notin Top, u[q].kind # "absent"
               PROVE  u[Parent(q)].kind = "dir"
    OBVIOUS
  <2>1. v[Parent(q)].kind = "dir"
    BY WorldType, <1>1
  <2> QED BY <2>1, ParentShape, WorldType
<1>5. \A q \in Places : q \notin Top => u[q].kind # "dir"
  BY <1>1, WorldType
<1>6. u \in Worlds
  <2> HIDE DEF u
  <2> QED BY <1>2, <1>3, <1>4, <1>5 DEF Worlds
<1> QED BY <1>6 DEF WithEntry

\* the removal of a tree, finished or not,
LEMMA TreeRemoved ==
    ASSUME NEW w \in Worlds, NEW t \in Places, NEW P \in {Below(t), Below(t) \cup {t}}
    PROVE  Without(w, P) \in Worlds
<1> DEFINE u == Without(w, P)
<1>1. Plain("absent") \in Entry /\ Plain("absent").kind = "absent" /\ Plain("absent").to = << >>
  BY DEF Entry, Plain
<1>2. u \in [Places -> Entry]
  BY <1>1, WorldType DEF Without
<1>3. \A q \in Places : u[q].to # q
  BY <1>1, WorldType, PlaceNamed DEF Without
<1>4. \A q \in Places : q \notin Top /\ u[q].kind # "absent" => u[Parent(q)].kind = "dir"
  <2> SUFFICES ASSUME NEW q \in Places, q \notin Top, u[q].kind # "absent"
               PROVE  u[Parent(q)].kind = "dir"
    OBVIOUS
  <2>1. q \notin P /\ w[q].kind # "absent"
    BY <1>1 DEF Without
  <2>2. w[Parent(q)].kind = "dir" /\ Parent(q) \in Places /\ Len(Parent(q)) = 1
    BY <2>1, WorldType, ParentShape
  <2>3. Parent(q) \notin P
    <3>1. Len(q) = 2 /\ Parent(q)[1] = q[1]
      BY ParentShape, PlaceShape
    <3>2. Parent(q) \notin Below(t)
      BY <2>2, Nesting
    <3>3. Parent(q) # t
      BY <2>1, <2>2, <3>1, Nesting
    <3> QED BY <3>2, <3>3
  <2> QED BY <2>2, <2>3 DEF Without
<1>5. \A q \in Places : q \notin Top => u[q].kind # "dir"
  BY <1>1, WorldType DEF Without
<1> HIDE DEF u
<1> QED BY <1>2, <1>3, <1>4, <1>5 DEF Worlds, u

\* and a copied tree.
LEMMA TreeCopied ==
    ASSUME NEW w \in Worlds, NEW v \in Worlds, NEW s \in Places, NEW t \in Places,
           Len(t) <= Len(s), Copyable(w, s), Receives(v, t, w[s].kind),
           t \notin Top => v[Parent(t)].kind = "dir"
    PROVE  [p \in Places |->
               IF p = t THEN w[s]
               ELSE IF p \in Below(t) /\ w[s].kind = "dir"
               THEN Moved(w[s \o Tail(p)], t)
               ELSE v[p]] \in Worlds
<1> DEFINE u == [p \in Places |->
                    IF p = t THEN w[s]
                    ELSE IF p \in Below(t) /\ w[s].kind = "dir"
                    THEN Moved(w[s \o Tail(p)], t)
                    ELSE v[p]]
<1>1. w[s].kind \in {"file", "dir"} /\ w[s] = Plain(w[s].kind) /\ w[s] \in Entry
  BY WorldType, EntryKinds DEF Copyable
<1>2. w[s].kind = "dir" => s \in Top /\ t \in Top /\ Len(s) = 1 /\ Len(t) = 1
  <2>1. w[s].kind = "dir" => s \in Top
    BY WorldType
  <2>2. s \in Seq(Parts) /\ (s \in Top <=> Len(s) = 1)
    BY TopShape
  <2>3. t \in Seq(Parts) /\ Len(t) \in {1, 2} /\ (t \in Top <=> Len(t) = 1)
    BY TopShape
  <2> QED BY <2>1, <2>2, <2>3
<1>3. ASSUME NEW q \in Below(t), w[s].kind = "dir"
      PROVE  /\ q \in Places /\ q # t /\ q \notin Top /\ Parent(q) = t
             /\ Moved(w[s \o Tail(q)], t) \in Entry
             /\ Moved(w[s \o Tail(q)], t).to # q
             /\ Moved(w[s \o Tail(q)], t).kind # "dir"
  <2>1. q \in Places /\ Len(q) = 2 /\ q[1] = t[1]
    BY Nesting DEF Below
  <2>2. q # t /\ q \notin Top
    <3>1. Len(t) = 1
      BY <1>2, <1>3
    <3>2. q \in Top <=> Len(q) = 1
      BY <2>1, ParentShape
    <3> QED BY <2>1, <3>1, <3>2
  <2>3. Parent(q) = t
    BY <1>2, <1>3, <2>1, PlaceShape DEF Parent
  <2>4. s \o Tail(q) = << s[1], q[2] >> /\ << s[1], q[2] >> \in Places
    BY <1>2, <1>3, <2>1, Joined, AdmissionAssumption
  <2>5. s \o Tail(q) \notin Top
    BY <2>4, Joined, TopShape
  <2>6. w[s \o Tail(q)] \in Entry /\ w[s \o Tail(q)].kind # "dir"
    BY <2>4, <2>5, WorldType
  <2> DEFINE e == w[s \o Tail(q)]
  <2>7. CASE e.kind = "link"
    <3>1. Moved(e, t) = Link(t)
      BY <2>7 DEF Moved
    <3> QED BY <1>2, <1>3, <2>1, <2>2, <2>3, <3>1 DEF Link, Entry
  <2>8. CASE e.kind # "link"
    <3>1. Moved(e, t) = e /\ e = Plain(e.kind)
      BY <2>6, <2>8, EntryKinds DEF Moved
    <3>2. e.to = << >>
      BY <3>1 DEF Plain
    <3> QED BY <2>1, <2>2, <2>3, <2>6, <3>1, <3>2, PlaceNamed
  <2> QED BY <2>7, <2>8
<1>4. \A p \in Places : u[p] = IF p = t THEN w[s]
                               ELSE IF p \in Below(t) /\ w[s].kind = "dir"
                               THEN Moved(w[s \o Tail(p)], t)
                               ELSE v[p]
  OBVIOUS
<1>5. u \in [Places -> Entry]
  BY <1>1, <1>3, WorldType
<1> HIDE DEF u
<1>6. \A q \in Places : u[q].to # q
  <2>1. w[s].to = << >>
    BY <1>1 DEF Plain
  <2> QED BY <1>3, <1>4, <2>1, WorldType, PlaceNamed
<1>7. \A q \in Places : q \notin Top => u[q].kind # "dir"
  BY <1>2, <1>3, <1>4, WorldType
<1>8. ASSUME NEW q \in Places, q \notin Top, u[q].kind # "absent"
      PROVE  u[Parent(q)].kind = "dir"
  <2>1. Parent(q) \in Places /\ Parent(q) \in Top /\ Len(q) = 2
    BY <1>8, ParentShape, PlaceShape
  <2>2. Parent(q) \notin Below(t)
    BY <2>1, Nesting, ParentShape
  <2>3. CASE Parent(q) = t
    <3>1. q \in Below(t) /\ q # t
      BY <2>1, <2>3, <1>8, Nesting, ParentShape
    <3>2. CASE w[s].kind = "dir"
      BY <1>4, <2>3, <3>2
    <3>3. CASE w[s].kind # "dir"
      <4>1. v[q].kind # "absent"
        BY <1>4, <1>8, <3>1, <3>3
      <4>2. v[t].kind = "dir"
        BY <4>1, <1>8, <2>3, WorldType
      <4> QED BY <1>1, <3>3, <4>2 DEF Receives
    <3> QED BY <3>2, <3>3
  <2>4. CASE Parent(q) # t
    <3>1. u[Parent(q)] = v[Parent(q)]
      BY <1>4, <2>1, <2>2, <2>4
    <3>2. CASE q = t
      BY <1>8, <3>1, <3>2
    <3>3. CASE q # t
      <4>1. q \notin Below(t)
        BY <1>8, <2>1, <2>4, Nesting, PlaceShape DEF Parent
      <4>2. u[q] = v[q]
        BY <1>4, <3>3, <4>1
      <4> QED BY <1>8, <3>1, <4>2, WorldType
    <3> QED BY <3>2, <3>3
  <2> QED BY <2>3, <2>4
<1>9. u \in Worlds
  BY <1>5, <1>6, <1>7, <1>8 DEF Worlds
<1> QED BY <1>9 DEF u

\* Whatever a request does, a tree is left behind.
LEMMA OutcomesType ==
    ASSUME NEW w \in Worlds, NEW r \in Requests, NEW v \in Outcomes(w, r)
    PROVE  v \in Worlds
<1>1. CASE \A a \in r.actions : a.effect = "read"
  BY <1>1, Reading
<1>2. CASE \E a \in r.actions : a.effect = "write"
  <2>1. PICK a \in r.actions : a.effect = "write"
    BY <1>2
  <2>2. a \in Action
    BY RequestShape
  <2>3. CASE r.kind = "exec"
    BY <2>3 DEF Outcomes
  <2>4. CASE r.kind = "copy"
    <3> DEFINE s == Leaf(w, PathOf(r, "read"))
               u == WithParents(w, a.path)
               t == Leaf(u, a.path)
    <3>1. PathOf(r, "read") \in Places /\ a.path \in Places /\ Len(a.path) <= Len(PathOf(r, "read"))
          /\ PathOf(r, "write") = a.path
      BY <2>1, <2>4, Paths
    <3>2. u \in Worlds
      BY <3>1, ParentsMade
    <3>3. v \in Copied(w, PathOf(r, "read"), a.path)
      BY <2>4, <3>1 DEF Outcomes
    <3>4. CASE v \in {w, u}
      BY <3>2, <3>4
    <3>5. CASE v \notin {w, u}
      <4>1. /\ s # << >> /\ t # << >> /\ Copyable(w, s) /\ Receives(u, t, w[s].kind)
            /\ v = [p \in Places |->
                     IF p = t THEN w[s]
                     ELSE IF p \in Below(t) /\ w[s].kind = "dir"
                     THEN Moved(w[s \o Tail(p)], t)
                     ELSE u[p]]
        BY <3>3, <3>5 DEF Copied
      <4>2. s \in Places /\ t \in Places /\ Len(t) <= Len(s)
            /\ (t \notin Top => u[Parent(t)].kind = "dir")
        <5>1. s \in Places /\ Len(s) = Len(PathOf(r, "read"))
          BY <3>1, <4>1, LeafShape
        <5>2. t \in Places /\ Len(t) = Len(a.path)
              /\ (t \notin Top => u[Parent(t)].kind = "dir")
          BY <3>1, <4>1, LeafShape
        <5> HIDE DEF s, t
        <5> QED BY <3>1, <5>1, <5>2
      <4> HIDE DEF s, t, u
      <4> QED BY <3>2, <4>1, <4>2, TreeCopied
    <3> QED BY <3>4, <3>5
  <2>5. CASE r.kind \in {"write", "delete"}
    <3>1. a.path \in Places /\ PathOf(r, "write") = a.path
      <4>1. \A b \in r.actions : b.path \in Places
        BY <2>5, RequestShape DEF WellFormed
      <4> QED BY <2>1, <4>1, Paths
    <3>2. CASE r.kind = "write"
      <4> DEFINE u == WithParents(w, a.path)
                 t == Leaf(u, a.path)
      <4>1. v \in Written(w, a.path)
        BY <3>1, <3>2 DEF Outcomes
      <4>2. u \in Worlds
        BY <3>1, ParentsMade
      <4>3. CASE v \in {w, u}
        BY <4>2, <4>3
      <4>4. CASE v \notin {w, u}
        <5>1. t # << >> /\ u[t].kind # "dir" /\ v = WithEntry(u, t, Plain("file"))
          BY <4>1, <4>4 DEF Written
        <5>2. t \in Places /\ (t \notin Top => u[Parent(t)].kind = "dir")
          BY <3>1, <5>1, LeafShape
        <5> HIDE DEF u, t
        <5> QED BY <4>2, <5>1, <5>2, FileMade
      <4> QED BY <4>3, <4>4
    <3>3. CASE r.kind = "delete"
      <4> DEFINE t == Leaf(w, a.path)
      <4>1. v \in Deleted(w, a.path)
        BY <3>1, <3>3 DEF Outcomes
      <4>2. CASE v # w
        <5>1. t # << >> /\ v \in {Without(w, Below(t)), Without(w, Below(t) \cup {t})}
          BY <4>1, <4>2 DEF Deleted
        <5>2. t \in Places
          BY <3>1, <5>1, LeafShape
        <5> HIDE DEF t
        <5> QED BY <5>1, <5>2, TreeRemoved
      <4> QED BY <4>2
    <3> QED BY <2>5, <3>2, <3>3
  <2> QED BY <2>1, <2>3, <2>4, <2>5, Paths
<1> QED BY <1>1, <1>2, Reading

-----------------------------------------------------------------------------
(* What every step keeps *)

\* What the row of a caller says at each point of its request.
RowOK(row) ==
    /\ row.pc = "idle" => row = Idle
    /\ row.pc \in {"granted", "open"} => row.session # NoRequest
    /\ row.session # NoRequest =>
            row.session \in Sessions /\ row.held = Plan(row.session) /\ ~row.job
    /\ row.session = NoRequest /\ row.pc \in {"planned", "admitted", "prepared"} =>
            row.held = {}
    /\ row.session = NoRequest /\ ~row.job => row.held = {}
    /\ row.pc \in {"planned", "admitted", "prepared", "working", "checking"} =>
            row.request \in Requests /\ row.claims \in Planned(row.request)
    /\ row.pc = "queued" => row.request \in Requests /\ row.held \in Planned(row.request)
    /\ row.pc \in {"prepared", "queued", "checking"} => row.job
    /\ row.pc = "checking" => Covers(row.held, row.claims)
    /\ row.pc \in {"admitted", "working"} => row.held = {} \/ Covers(row.held, row.claims)

Rows == \A c \in Callers : RowOK(caller[c])

\* What two callers reserve does not overlap.
Apart == \A b, c \in Callers : b # c => ~Conflicts(Reserved(b), Reserved(c))

Inv == TypeOK /\ Rows /\ Apart /\ StillValid

\* What stays of a session's validation.
Lasting(w, s, claims) == \A a \in Outermost(s) : Checked(w, a, claims)

\* What a row reserves.
ReservedBy(row) ==
    row.held \cup IF row.pc \in {"admitted", "working"} THEN row.claims ELSE {}

\* What a caller has on record is what its row reserves.
LEMMA ReservedIs == \A c : Reserved(c) = ReservedBy(caller[c])
  BY DEF Reserved, ReservedBy

\* Both plans of a request are among the claims of a row.
LEMMA PlanTypes ==
    ASSUME NEW r \in Requests
    PROVE  Plan(r) \in Claimed /\ Broad(r) \in Claimed
  BY DEF Claimed

\* A caller that does nothing reserves nothing.
LEMMA IdleRow == Idle \in Caller /\ RowOK(Idle) /\ ReservedBy(Idle) = {}
<1>1. Idle \in Caller
  BY DEF Idle, Caller, PC
<1>2. RowOK(Idle)
  BY DEF Idle, RowOK
<1> QED BY <1>1, <1>2 DEF Idle, ReservedBy

\* A caller whose row moves to one like this disturbs nobody.
Sound(c, row) ==
    /\ row \in Caller /\ RowOK(row)
    /\ \A other \in Callers \ {c} : ~Conflicts(ReservedBy(row), Reserved(other))
    /\ row.pc = "working" => Valid(world, row.request, row.claims)
    /\ row.session # NoRequest /\ row.pc # "granted" => Lasting(world, row.session, row.held)

\* A move to a sound row keeps the invariant.
LEMMA SoundMove ==
    ASSUME Inv, NEW c \in Callers, NEW row, CallerMove(c, row), Sound(c, row)
    PROVE  Inv'
<1>1. /\ caller' = [caller EXCEPT ![c] = row] /\ world' = world
      /\ caller \in [Callers -> Caller]
  BY DEF Inv, TypeOK, CallerMove
<1>2. TypeOK'
  BY <1>1 DEF Inv, TypeOK, Sound
<1>3. /\ caller'[c] = row
      /\ \A d \in Callers \ {c} : caller'[d] = caller[d]
  BY <1>1
<1>4. Rows'
  BY <1>3 DEF Inv, Rows, Sound
<1>5. Apart'
  <2> SUFFICES ASSUME NEW a \in Callers, NEW b \in Callers, a # b
               PROVE  ~Conflicts(ReservedBy(caller'[a]), ReservedBy(caller'[b]))
    BY DEF Apart, Reserved, ReservedBy
  <2>1. \A d \in Callers \ {c} :
            /\ ~Conflicts(ReservedBy(row), ReservedBy(caller[d]))
            /\ ~Conflicts(ReservedBy(caller[d]), ReservedBy(row))
    <3>1. \A d \in Callers \ {c} : ~Conflicts(ReservedBy(row), ReservedBy(caller[d]))
      BY ReservedIs DEF Sound
    <3> QED BY <3>1 DEF Conflicts, Collide
  <2>2. a # c /\ b # c => ~Conflicts(ReservedBy(caller[a]), ReservedBy(caller[b]))
    BY ReservedIs DEF Inv, Apart
  <2> QED BY <1>3, <2>1, <2>2
<1>6. StillValid'
  BY <1>1, <1>3 DEF Inv, StillValid, Sound, Lasting
<1> QED BY <1>2, <1>4, <1>5, <1>6 DEF Inv

\* Giving up a part of what it reserves is no conflict for anybody.
LEMMA LessReserved ==
    ASSUME Inv, NEW c \in Callers, NEW row, ReservedBy(row) \subseteq Reserved(c)
    PROVE  \A other \in Callers \ {c} : ~Conflicts(ReservedBy(row), Reserved(other))
  BY DEF Inv, Apart, Conflicts

\* What the invariant says of one caller.
LEMMA RowFacts ==
    ASSUME Inv, NEW c \in Callers
    PROVE  /\ caller[c] \in Caller /\ RowOK(caller[c])
           /\ caller[c].pc = "working" =>
                  Valid(world, caller[c].request, caller[c].claims)
           /\ caller[c].session # NoRequest /\ caller[c].pc # "granted" =>
                  Lasting(world, caller[c].session, caller[c].held)
           /\ Sessions \subseteq Requests /\ NoRequest \notin Requests
  BY AdmissionAssumption DEF Inv, TypeOK, Rows, StillValid, Lasting

\* To give everything up is sound,
LEMMA IdleSound ==
    ASSUME NEW c \in Callers PROVE Sound(c, Idle)
<1>1. Idle.pc = "idle" /\ Idle.session = NoRequest
  BY DEF Idle
<1> QED BY <1>1, IdleRow DEF Sound, Conflicts

\* and so is to end a request and keep the session.
LEMMA RestedSound ==
    ASSUME Inv, NEW c \in Callers, caller[c].pc \notin {"idle", "granted", "open"}
    PROVE  Sound(c, Rested(c))
<1>1. CASE caller[c].session = NoRequest
  BY <1>1, IdleSound DEF Rested
<1>2. CASE caller[c].session # NoRequest
  <2> DEFINE row == [caller[c] EXCEPT !.pc = "open", !.request = NoRequest, !.claims = {}]
  <2>1. Rested(c) = row
    BY <1>2 DEF Rested
  <2>2. row \in Caller /\ row.pc = "open" /\ row.session = caller[c].session
        /\ row.held = caller[c].held /\ row.job = caller[c].job
    BY RowFacts DEF Caller, PC
  <2> HIDE DEF row
  <2>3. RowOK(row)
    BY <1>2, <2>2, RowFacts DEF RowOK
  <2>4. ReservedBy(row) \subseteq Reserved(c)
    BY <2>2 DEF ReservedBy, Reserved
  <2> QED BY <1>2, <2>1, <2>2, <2>3, <2>4, LessReserved, RowFacts DEF Sound
<1> QED BY <1>1, <1>2

-----------------------------------------------------------------------------
(* Each action of a caller on its row *)

\* A request that is planned anew, under a session or not.
LEMMA AskSound ==
    ASSUME Inv, NEW c \in Callers, NEW r \in Requests, NEW job \in BOOLEAN, Ask(c, r, job)
    PROVE  Inv'
<1> DEFINE row == [caller[c] EXCEPT
                      !.pc = IF job /\ r.kind = "exec" THEN "prepared" ELSE "planned",
                      !.job = job, !.request = r, !.claims = Plan(r)]
<1>1. /\ caller[c].pc \in {"idle", "open"} /\ (job => caller[c].pc = "idle")
      /\ CallerMove(c, row)
  BY DEF Ask
<1>2. /\ row \in Caller /\ row.pc \in {"prepared", "planned"} /\ (row.pc = "prepared" => job)
      /\ row.session = caller[c].session /\ row.held = caller[c].held
      /\ row.job = job /\ row.request = r /\ row.claims = Plan(r)
  <2>1. Plan(r) \in Claimed
    BY PlanTypes
  <2> QED BY <2>1, RowFacts DEF Caller, PC
<1> HIDE DEF row
<1>3. caller[c].pc = "idle" => caller[c].session = NoRequest /\ caller[c].held = {}
  BY RowFacts DEF RowOK, Idle
<1>4. caller[c].pc = "open" => caller[c].session # NoRequest
  BY RowFacts DEF RowOK
<1>5. RowOK(row)
  BY <1>1, <1>2, <1>3, <1>4, RowFacts DEF RowOK, Planned
<1>6. ReservedBy(row) \subseteq Reserved(c)
  BY <1>2 DEF ReservedBy, Reserved
<1>7. Sound(c, row)
  BY <1>1, <1>2, <1>3, <1>5, <1>6, LessReserved, RowFacts DEF Sound
<1> QED BY <1>1, <1>7, SoundMove

\* acquire_locks(): the session is recorded beside everybody else.
LEMMA AcquireSound ==
    ASSUME Inv, NEW c \in Callers, NEW r \in Requests, Acquire(c, r)
    PROVE  Inv'
<1> DEFINE row == [Idle EXCEPT !.pc = "granted", !.session = r, !.held = Plan(r)]
<1>1. r \in Sessions /\ Free(c, Plan(r)) /\ CallerMove(c, row)
  BY DEF Acquire
<1>2. Idle \in Caller /\ Idle.job = FALSE /\ Plan(r) \in Claimed
  BY IdleRow, PlanTypes DEF Idle
<1>3. row \in Caller /\ row.pc = "granted" /\ row.session = r /\ row.held = Plan(r)
      /\ row.job = FALSE
  BY <1>2 DEF Caller, PC
<1> HIDE DEF row
<1>4. r # NoRequest
  BY RowFacts
<1>5. RowOK(row)
  BY <1>1, <1>3, <1>4 DEF RowOK
<1>6. ReservedBy(row) = Plan(r)
  BY <1>3 DEF ReservedBy
<1>7. Sound(c, row)
  BY <1>1, <1>3, <1>5, <1>6 DEF Sound, Free
<1> QED BY <1>1, <1>7, SoundMove

\* The session is validated, refused or closed.
LEMMA SessionSound ==
    ASSUME Inv, NEW c \in Callers,
           ValidateSession(c) \/ ValidateSessionFails(c) \/ CloseSession(c)
    PROVE  Inv'
<1>1. CASE CallerMove(c, Idle)
  BY <1>1, IdleSound, SoundMove
<1>2. CASE ~CallerMove(c, Idle)
  <2> DEFINE row == [caller[c] EXCEPT !.pc = "open"]
  <2>1. /\ caller[c].pc = "granted" /\ Valid(world, caller[c].session, caller[c].held)
        /\ CallerMove(c, row)
    BY <1>2 DEF ValidateSession, ValidateSessionFails, CloseSession
  <2>2. /\ row \in Caller /\ row.pc = "open" /\ row.session = caller[c].session
        /\ row.held = caller[c].held /\ row.job = caller[c].job
    BY RowFacts DEF Caller, PC
  <2> HIDE DEF row
  <2>3. RowOK(row)
    BY <2>1, <2>2, RowFacts DEF RowOK
  <2>4. ReservedBy(row) \subseteq Reserved(c)
    BY <2>2 DEF ReservedBy, Reserved
  <2>5. Lasting(world, row.session, row.held)
    BY <2>1, <2>2 DEF Lasting, Outermost, Valid
  <2>6. Sound(c, row)
    BY <2>1, <2>2, <2>3, <2>4, <2>5, LessReserved DEF Sound
  <2> QED BY <2>1, <2>6, SoundMove
<1> QED BY <1>1, <1>2

\* admit(): the claims are recorded beside everybody else.
LEMMA AdmitSound ==
    ASSUME Inv, NEW c \in Callers, Admit(c)
    PROVE  Inv'
<1> DEFINE row == [caller[c] EXCEPT !.pc = "admitted"]
<1>1. /\ caller[c].pc = "planned" /\ Free(c, caller[c].claims)
      /\ caller[c].session # NoRequest => Covers(caller[c].held, caller[c].claims)
      /\ CallerMove(c, row)
  BY DEF Admit
<1>2. /\ row \in Caller /\ row.pc = "admitted" /\ row.session = caller[c].session
      /\ row.held = caller[c].held /\ row.job = caller[c].job
      /\ row.request = caller[c].request /\ row.claims = caller[c].claims
  BY RowFacts DEF Caller, PC
<1> HIDE DEF row
<1>3. RowOK(row)
  BY <1>1, <1>2, RowFacts DEF RowOK
<1>4. \A other \in Callers \ {c} : ~Conflicts(ReservedBy(row), Reserved(other))
  <2> SUFFICES ASSUME NEW other \in Callers \ {c}
               PROVE  ~Conflicts(ReservedBy(row), Reserved(other))
    OBVIOUS
  <2>1. ReservedBy(row) = caller[c].held \cup caller[c].claims
    BY <1>2 DEF ReservedBy
  <2>2. ~Conflicts(caller[c].held, Reserved(other))
    BY DEF Inv, Apart, Conflicts, Reserved
  <2>3. ~Conflicts(caller[c].claims, Reserved(other))
    BY <1>1 DEF Free
  <2> QED BY <2>1, <2>2, <2>3 DEF Conflicts
<1>5. Sound(c, row)
  BY <1>1, <1>2, <1>3, <1>4, RowFacts DEF Sound
<1> QED BY <1>1, <1>5, SoundMove

\* A request ends.
LEMMA EndSound ==
    ASSUME Inv, NEW c \in Callers, Refused(c) \/ Finish(c) \/ CheckJobFails(c)
    PROVE  Inv'
<1>1. CASE CallerMove(c, Idle)
  BY <1>1, IdleSound, SoundMove
<1>2. CASE ~CallerMove(c, Idle)
  BY <1>2, RestedSound, SoundMove DEF Refused, Finish, CheckJobFails
<1> QED BY <1>1, <1>2

\* What was admitted is validated, widened or given back.
LEMMA ValidateSound ==
    ASSUME Inv, NEW c \in Callers, Validate(c) \/ ValidateFails(c)
    PROVE  Inv'
<1>1. caller[c].pc = "admitted"
  BY DEF Validate, ValidateFails
<1>2. /\ caller[c] \in Caller /\ caller[c].request \in Requests
      /\ caller[c].claims \in Planned(caller[c].request)
      /\ caller[c].session # NoRequest => ~caller[c].job
      /\ caller[c].session = NoRequest => caller[c].held = {}
      /\ caller[c].held = {} \/ Covers(caller[c].held, caller[c].claims)
  BY <1>1, RowFacts DEF RowOK
<1>3. Broad(caller[c].request) \in Claimed
  BY <1>2, PlanTypes
<1>4. ASSUME NEW row \in Caller,
             row.session = caller[c].session, row.held = caller[c].held,
             row.job = caller[c].job, row.request = caller[c].request,
             \/ row.pc = "planned" /\ row.claims = Broad(caller[c].request)
             \/ row.pc = "prepared" /\ row.job /\ row.claims \in Planned(caller[c].request)
             \/ /\ row.pc = "working" /\ row.claims = caller[c].claims
                /\ Valid(world, row.request, row.claims)
      PROVE  Sound(c, row)
  <2>1. RowOK(row)
    BY <1>1, <1>2, <1>4, RowFacts DEF RowOK, Planned
  <2>2. ReservedBy(row) \subseteq Reserved(c)
    BY <1>1, <1>4 DEF ReservedBy, Reserved
  <2> QED BY <1>1, <1>4, <2>1, <2>2, LessReserved, RowFacts DEF Sound
<1>5. ASSUME CallerMove(c, Widened(c)) PROVE Inv'
  <2>1. /\ Widened(c) \in Caller /\ Widened(c).pc = "planned"
        /\ Widened(c).session = caller[c].session /\ Widened(c).held = caller[c].held
        /\ Widened(c).job = caller[c].job /\ Widened(c).request = caller[c].request
        /\ Widened(c).claims = Broad(caller[c].request)
    BY <1>2, <1>3 DEF Widened, Caller, PC
  <2> QED BY <1>4, <1>5, <2>1, SoundMove
<1>6. ASSUME CallerMove(c, [caller[c] EXCEPT !.pc = "prepared"]), caller[c].job PROVE Inv'
  <2> DEFINE row == [caller[c] EXCEPT !.pc = "prepared"]
  <2>1. /\ row \in Caller /\ row.pc = "prepared"
        /\ row.session = caller[c].session /\ row.held = caller[c].held
        /\ row.job = caller[c].job /\ row.request = caller[c].request
        /\ row.claims = caller[c].claims
    BY <1>2 DEF Caller, PC
  <2> HIDE DEF row
  <2>2. Sound(c, row)
    BY <1>2, <1>4, <1>6, <2>1
  <2>3. CallerMove(c, row)
    BY <1>6 DEF row
  <2> QED BY <2>2, <2>3, SoundMove
<1>7. ASSUME CallerMove(c, [caller[c] EXCEPT !.pc = "working"]),
             Valid(world, caller[c].request, caller[c].claims)
      PROVE  Inv'
  <2> DEFINE row == [caller[c] EXCEPT !.pc = "working"]
  <2>1. /\ row \in Caller /\ row.pc = "working"
        /\ row.session = caller[c].session /\ row.held = caller[c].held
        /\ row.job = caller[c].job /\ row.request = caller[c].request
        /\ row.claims = caller[c].claims
    BY <1>2 DEF Caller, PC
  <2> HIDE DEF row
  <2>2. Sound(c, row)
    BY <1>4, <1>7, <2>1
  <2>3. CallerMove(c, row)
    BY <1>7 DEF row
  <2> QED BY <2>2, <2>3, SoundMove
<1>8. ASSUME CallerMove(c, [caller[c] EXCEPT !.pc = "prepared",
                                             !.claims = Broad(caller[c].request)]),
             caller[c].job
      PROVE  Inv'
  <2> DEFINE row == [caller[c] EXCEPT !.pc = "prepared", !.claims = Broad(caller[c].request)]
  <2>1. /\ row \in Caller /\ row.pc = "prepared"
        /\ row.session = caller[c].session /\ row.held = caller[c].held
        /\ row.job = caller[c].job /\ row.request = caller[c].request
        /\ row.claims = Broad(caller[c].request)
    BY <1>2, <1>3 DEF Caller, PC
  <2> HIDE DEF row
  <2>2. Sound(c, row)
    BY <1>4, <1>8, <2>1 DEF Planned
  <2>3. CallerMove(c, row)
    BY <1>8 DEF row
  <2> QED BY <2>2, <2>3, SoundMove
<1>9. ASSUME CallerMove(c, Rested(c)) PROVE Inv'
  BY <1>1, <1>9, RestedSound, SoundMove
<1>10. CASE Validate(c)
  BY <1>5, <1>6, <1>7, <1>10 DEF Validate
<1>11. CASE ValidateFails(c)
  BY <1>8, <1>9, <1>11 DEF ValidateFails
<1> QED BY <1>10, <1>11

-----------------------------------------------------------------------------
(* Jobs *)

\* Containment is transitive.
LEMMA ContainsTransitive ==
    ASSUME NEW p \in LockScope, NEW q \in LockScope, NEW r \in LockScope,
           Contains(p, q), Contains(q, r)
    PROVE  Contains(p, r)
  BY DEF Contains, LockScope

\* Two scopes that contain a third are nested one in the other.
LEMMA ContainsComparable ==
    ASSUME NEW p \in LockScope, NEW q \in LockScope, NEW r \in LockScope,
           Contains(p, r), Contains(q, r)
    PROVE  Contains(p, q) \/ Contains(q, p)
<1>1. CASE Len(p) <= Len(q)
  BY <1>1 DEF Contains, LockScope
<1>2. CASE Len(q) <= Len(p)
  BY <1>2 DEF Contains, LockScope
<1> QED BY <1>1, <1>2 DEF LockScope

\* What conflicts with claims that are covered conflicts with what covers them.
LEMMA CoveredConflict ==
    ASSUME NEW H \in SUBSET Claim, NEW N \in SUBSET Claim, NEW C \in SUBSET Claim,
           Covers(H, N), Conflicts(N, C)
    PROVE  Conflicts(H, C)
<1>1. PICK n \in N, c \in C : Collide(n, c)
  BY DEF Conflicts
<1>2. PICK h \in H : Entitles(h, n)
  BY DEF Covers
<1>3. Contains(h.scope, c.scope) \/ Contains(c.scope, h.scope)
  <2>1. h.scope \in LockScope /\ n.scope \in LockScope /\ c.scope \in LockScope
    BY DEF Claim
  <2>2. Contains(h.scope, n.scope)
    BY <1>2 DEF Entitles
  <2>3. CASE Contains(n.scope, c.scope)
    BY <2>1, <2>2, <2>3, ContainsTransitive
  <2>4. CASE Contains(c.scope, n.scope)
    BY <2>1, <2>2, <2>4, ContainsComparable
  <2> QED BY <1>1, <2>3, <2>4 DEF Collide
<1>4. h.mode \in LockMode /\ n.mode \in LockMode
  BY DEF Claim
<1>5. Collide(h, c)
  BY <1>1, <1>2, <1>3, <1>4 DEF Entitles, Collide, LockMode
<1> QED BY <1>5 DEF Conflicts

\* What a row may hold is a set of claims.
LEMMA ClaimedType ==
    ASSUME NEW X \in {{}} \cup Claimed
    PROVE  X \in SUBSET Claim
  BY PlanCovers DEF Claimed

\* What is on record is a set of claims.
LEMMA ReservedType ==
    ASSUME Inv, NEW c \in Callers
    PROVE  Reserved(c) \in SUBSET Claim
<1>1. caller[c].held \in SUBSET Claim /\ caller[c].claims \in SUBSET Claim
  BY RowFacts, ClaimedType DEF Caller
<1> QED BY <1>1 DEF Reserved

\* The row of a submission becomes the row of the job.
LEMMA SubmitSound ==
    ASSUME Inv, NEW c \in Callers, Submit(c)
    PROVE  Inv'
<1> DEFINE row == [caller[c] EXCEPT !.pc = "queued", !.held = caller[c].claims, !.claims = {}]
<1>1. caller[c].pc = "prepared" /\ Free(c, caller[c].claims) /\ CallerMove(c, row)
  BY DEF Submit
<1>2. /\ row \in Caller /\ row.pc = "queued" /\ row.session = caller[c].session
      /\ row.held = caller[c].claims /\ row.job = caller[c].job
      /\ row.request = caller[c].request
  BY RowFacts DEF Caller, PC
<1> HIDE DEF row
<1>3. caller[c].job /\ caller[c].session = NoRequest /\ caller[c].request \in Requests
      /\ caller[c].claims \in Planned(caller[c].request)
  BY <1>1, RowFacts DEF RowOK
<1>4. RowOK(row)
  BY <1>2, <1>3 DEF RowOK
<1>5. ReservedBy(row) = caller[c].claims
  BY <1>2 DEF ReservedBy
<1>6. Sound(c, row)
  BY <1>1, <1>2, <1>3, <1>4, <1>5 DEF Sound, Free
<1> QED BY <1>1, <1>6, SoundMove

\* The worker plans anew, under the claims of the row.
LEMMA StartJobSound ==
    ASSUME Inv, NEW c \in Callers, StartJob(c)
    PROVE  Inv'
<1>1. CASE CallerMove(c, Idle)
  BY <1>1, IdleSound, SoundMove
<1>2. CASE ~CallerMove(c, Idle)
  <2> DEFINE row == [caller[c] EXCEPT !.pc = "checking", !.claims = Plan(caller[c].request)]
  <2>1. /\ caller[c].pc = "queued" /\ Covers(caller[c].held, Plan(caller[c].request))
        /\ CallerMove(c, row)
    BY <1>2 DEF StartJob
  <2>2. caller[c].request \in Requests /\ caller[c].job /\ caller[c].session = NoRequest
    BY <2>1, RowFacts DEF RowOK
  <2>3. Plan(caller[c].request) \in Claimed
    BY <2>2, PlanTypes
  <2>4. /\ row \in Caller /\ row.pc = "checking" /\ row.session = caller[c].session
        /\ row.held = caller[c].held /\ row.job = caller[c].job
        /\ row.request = caller[c].request /\ row.claims = Plan(caller[c].request)
    BY <2>3, RowFacts DEF Caller, PC
  <2> HIDE DEF row
  <2>5. RowOK(row)
    BY <2>1, <2>2, <2>4 DEF RowOK, Planned
  <2>6. ReservedBy(row) \subseteq Reserved(c)
    BY <2>4 DEF ReservedBy, Reserved
  <2>7. Sound(c, row)
    BY <2>2, <2>4, <2>5, <2>6, LessReserved DEF Sound
  <2> QED BY <2>1, <2>7, SoundMove
<1> QED BY <1>1, <1>2

\* The worker validates anew, under the claims of the row.
LEMMA CheckJobSound ==
    ASSUME Inv, NEW c \in Callers, CheckJob(c)
    PROVE  Inv'
<1>1. caller[c].pc = "checking"
  BY DEF CheckJob
<1>2. /\ caller[c].request \in Requests /\ caller[c].job /\ caller[c].session = NoRequest
      /\ caller[c].claims \in Planned(caller[c].request)
      /\ Covers(caller[c].held, caller[c].claims)
  BY <1>1, RowFacts DEF RowOK
<1>3. ASSUME NEW row \in Caller, row.pc = "working", row.session = NoRequest, row.job,
             row.held = caller[c].held, row.request = caller[c].request,
             row.claims \in Planned(caller[c].request), Covers(caller[c].held, row.claims),
             Valid(world, row.request, row.claims)
      PROVE  Sound(c, row)
  <2>1. RowOK(row)
    BY <1>2, <1>3 DEF RowOK
  <2>2. ASSUME NEW other \in Callers \ {c}
        PROVE  ~Conflicts(ReservedBy(row), Reserved(other))
    <3>1. ~Conflicts(caller[c].held, Reserved(other))
      BY DEF Inv, Apart, Conflicts, Reserved
    <3>2. caller[c].held \in SUBSET Claim /\ row.claims \in SUBSET Claim
          /\ Reserved(other) \in SUBSET Claim
      BY RowFacts, ClaimedType, ReservedType DEF Caller
    <3>3. ~Conflicts(row.claims, Reserved(other))
      BY <1>3, <3>1, <3>2, CoveredConflict
    <3>4. ReservedBy(row) = caller[c].held \cup row.claims
      BY <1>3 DEF ReservedBy
    <3> QED BY <3>1, <3>3, <3>4 DEF Conflicts
  <2> QED BY <1>3, <2>1, <2>2 DEF Sound
<1>4. CASE CallerMove(c, Idle)
  BY <1>4, IdleSound, SoundMove
<1>5. CASE Valid(world, caller[c].request, caller[c].claims)
  <2> DEFINE row == [caller[c] EXCEPT !.pc = "working"]
  <2>1. CallerMove(c, row)
    BY <1>5 DEF CheckJob
  <2>2. /\ row \in Caller /\ row.pc = "working" /\ row.session = caller[c].session
        /\ row.held = caller[c].held /\ row.job = caller[c].job
        /\ row.request = caller[c].request /\ row.claims = caller[c].claims
    BY RowFacts DEF Caller, PC
  <2> HIDE DEF row
  <2>3. Sound(c, row)
    BY <1>2, <1>3, <1>5, <2>2
  <2> QED BY <2>1, <2>3, SoundMove
<1>6. CASE /\ ~Valid(world, caller[c].request, caller[c].claims)
           /\ Covers(caller[c].held, Broad(caller[c].request))
  <2> DEFINE row == [caller[c] EXCEPT !.pc = "working", !.claims = Broad(caller[c].request)]
  <2>1. CallerMove(c, row)
    BY <1>6 DEF CheckJob
  <2>2. Broad(caller[c].request) \in Claimed
    BY <1>2, PlanTypes
  <2>3. /\ row \in Caller /\ row.pc = "working" /\ row.session = caller[c].session
        /\ row.held = caller[c].held /\ row.job = caller[c].job
        /\ row.request = caller[c].request /\ row.claims = Broad(caller[c].request)
    BY <2>2, RowFacts DEF Caller, PC
  <2> HIDE DEF row
  <2>4. Valid(world, row.request, row.claims)
    BY <1>2, <2>3, PlanCovers DEF Valid, Checked, Covers
  <2>5. Sound(c, row)
    BY <1>2, <1>3, <1>6, <2>3, <2>4 DEF Planned
  <2> QED BY <2>1, <2>5, SoundMove
<1> QED BY <1>4, <1>5, <1>6 DEF CheckJob

-----------------------------------------------------------------------------
(* What work leaves of the guards *)

\* Places that are not nested have nothing in common.
LEMMA Beside ==
    ASSUME NEW p \in Places, NEW q \in Places, ~Contains(p, q), ~Contains(q, p)
    PROVE  \A x \in {q, Parent(q)} \cup Below(q) : x \notin {p} \cup Below(p)
<1> SUFFICES ASSUME NEW x \in {q, Parent(q)} \cup Below(q), x \in {p} \cup Below(p)
             PROVE  FALSE
  OBVIOUS
<1>1. x \in Places
  BY ParentShape DEF Below
<1>2. p # q /\ ~(Len(p) = 1 /\ Len(q) = 2 /\ p[1] = q[1])
            /\ ~(Len(q) = 1 /\ Len(p) = 2 /\ p[1] = q[1])
  BY Nesting
<1>3. CASE x = q
  BY <1>2, <1>3, Nesting
<1>4. CASE x = Parent(q)
  <2>1. Len(x) = 1 /\ x[1] = q[1]
    BY <1>4, ParentShape
  <2>2. x = p
    BY <1>1, <2>1, Nesting
  <2>3. Len(q) = 1
    BY <1>2, <2>1, <2>2, PlaceShape
  <2> QED BY <1>2, <1>4, <2>2, <2>3, ParentShape
<1>5. CASE x \in Below(q)
  <2>1. Len(q) = 1 /\ Len(x) = 2 /\ q[1] = x[1]
    BY <1>1, <1>5, Nesting
  <2>2. x # p
    BY <1>2, <2>1
  <2>3. Len(p) = 1 /\ p[1] = x[1]
    BY <1>1, <2>2, Nesting
  <2>4. p = q
    BY <2>1, <2>3, TopShape
  <2> QED BY <1>2, <2>4
<1> QED BY <1>3, <1>4, <1>5

\* A guard outlasts changes beside its path,
LEMMA GuardApart ==
    ASSUME NEW w, NEW v, NEW p \in Places, NEW q \in Places, Guard(w, q),
           \A x \in Places : x \notin {p} \cup Below(p) => v[x] = w[x],
           ~Contains(p, q), ~Contains(q, p)
    PROVE  Guard(v, q)
<1>1. \A x \in {q, Parent(q)} \cup Below(q) : x \in Places
  BY ParentShape DEF Below
<1>2. \A x \in {q, Parent(q)} \cup Below(q) : v[x] = w[x]
  BY <1>1, Beside
<1> QED BY <1>2 DEF Guard

\* and changes at it or below it that leave no link.
LEMMA GuardAbove ==
    ASSUME NEW w, NEW v, NEW p \in Places, NEW q \in Places, Guard(w, q),
           \A x \in Places : x \notin {p} \cup Below(p) => v[x] = w[x],
           \A x \in {p} \cup Below(p) : v[x].kind # "link",
           Contains(q, p)
    PROVE  Guard(v, q)
<1>1. \A x \in {q} \cup Below(q) : v[x].kind # "link"
  BY DEF Guard, Below
<1>2. ASSUME q \notin Top PROVE v[Parent(q)].kind = "dir"
  <2>1. p = q /\ Len(p) = 2
    BY <1>2, Nesting, TopShape
  <2>2. Parent(q) \in Places /\ Parent(q) \notin {p} \cup Below(p)
    BY <2>1, ParentShape, Nesting
  <2> QED BY <1>2, <2>2 DEF Guard
<1> QED BY <1>1, <1>2 DEF Guard

\* All that is planned is for the one domain.
LEMMA ClaimDomains ==
    ASSUME NEW r \in Requests, NEW X \in Planned(r), NEW x \in X
    PROVE  x \in Claim /\ x.domain = Domain
  BY PlannedClaims DEF ClaimOf, Whole

\* A claim to change the whole domain goes with no other, and needs no guard.
LEMMA ExclusiveAlone ==
    ASSUME NEW r \in Requests, NEW X \in Planned(r), Exclusive(X)
    PROVE  /\ \A q \in Requests : \A Y \in Planned(q) : Conflicts(X, Y) /\ Conflicts(Y, X)
           /\ \A v : Valid(v, r, X)
<1>1. PICK x \in X : x.scope = WholeDomain /\ x.mode = "exclusive"
  BY DEF Exclusive
<1>2. x \in Claim /\ x.domain = Domain
  BY ClaimDomains
<1>3. ASSUME NEW q \in Requests, NEW Y \in Planned(q)
      PROVE  Conflicts(X, Y) /\ Conflicts(Y, X)
  <2>1. PICK y \in Y : TRUE
    BY PlannedClaims
  <2>2. y \in Claim /\ y.domain = Domain
    BY ClaimDomains
  <2>3. Contains(x.scope, y.scope)
    BY <1>1, <2>2 DEF Contains, WholeDomain, Claim, LockScope
  <2>4. Collide(x, y) /\ Collide(y, x)
    BY <1>1, <1>2, <2>2, <2>3 DEF Collide
  <2> QED BY <2>4 DEF Conflicts
<1>4. ASSUME NEW v PROVE Valid(v, r, X)
  <2>1. \A a : Entitles(x, Whole(a))
    <3>1. Contains(x.scope, WholeDomain)
      BY <1>1 DEF Contains, WholeDomain
    <3> QED BY <1>1, <1>2, <3>1 DEF Entitles, Whole
  <2> QED BY <2>1 DEF Valid, Checked, Covers
<1> QED BY <1>3, <1>4

\* Where claims do not conflict, what one request writes is not nested with
\* what the other one names.
LEMMA PathsApart ==
    ASSUME NEW r \in Requests, NEW X \in Planned(r),
           NEW q \in Requests, NEW Y \in Planned(q), ~Conflicts(X, Y),
           NEW a \in r.actions, a.effect = "write", a.path \in Places,
           NEW b \in q.actions, b.path \in Places
    PROVE  ~Contains(a.path, b.path) /\ ~Contains(b.path, a.path)
<1>1. PICK x \in X : Entitles(x, ClaimOf(a)) /\ x.mode = "exclusive"
  BY WritePlanned
<1>2. PICK y \in Y : Entitles(y, ClaimOf(b))
  BY PlannedClaims
<1>3. /\ x \in Claim /\ x.domain = Domain /\ y \in Claim /\ y.domain = Domain
  BY ClaimDomains
<1>4. /\ x.scope \in LockScope /\ y.scope \in LockScope
      /\ a.path \in LockScope /\ b.path \in LockScope
  BY <1>3, PlaceShape DEF Claim, LockScope
<1>5. Contains(x.scope, a.path) /\ Contains(y.scope, b.path)
  <2>1. a.path # NoPath /\ b.path # NoPath
    BY AdmissionAssumption
  <2> QED BY <1>1, <1>2, <2>1 DEF Entitles, ClaimOf
<1>6. ~(Contains(x.scope, y.scope) \/ Contains(y.scope, x.scope))
  BY <1>1, <1>3 DEF Conflicts, Collide
<1>7. ASSUME Contains(a.path, b.path) PROVE FALSE
  <2>1. Contains(x.scope, b.path)
    BY <1>4, <1>5, <1>7, ContainsTransitive
  <2> QED BY <1>4, <1>5, <1>6, <2>1, ContainsComparable
<1>8. ASSUME Contains(b.path, a.path) PROVE FALSE
  <2>1. Contains(y.scope, a.path)
    BY <1>4, <1>5, <1>8, ContainsTransitive
  <2> QED BY <1>4, <1>5, <1>6, <2>1, ContainsComparable
<1> QED BY <1>7, <1>8

\* The work of one request leaves what another one validated true, if their
\* claims do not conflict,
LEMMA ValidBeside ==
    ASSUME NEW w \in Worlds,
           NEW r \in Requests, NEW X \in Planned(r), Valid(w, r, X),
           NEW q \in Requests, NEW Y \in Planned(q), ~Conflicts(X, Y),
           NEW b \in q.actions, Checked(w, b, Y), NEW v \in Outcomes(w, r)
    PROVE  Checked(v, b, Y)
<1>1. CASE \A a \in r.actions : a.effect = "read"
  BY <1>1, Reading
<1>2. CASE \E a \in r.actions : a.effect = "write"
  <2>1. PICK a \in r.actions : a.effect = "write"
    BY <1>2
  <2>2. \A d \in r.actions : d.path \in Places /\ Guard(w, d.path)
    BY <2>1, ExclusiveAlone, NarrowIsGuarded
  <2>3. \A x \in Places : x \notin {a.path} \cup Below(a.path) => v[x] = w[x]
    BY <2>1, <2>2, GuardedWork
  <2>4. ASSUME b.path # NoPath, Guard(w, b.path)
        PROVE  Guard(v, b.path)
    <3>1. b.path \in Places
      BY <2>4, RequestShape DEF Action
    <3>2. ~Contains(a.path, b.path) /\ ~Contains(b.path, a.path)
      BY <2>1, <2>2, <3>1, PathsApart
    <3> QED BY <2>2, <2>3, <2>4, <3>1, <3>2, GuardApart
  <2> QED BY <2>4 DEF Checked
<1> QED BY <1>1, <1>2, Reading

\* its own validation,
LEMMA ValidOwn ==
    ASSUME NEW w \in Worlds,
           NEW r \in Requests, NEW X \in Planned(r), Valid(w, r, X),
           NEW v \in Outcomes(w, r)
    PROVE  Valid(v, r, X)
<1>1. CASE \A a \in r.actions : a.effect = "read"
  BY <1>1, Reading
<1>2. CASE Exclusive(X)
  BY <1>2, ExclusiveAlone
<1>3. CASE ~Exclusive(X) /\ \E a \in r.actions : a.effect = "write"
  <2>1. PICK a \in r.actions : a.effect = "write"
    BY <1>3
  <2>2. \A b \in r.actions : b.path \in Places /\ Guard(w, b.path)
    BY <1>3, <2>1, NarrowIsGuarded
  <2>3. /\ \A x \in Places : x \notin {a.path} \cup Below(a.path) => v[x] = w[x]
        /\ \A x \in {a.path} \cup Below(a.path) : v[x].kind # "link"
        /\ r.kind = "copy" /\ w[a.path].kind = "dir" => v[a.path].kind = "dir"
    BY <2>1, <2>2, GuardedWork
  <2>4. ASSUME NEW b \in r.actions PROVE Guard(v, b.path)
    <3>1. a.path \in Places /\ b.path \in Places /\ Guard(w, b.path)
      BY <2>2
    <3>2. CASE Contains(b.path, a.path)
      BY <2>3, <3>1, <3>2, GuardAbove
    <3>3. CASE ~Contains(b.path, a.path) /\ ~Contains(a.path, b.path)
      BY <2>3, <3>1, <3>3, GuardApart
    <3>4. CASE ~Contains(b.path, a.path) /\ Contains(a.path, b.path)
      <4>1. Len(a.path) = 1 /\ Len(b.path) = 2 /\ a.path[1] = b.path[1]
        BY <3>1, <3>4, Nesting
      <4>2. r.kind = "copy"
        <5>1. b # a
          BY <4>1
        <5> QED BY <2>1, <5>1, Paths
      <4>3. Parent(b.path) = a.path /\ b.path \notin Top
        <5>1. a.path = << a.path[1] >> /\ Parent(b.path) = << b.path[1] >>
          BY <3>1, <4>1, TopShape DEF Parent
        <5>2. b.path \notin Top
          <6>1. b.path \in Top <=> Len(b.path) = 1
            BY <3>1, ParentShape
          <6>2. Len(b.path) = 2
            BY <4>1
          <6> QED BY <6>1, <6>2
        <5> QED BY <4>1, <5>1, <5>2
      <4>4. v[Parent(b.path)].kind = "dir"
        BY <2>3, <3>1, <4>2, <4>3 DEF Guard
      <4>5. Below(b.path) = {} /\ b.path \in Below(a.path)
        <5>1. \A x \in Below(b.path) : x \in Places
          BY DEF Below
        <5> QED BY <3>1, <4>1, <5>1, Nesting
      <4> QED BY <2>3, <4>4, <4>5 DEF Guard
    <3> QED BY <3>2, <3>3, <3>4
  <2> QED BY <2>4 DEF Valid, Checked
<1> QED BY <1>1, <1>2, <1>3, Reading

\* and what lasts of the session it is part of.
LEMMA ValidSession ==
    ASSUME NEW w \in Worlds,
           NEW r \in Requests, NEW X \in Planned(r), Valid(w, r, X),
           NEW s \in Sessions, Lasting(w, s, Plan(s)), Covers(Plan(s), X),
           NEW v \in Outcomes(w, r)
    PROVE  Lasting(v, s, Plan(s))
<1>1. s \in Requests /\ Plan(s) \in Planned(s)
  BY AdmissionAssumption DEF Planned
<1>2. CASE \A a \in r.actions : a.effect = "read"
  BY <1>2, Reading
<1>3. CASE Exclusive(Plan(s))
  BY <1>1, <1>3, ExclusiveAlone DEF Lasting, Outermost, Valid
<1>4. CASE ~Exclusive(Plan(s)) /\ \E a \in r.actions : a.effect = "write"
  <2>1. PICK a \in r.actions : a.effect = "write"
    BY <1>4
  <2>2. \A x \in X : \E h \in Plan(s) : Entitles(h, x)
    BY DEF Covers
  <2>3. ~Exclusive(X)
    <3> SUFFICES ASSUME NEW x \in X, x.scope = WholeDomain, x.mode = "exclusive"
                 PROVE  FALSE
      BY DEF Exclusive
    <3>1. PICK h \in Plan(s) : Entitles(h, x)
      BY <2>2
    <3>2. h.mode = "exclusive"
      BY <3>1 DEF Entitles
    <3>3. h.scope \in Seq(Parts) /\ Len(h.scope) = 0
      BY <1>1, <3>1, ClaimDomains DEF Entitles, Contains, WholeDomain, Claim, LockScope
    <3>4. h.scope = << >>
      BY <3>3
    <3> QED BY <1>4, <3>2, <3>4 DEF Exclusive, WholeDomain
  <2>4. \A b \in r.actions : b.path \in Places /\ Guard(w, b.path)
    BY <2>1, <2>3, NarrowIsGuarded
  <2>5. PICK x \in X : Entitles(x, ClaimOf(a)) /\ x.mode = "exclusive"
    BY <2>1, WritePlanned
  <2>6. PICK h \in Plan(s) : Entitles(h, x)
    BY <2>2
  <2>7. h.mode = "exclusive"
    BY <2>5, <2>6 DEF Entitles
  <2>8. PICK d \in s.actions : h = ClaimOf(d)
    BY <1>1, PlanCovers
  <2>9. d.effect = "write" /\ d.path \in Places
    <3>1. d.effect = "write"
      <4>1. h.mode = ModeOf(d)
        BY <2>8 DEF ClaimOf, Whole
      <4>2. d.effect \in {"read", "write"}
        BY <1>1, RequestShape DEF Action
      <4> QED BY <2>7, <4>1, <4>2 DEF ModeOf
    <3>2. d.path # NoPath
      BY <1>4, <2>7, <2>8 DEF ClaimOf, Whole, Exclusive
    <3> QED BY <1>1, <3>1, <3>2, RequestShape DEF Action
  <2>10. Contains(d.path, a.path)
    <3>1. h.scope = d.path /\ ClaimOf(a).scope = a.path
      BY <2>4, <2>8, <2>9, AdmissionAssumption DEF ClaimOf
    <3>2. d.path \in LockScope /\ a.path \in LockScope /\ x.scope \in LockScope
      BY <2>4, <2>9, PlaceShape, ClaimDomains DEF Claim, LockScope
    <3> QED BY <2>5, <2>6, <3>1, <3>2, ContainsTransitive DEF Entitles
  <2>11. /\ \A y \in Places : y \notin {a.path} \cup Below(a.path) => v[y] = w[y]
         /\ \A y \in {a.path} \cup Below(a.path) : v[y].kind # "link"
    BY <2>1, <2>4, GuardedWork
  <2>12. ASSUME NEW b \in Outermost(s), b.path # NoPath, Guard(w, b.path)
         PROVE  Guard(v, b.path)
    <3>1. a.path \in Places /\ b.path \in Places
      BY <1>1, <2>4, <2>12, RequestShape DEF Action, Outermost
    <3>2. CASE Contains(b.path, a.path)
      BY <2>11, <2>12, <3>1, <3>2, GuardAbove
    <3>3. CASE ~Contains(b.path, a.path)
      <4>1. b # d
        BY <2>10, <3>3
      <4>2. ~Contains(d.path, b.path)
        BY <2>9, <4>1 DEF Outermost
      <4>3. ~Contains(a.path, b.path)
        <5>1. d.path \in LockScope /\ a.path \in LockScope /\ b.path \in LockScope
          BY <2>9, <3>1, PlaceShape DEF LockScope
        <5> QED BY <2>10, <4>2, <5>1, ContainsTransitive
      <4> QED BY <2>11, <2>12, <3>1, <3>3, <4>3, GuardApart
    <3> QED BY <3>2, <3>3
  <2> QED BY <2>12 DEF Lasting, Checked
<1> QED BY <1>2, <1>3, <1>4, Reading

\* Work keeps what every validation found.
LEMMA WorkSound ==
    ASSUME Inv, NEW c \in Callers, Work(c)
    PROVE  Inv'
<1>1. /\ caller[c].pc = "working" /\ world \in Worlds
      /\ world' \in Outcomes(world, caller[c].request) /\ caller' = caller
  BY DEF Work, Inv, TypeOK
<1>2. /\ caller[c].request \in Requests /\ caller[c].claims \in Planned(caller[c].request)
      /\ Valid(world, caller[c].request, caller[c].claims)
      /\ caller[c].held = {} \/ Covers(caller[c].held, caller[c].claims)
  BY <1>1, RowFacts DEF RowOK
<1>3. TypeOK'
  <2>1. world' \in Worlds
    BY <1>1, <1>2, OutcomesType
  <2> QED BY <1>1, <2>1 DEF Inv, TypeOK
<1>4. Rows' /\ Apart'
  BY <1>1 DEF Inv, Rows, Apart, Reserved
<1>5. ASSUME NEW d \in Callers, d # c, NEW q \in Requests, NEW Y \in Planned(q),
             Y \subseteq Reserved(d), NEW a \in q.actions, Checked(world, a, Y)
      PROVE  Checked(world', a, Y)
  <2>1. ~Conflicts(caller[c].claims, Y)
    <3>1. ~Conflicts(Reserved(c), Reserved(d))
      BY <1>5 DEF Inv, Apart
    <3>2. caller[c].claims \subseteq Reserved(c)
      BY <1>1 DEF Reserved
    <3> QED BY <1>5, <3>1, <3>2 DEF Conflicts
  <2> QED BY <1>1, <1>2, <1>5, <2>1, ValidBeside
<1>6. ASSUME NEW d \in Callers, caller[d].pc = "working"
      PROVE  Valid(world', caller[d].request, caller[d].claims)
  <2>1. CASE d = c
    BY <1>1, <1>2, <2>1, ValidOwn
  <2>2. CASE d # c
    <3>1. /\ caller[d].request \in Requests /\ caller[d].claims \in Planned(caller[d].request)
          /\ Valid(world, caller[d].request, caller[d].claims)
      BY <1>6, RowFacts DEF RowOK
    <3>2. caller[d].claims \subseteq Reserved(d)
      BY <1>6 DEF Reserved
    <3> QED BY <1>5, <2>2, <3>1, <3>2 DEF Valid
  <2> QED BY <2>1, <2>2
<1>7. ASSUME NEW d \in Callers, caller[d].session # NoRequest, caller[d].pc # "granted"
      PROVE  Lasting(world', caller[d].session, caller[d].held)
  <2>1. /\ caller[d].session \in Sessions /\ caller[d].session \in Requests
        /\ caller[d].held = Plan(caller[d].session)
        /\ caller[d].held \in Planned(caller[d].session)
        /\ Lasting(world, caller[d].session, caller[d].held)
    BY <1>7, RowFacts DEF RowOK, Planned
  <2>2. CASE d = c
    <3>1. caller[c].held # {}
      BY <2>1, <2>2, PlannedClaims
    <3>2. Covers(Plan(caller[d].session), caller[c].claims)
      BY <1>2, <2>1, <2>2, <3>1
    <3>3. Lasting(world', caller[d].session, Plan(caller[d].session))
      BY <1>1, <1>2, <2>1, <3>2, ValidSession
    <3> QED BY <2>1, <3>3
  <2>3. CASE d # c
    <3>1. caller[d].held \subseteq Reserved(d)
      BY DEF Reserved
    <3> QED BY <1>5, <2>1, <2>3, <3>1 DEF Lasting, Outermost
  <2> QED BY <2>2, <2>3
<1>8. StillValid'
  BY <1>1, <1>6, <1>7 DEF StillValid, Lasting
<1> QED BY <1>3, <1>4, <1>8 DEF Inv

-----------------------------------------------------------------------------
(* The invariant *)

\* The invariant holds of a service nobody uses yet,
LEMMA InvInit == Init => Inv
<1> SUFFICES ASSUME Init PROVE Inv
  OBVIOUS
<1>1. world \in Worlds /\ caller = [c \in Callers |-> Idle]
  BY DEF Init
<1>2. \A c \in Callers : caller[c] = Idle
  BY <1>1
<1>3. TypeOK
  BY <1>1, IdleRow DEF TypeOK
<1>4. Rows
  BY <1>2, IdleRow DEF Rows
<1>5. Apart
  <2>1. \A c \in Callers : Reserved(c) = {}
    BY <1>2, IdleRow, ReservedIs
  <2> QED BY <2>1 DEF Apart, Conflicts
<1>6. StillValid
  BY <1>2 DEF StillValid, Idle
<1> QED BY <1>3, <1>4, <1>5, <1>6 DEF Inv

\* and every step of every caller keeps it.
LEMMA InvNext == Inv /\ [Next]_vars => Inv'
<1> SUFFICES ASSUME Inv, [Next]_vars PROVE Inv'
  OBVIOUS
<1>1. ASSUME NEW c \in Callers, Proceed(c) PROVE Inv'
  <2>1. CASE ValidateSession(c) \/ ValidateSessionFails(c)
    BY <2>1, SessionSound
  <2>2. CASE Admit(c)
    BY <2>2, AdmitSound
  <2>3. CASE Refused(c) \/ Finish(c) \/ CheckJobFails(c)
    BY <2>3, EndSound
  <2>4. CASE Validate(c) \/ ValidateFails(c)
    BY <2>4, ValidateSound
  <2>5. CASE Submit(c)
    BY <2>5, SubmitSound
  <2>6. CASE StartJob(c)
    BY <2>6, StartJobSound
  <2>7. CASE CheckJob(c)
    BY <2>7, CheckJobSound
  <2> QED BY <1>1, <2>1, <2>2, <2>3, <2>4, <2>5, <2>6, <2>7 DEF Proceed
<1>2. ASSUME NEW c \in Callers, CloseSession(c) PROVE Inv'
  BY <1>2, SessionSound
<1>3. CASE Next
  BY <1>1, <1>2, <1>3, AcquireSound, AskSound, WorkSound DEF Next
<1>4. CASE UNCHANGED vars
  <2>1. world' = world /\ caller' = caller
    BY <1>4 DEF vars
  <2>2. TypeOK' /\ Rows' /\ Apart' /\ StillValid'
    BY <2>1 DEF Inv, TypeOK, Rows, Apart, Reserved, StillValid
  <2> QED BY <2>2 DEF Inv
<1> QED BY <1>3, <1>4

\* The claims of two workers that do not conflict keep their work apart,
\* wherever their paths lead.
LEMMA WorkersApart == Inv => NoInterference
<1> SUFFICES ASSUME Inv, NEW b \in Callers, NEW c \in Callers, b # c,
                    caller[b].pc = "working", caller[c].pc = "working",
                    NEW x \in Changes(world, caller[b].request),
                    x \in Depends(world, caller[c].request)
             PROVE  FALSE
  BY DEF NoInterference
<1> DEFINE r == caller[b].request
           X == caller[b].claims
           q == caller[c].request
           Y == caller[c].claims
<1>1. /\ world \in Worlds
      /\ r \in Requests /\ X \in Planned(r) /\ Valid(world, r, X)
      /\ q \in Requests /\ Y \in Planned(q) /\ Valid(world, q, Y)
  BY RowFacts DEF RowOK, Inv, TypeOK
<1>2. ~Conflicts(X, Y)
  BY DEF Inv, Apart, Reserved, Conflicts
<1>3. x \in Changes(world, r) /\ x \in Depends(world, q)
  OBVIOUS
<1> HIDE DEF r, X, q, Y
<1>4. PICK a \in r.actions : a.effect = "write"
  BY <1>1, <1>3, Reading
<1>5. \A d \in r.actions : d.path \in Places /\ Guard(world, d.path)
  BY <1>1, <1>2, <1>4, ExclusiveAlone, NarrowIsGuarded
<1>6. x \in {a.path} \cup Below(a.path)
  BY <1>1, <1>3, <1>4, <1>5, GuardedChanges
<1>7. \A y \in Y : y.scope # WholeDomain
  <2> SUFFICES ASSUME NEW y \in Y, y.scope = WholeDomain PROVE FALSE
    OBVIOUS
  <2>1. PICK z \in X : z.mode = "exclusive"
    BY <1>1, <1>4, WritePlanned
  <2>2. z \in Claim /\ z.domain = Domain /\ y \in Claim /\ y.domain = Domain
    BY <1>1, ClaimDomains
  <2>3. Contains(y.scope, z.scope)
    BY <2>2 DEF Contains, WholeDomain, Claim, LockScope
  <2> QED BY <1>2, <2>1, <2>2, <2>3 DEF Conflicts, Collide
<1>8. ASSUME NEW d \in q.actions
      PROVE  d.path \in Places /\ Guard(world, d.path)
  <2>1. d \in Action
    BY <1>1, RequestShape
  <2>2. ~Covers(Y, {Whole(d)})
    <3> SUFFICES ASSUME NEW y \in Y, Entitles(y, Whole(d)) PROVE FALSE
      BY DEF Covers
    <3>1. y.scope \in Seq(Parts)
      BY <1>1, ClaimDomains DEF Claim, LockScope
    <3>2. Len(y.scope) = 0
      BY <3>1 DEF Entitles, Contains, Whole, WholeDomain
    <3>3. y.scope = << >>
      BY <3>1, <3>2
    <3> QED BY <1>7, <3>3 DEF WholeDomain
  <2>3. d.path # NoPath
    <3>1. PICK y \in Y : Entitles(y, ClaimOf(d))
      BY <1>1, PlannedClaims
    <3> QED BY <2>2, <3>1 DEF ClaimOf, Covers
  <2> QED BY <1>1, <2>1, <2>2, <2>3 DEF Valid, Checked, Action
<1>9. q.kind # "exec"
  <2> SUFFICES ASSUME q.kind = "exec" PROVE FALSE
    OBVIOUS
  <2>1. \E d \in q.actions : d.path = NoPath
    BY <1>1, RequestShape DEF WellFormed
  <2> QED BY <1>8, <2>1, AdmissionAssumption
<1>10. PICK d \in q.actions : x \in {d.path, Parent(d.path)} \cup Below(d.path)
  BY <1>1, <1>3, <1>8, <1>9, GuardedDepends
<1>11. ~Contains(a.path, d.path) /\ ~Contains(d.path, a.path)
  BY <1>1, <1>2, <1>4, <1>5, <1>8, PathsApart
<1> QED BY <1>5, <1>6, <1>8, <1>10, <1>11, Beside

\* The rows of the callers, the claims on record and the file system keep
\* agreeing (_operation(), acquire_locks(), _submit(), the worker).
THEOREM AdmissionInvariant == Spec => []Inv
<1> QED BY InvInit, InvNext, PTL DEF Spec

\* The file system stays a tree, and every caller's claims are those planned
\* for what it asked for.
THEOREM TypeCorrect == Spec => []TypeOK
<1>1. Inv => TypeOK
  BY DEF Inv
<1> QED BY <1>1, AdmissionInvariant, PTL

\* What validate_filesystem_footprint() found is not made wrong while the
\* claims are held: not by others, not by the work itself, and not by work
\* within the session.
THEOREM ValidityKept == Spec => []StillValid
<1>1. Inv => StillValid
  BY DEF Inv
<1> QED BY <1>1, AdmissionInvariant, PTL

\* Two requests at work never meet: neither changes what the other's outcome
\* may depend on, whatever links lead where.
THEOREM WorkApart == Spec => []NoInterference
<1> QED BY WorkersApart, AdmissionInvariant, PTL
=============================================================================
