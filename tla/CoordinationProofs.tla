-------------------------- MODULE CoordinationProofs --------------------------
(***************************************************************************)
(* The safety of Coordination for any number of sessions, operations,      *)
(* resources and requests, and any clock bound, and that it implements its *)
(* two contracts: every step of it, whatever transaction, crash or tick it *)
(* is, is an abstract drop or grant of Reservations, or no step at all;    *)
(* and each job's row implements JobClaim.  The algebra the claims are     *)
(* decided with means what it should, for claims of any depth, and a       *)
(* managed session's check is right, for every lease.                      *)
(***************************************************************************)
EXTENDS Coordination, ClaimRights, ManagedSession, FiniteSetTheorems, WellFoundedInduction, TLAPS
-----------------------------------------------------------------------------
(* The overlap algebra, for every domain, path and set of claims. *)

\* Normalizing keeps a subset of the claims (claims.py normalize).
LEMMA NormalizeSubset ==
    ASSUME NEW C PROVE Normalize(C) \subseteq C
  BY DEF Normalize

\* The order in which _check compares two reservations does not matter
\* (claims.py conflicts).
LEMMA ConflictsSymmetric ==
    ASSUME NEW C, NEW D, Conflicts(C, D) PROVE Conflicts(D, C)
  BY DEF Conflicts, Collide

\* Two scopes that contain a third are nested one in the other.
LEMMA ContainsComparable ==
    ASSUME NEW p \in LockScope, NEW q \in LockScope, NEW r \in LockScope,
           Contains(p, r), Contains(q, r)
    PROVE  Contains(p, q) \/ Contains(q, p)
  <1>1. CASE Len(p) <= Len(q)
    BY <1>1 DEF Contains, LockScope
  <1>2. CASE Len(q) <= Len(p)
    BY <1>2 DEF Contains, LockScope
  <1> QED
    BY <1>1, <1>2 DEF LockScope

LEMMA ContainsTransitive ==
    ASSUME NEW p \in LockScope, NEW q \in LockScope, NEW r \in LockScope,
           Contains(p, q), Contains(q, r)
    PROVE  Contains(p, r)
  BY DEF Contains, LockScope

LEMMA EntitlesTransitive ==
    ASSUME NEW a \in Claim, NEW b \in Claim, NEW c \in Claim,
           Entitles(a, b), Entitles(b, c)
    PROVE  Entitles(a, c)
  <1>1. Contains(a.scope, c.scope)
    BY ContainsTransitive DEF Entitles, Claim
  <1> QED
    BY <1>1 DEF Entitles, Claim, LockMode

\* A claim excludes whatever the claims it entitles to exclude.
LEMMA EntitlesCollides ==
    ASSUME NEW a \in Claim, NEW b \in Claim, NEW c \in Claim,
           Entitles(a, b), Collide(b, c)
    PROVE  Collide(a, c)
  <1>1. Contains(a.scope, c.scope) \/ Contains(c.scope, a.scope)
    <2> USE DEF Claim
    <2>1. Contains(a.scope, b.scope)
      BY DEF Entitles
    <2>2. CASE Contains(b.scope, c.scope)
      BY <2>1, <2>2, ContainsTransitive
    <2>3. CASE Contains(c.scope, b.scope)
      BY <2>1, <2>3, ContainsComparable
    <2> QED
      BY <2>2, <2>3 DEF Collide
  <1> QED
    BY <1>1 DEF Entitles, Collide, Claim, LockMode

\* A plan that covers a second, which covers a third, covers the third:
\* a worker revalidated against its job's claims stays within the session
\* the job was admitted under (admit, validate_job).
THEOREM CoversTransitive ==
    ASSUME NEW A \in SUBSET Claim, NEW B \in SUBSET Claim, NEW C \in SUBSET Claim,
           Covers(A, B), Covers(B, C)
    PROVE  Covers(A, C)
  <1> SUFFICES ASSUME NEW c \in C
               PROVE  \E a \in A : Entitles(a, c)
    BY DEF Covers
  <1>1. PICK b \in B : Entitles(b, c)
    BY DEF Covers
  <1>2. PICK a \in A : Entitles(a, b)
    BY DEF Covers
  <1> QED
    BY <1>1, <1>2, EntitlesTransitive

\* A reservation that covers an admission conflicts with everything the
\* admission conflicts with, so what is checked against the session need not
\* be checked against its operations again (claims.py covers, conflicts).
THEOREM CoverageExcludes ==
    ASSUME NEW H \in SUBSET Claim, NEW N \in SUBSET Claim, NEW C \in SUBSET Claim,
           Covers(H, N), Conflicts(N, C)
    PROVE  Conflicts(H, C)
  <1>1. PICK n \in N, c \in C : Collide(n, c)
    BY DEF Conflicts
  <1>2. PICK h \in H : Entitles(h, n)
    BY DEF Covers
  <1>3. Collide(h, c)
    BY <1>1, <1>2, EntitlesCollides
  <1> QED
    BY <1>3 DEF Conflicts

-----------------------------------------------------------------------------
(* What the algebra means: rights on paths (module ClaimRights). *)

\* A set of natural numbers has a least one.
LEMMA LeastNatural ==
    ASSUME NEW T, T \subseteq Nat, T # {}
    PROVE  \E i \in T : \A j \in T : i <= j
<1> DEFINE I == {1..i : i \in T}
           R == StrictSubsetOrdering(Nat)
<1>1. I \subseteq FiniteSubsetsOf(Nat) /\ I # {}
  <2>1. ASSUME NEW i \in Nat
        PROVE  1..i \in FiniteSubsetsOf(Nat)
    <3>1. IsFiniteSet(1..i)
      BY FS_Interval
    <3>2. 1..i \subseteq Nat
      OBVIOUS
    <3> QED  BY <3>1, <3>2 DEF FiniteSubsetsOf
  <2> QED  BY <2>1
<1>2. PICK A \in I : \A B \in I : << B, A >> \notin R
  <2> HIDE DEF R, I
  <2> QED  BY <1>1, WFMin, FS_StrictSubsetOrderingWellFounded DEF R
<1>3. PICK i \in T : A = 1..i
  BY <1>2
<1>4. ASSUME NEW j \in T, j < i
      PROVE  FALSE
  <2>1. 1..j \subseteq 1..i /\ 1..j # 1..i /\ 1..j \subseteq Nat /\ 1..i \subseteq Nat
    <3> i \in 1..i /\ i \notin 1..j
      BY <1>4
    <3> QED  BY <1>4
  <2>2. << 1..j, 1..i >> \in R
    BY <2>1 DEF StrictSubsetOrdering
  <2>3. 1..j \in I
    OBVIOUS
  <2> HIDE DEF R, I
  <2> QED  BY <1>2, <1>3, <2>2, <2>3
<1> QED  BY <1>3, <1>4

\* The paths a claim is about, and what it lets its owner do on them.
At(c, p) == p \in Paths /\ \A i \in 1..Len(c.scope) : p[i] = c.scope[i]

Modes(c) == IF c.mode = "exclusive" THEN LockMode ELSE {"shared"}

\* A claim of the universe is a claim, on a scope no longer than the paths.
LEMMA UniverseClaim ==
    ASSUME NEW c \in Universe
    PROVE  c \in Claim /\ Len(c.scope) <= Depth
  <1>1. c \in [domain : Domains, scope : Scopes, mode : LockMode]
    BY DEF Universe
  <1>2. PICK n \in 0..Depth : c.scope \in [1..n -> Parts]
    BY <1>1 DEF Scopes
  <1>3. c.scope \in Seq(Parts) /\ Len(c.scope) = n
    BY <1>2, ClaimRightsAssumption
  <1>4. PICK d \in Domains, s \in LockScope, m \in LockMode :
            c = [domain |-> d, scope |-> s, mode |-> m]
    BY <1>1, <1>3 DEF LockScope
  <1> QED
    BY <1>2, <1>3, <1>4, ClaimRightsAssumption DEF Claim

\* A right is one that some claim gives.
LEMMA RightsMember ==
    ASSUME NEW C, NEW x
    PROVE  x \in Rights(C) <=>
              \E c \in C, p \in Paths, m \in LockMode :
                  /\ x = [domain |-> c.domain, path |-> p, mode |-> m]
                  /\ At(c, p) /\ m \in Modes(c)
  BY DEF Rights, At, Modes, LockMode

\* An entitlement is a containment of rights.
LEMMA EntitledRights ==
    ASSUME NEW a \in Universe, NEW b \in Universe,
           Entitles(a, b)
    PROVE  /\ \A p : At(b, p) => At(a, p)
           /\ Modes(b) \subseteq Modes(a)
  <1>1. a \in Claim /\ b \in Claim
    BY UniverseClaim
  <1>2. Contains(a.scope, b.scope) /\ (a.mode = "exclusive" \/ b.mode = "shared")
    BY DEF Entitles
  <1>3. Len(a.scope) \in Nat /\ Len(b.scope) \in Nat
    BY <1>1 DEF Claim, LockScope
  <1>4. \A p : At(b, p) => At(a, p)
    BY <1>2, <1>3 DEF Contains, At
  <1>5. Modes(b) \subseteq Modes(a)
    BY <1>2 DEF Modes, LockMode
  <1> QED
    BY <1>4, <1>5

\* Coverage is a containment of rights.
LEMMA CoveredRights ==
    ASSUME NEW C, C \subseteq Universe,
           NEW D, D \subseteq Universe, Covers(C, D)
    PROVE  Rights(D) \subseteq Rights(C)
  <1> SUFFICES ASSUME NEW x \in Rights(D) PROVE x \in Rights(C)
    OBVIOUS
  <1>1. PICK d \in D, p \in Paths, m \in LockMode :
            /\ x = [domain |-> d.domain, path |-> p, mode |-> m]
            /\ At(d, p) /\ m \in Modes(d)
    BY RightsMember
  <1>2. PICK c \in C : Entitles(c, d)
    BY DEF Covers
  <1>3. At(c, p) /\ m \in Modes(c)
    BY <1>1, <1>2, EntitledRights
  <1>4. c.domain = d.domain
    BY <1>2 DEF Entitles
  <1> QED
    BY <1>1, <1>3, <1>4, RightsMember

\* A scope of the universe is about some path.
LEMMA SomePath ==
    ASSUME NEW c \in Universe
    PROVE  \E p \in Paths : At(c, p)
  <1>1. c \in Claim /\ Len(c.scope) <= Depth
    BY UniverseClaim
  <1>2. c.scope \in Seq(Parts) /\ Len(c.scope) \in Nat
    BY <1>1 DEF Claim, LockScope
  <1>3. PICK any : any \in Parts
    BY ClaimRightsAssumption
  <1> DEFINE p == [i \in 1..Depth |-> IF i <= Len(c.scope) THEN c.scope[i] ELSE any]
  <1>4. p \in Paths
    BY <1>1, <1>2, <1>3, ClaimRightsAssumption DEF Paths
  <1>5. \A i \in 1..Len(c.scope) : p[i] = c.scope[i]
    BY <1>1, <1>2, ClaimRightsAssumption
  <1> QED
    BY <1>4, <1>5 DEF At

\* Claims that collide touch one path, where one of them may change it.
LEMMA CollisionInterferes ==
    ASSUME NEW a \in Universe, NEW b \in Universe
    PROVE  Collide(a, b) <=>
              /\ a.domain = b.domain
              /\ \E p \in Paths : At(a, p) /\ At(b, p)
              /\ "exclusive" \in {a.mode, b.mode}
  <1>1. a \in Claim /\ b \in Claim
    BY UniverseClaim
  <1>2. Len(a.scope) \in Nat /\ Len(b.scope) \in Nat
    BY <1>1 DEF Claim, LockScope
  <1>3. ASSUME Contains(a.scope, b.scope)
        PROVE  \E p \in Paths : At(a, p) /\ At(b, p)
    <2>1. PICK p \in Paths : At(b, p)
      BY SomePath
    <2>2. At(a, p)
      BY <1>2, <1>3, <2>1 DEF At, Contains
    <2> QED
      BY <2>1, <2>2
  <1>4. ASSUME Contains(b.scope, a.scope)
        PROVE  \E p \in Paths : At(a, p) /\ At(b, p)
    <2>1. PICK p \in Paths : At(a, p)
      BY SomePath
    <2>2. At(b, p)
      BY <1>2, <1>4, <2>1 DEF At, Contains
    <2> QED
      BY <2>1, <2>2
  <1>5. ASSUME NEW p, At(a, p), At(b, p)
        PROVE  Contains(a.scope, b.scope) \/ Contains(b.scope, a.scope)
    <2>1. CASE Len(a.scope) <= Len(b.scope)
      BY <1>2, <1>5, <2>1 DEF At, Contains
    <2>2. CASE Len(b.scope) <= Len(a.scope)
      BY <1>2, <1>5, <2>2 DEF At, Contains
    <2> QED
      BY <1>2, <2>1, <2>2
  <1> QED
    BY <1>3, <1>4, <1>5 DEF Collide

\* A reservation that covers an admission holds every right the admission uses and
\* excludes whatever its claims would exclude, whatever the claims and however
\* long the paths (claims.py covers).
THEOREM CoveringIsSound ==
    ASSUME NEW left, left \subseteq Universe, NEW right, right \subseteq Universe
    PROVE  CoverageIsSound(left, right)
  <1> SUFFICES ASSUME Covers(left, right)
               PROVE  /\ Rights(right) \subseteq Rights(left)
                      /\ \A c \in Universe :
                             Conflicts(right, {c}) => Conflicts(left, {c})
    BY DEF CoverageIsSound
  <1>1. Rights(right) \subseteq Rights(left)
    BY CoveredRights
  <1>2. ASSUME NEW c \in Universe, Conflicts(right, {c})
        PROVE  Conflicts(left, {c})
    <2>1. left \subseteq Claim /\ right \subseteq Claim /\ {c} \subseteq Claim
      BY UniverseClaim
    <2> QED
      BY <1>2, <2>1, CoverageExcludes
  <1> QED
    BY <1>1, <1>2

\* Two sets of claims conflict exactly when some path is touched by both and one
\* of them may change it (claims.py conflicts).
THEOREM ConflictingIsInterference ==
    ASSUME NEW left, left \subseteq Universe, NEW right, right \subseteq Universe
    PROVE  ConflictIsInterference(left, right)
  <1>1. ASSUME Conflicts(left, right) PROVE Interfere(left, right)
    <2>1. PICK a \in left, b \in right : Collide(a, b)
      BY <1>1 DEF Conflicts
    <2>2. a \in Universe /\ b \in Universe
      OBVIOUS
    <2>3. PICK p \in Paths : At(a, p) /\ At(b, p)
      BY <2>1, <2>2, CollisionInterferes
    <2>4. a.domain = b.domain /\ "exclusive" \in {a.mode, b.mode}
      BY <2>1 DEF Collide
    <2>5. PICK m \in Modes(a), n \in Modes(b) : "exclusive" \in {m, n}
      BY <2>4 DEF Modes, LockMode
    <2> DEFINE x == [domain |-> a.domain, path |-> p, mode |-> m]
               y == [domain |-> b.domain, path |-> p, mode |-> n]
    <2>6. m \in LockMode /\ n \in LockMode
      BY DEF Modes, LockMode
    <2>7. x \in Rights(left) /\ y \in Rights(right)
      BY <2>3, <2>6, RightsMember
    <2>8. x.domain = y.domain /\ x.path = y.path /\ "exclusive" \in {x.mode, y.mode}
      BY <2>4, <2>5
    <2> HIDE DEF x, y
    <2> QED
      BY <2>7, <2>8 DEF Interfere
  <1>2. ASSUME Interfere(left, right) PROVE Conflicts(left, right)
    <2>1. PICK x \in Rights(left), y \in Rights(right) :
              x.domain = y.domain /\ x.path = y.path /\ "exclusive" \in {x.mode, y.mode}
      BY <1>2 DEF Interfere
    <2>2. PICK a \in left, p \in Paths, m \in LockMode :
              /\ x = [domain |-> a.domain, path |-> p, mode |-> m]
              /\ At(a, p) /\ m \in Modes(a)
      BY RightsMember
    <2>3. PICK b \in right, q \in Paths, n \in LockMode :
              /\ y = [domain |-> b.domain, path |-> q, mode |-> n]
              /\ At(b, q) /\ n \in Modes(b)
      BY RightsMember
    <2>4. a.domain = b.domain /\ p = q /\ "exclusive" \in {m, n}
      BY <2>1, <2>2, <2>3
    <2>5. "exclusive" \in {a.mode, b.mode}
      BY <2>2, <2>3, <2>4 DEF Modes
    <2>6. a \in Universe /\ b \in Universe
      OBVIOUS
    <2>7. Collide(a, b)
      BY <2>2, <2>3, <2>4, <2>5, <2>6, CollisionInterferes
    <2> QED
      BY <2>7 DEF Conflicts
  <1> QED
    BY <1>1, <1>2 DEF ConflictIsInterference

\* Whatever a set of claims entitles to, its normal form does: among the claims that
\* entitle to one, a shortest, and an exclusive one of those if there is one, is kept.
LEMMA NormalizeCovers ==
    ASSUME NEW C, C \subseteq Claim
    PROVE  Covers(Normalize(C), C)
  <1> SUFFICES ASSUME NEW c \in C PROVE \E n \in Normalize(C) : Entitles(n, c)
    BY DEF Covers
  <1> DEFINE Size(d) == 2 * Len(d.scope) + (IF d.mode = "exclusive" THEN 0 ELSE 1)
             T == {Size(d) : d \in {e \in C : Entitles(e, c)}}
  <1>1. ASSUME NEW d \in C PROVE Len(d.scope) \in Nat /\ Size(d) \in Nat
    <2>1. d.scope \in Seq(Parts)
      BY DEF Claim, LockScope
    <2>2. PICK k \in Nat : k = Len(d.scope)
      BY <2>1
    <2>3. PICK m \in {0, 1} : m = IF d.mode = "exclusive" THEN 0 ELSE 1
      OBVIOUS
    <2>4. Size(d) = 2 * k + m
      BY <2>2, <2>3
    <2>5. 2 * k + m \in Nat
      OBVIOUS
    <2> HIDE DEF Size
    <2> QED
      BY <2>2, <2>4, <2>5
  <1>2. Entitles(c, c)
    BY DEF Entitles, Contains, Claim, LockMode, LockScope
  <1>3. T \subseteq Nat /\ T # {}
    BY <1>1, <1>2
  <1>4. PICK least \in T : \A k \in T : least <= k
    <2> HIDE DEF T
    <2> QED
      BY <1>3, LeastNatural
  <1>5. PICK d \in C : Entitles(d, c) /\ Size(d) = least
    BY <1>4
  <1>6. ASSUME NEW e \in C \ {d}, Entitles(e, d) PROVE FALSE
    <2>1. Entitles(e, c)
      BY <1>5, <1>6, EntitlesTransitive
    <2>2. Size(d) <= Size(e)
      <3>1. Size(e) \in T
        BY <1>6, <2>1
      <3> HIDE DEF T, Size
      <3> QED
        BY <1>4, <1>5, <3>1
    <2>3. PICK sd, se, md, me :
              /\ sd = d.scope /\ se = e.scope /\ md = d.mode /\ me = e.mode
      OBVIOUS
    <2>4. /\ sd \in LockScope /\ se \in LockScope /\ md \in LockMode /\ me \in LockMode
      BY <2>3 DEF Claim
    <2>5. Len(se) <= Len(sd) /\ (me = "exclusive" \/ md = "shared")
      BY <1>6, <2>3 DEF Entitles, Contains
    <2>6. Len(se) = Len(sd) /\ me = md
      <3>1. Len(se) \in Nat /\ Len(sd) \in Nat
        BY <2>4 DEF LockScope
      <3>2. 2 * Len(sd) + (IF md = "exclusive" THEN 0 ELSE 1)
                <= 2 * Len(se) + (IF me = "exclusive" THEN 0 ELSE 1)
        BY <2>2, <2>3
      <3>3. Len(se) = Len(sd)
        BY <2>5, <3>1, <3>2
      <3> QED
        BY <2>4, <2>5, <3>1, <3>2, <3>3 DEF LockMode
    <2>7. se = sd
      <3>1. \A i \in 1..Len(se) : se[i] = sd[i]
        BY <1>6, <2>3 DEF Entitles, Contains
      <3> QED
        BY <3>1, <2>4, <2>6 DEF LockScope
    <2>8. e.domain = d.domain
      BY <1>6 DEF Entitles
    <2>9. d = [domain |-> d.domain, scope |-> sd, mode |-> md]
          /\ e = [domain |-> e.domain, scope |-> se, mode |-> me]
      BY <2>3 DEF Claim
    <2> QED
      BY <2>6, <2>7, <2>8, <2>9
  <1>7. d \in Normalize(C)
    BY <1>6 DEF Normalize, Covers
  <1> QED
    BY <1>5, <1>7

\* Normalizing a plan drops no right and changes no later decision, and leaves
\* nothing redundant (claims.py normalize).
THEOREM NormalizingKeepsMeaning ==
    ASSUME NEW left, left \subseteq Universe, NEW right, right \subseteq Universe
    PROVE  NormalizeKeepsMeaning(left, right)
  <1> DEFINE n == Normalize(left)
  <1>1. left \subseteq Claim /\ right \subseteq Claim /\ n \subseteq left
    BY UniverseClaim, NormalizeSubset
  <1>2. Covers(n, left)
    BY <1>1, NormalizeCovers
  <1>3. Covers(left, n)
    <2>1. \A c \in left : Entitles(c, c)
      BY <1>1 DEF Entitles, Contains, Claim, LockMode, LockScope
    <2> QED
      BY <1>1, <2>1 DEF Covers
  <1> HIDE DEF n
  <1>4. n \subseteq Universe /\ left \subseteq Universe
    BY <1>1
  <1>5. Rights(n) = Rights(left)
    <2>1. Rights(left) \subseteq Rights(n)
      BY <1>2, <1>4, CoveredRights
    <2>2. Rights(n) \subseteq Rights(left)
      BY <1>3, <1>4, CoveredRights
    <2> QED
      BY <2>1, <2>2
  <1>6. Conflicts(n, right) <=> Conflicts(left, right)
    BY <1>1, <1>2, CoverageExcludes DEF Conflicts
  <1>7. Covers(n, right) <=> Covers(left, right)
    BY <1>1, <1>2, CoversTransitive DEF Covers
  <1>8. \A c \in n : ~Covers(n \ {c}, {c})
    BY <1>1 DEF n, Normalize, Covers
  <1> QED
    BY <1>2, <1>5, <1>6, <1>7, <1>8 DEF NormalizeKeepsMeaning, n

-----------------------------------------------------------------------------
(* The two tables. *)

\* What every transaction keeps true of the two tables.
Tables(S, O) ==
    /\ S \in [Sessions -> SessionRow]
    /\ O \in [Ops -> OpRow]
    /\ OpsExclusive(O)
    /\ SessionsExclusive(S)
    /\ ForeignExclusive(S, O)
    /\ WithinSession(S, O)

LEMMA InvTables == Inv => Tables(session, op)
  BY DEF Inv, TypeOK, Tables, NoConflictingOwnership, OpsWithinSession

\* The claims of an admissible request are well formed.
LEMMA RequestClaimsType ==
    ASSUME NEW r \in Requests
    PROVE  /\ RequestClaims(r) \in SUBSET Claim
           /\ r.scopes \in SUBSET JobScope
           /\ r.local \in BOOLEAN
  <1> USE CoordinationAssumption
  <1>1. r \in Request
    OBVIOUS
  <1>2. << >> \in LockScope
    BY DEF LockScope
  <1>3. BroadClaims(r.scopes) \in SUBSET Claim
    <2> DEFINE C == {[domain |-> Key[s.resource], scope |-> WholeDomain,
                      mode |-> IF s.operation \in Mutating THEN "exclusive" ELSE "shared"] :
                         s \in r.scopes}
    <2>1. C \subseteq Claim
      BY <1>1, <1>2 DEF Claim, Request, JobScope, LockMode, WholeDomain
    <2>2. Normalize(C) \subseteq C
      BY NormalizeSubset
    <2> QED
      BY <2>1, <2>2 DEF BroadClaims
  <1>4. r.plan # NoPlan => Normalize(r.plan) \in SUBSET Claim
    <2>1. r.plan # NoPlan => r.plan \in SUBSET Claim
      BY <1>1 DEF Request
    <2> QED
      BY <2>1, NormalizeSubset
  <1> QED
    BY <1>1, <1>3, <1>4 DEF RequestClaims, Request

-----------------------------------------------------------------------------
\* Expiry closes sessions and releases none.
LEMMA ExpireKeeps ==
    ASSUME NEW S, NEW O, Tables(S, O)
    PROVE  Tables(Expire(S), O)
  <1> USE DEF Tables
  <1>1. Expire(S) \in [Sessions -> SessionRow]
    BY DEF Expire, SessionRow
  <1>2. \A s \in Sessions : /\ Held(Expire(S)[s]) <=> Held(S[s])
                            /\ Expire(S)[s].claims = S[s].claims
                            /\ Expire(S)[s].scopes = S[s].scopes
    BY DEF Expire, SessionRow, Held
  <1>3. SessionsExclusive(Expire(S)) /\ ForeignExclusive(Expire(S), O)
    BY <1>2 DEF SessionsExclusive, ForeignExclusive
  <1>4. WithinSession(Expire(S), O)
    BY <1>2 DEF WithinSession, OpRow
  <1> QED
    BY <1>1, <1>3, <1>4

\* Reconciliation turns active into uncertain and settles nothing.
LEMMA OrphanKeeps ==
    ASSUME NEW S, NEW O, Tables(S, O)
    PROVE  Tables(S, Orphan(O))
  <1> USE DEF Tables
  <1>1. Orphan(O) \in [Ops -> OpRow]
    BY DEF Orphan, OpRow
  <1>2. \A o \in Ops : /\ Live(Orphan(O)[o]) <=> Live(O[o])
                       /\ Orphan(O)[o].claims = O[o].claims
                       /\ Orphan(O)[o].scopes = O[o].scopes
                       /\ Orphan(O)[o].session = O[o].session
    BY DEF Orphan, OpRow, Live
  <1>3. OpsExclusive(Orphan(O)) /\ ForeignExclusive(S, Orphan(O))
    BY <1>2 DEF OpsExclusive, ForeignExclusive
  <1>4. WithinSession(S, Orphan(O))
    BY <1>2 DEF WithinSession
  <1> QED
    BY <1>1, <1>3, <1>4

\* Draining releases only sessions without a live operation.
LEMMA DrainKeeps ==
    ASSUME NEW S, NEW O, Tables(S, O)
    PROVE  Tables(Drain(S, O), O)
  <1> USE DEF Tables
  <1>1. Drain(S, O) \in [Sessions -> SessionRow]
    BY DEF Drain, SessionRow
  <1>2. \A s \in Sessions : /\ Held(Drain(S, O)[s]) => Held(S[s])
                            /\ Drain(S, O)[s].claims = S[s].claims
                            /\ Drain(S, O)[s].scopes = S[s].scopes
    BY DEF Drain, SessionRow, Held
  <1>3. SessionsExclusive(Drain(S, O)) /\ ForeignExclusive(Drain(S, O), O)
    BY <1>2 DEF SessionsExclusive, ForeignExclusive
  <1>4. \A o \in Ops : Live(O[o]) /\ O[o].session \in Sessions =>
            Drain(S, O)[O[o].session] = S[O[o].session]
    BY DEF Drain
  <1>5. WithinSession(Drain(S, O), O)
    BY <1>4, CoordinationAssumption DEF WithinSession, OpRow
  <1> QED
    BY <1>1, <1>3, <1>5

\* Settling an operation can only give its claims up.
LEMMA SettleKeeps ==
    ASSUME NEW S, NEW O, Tables(S, O), NEW o \in Ops, NEW safe \in BOOLEAN,
           Live(O[o]) \/ safe
    PROVE  Tables(S, Settle(O, o, safe))
  <1> USE DEF Tables
  <1> DEFINE P == Settle(O, o, safe)
  <1>1. P \in [Ops -> OpRow]
    BY DEF Settle, OpRow
  <1>2. \A p \in Ops : /\ Live(P[p]) => Live(O[p])
                       /\ P[p].claims = O[p].claims
                       /\ P[p].scopes = O[p].scopes
                       /\ P[p].session = O[p].session
    BY DEF Settle, OpRow, Live
  <1> HIDE DEF P
  <1>3. OpsExclusive(P) /\ ForeignExclusive(S, P)
    BY <1>2 DEF OpsExclusive, ForeignExclusive
  <1>4. WithinSession(S, P)
    BY <1>2 DEF WithinSession
  <1> QED
    BY <1>1, <1>3, <1>4 DEF P

\* Both tables as the body of a transaction finds them.
LEMMA SweptTables ==
    ASSUME Inv
    PROVE  Tables(SweptSessions, SweptOps)
  BY InvTables, ExpireKeeps, OrphanKeeps, DrainKeeps DEF SweptSessions, SweptOps

\* What reconciliation leaves of each row.
LEMMA SweptRows ==
    ASSUME Inv
    PROVE  /\ \A s \in Sessions :
                /\ SweptSessions[s].status = "none" <=> session[s].status = "none"
                /\ SweptSessions[s].claims = session[s].claims
           /\ \A o \in Ops :
                /\ Live(SweptOps[o]) <=> Live(op[o])
                /\ SweptOps[o].status = "none" <=> op[o].status = "none"
                /\ SweptOps[o] = [op[o] EXCEPT !.status = SweptOps[o].status]
                /\ SweptOps[o].session = op[o].session
                /\ SweptOps[o].job = op[o].job
                /\ SweptOps[o].claims = op[o].claims
                /\ agent[o] = "inside" \/ op[o].job => SweptOps[o] = op[o]
  BY DEF Inv, TypeOK, SweptSessions, SweptOps, Drain, Expire, Orphan, FlockFree,
         SessionRow, OpRow, Live
-----------------------------------------------------------------------------
\* The part of the invariant that is not about the two tables.
Processes ==
    /\ now \in Nat
    /\ agent \in [Ops -> AgentState]
    /\ effect \in [Ops -> EffectState]
    /\ forced \subseteq Ops
    /\ AgentsAccounted

LEMMA InvSplit == Inv <=> Tables(session, op) /\ Processes
  BY DEF Inv, TypeOK, Tables, Processes, NoConflictingOwnership, OpsWithinSession

\* A new session that _check found free conflicts with nothing.
LEMMA AcquireTables ==
    ASSUME Inv, NEW s \in Sessions, NEW r \in Requests, NEW lease \in Leases,
           Acquire(s, r, lease)
    PROVE  Tables(session', op')
  <1> DEFINE row == [status |-> "open", expires |-> now + lease, lease |-> lease,
                     scopes |-> r.scopes, claims |-> RequestClaims(r)]
  <1>1. Tables(SweptSessions, SweptOps)
    BY SweptTables
  <1>2. session' = [SweptSessions EXCEPT ![s] = row] /\ op' = SweptOps
    BY DEF Acquire
  <1>3. row \in SessionRow
    <2>1. now \in Nat /\ lease \in Nat
      BY CoordinationAssumption DEF Inv, TypeOK
    <2> QED
      BY <2>1, RequestClaimsType DEF SessionRow
  <1>4. session' \in [Sessions -> SessionRow]
    BY <1>1, <1>2, <1>3 DEF Tables
  <1>5. /\ session'[s].claims = RequestClaims(r)
        /\ \A t \in Sessions \ {s} : session'[t] = SweptSessions[t]
    BY <1>1, <1>2 DEF Tables
  <1>6. ~Held(SweptSessions[s])
    BY SweptRows DEF Acquire, Held
  <1>7. Free(RequestClaims(r), NoSession)
    BY DEF Acquire
  <1> HIDE DEF row
  <1>8. SessionsExclusive(session')
    <2>1. \A t \in Sessions \ {s} : Held(SweptSessions[t]) =>
            /\ ~Conflicts(RequestClaims(r), SweptSessions[t].claims)
            /\ ~Conflicts(SweptSessions[t].claims, RequestClaims(r))
      BY <1>7, ConflictsSymmetric, CoordinationAssumption DEF Free
    <2> QED
      BY <1>1, <1>5, <2>1 DEF SessionsExclusive, Tables
  <1>9. ForeignExclusive(session', SweptOps)
    <2>1. \A o \in Ops : Live(SweptOps[o]) =>
            ~Conflicts(SweptOps[o].claims, RequestClaims(r))
      BY <1>7, ConflictsSymmetric DEF Free
    <2> QED
      BY <1>1, <1>5, <2>1 DEF ForeignExclusive, Tables
  <1>10. WithinSession(session', SweptOps)
    <2>1. \A o \in Ops : Live(SweptOps[o]) => SweptOps[o].session # s
      BY <1>1, <1>6, CoordinationAssumption DEF Tables, WithinSession
    <2> QED
      BY <1>1, <1>5, <2>1 DEF Tables, WithinSession, OpRow
  <1> QED
    BY <1>1, <1>2, <1>4, <1>8, <1>9, <1>10 DEF Tables

\* Extending a lease, or closing a session, changes no claim and frees none.
LEMMA TouchKeeps ==
    ASSUME NEW S, NEW O, Tables(S, O), NEW s \in Sessions, NEW row \in SessionRow,
           Held(row) <=> Held(S[s]), row.claims = S[s].claims, row.scopes = S[s].scopes
    PROVE  Tables([S EXCEPT ![s] = row], O)
  <1> USE DEF Tables
  <1> DEFINE P == [S EXCEPT ![s] = row]
  <1>1. P \in [Sessions -> SessionRow]
    OBVIOUS
  <1>2. \A t \in Sessions : /\ Held(P[t]) <=> Held(S[t])
                            /\ P[t].claims = S[t].claims
                            /\ P[t].scopes = S[t].scopes
    OBVIOUS
  <1> HIDE DEF P
  <1>3. SessionsExclusive(P) /\ ForeignExclusive(P, O)
    BY <1>2 DEF SessionsExclusive, ForeignExclusive
  <1>4. WithinSession(P, O)
    BY <1>2 DEF WithinSession, OpRow
  <1> QED
    BY <1>1, <1>3, <1>4 DEF P

LEMMA RenewTables ==
    ASSUME Inv, NEW s \in Sessions, Renew(s)
    PROVE  Tables(session', op')
  <1> DEFINE row == [SweptSessions[s] EXCEPT !.expires = now + SweptSessions[s].lease]
  <1>1. Tables(SweptSessions, SweptOps)
    BY SweptTables
  <1>2. /\ session' = Drain([SweptSessions EXCEPT ![s] = row], SweptOps)
        /\ op' = SweptOps
    BY DEF Renew
  <1>3. SweptSessions[s] \in SessionRow /\ now \in Nat
    BY <1>1 DEF Tables, Inv, TypeOK
  <1>4. /\ row \in SessionRow
        /\ Held(row) <=> Held(SweptSessions[s])
        /\ row.claims = SweptSessions[s].claims
        /\ row.scopes = SweptSessions[s].scopes
    BY <1>3 DEF SessionRow, Held
  <1> HIDE DEF row
  <1>5. Tables([SweptSessions EXCEPT ![s] = row], SweptOps)
    BY <1>1, <1>4, TouchKeeps
  <1> QED
    BY <1>2, <1>5, DrainKeeps

LEMMA ReleaseTables ==
    ASSUME Inv, NEW s \in Sessions, Release(s)
    PROVE  Tables(session', op')
  <1> DEFINE row == [SweptSessions[s] EXCEPT !.status =
                        IF SweptSessions[s].status = "open" THEN "closing"
                        ELSE SweptSessions[s].status]
  <1>1. Tables(SweptSessions, SweptOps)
    BY SweptTables
  <1>2. /\ session' = Drain([SweptSessions EXCEPT ![s] = row], SweptOps)
        /\ op' = SweptOps
    BY DEF Release
  <1>3. SweptSessions[s] \in SessionRow
    BY <1>1 DEF Tables
  <1>4. /\ row \in SessionRow
        /\ Held(row) <=> Held(SweptSessions[s])
        /\ row.claims = SweptSessions[s].claims
        /\ row.scopes = SweptSessions[s].scopes
    BY <1>3 DEF SessionRow, Held
  <1> HIDE DEF row
  <1>5. Tables([SweptSessions EXCEPT ![s] = row], SweptOps)
    BY <1>1, <1>4, TouchKeeps
  <1> QED
    BY <1>2, <1>5, DrainKeeps

\* An admission that passed _check conflicts with no reservation but its own
\* session's, and that session covers it.
LEMMA AdmitTables ==
    ASSUME Inv, NEW o \in Ops, NEW s \in Sessions \cup {NoSession},
           NEW r \in Requests, NEW job \in BOOLEAN, Admit(o, s, r, job)
    PROVE  Tables(session', op')
  <1> DEFINE row == [status |-> "active", session |-> s, job |-> job, scopes |-> r.scopes,
                     claims |-> RequestClaims(r), local |-> r.local]
  <1>1. Tables(SweptSessions, SweptOps)
    BY SweptTables
  <1>2. op' = [SweptOps EXCEPT ![o] = row]
    BY DEF Admit
  <1>3. op' \in [Ops -> OpRow]
    <2>1. row \in OpRow
      BY RequestClaimsType DEF OpRow
    <2> QED
      BY <1>1, <1>2, <2>1 DEF Tables
  <1>4. /\ op'[o] = row
        /\ \A p \in Ops \ {o} : op'[p] = SweptOps[p]
    BY <1>1, <1>2 DEF Tables
  <1>5. Free(RequestClaims(r), s)
    BY DEF Admit
  <1>6. OpsExclusive(op')
    <2>1. \A p \in Ops \ {o} : Live(SweptOps[p]) =>
            /\ ~Conflicts(RequestClaims(r), SweptOps[p].claims)
            /\ ~Conflicts(SweptOps[p].claims, RequestClaims(r))
      BY <1>5, ConflictsSymmetric DEF Free
    <2> QED
      BY <1>1, <1>4, <2>1 DEF OpsExclusive, Tables
  <1>7. ForeignExclusive(SweptSessions, op')
    <2>1. \A t \in Sessions \ {s} : Held(SweptSessions[t]) =>
            ~Conflicts(RequestClaims(r), SweptSessions[t].claims)
      BY <1>5 DEF Free
    <2> QED
      BY <1>1, <1>4, <2>1 DEF ForeignExclusive, Tables
  <1>8. WithinSession(SweptSessions, op')
    <2>1. s # NoSession => /\ Held(SweptSessions[s])
                           /\ r.scopes \subseteq SweptSessions[s].scopes
                           /\ Covers(SweptSessions[s].claims, RequestClaims(r))
      BY DEF Admit, MayAdmit, Held
    <2> QED
      BY <1>1, <1>4, <2>1 DEF WithinSession, Tables
  <1>9. Tables(SweptSessions, op')
    BY <1>1, <1>3, <1>6, <1>7, <1>8 DEF Tables
  <1>10. CASE s = NoSession
    BY <1>9, <1>10 DEF Admit
  <1>11. CASE s # NoSession
    <2> DEFINE lent == [SweptSessions[s] EXCEPT !.expires = now + SweptSessions[s].lease]
    <2>1. s \in Sessions
      BY <1>11
    <2>2. session' = [SweptSessions EXCEPT ![s] = lent]
      BY <1>11 DEF Admit
    <2>3. SweptSessions[s] \in SessionRow /\ now \in Nat
      BY <1>1, <2>1 DEF Tables, Inv, TypeOK
    <2>4. /\ lent \in SessionRow
          /\ Held(lent) <=> Held(SweptSessions[s])
          /\ lent.claims = SweptSessions[s].claims
          /\ lent.scopes = SweptSessions[s].scopes
      BY <2>3 DEF SessionRow, Held
    <2> HIDE DEF lent
    <2>5. Tables([SweptSessions EXCEPT ![s] = lent], op')
      BY <1>9, <2>1, <2>4, TouchKeeps
    <2> QED
      BY <2>2, <2>5
  <1> QED
    BY <1>10, <1>11

\* The claim of a caller that is still inside survives reconciliation.
LEMMA LeaveTables ==
    ASSUME Inv, NEW o \in Ops, NEW safe \in BOOLEAN, Leave(o, safe)
    PROVE  Tables(session', op')
  <1>1. Tables(SweptSessions, SweptOps)
    BY SweptTables
  <1>2. Live(SweptOps[o])
    BY SweptRows DEF Inv, AgentsAccounted, Leave, Live
  <1>3. Tables(SweptSessions, Settle(SweptOps, o, safe))
    BY <1>1, <1>2, SettleKeeps
  <1> QED
    BY <1>3, DrainKeeps DEF Leave

LEMMA FinishJobTables ==
    ASSUME Inv, NEW o \in Ops, NEW safe \in BOOLEAN, FinishJob(o, safe)
    PROVE  Tables(session', op')
  <1>1. Live(op[o])
    BY DEF FinishJob, Live
  <1>2. Tables(session, Settle(op, o, safe))
    BY <1>1, InvTables, SettleKeeps
  <1> QED
    BY <1>2, DrainKeeps DEF FinishJob

LEMMA ForceReleaseTables ==
    ASSUME Inv, NEW o \in Ops, ForceRelease(o)
    PROVE  Tables(session', op')
  <1>1. Tables(SweptSessions, Settle(SweptOps, o, TRUE))
    BY SweptTables, SettleKeeps
  <1> QED
    BY <1>1, DrainKeeps DEF ForceRelease

-----------------------------------------------------------------------------
\* Transactions that admit and settle nothing leave the processes accounted
\* for: reconciliation only touches operations whose agent is gone.
LEMMA SweepProcesses ==
    ASSUME Inv, op' = SweptOps,
           UNCHANGED << now, agent, effect, forced >>
    PROVE  Processes'
  <1> USE InvSplit
  <1>1. AgentsAccounted'
    <2> SUFFICES ASSUME NEW p \in Ops PROVE AgentsAccounted!(p)'
      BY DEF AgentsAccounted
    <2>1. /\ Live(SweptOps[p]) <=> Live(op[p])
          /\ SweptOps[p].status = "none" <=> op[p].status = "none"
          /\ SweptOps[p].session = op[p].session
          /\ SweptOps[p].job = op[p].job
          /\ agent[p] = "inside" => SweptOps[p] = op[p]
      BY SweptRows
    <2> QED
      BY <2>1 DEF AgentsAccounted, Processes, Live
  <1> QED
    BY <1>1 DEF Processes

LEMMA AdmitProcesses ==
    ASSUME Inv, NEW o \in Ops, NEW s \in Sessions \cup {NoSession},
           NEW r \in Requests, NEW job \in BOOLEAN, Admit(o, s, r, job)
    PROVE  Processes'
  <1>1. agent' \in [Ops -> AgentState]
    BY DEF Inv, TypeOK, Admit, AgentState
  <1>2. SweptOps \in [Ops -> OpRow]
    BY SweptTables DEF Tables
  <1>3. AgentsAccounted'
    <2> SUFFICES ASSUME NEW p \in Ops PROVE AgentsAccounted!(p)'
      BY DEF AgentsAccounted
    <2>1. CASE p = o
      BY <2>1, <1>2 DEF Admit, Inv, TypeOK, AgentsAccounted, Live
    <2>2. CASE p # o
      BY <2>2, <1>2, SweptRows DEF Admit, Inv, TypeOK, AgentsAccounted, Live
    <2> QED
      BY <2>1, <2>2
  <1> QED
    BY <1>1, <1>3 DEF Processes, Inv, TypeOK, Admit

LEMMA LeaveProcesses ==
    ASSUME Inv, NEW o \in Ops, NEW safe \in BOOLEAN, Leave(o, safe),
           safe => effect[o] # "running"
    PROVE  Processes'
  <1>1. agent' \in [Ops -> AgentState]
    BY DEF Inv, TypeOK, Leave, AgentState
  <1>2. SweptOps \in [Ops -> OpRow]
    BY SweptTables DEF Tables
  <1>3. AgentsAccounted'
    <2> SUFFICES ASSUME NEW p \in Ops PROVE AgentsAccounted!(p)'
      BY DEF AgentsAccounted
    <2>1. CASE p = o
      <3>1. op[o].status = "active" /\ SweptOps[o] = op[o]
        BY SweptRows DEF Leave, Inv, AgentsAccounted
      <3>2. /\ op'[o].status = IF safe THEN "released" ELSE "uncertain"
            /\ agent'[o] = "done"
            /\ effect' = effect /\ forced' = forced
        <4>1. Settle(SweptOps, o, safe) =
                [SweptOps EXCEPT ![o].status = IF safe THEN "released" ELSE "uncertain"]
          BY <3>1 DEF Settle
        <4>2. op'[o].status = IF safe THEN "released" ELSE "uncertain"
          <5>1. SweptOps[o] \in OpRow
            BY <1>2
          <5> QED
            BY <1>2, <4>1, <5>1 DEF Leave, OpRow
        <4> QED
          BY <4>2 DEF Leave, Inv, TypeOK
      <3>3. Live(op'[o]) \/ effect'[o] # "running"
        <4>1. CASE safe
          BY <3>2, <4>1
        <4>2. CASE ~safe
          BY <3>2, <4>2 DEF Live
        <4> QED
          BY <4>1, <4>2
      <3> QED
        BY <2>1, <3>2, <3>3
    <2>2. CASE p # o
      <3>1. op'[p] = SweptOps[p] /\ agent'[p] = agent[p] /\ UNCHANGED << effect, forced >>
        BY <2>2, <1>2 DEF Leave, Settle, Inv, TypeOK
      <3>2. /\ Live(SweptOps[p]) <=> Live(op[p])
            /\ SweptOps[p].status = "none" <=> op[p].status = "none"
            /\ SweptOps[p].session = op[p].session
            /\ SweptOps[p].job = op[p].job
            /\ agent[p] = "inside" => SweptOps[p] = op[p]
        BY SweptRows
      <3>3. AgentsAccounted!(p)
        BY DEF Inv, AgentsAccounted
      <3> QED
        BY <3>1, <3>2, <3>3 DEF Live
    <2> QED
      BY <2>1, <2>2
  <1> QED
    BY <1>1, <1>3 DEF Processes, Inv, TypeOK, Leave

LEMMA FinishJobProcesses ==
    ASSUME Inv, NEW o \in Ops, NEW safe \in BOOLEAN, FinishJob(o, safe)
    PROVE  Processes'
  <1>1. agent' \in [Ops -> AgentState]
    BY DEF Inv, TypeOK, FinishJob, AgentState
  <1>2. AgentsAccounted'
    <2> SUFFICES ASSUME NEW p \in Ops PROVE AgentsAccounted!(p)'
      BY DEF AgentsAccounted
    <2>1. CASE p = o
      BY <2>1 DEF FinishJob, Settle, Inv, TypeOK, AgentsAccounted, Live, OpRow
    <2>2. CASE p # o
      BY <2>2 DEF FinishJob, Settle, Inv, TypeOK, AgentsAccounted, Live, OpRow
    <2> QED
      BY <2>1, <2>2
  <1> QED
    BY <1>1, <1>2 DEF Processes, Inv, TypeOK, FinishJob

LEMMA ForceReleaseProcesses ==
    ASSUME Inv, NEW o \in Ops, ForceRelease(o)
    PROVE  Processes'
  <1>1. SweptOps \in [Ops -> OpRow]
    BY SweptTables DEF Tables
  <1>2. AgentsAccounted'
    <2> SUFFICES ASSUME NEW p \in Ops PROVE AgentsAccounted!(p)'
      BY DEF AgentsAccounted
    <2>1. CASE p = o
      BY <2>1, <1>1, SweptRows DEF ForceRelease, Settle, Inv, TypeOK, AgentsAccounted, Live
    <2>2. CASE p # o
      BY <2>2, <1>1, SweptRows DEF ForceRelease, Settle, Inv, TypeOK, AgentsAccounted, Live
    <2> QED
      BY <2>1, <2>2
  <1> QED
    BY <1>2 DEF Processes, Inv, TypeOK, ForceRelease
-----------------------------------------------------------------------------
LEMMA InitInv == Init => Inv
  <1> SUFFICES ASSUME Init PROVE Inv
    OBVIOUS
  <1>1. TypeOK
    BY DEF Init, TypeOK, SessionRow, OpRow, AgentState, EffectState
  <1>2. \A o \in Ops : ~Live(op[o]) /\ op[o].status = "none" /\ op[o].session = NoSession
    BY DEF Init, Live
  <1>3. \A s \in Sessions : ~Held(session[s])
    BY DEF Init, Held
  <1>4. NoConflictingOwnership /\ OpsWithinSession
    BY <1>2, <1>3 DEF NoConflictingOwnership, OpsWithinSession, OpsExclusive,
                      SessionsExclusive, ForeignExclusive, WithinSession
  <1>5. AgentsAccounted
    BY <1>2 DEF Init, AgentsAccounted
  <1> QED
    BY <1>1, <1>4, <1>5 DEF Inv

LEMMA InvStep == Inv /\ [Next]_vars => Inv'
  <1> SUFFICES ASSUME Inv, [Next]_vars
               PROVE  Tables(session', op') /\ Processes'
    BY DEF Inv, TypeOK, Tables, Processes, NoConflictingOwnership, OpsWithinSession
  <1> USE InvSplit
  <1>1. ASSUME NEW s \in Sessions, NEW r \in Requests, NEW lease \in Leases,
               Acquire(s, r, lease)
        PROVE  Tables(session', op') /\ Processes'
    BY <1>1, AcquireTables, SweepProcesses DEF Acquire
  <1>2. ASSUME NEW s \in Sessions, Renew(s)
        PROVE  Tables(session', op') /\ Processes'
    BY <1>2, RenewTables, SweepProcesses DEF Renew
  <1>3. ASSUME NEW s \in Sessions, Release(s)
        PROVE  Tables(session', op') /\ Processes'
    BY <1>3, ReleaseTables, SweepProcesses DEF Release
  <1>4. ASSUME NEW o \in Ops, NEW s \in Sessions \cup {NoSession},
               NEW r \in Requests, NEW job \in BOOLEAN, Admit(o, s, r, job)
        PROVE  Tables(session', op') /\ Processes'
    BY <1>4, AdmitTables, AdmitProcesses
  <1>5. ASSUME NEW o \in Ops, NEW r \in Requests, ValidateJob(o, r)
        PROVE  Tables(session', op') /\ Processes'
    <2>1. Tables(session', op')
      BY <1>5, SweptTables DEF ValidateJob
    <2>2. AgentsAccounted'
      <3> SUFFICES ASSUME NEW p \in Ops PROVE AgentsAccounted!(p)'
        BY DEF AgentsAccounted
      <3>1. CASE p = o
        <4>1. op'[o] = op[o] /\ op[o].status = "active" /\ op[o].job
          BY <1>5, SweptRows DEF ValidateJob
        <4> QED
          BY <3>1, <4>1 DEF Live
      <3>2. CASE p # o
        <4>1. /\ agent'[p] = agent[p] /\ effect' = effect /\ forced' = forced
              /\ op' = SweptOps
          BY <1>5, <3>2 DEF ValidateJob, Inv, TypeOK
        <4>2. /\ Live(SweptOps[p]) <=> Live(op[p])
              /\ SweptOps[p].status = "none" <=> op[p].status = "none"
              /\ SweptOps[p].session = op[p].session
              /\ SweptOps[p].job = op[p].job
              /\ agent[p] = "inside" \/ op[p].job => SweptOps[p] = op[p]
          BY SweptRows
        <4>3. AgentsAccounted!(p)
          BY DEF Inv, AgentsAccounted
        <4> QED
          BY <4>1, <4>2, <4>3 DEF Live
      <3> QED
        BY <3>1, <3>2
    <2> QED
      BY <1>5, <2>1, <2>2 DEF ValidateJob, Processes, Inv, TypeOK, AgentState
  <1>6. ASSUME NEW o \in Ops, Dispatch(o)
        PROVE  Tables(session', op') /\ Processes'
    <2>1. AgentsAccounted'
      BY <1>6 DEF Dispatch, Inv, TypeOK, AgentsAccounted
    <2> QED
      BY <1>6, <2>1 DEF Dispatch, Processes, Inv, TypeOK, EffectState
  <1>7. ASSUME NEW o \in Ops, EffectStops(o)
        PROVE  Tables(session', op') /\ Processes'
    <2>1. AgentsAccounted'
      BY <1>7 DEF EffectStops, Inv, TypeOK, AgentsAccounted
    <2> QED
      BY <1>7, <2>1 DEF EffectStops, Processes, Inv, TypeOK, EffectState
  <1>8. ASSUME NEW o \in Ops, Return(o)
        PROVE  Tables(session', op') /\ Processes'
    BY <1>8, LeaveTables, LeaveProcesses DEF Return
  <1>9. ASSUME NEW o \in Ops, Crash(o)
        PROVE  Tables(session', op') /\ Processes'
    <2>1. AgentsAccounted'
      BY <1>9 DEF Crash, Inv, TypeOK, AgentsAccounted
    <2> QED
      BY <1>9, <2>1 DEF Crash, Processes, Inv, TypeOK, AgentState
  <1>10. ASSUME NEW o \in Ops, NEW interrupted \in BOOLEAN, Raise(o, interrupted)
         PROVE  Tables(session', op') /\ Processes'
    <2>1. SafeFailure(op[o], interrupted) \in BOOLEAN
      BY DEF SafeFailure
    <2>2. SafeFailure(op[o], interrupted) => effect[o] # "running"
      BY <1>10 DEF Raise, SafeFailure
    <2> QED
      BY <1>10, <2>1, <2>2, LeaveTables, LeaveProcesses DEF Raise
  <1>11. ASSUME NEW o \in Ops, NEW safe \in BOOLEAN, FinishJob(o, safe)
         PROVE  Tables(session', op') /\ Processes'
    BY <1>11, FinishJobTables, FinishJobProcesses
  <1>12. ASSUME NEW o \in Ops, ForceRelease(o)
         PROVE  Tables(session', op') /\ Processes'
    BY <1>12, ForceReleaseTables, ForceReleaseProcesses
  <1>13. ASSUME Observe
         PROVE  Tables(session', op') /\ Processes'
    BY <1>13, SweptTables, SweepProcesses DEF Observe
  <1>14. ASSUME Tick
         PROVE  Tables(session', op') /\ Processes'
    BY <1>14 DEF Tick, Processes, AgentsAccounted
  <1>15. CASE UNCHANGED vars
    BY <1>15 DEF vars, Processes, AgentsAccounted
  <1> QED
    BY <1>1, <1>2, <1>3, <1>4, <1>5, <1>6, <1>7, <1>8, <1>9, <1>10, <1>11, <1>12,
       <1>13, <1>14, <1>15 DEF Next

\* The reservations, the processes behind them and their types stay
\* consistent through every transaction and every failure between two of
\* them (coordination.py as a whole).
THEOREM InvHolds == Spec => []Inv
  BY InitInv, InvStep, PTL DEF Spec

\* Type correctness of both tables and of the processes.
THEOREM TypeCorrect == Spec => []TypeOK
  BY InvHolds, PTL DEF Inv

\* No two reservations conflict unless one is admitted under the other
\* (_check, reconcile, drain, finish, force_release).
THEOREM OwnershipExclusive == Spec => []NoConflictingOwnership
  BY InvHolds, PTL DEF Inv

\* A session outlives and covers what was admitted under it (admit, drain).
THEOREM SessionsCover == Spec => []OpsWithinSession
  BY InvHolds, PTL DEF Inv

\* Running work is never without its reservation, whatever became of its
\* caller, except behind an operator's force_release (operation, reconcile).
THEOREM WorkIsReserved == Spec => []EffectsReserved
  <1>1. Inv => EffectsReserved
    BY DEF Inv, AgentsAccounted, EffectsReserved
  <1> QED
    BY <1>1, InvHolds, PTL

\* Conflicting operations never run at the same time, except behind an
\* operator's force_release (operation, reconcile, force_release).
THEOREM EffectsAreExclusive == Spec => []EffectsExclusive
  <1>1. Inv => EffectsExclusive
    BY DEF Inv, AgentsAccounted, NoConflictingOwnership, OpsExclusive, EffectsExclusive
  <1> QED
    BY <1>1, InvHolds, PTL

\* While a session is held nobody else's running work conflicts with it.
THEOREM SessionsShield == Spec => []SessionShields
  <1>1. Inv => SessionShields
    BY DEF Inv, AgentsAccounted, NoConflictingOwnership, ForeignExclusive, SessionShields
  <1> QED
    BY <1>1, InvHolds, PTL
-----------------------------------------------------------------------------
\* What reconciliation and draining do to a session that is over.
LEMMA ClosedRows ==
    ASSUME Inv, NEW s \in Sessions, session[s].status \in {"closing", "released"}
    PROVE  /\ SweptSessions[s].status \in {session[s].status, "released"}
           /\ SweptSessions[s].expires = session[s].expires
  BY DEF Inv, TypeOK, SweptSessions, Drain, Expire, SessionRow

LEMMA DrainRow ==
    ASSUME NEW S, NEW O, NEW s \in Sessions, S[s] \in SessionRow
    PROVE  /\ Drain(S, O)[s].status \in {S[s].status, "released"}
           /\ Drain(S, O)[s].expires = S[s].expires
           /\ S[s].status # "closing" => Drain(S, O)[s] = S[s]
  BY DEF Drain, SessionRow

\* A closed session never reopens and its lease is never extended
\* (session_action and admit refuse it; reconcile and drain only move on).
THEOREM ClosedStaysClosed == Spec => ClosedForGood
  <1> DEFINE Over(s) == session[s].status \in {"closing", "released"}
             Kept(s) == /\ session'[s].status \in {session[s].status, "released"}
                        /\ session'[s].expires = session[s].expires
  <1>1. ASSUME Inv, [Next]_vars, NEW s \in Sessions, Over(s)
        PROVE  Kept(s)
    <2>1. /\ SweptSessions[s].status \in {session[s].status, "released"}
          /\ SweptSessions[s].expires = session[s].expires
      BY <1>1, ClosedRows
    <2>2. Tables(SweptSessions, SweptOps) /\ Tables(session, op)
      BY <1>1, SweptTables, InvTables
    <2>3. CASE session' = SweptSessions
      BY <2>1, <2>3
    <2>4. ASSUME NEW t \in Sessions, NEW r \in Requests, NEW lease \in Leases,
                 Acquire(t, r, lease)
          PROVE  Kept(s)
      <3>1. t # s
        BY <1>1, <2>4 DEF Acquire
      <3> QED
        BY <2>1, <2>2, <2>4, <3>1 DEF Acquire, Tables
    <2>5. ASSUME NEW t \in Sessions, Renew(t)
          PROVE  Kept(s)
      <3> DEFINE S == [SweptSessions EXCEPT ![t].expires = now + SweptSessions[t].lease]
      <3>1. t # s
        BY <1>1, <2>1, <2>5 DEF Renew
      <3>2. S[s] = SweptSessions[s]
        BY <2>2, <3>1 DEF Tables
      <3>3. session' = Drain(S, SweptOps)
        BY <2>5 DEF Renew
      <3> HIDE DEF S
      <3> QED
        BY <2>1, <3>2, <3>3 DEF Drain
    <2>6. ASSUME NEW t \in Sessions, Release(t)
          PROVE  Kept(s)
      <3> DEFINE S == [SweptSessions EXCEPT ![t].status =
                          IF @ = "open" THEN "closing" ELSE @]
      <3>1. S[s] = SweptSessions[s]
        BY <1>1, <2>1, <2>2 DEF Tables, SessionRow
      <3>2. session' = Drain(S, SweptOps)
        BY <2>6 DEF Release
      <3> HIDE DEF S
      <3> QED
        BY <2>1, <3>1, <3>2 DEF Drain
    <2>7. ASSUME NEW o \in Ops, NEW t \in Sessions \cup {NoSession},
                 NEW r \in Requests, NEW job \in BOOLEAN, Admit(o, t, r, job)
          PROVE  Kept(s)
      <3>1. t # s
        BY <1>1, <2>1, <2>7, CoordinationAssumption DEF Admit, MayAdmit
      <3> QED
        BY <2>1, <2>2, <2>7, <3>1 DEF Admit, Tables
    <2>8. ASSUME NEW o \in Ops, NEW safe \in BOOLEAN, Leave(o, safe)
          PROVE  Kept(s)
      <3>1. session' = Drain(SweptSessions, Settle(SweptOps, o, safe))
        BY <2>8 DEF Leave
      <3> QED
        BY <1>1, <2>1, <2>2, <3>1, DrainRow DEF Tables
    <2>9. ASSUME NEW o \in Ops, NEW safe \in BOOLEAN, FinishJob(o, safe)
          PROVE  Kept(s)
      <3>1. session' = Drain(session, Settle(op, o, safe))
        BY <2>9 DEF FinishJob
      <3> QED
        BY <1>1, <2>2, <3>1, DrainRow DEF Tables
    <2>10. ASSUME NEW o \in Ops, ForceRelease(o)
           PROVE  Kept(s)
      <3>1. session' = Drain(SweptSessions, Settle(SweptOps, o, TRUE))
        BY <2>10 DEF ForceRelease
      <3> QED
        BY <1>1, <2>1, <2>2, <3>1, DrainRow DEF Tables
    <2>11. CASE session' = session
      BY <2>11
    <2>12. ASSUME NEW o \in Ops, NEW interrupted \in BOOLEAN, Raise(o, interrupted)
           PROVE  Kept(s)
      <3>1. SafeFailure(op[o], interrupted) \in BOOLEAN
        BY DEF SafeFailure
      <3> QED
        BY <2>8, <2>12, <3>1 DEF Raise
    <2>13. ASSUME NEW o \in Ops, Return(o)
           PROVE  Kept(s)
      BY <2>8, <2>13 DEF Return
    <2> HIDE DEF Kept
    <2>14. ASSUME NEW o \in Ops, NEW r \in Requests, ValidateJob(o, r)
           PROVE  Kept(s)
      BY <2>3, <2>14 DEF ValidateJob
    <2>15. ASSUME NEW o \in Ops, Dispatch(o) \/ EffectStops(o) \/ Crash(o)
           PROVE  Kept(s)
      BY <2>11, <2>15 DEF Dispatch, EffectStops, Crash
    <2>16. CASE Observe \/ Tick \/ UNCHANGED vars
      BY <2>3, <2>11, <2>16 DEF Observe, Tick, vars
    <2> QED
      BY <1>1, <2>4, <2>5, <2>6, <2>7, <2>9, <2>10, <2>12, <2>13, <2>14, <2>15, <2>16
      DEF Next
  <1>2. Inv /\ [Next]_vars =>
            [\A s \in Sessions : Over(s) => Kept(s)]_vars
    BY <1>1
  <1> QED
    BY <1>2, InvHolds, PTL DEF Spec, ClosedForGood

\* What reconciliation does to a session whose lease still runs.
LEMMA LeasedRows ==
    ASSUME Inv, NEW s \in Sessions,
           session[s].status = "open", now < session[s].expires
    PROVE  SweptSessions[s] = session[s]
  <1>1. session[s].expires \in Nat /\ now \in Nat
    BY DEF Inv, TypeOK, SessionRow
  <1>2. Expire(session)[s] = session[s]
    BY <1>1 DEF Expire
  <1> QED
    BY <1>2 DEF SweptSessions, Drain

\* Until its lease runs out only its owner closes an open session: expiry is
\* all that reconcile() closes, and drain() only moves closing sessions on.
THEOREM LeaseIsHonoured == Spec => LeaseHonoured
  <1> DEFINE Leased(s) == session[s].status = "open" /\ now < session[s].expires
             Open(s) == session'[s].status = "open"
  <1>1. ASSUME Inv, [Next]_vars, NEW s \in Sessions, Leased(s)
        PROVE  Open(s) \/ Release(s)
    <2>1. SweptSessions[s] = session[s]
      BY <1>1, LeasedRows
    <2>2. Tables(SweptSessions, SweptOps) /\ Tables(session, op)
      BY <1>1, SweptTables, InvTables
    <2>3. ASSUME session' = SweptSessions \/ session' = session
          PROVE  Open(s)
      BY <1>1, <2>1, <2>3
    <2>4. ASSUME NEW t \in Sessions, NEW r \in Requests, NEW lease \in Leases,
                 Acquire(t, r, lease)
          PROVE  Open(s)
      BY <1>1, <2>1, <2>2, <2>4 DEF Acquire, Tables
    <2>5. ASSUME NEW t \in Sessions, Renew(t)
          PROVE  Open(s)
      <3> DEFINE S == [SweptSessions EXCEPT ![t].expires = now + SweptSessions[t].lease]
      <3>1. S[s].status = "open"
        BY <1>1, <2>1, <2>2 DEF Tables, SessionRow
      <3>2. session' = Drain(S, SweptOps)
        BY <2>5 DEF Renew
      <3> HIDE DEF S
      <3> QED
        BY <3>1, <3>2 DEF Drain
    <2>6. ASSUME NEW t \in Sessions, t # s, Release(t)
          PROVE  Open(s)
      <3> DEFINE S == [SweptSessions EXCEPT ![t].status =
                          IF @ = "open" THEN "closing" ELSE @]
      <3>1. S[s].status = "open"
        BY <1>1, <2>1, <2>2, <2>6 DEF Tables, SessionRow
      <3>2. session' = Drain(S, SweptOps)
        BY <2>6 DEF Release
      <3> HIDE DEF S
      <3> QED
        BY <3>1, <3>2 DEF Drain
    <2>7. ASSUME NEW o \in Ops, NEW t \in Sessions \cup {NoSession},
                 NEW r \in Requests, NEW job \in BOOLEAN, Admit(o, t, r, job)
          PROVE  Open(s)
      BY <1>1, <2>1, <2>2, <2>7 DEF Admit, Tables, SessionRow
    <2>8. ASSUME NEW O, \/ session' = Drain(SweptSessions, O)
                        \/ session' = Drain(session, O)
          PROVE  Open(s)
      BY <1>1, <2>1, <2>8 DEF Drain
    <2>9. ASSUME NEW o \in Ops, NEW safe \in BOOLEAN,
                 Leave(o, safe) \/ FinishJob(o, safe) \/ ForceRelease(o)
          PROVE  Open(s)
      <3>1. CASE Leave(o, safe)
        BY <2>8, <3>1 DEF Leave
      <3>2. CASE FinishJob(o, safe)
        BY <2>8, <3>2 DEF FinishJob
      <3>3. CASE ForceRelease(o)
        BY <2>8, <3>3 DEF ForceRelease
      <3> QED
        BY <2>9, <3>1, <3>2, <3>3
    <2>10. ASSUME NEW o \in Ops, NEW interrupted \in BOOLEAN,
                  Raise(o, interrupted) \/ Return(o)
           PROVE  Open(s)
      <3>1. SafeFailure(op[o], interrupted) \in BOOLEAN
        BY DEF SafeFailure
      <3> QED
        BY <2>9, <2>10, <3>1 DEF Raise, Return
    <2> HIDE DEF Open
    <2>11. ASSUME NEW o \in Ops, NEW r \in Requests, ValidateJob(o, r)
           PROVE  Open(s)
      BY <2>3, <2>11 DEF ValidateJob
    <2>12. ASSUME NEW o \in Ops, Dispatch(o) \/ EffectStops(o) \/ Crash(o)
           PROVE  Open(s)
      BY <2>3, <2>12 DEF Dispatch, EffectStops, Crash
    <2>13. CASE Observe \/ Tick \/ UNCHANGED vars
      BY <2>3, <2>13 DEF Observe, Tick, vars
    <2> QED
      BY <1>1, <2>4, <2>5, <2>6, <2>7, <2>9, <2>10, <2>11, <2>12, <2>13 DEF Next
  <1>2. Inv /\ [Next]_vars =>
            [\A s \in Sessions :
                /\ session[s].status = "open" /\ now < session[s].expires
                /\ session'[s].status # "open"
                => Release(s)]_vars
    BY <1>1
  <1> QED
    BY <1>2, InvHolds, PTL DEF Spec, LeaseHonoured

\* An uncertain operation keeps its claim until an operator force-releases it:
\* its caller has left, a job settles once, and reconcile() never upgrades it.
THEOREM UncertainStays == Spec => UncertainNeedsOperator
  <1> DEFINE Kept(o) == \/ op'[o].status = "uncertain"
                        \/ op'[o].status = "released" /\ ForceRelease(o)
  <1>1. ASSUME Inv, [Next]_vars, NEW o \in Ops, op[o].status = "uncertain"
        PROVE  Kept(o)
    <2>1. SweptOps[o].status = "uncertain"
      BY <1>1 DEF SweptOps, Orphan, Inv, TypeOK
    <2>2. SweptOps \in [Ops -> OpRow] /\ op \in [Ops -> OpRow]
      BY <1>1, SweptTables DEF Tables, Inv, TypeOK
    <2>3. CASE op' = SweptOps \/ op' = op
      BY <1>1, <2>1, <2>3
    <2>4. ASSUME NEW p \in Ops, NEW t \in Sessions \cup {NoSession},
                 NEW r \in Requests, NEW job \in BOOLEAN, Admit(p, t, r, job)
          PROVE  Kept(o)
      <3>1. p # o
        BY <1>1, <2>4 DEF Admit
      <3> QED
        BY <2>1, <2>2, <2>4, <3>1 DEF Admit
    <2>5. ASSUME NEW p \in Ops, NEW safe \in BOOLEAN, Leave(p, safe)
          PROVE  Kept(o)
      <3>1. p # o
        BY <1>1, <2>5 DEF Leave, Inv, AgentsAccounted
      <3>2. op' = Settle(SweptOps, p, safe)
        BY <2>5 DEF Leave
      <3> QED
        BY <2>1, <2>2, <3>1, <3>2 DEF Settle
    <2>6. ASSUME NEW p \in Ops, NEW safe \in BOOLEAN, FinishJob(p, safe)
          PROVE  Kept(o)
      <3>1. p # o
        BY <1>1, <2>6 DEF FinishJob
      <3>2. op' = Settle(op, p, safe)
        BY <2>6 DEF FinishJob
      <3> QED
        BY <1>1, <2>2, <3>1, <3>2 DEF Settle
    <2>7. ASSUME NEW p \in Ops, ForceRelease(p)
          PROVE  Kept(o)
      <3>1. op' = Settle(SweptOps, p, TRUE)
        BY <2>7 DEF ForceRelease
      <3>2. CASE p = o
        <4>1. op'[o].status = "released"
          BY <2>1, <2>2, <3>1, <3>2 DEF Settle, OpRow
        <4> QED
          BY <2>7, <3>2, <4>1
      <3>3. CASE p # o
        BY <2>1, <2>2, <3>1, <3>3 DEF Settle
      <3> QED
        BY <3>2, <3>3
    <2>8. ASSUME NEW p \in Ops, NEW interrupted \in BOOLEAN, Raise(p, interrupted)
          PROVE  Kept(o)
      <3>1. SafeFailure(op[p], interrupted) \in BOOLEAN
        BY DEF SafeFailure
      <3> QED
        BY <2>5, <2>8, <3>1 DEF Raise
    <2>9. ASSUME NEW p \in Ops, Return(p)
          PROVE  Kept(o)
      BY <2>5, <2>9 DEF Return
    <2> HIDE DEF Kept
    <2>10. ASSUME NEW t \in Sessions, NEW r \in Requests, NEW lease \in Leases,
                  Acquire(t, r, lease)
           PROVE  Kept(o)
      BY <2>3, <2>10 DEF Acquire
    <2>11. ASSUME NEW t \in Sessions, Renew(t) \/ Release(t)
           PROVE  Kept(o)
      BY <2>3, <2>11 DEF Renew, Release
    <2>12. ASSUME NEW p \in Ops, NEW r \in Requests, ValidateJob(p, r)
           PROVE  Kept(o)
      BY <2>3, <2>12 DEF ValidateJob
    <2>13. ASSUME NEW p \in Ops, Dispatch(p) \/ EffectStops(p) \/ Crash(p)
           PROVE  Kept(o)
      BY <2>3, <2>13 DEF Dispatch, EffectStops, Crash
    <2>14. CASE Observe \/ Tick \/ UNCHANGED vars
      BY <2>3, <2>14 DEF Observe, Tick, vars
    <2> QED
      BY <1>1, <2>4, <2>6, <2>7, <2>8, <2>9, <2>10, <2>11, <2>12, <2>13, <2>14 DEF Next
  <1>2. Inv /\ [Next]_vars =>
            [\A o \in Ops : op[o].status = "uncertain" => Kept(o)]_vars
    BY <1>1
  <1> QED
    BY <1>2, InvHolds, PTL DEF Spec, UncertainNeedsOperator

-----------------------------------------------------------------------------
(* The contracts. *)

\* The abstract state two tables stand for.
Map(S, O) ==
    [h \in Sessions \cup Ops |->
        IF h \in Sessions
        THEN [phase  |-> SessionPhase(S[h]), claims |-> S[h].claims, parent |-> NoSession]
        ELSE [phase  |-> OpPhase(O[h]), claims |-> O[h].claims, parent |-> O[h].session]]

LEMMA HoldingMap == Holding = Map(session, op)
  BY DEF Holding, Map

\* A row that may have given its claims up, and is otherwise the same.
LaterSession(a, b) ==
    /\ b.claims = a.claims
    /\ b.status = "none" <=> a.status = "none"
    /\ Held(b) => Held(a)

LaterOp(a, b) ==
    /\ b.claims = a.claims /\ b.session = a.session
    /\ b.status = "none" <=> a.status = "none"
    /\ Live(b) => Live(a)

Later(S, O, S2, O2) ==
    /\ \A s \in Sessions : LaterSession(S[s], S2[s])
    /\ \A o \in Ops : LaterOp(O[o], O2[o])

\* The holders that give their claims up between two states of the tables.
Given(S2, O2) ==
    {h \in Sessions \cup Ops :
        Holding[h].phase = "held" /\ Map(S2, O2)[h].phase = "gone"}

LEMMA DropStep ==
    ASSUME Inv, NEW S2, NEW O2, Tables(S2, O2), Later(session, op, S2, O2)
    PROVE  /\ Abstract!MayDrop(Given(S2, O2))
           /\ Abstract!Dropped(Given(S2, O2)) = Map(S2, O2)
  <1> DEFINE D == Given(S2, O2)
  <1>p. \A s \in Sessions :
            /\ Holding[s].phase = SessionPhase(session[s])
            /\ Holding[s].parent = NoSession
            /\ Map(S2, O2)[s].phase = SessionPhase(S2[s])
    BY HoldingMap DEF Map
  <1>q. \A o \in Ops :
            /\ Holding[o].phase = OpPhase(op[o])
            /\ Holding[o].parent = op[o].session
            /\ Map(S2, O2)[o].phase = OpPhase(O2[o])
    BY HoldingMap, CoordinationAssumption DEF Map
  <1>a. \A s \in Sessions :
            s \in D <=> SessionPhase(session[s]) = "held" /\ SessionPhase(S2[s]) = "gone"
    BY <1>p DEF Given
  <1>b. \A o \in Ops :
            o \in D <=> OpPhase(op[o]) = "held" /\ OpPhase(O2[o]) = "gone"
    BY <1>q DEF Given
  <1>c. D \subseteq Sessions \cup Ops
    BY DEF Given
  <1> HIDE DEF D
  <1>3. ASSUME NEW s \in Sessions
        PROVE  Map(S2, O2)[s] = IF s \in D THEN [Holding[s] EXCEPT !.phase = "gone"]
                                ELSE Holding[s]
    <2>1. LaterSession(session[s], S2[s])
      BY DEF Later
    <2>2. SessionPhase(S2[s]) = IF s \in D THEN "gone" ELSE SessionPhase(session[s])
      BY <1>a, <2>1 DEF LaterSession, SessionPhase
    <2>3. Holding[s] = [phase |-> SessionPhase(session[s]), claims |-> session[s].claims,
                        parent |-> NoSession]
      BY HoldingMap DEF Map
    <2>4. Map(S2, O2)[s] = [phase |-> SessionPhase(S2[s]), claims |-> session[s].claims,
                            parent |-> NoSession]
      BY <2>1 DEF Map, LaterSession
    <2> QED
      BY <2>2, <2>3, <2>4
  <1>4. ASSUME NEW o \in Ops
        PROVE  Map(S2, O2)[o] = IF o \in D THEN [Holding[o] EXCEPT !.phase = "gone"]
                                ELSE Holding[o]
    <2>1. LaterOp(op[o], O2[o])
      BY DEF Later
    <2>2. OpPhase(O2[o]) = IF o \in D THEN "gone" ELSE OpPhase(op[o])
      BY <1>b, <2>1 DEF LaterOp, OpPhase
    <2>3. Holding[o] = [phase |-> OpPhase(op[o]), claims |-> op[o].claims,
                        parent |-> op[o].session]
      BY HoldingMap, CoordinationAssumption DEF Map
    <2>4. Map(S2, O2)[o] = [phase |-> OpPhase(O2[o]), claims |-> op[o].claims,
                            parent |-> op[o].session]
      BY <2>1, CoordinationAssumption DEF Map, LaterOp
    <2> QED
      BY <2>2, <2>3, <2>4
  <1>5. Abstract!Dropped(D) = Map(S2, O2)
    <2>1. \A h \in Sessions \cup Ops :
            Map(S2, O2)[h] = IF h \in D THEN [Holding[h] EXCEPT !.phase = "gone"]
                             ELSE Holding[h]
      BY <1>3, <1>4
    <2>2. Map(S2, O2) = [h \in Sessions \cup Ops |-> Map(S2, O2)[h]]
      BY DEF Map
    <2> QED
      BY <2>1, <2>2 DEF Abstract!Dropped, Abstract!Holders
  <1>6. ASSUME NEW h \in Sessions \cup Ops, Holding[h].phase = "held",
               Holding[h].parent \in D
        PROVE  h \in D
    <2>1. h \in Ops
      BY <1>p, <1>6, <1>c, CoordinationAssumption
    <2> DEFINE s == op[h].session
    <2>2. s \in Sessions /\ s \in D
      <3>1. s \in Sessions \cup {NoSession}
        BY <2>1 DEF Inv, TypeOK, OpRow
      <3>2. s \in D
        BY <1>q, <1>6, <2>1
      <3> QED
        BY <1>c, <3>1, <3>2, CoordinationAssumption
    <2>3. ~Held(S2[s])
      BY <1>a, <2>2 DEF SessionPhase
    <2>4. O2[h].session = s
      BY <2>1 DEF Later, LaterOp
    <2>5. ~Live(O2[h])
      BY <2>1, <2>2, <2>3, <2>4, CoordinationAssumption DEF Tables, WithinSession
    <2>6. OpPhase(op[h]) = "held"
      BY <1>q, <1>6, <2>1
    <2>7. op[h].status # "none" /\ O2[h].status # "none"
      BY <2>1, <2>6 DEF OpPhase, Later, LaterOp
    <2> QED
      BY <1>b, <2>1, <2>5, <2>6, <2>7 DEF OpPhase
  <1>7. \A h \in D : Holding[h].phase = "held"
    BY DEF D, Given
  <1> QED
    BY <1>5, <1>6, <1>7 DEF D, Abstract!MayDrop, Abstract!Holders

\* A step that only gives claims up is an abstract drop, or none.
LEMMA LaterRefines ==
    ASSUME Inv, Tables(session', op'), Later(session, op, session', op')
    PROVE  [Abstract!Next]_Holding
  <1> DEFINE D == Given(session', op')
  <1>1. Abstract!MayDrop(D) /\ Abstract!Dropped(D) = Map(session', op')
    BY DropStep
  <1>2. Holding' = Map(session', op')
    BY DEF Holding, Map
  <1>3. CASE D = {}
    <2>1. Abstract!Dropped(D) = Holding
      BY <1>3, HoldingMap DEF Abstract!Dropped, Abstract!Holders, Map
    <2> QED
      BY <1>1, <1>2, <2>1
  <1>4. CASE D # {}
    <2>1. D \in SUBSET Abstract!Holders
      BY DEF Given, Abstract!Holders
    <2> QED
      BY <1>1, <1>2, <1>4, <2>1 DEF Abstract!Next, Abstract!Drop
  <1> QED
    BY <1>3, <1>4
-----------------------------------------------------------------------------
\* Reconciliation, draining and settling only give claims up.
LEMMA LaterTransitive ==
    ASSUME NEW S, NEW O, NEW S2, NEW O2, NEW S3, NEW O3,
           Later(S, O, S2, O2), Later(S2, O2, S3, O3)
    PROVE  Later(S, O, S3, O3)
  BY DEF Later, LaterSession, LaterOp

LEMMA SweptLater ==
    ASSUME Inv PROVE Later(session, op, SweptSessions, SweptOps)
  <1>1. \A s \in Sessions : LaterSession(session[s], SweptSessions[s])
    BY DEF Inv, TypeOK, SweptSessions, Drain, Expire, SessionRow, LaterSession, Held
  <1>2. \A o \in Ops : LaterOp(op[o], SweptOps[o])
    BY DEF Inv, TypeOK, SweptOps, Orphan, OpRow, LaterOp, Live
  <1> QED
    BY <1>1, <1>2 DEF Later

LEMMA DrainLater ==
    ASSUME NEW S, NEW O, Tables(S, O)
    PROVE  Later(S, O, Drain(S, O), O)
  <1>1. \A s \in Sessions : LaterSession(S[s], Drain(S, O)[s])
    BY DEF Tables, Drain, SessionRow, LaterSession, Held
  <1> QED
    BY <1>1 DEF Later, LaterOp

LEMMA SettleLater ==
    ASSUME NEW S, NEW O, Tables(S, O), NEW o \in Ops, NEW safe \in BOOLEAN, Live(O[o])
    PROVE  Later(S, O, S, Settle(O, o, safe))
  <1>1. \A p \in Ops : LaterOp(O[p], Settle(O, o, safe)[p])
    BY DEF Tables, Settle, OpRow, LaterOp, Live
  <1> QED
    BY <1>1 DEF Later, LaterSession

LEMMA TouchLater ==
    ASSUME NEW S, NEW O, Tables(S, O), NEW s \in Sessions, NEW row,
           Held(row), Held(S[s]), row.claims = S[s].claims
    PROVE  Later(S, O, [S EXCEPT ![s] = row], O)
  <1>1. \A t \in Sessions : LaterSession(S[t], [S EXCEPT ![s] = row][t])
    BY DEF Tables, LaterSession, Held
  <1> QED
    BY <1>1 DEF Later, LaterOp

\* Settling one operation after reconciling, then draining.
LEMMA SettleRefines ==
    ASSUME Inv, NEW S, NEW O, Tables(S, O), Later(session, op, S, O),
           NEW o \in Ops, NEW safe \in BOOLEAN, Live(O[o]),
           op' = Settle(O, o, safe), session' = Drain(S, op')
    PROVE  [Abstract!Next]_Holding
  <1> DEFINE P == Settle(O, o, safe)
  <1>1. Tables(S, P) /\ Later(S, O, S, P)
    BY SettleKeeps, SettleLater
  <1> HIDE DEF P
  <1>2. Tables(Drain(S, P), P) /\ Later(S, P, Drain(S, P), P)
    BY <1>1, DrainKeeps, DrainLater
  <1>3. Later(session, op, Drain(S, P), P)
    BY <1>1, <1>2, LaterTransitive
  <1>4. Tables(session', op') /\ Later(session, op, session', op')
    BY <1>2, <1>3 DEF P
  <1> QED
    BY <1>4, LaterRefines

\* Renewing or releasing a session gives up at most that session's claims.
LEMMA SessionActionRefines ==
    ASSUME Inv, NEW s \in Sessions, Renew(s) \/ Release(s)
    PROVE  [Abstract!Next]_Holding
  <1>1. Tables(SweptSessions, SweptOps) /\ Later(session, op, SweptSessions, SweptOps)
    BY SweptTables, SweptLater
  <1>2. SweptSessions[s] \in SessionRow
    BY <1>1 DEF Tables
  <1>3. Tables(session', op')
    BY RenewTables, ReleaseTables
  <1>4. ASSUME NEW S, NEW row \in SessionRow, S = [SweptSessions EXCEPT ![s] = row],
               row.claims = SweptSessions[s].claims, row.scopes = SweptSessions[s].scopes,
               Held(row) <=> Held(SweptSessions[s]),
               row = SweptSessions[s] \/ Held(SweptSessions[s]),
               session' = Drain(S, SweptOps), op' = SweptOps
        PROVE  [Abstract!Next]_Holding
    <2>1. Tables(S, SweptOps)
      BY <1>1, <1>4, TouchKeeps
    <2>2. Later(SweptSessions, SweptOps, S, SweptOps)
      <3>1. CASE row = SweptSessions[s]
        <4>1. S = SweptSessions
          BY <1>1, <1>4, <3>1 DEF Tables
        <4> QED
          BY <4>1 DEF Later, LaterSession, LaterOp
      <3>2. CASE Held(SweptSessions[s])
        BY <1>1, <1>4, <3>2, TouchLater
      <3> QED
        BY <1>4, <3>1, <3>2
    <2>3. Later(S, SweptOps, Drain(S, SweptOps), SweptOps)
      BY <2>1, DrainLater
    <2>4. Later(session, op, S, SweptOps)
      BY <1>1, <2>2, LaterTransitive
    <2>5. Later(session, op, Drain(S, SweptOps), SweptOps)
      BY <2>3, <2>4, LaterTransitive
    <2> QED
      BY <1>3, <1>4, <2>5, LaterRefines
  <1>5. CASE Renew(s)
    <2> DEFINE row == [SweptSessions[s] EXCEPT !.expires = now + SweptSessions[s].lease]
    <2>1. /\ row \in SessionRow
          /\ Held(row) /\ Held(SweptSessions[s])
          /\ row.claims = SweptSessions[s].claims
          /\ row.scopes = SweptSessions[s].scopes
      <3>1. now \in Nat
        BY DEF Inv, TypeOK
      <3> QED
        BY <1>2, <1>5, <3>1 DEF SessionRow, Held, Renew
    <2>2. /\ session' = Drain([SweptSessions EXCEPT ![s] = row], SweptOps)
          /\ op' = SweptOps
      BY <1>5 DEF Renew
    <2> HIDE DEF row
    <2> QED
      BY <1>4, <2>1, <2>2
  <1>6. CASE Release(s)
    <2> DEFINE row == [SweptSessions[s] EXCEPT !.status =
                          IF SweptSessions[s].status = "open" THEN "closing"
                          ELSE SweptSessions[s].status]
    <2>1. /\ row \in SessionRow
          /\ Held(row) <=> Held(SweptSessions[s])
          /\ row.claims = SweptSessions[s].claims
          /\ row.scopes = SweptSessions[s].scopes
          /\ row = SweptSessions[s] \/ Held(SweptSessions[s])
      BY <1>2 DEF SessionRow, Held
    <2>2. /\ session' = Drain([SweptSessions EXCEPT ![s] = row], SweptOps)
          /\ op' = SweptOps
      BY <1>6 DEF Release
    <2> HIDE DEF row
    <2> QED
      BY <1>4, <2>1, <2>2
  <1> QED
    BY <1>5, <1>6
-----------------------------------------------------------------------------
\* Reconciling and then granting one holder is an abstract grant.
LEMMA GrantRefines ==
    ASSUME Inv, NEW h \in Sessions \cup Ops, NEW r \in Requests,
           NEW parent \in Sessions \cup {NoSession},
           Abstract!MayGrant(Map(SweptSessions, SweptOps), h, RequestClaims(r), parent),
           Holding' = [Map(SweptSessions, SweptOps) EXCEPT ![h] =
               [phase |-> "held", claims |-> RequestClaims(r), parent |-> parent]]
    PROVE  Abstract!Next
  <1> DEFINE D == Given(SweptSessions, SweptOps)
  <1>1. Abstract!MayDrop(D) /\ Abstract!Dropped(D) = Map(SweptSessions, SweptOps)
    BY SweptTables, SweptLater, DropStep
  <1>2. D \in SUBSET Abstract!Holders /\ h \in Abstract!Holders
    BY DEF Given, Abstract!Holders
  <1> HIDE DEF D
  <1>3. Abstract!Grant(D, h, RequestClaims(r), parent)
    BY <1>1 DEF Abstract!Grant
  <1>4. RequestClaims(r) \in {RequestClaims(q) : q \in Requests}
    OBVIOUS
  <1> QED
    BY <1>1, <1>2, <1>3, <1>4 DEF Abstract!Next

\* The phases reconciliation leaves.
LEMMA SweptPhases ==
    /\ \A s \in Sessions :
            Map(SweptSessions, SweptOps)[s] =
                [phase |-> SessionPhase(SweptSessions[s]), claims |-> SweptSessions[s].claims,
                 parent |-> NoSession]
    /\ \A o \in Ops :
            Map(SweptSessions, SweptOps)[o] =
                [phase |-> OpPhase(SweptOps[o]), claims |-> SweptOps[o].claims,
                 parent |-> SweptOps[o].session]
  BY CoordinationAssumption DEF Map

\* The instance's copy of the overlap algebra is the same algebra.
LEMMA SameAlgebra ==
    ASSUME NEW A, NEW B
    PROVE  /\ Abstract!Conflicts(A, B) <=> Conflicts(A, B)
           /\ Abstract!Covers(A, B) <=> Covers(A, B)
  BY DEF Abstract!Conflicts, Abstract!Covers, Abstract!Collide, Abstract!Entitles,
         Abstract!Contains, Conflicts, Covers, Collide, Entitles, Contains

LEMMA FreeMayGrant ==
    ASSUME NEW claims, NEW parent \in Sessions \cup {NoSession}, Free(claims, parent),
           NEW h \in (Sessions \cup Ops) \ {parent},
           Map(SweptSessions, SweptOps)[h].phase = "held"
    PROVE  ~Conflicts(claims, Map(SweptSessions, SweptOps)[h].claims)
  <1>1. CASE h \in Sessions
    <2>1. Map(SweptSessions, SweptOps)[h] =
            [phase |-> SessionPhase(SweptSessions[h]), claims |-> SweptSessions[h].claims,
             parent |-> NoSession]
      BY <1>1, SweptPhases
    <2>2. Held(SweptSessions[h])
      BY <2>1 DEF SessionPhase
    <2> QED
      BY <1>1, <2>1, <2>2 DEF Free
  <1>2. CASE h \in Ops
    <2>1. Map(SweptSessions, SweptOps)[h] =
            [phase |-> OpPhase(SweptOps[h]), claims |-> SweptOps[h].claims,
             parent |-> SweptOps[h].session]
      BY <1>2, SweptPhases
    <2>2. Live(SweptOps[h])
      BY <2>1 DEF OpPhase
    <2> QED
      BY <1>2, <2>1, <2>2 DEF Free
  <1> QED
    BY <1>1, <1>2

LEMMA AcquireRefines ==
    ASSUME Inv, NEW s \in Sessions, NEW r \in Requests, NEW lease \in Leases,
           Acquire(s, r, lease)
    PROVE  Abstract!Next
  <1> DEFINE M == Map(SweptSessions, SweptOps)
             row == [status |-> "open", expires |-> now + lease, lease |-> lease,
                     scopes |-> r.scopes, claims |-> RequestClaims(r)]
             granted == [phase |-> "held", claims |-> RequestClaims(r), parent |-> NoSession]
  <1>1. SweptSessions[s].status = "none"
    BY SweptRows DEF Acquire
  <1>2. M[s].phase = "new"
    <2>1. M[s] = [phase |-> SessionPhase(SweptSessions[s]),
                  claims |-> SweptSessions[s].claims, parent |-> NoSession]
      BY SweptPhases
    <2> QED
      BY <1>1, <2>1 DEF SessionPhase
  <1>3. Free(RequestClaims(r), NoSession)
    BY DEF Acquire
  <1>4. Abstract!MayGrant(M, s, RequestClaims(r), NoSession)
    <2>1. \A h \in (Sessions \cup Ops) \ {NoSession} :
            M[h].phase = "held" => ~Conflicts(RequestClaims(r), M[h].claims)
      BY <1>3, FreeMayGrant, CoordinationAssumption
    <2> HIDE DEF M
    <2> QED
      BY <1>2, <2>1, SameAlgebra DEF Abstract!MayGrant, Abstract!Holders
  <1>5. Holding' = [M EXCEPT ![s] = granted]
    <2>1. /\ session' = [SweptSessions EXCEPT ![s] = row]
          /\ op' = SweptOps
      BY DEF Acquire
    <2>2. SweptSessions \in [Sessions -> SessionRow]
      BY SweptTables DEF Tables
    <2>3. /\ session'[s] = row
          /\ \A t \in Sessions \ {s} : session'[t] = SweptSessions[t]
      BY <2>1, <2>2
    <2>4. SessionPhase(row) = "held" /\ row.claims = RequestClaims(r)
      BY DEF SessionPhase, Held
    <2> HIDE DEF row
    <2>5. Holding' = Map(session', op')
      BY DEF Holding, Map
    <2>6. ASSUME NEW h \in Sessions \cup Ops
          PROVE  Map(session', op')[h] = [M EXCEPT ![s] = granted][h]
      <3>1. CASE h = s
        BY <2>3, <2>4, <3>1 DEF Map
      <3>2. CASE h # s
        BY <2>1, <2>3, <3>2 DEF Map
      <3> QED
        BY <3>1, <3>2
    <2> QED
      BY <2>5, <2>6 DEF Map
  <1> QED
    BY <1>4, <1>5, GrantRefines

LEMMA AdmitRefines ==
    ASSUME Inv, NEW o \in Ops, NEW s \in Sessions \cup {NoSession},
           NEW r \in Requests, NEW job \in BOOLEAN, Admit(o, s, r, job)
    PROVE  Abstract!Next
  <1> DEFINE M == Map(SweptSessions, SweptOps)
             granted == [phase |-> "held", claims |-> RequestClaims(r), parent |-> s]
  <1>1. SweptOps[o].status = "none"
    BY SweptRows DEF Admit
  <1>2. M[o].phase = "new"
    <2>1. M[o] = [phase |-> OpPhase(SweptOps[o]),
                  claims |-> SweptOps[o].claims, parent |-> SweptOps[o].session]
      BY SweptPhases
    <2> QED
      BY <1>1, <2>1 DEF OpPhase
  <1>3. Free(RequestClaims(r), s)
    BY DEF Admit
  <1>4. s # NoSession => M[s].phase = "held" /\ Covers(M[s].claims, RequestClaims(r))
    <2> SUFFICES ASSUME s # NoSession
                 PROVE  M[s].phase = "held" /\ Covers(M[s].claims, RequestClaims(r))
      OBVIOUS
    <2>1. M[s] = [phase |-> SessionPhase(SweptSessions[s]),
                  claims |-> SweptSessions[s].claims, parent |-> NoSession]
      BY SweptPhases
    <2>2. MayAdmit(s, r)
      BY DEF Admit
    <2> QED
      BY <2>1, <2>2 DEF MayAdmit, SessionPhase, Held
  <1>5. Abstract!MayGrant(M, o, RequestClaims(r), s)
    <2>1. \A h \in (Sessions \cup Ops) \ {s} :
            M[h].phase = "held" => ~Conflicts(RequestClaims(r), M[h].claims)
      BY <1>3, FreeMayGrant
    <2> HIDE DEF M
    <2> QED
      BY <1>2, <1>4, <2>1, SameAlgebra DEF Abstract!MayGrant, Abstract!Holders
  <1>6. Holding' = [M EXCEPT ![o] = granted]
    <2>1. Tables(SweptSessions, SweptOps)
      BY SweptTables
    <2>2. /\ op'[o].status = "active" /\ op'[o].claims = RequestClaims(r)
          /\ op'[o].session = s
          /\ \A p \in Ops \ {o} : op'[p] = SweptOps[p]
      BY <2>1 DEF Admit, Tables
    <2>3. \A t \in Sessions : /\ session'[t].status = SweptSessions[t].status
                              /\ session'[t].claims = SweptSessions[t].claims
      BY <2>1 DEF Admit, Tables, SessionRow
    <2>4. OpPhase(op'[o]) = "held"
      BY <2>2 DEF OpPhase, Live
    <2>5. Holding' = Map(session', op')
      BY DEF Holding, Map
    <2>6. ASSUME NEW h \in Sessions \cup Ops
          PROVE  Map(session', op')[h] = [M EXCEPT ![o] = granted][h]
      <3>1. CASE h = o
        BY <2>2, <2>4, <3>1, CoordinationAssumption DEF Map
      <3>2. CASE h \in Ops \ {o}
        BY <2>2, <3>2, CoordinationAssumption DEF Map
      <3>3. CASE h \in Sessions
        <4>1. SessionPhase(session'[h]) = SessionPhase(SweptSessions[h])
          BY <2>3, <3>3 DEF SessionPhase, Held
        <4> QED
          BY <2>3, <3>3, <4>1, CoordinationAssumption DEF Map
      <3> QED
        BY <3>1, <3>2, <3>3
    <2> QED
      BY <2>5, <2>6 DEF Map
  <1> QED
    BY <1>5, <1>6, GrantRefines

-----------------------------------------------------------------------------
LEMMA StepRefines == Inv /\ [Next]_vars => [Abstract!Next]_Holding
  <1> SUFFICES ASSUME Inv, [Next]_vars
               PROVE  [Abstract!Next]_Holding
    OBVIOUS
  <1>1. Tables(SweptSessions, SweptOps) /\ Later(session, op, SweptSessions, SweptOps)
    BY SweptTables, SweptLater
  <1>2. Tables(session, op) /\ Later(session, op, session, op)
    BY InvTables DEF Later, LaterSession, LaterOp
  <1>3. CASE session' = SweptSessions /\ op' = SweptOps
    BY <1>1, <1>3, LaterRefines
  <1>4. CASE session' = session /\ op' = op
    BY <1>4 DEF Holding
  <1>5. ASSUME NEW s \in Sessions, NEW r \in Requests, NEW lease \in Leases,
               Acquire(s, r, lease)
        PROVE  [Abstract!Next]_Holding
    BY <1>5, AcquireRefines
  <1>6. ASSUME NEW s \in Sessions, Renew(s) \/ Release(s)
        PROVE  [Abstract!Next]_Holding
    BY <1>6, SessionActionRefines
  <1>7. ASSUME NEW o \in Ops, NEW s \in Sessions \cup {NoSession},
               NEW r \in Requests, NEW job \in BOOLEAN, Admit(o, s, r, job)
        PROVE  [Abstract!Next]_Holding
    BY <1>7, AdmitRefines
  <1>8. ASSUME NEW o \in Ops, NEW safe \in BOOLEAN, Leave(o, safe)
        PROVE  [Abstract!Next]_Holding
    <2>1. Live(SweptOps[o])
      BY <1>8, SweptRows DEF Inv, AgentsAccounted, Leave, Live
    <2>2. op' = Settle(SweptOps, o, safe) /\ session' = Drain(SweptSessions, op')
      BY <1>8 DEF Leave
    <2> QED
      BY <1>1, <2>1, <2>2, SettleRefines
  <1>9. ASSUME NEW o \in Ops, Return(o)
        PROVE  [Abstract!Next]_Holding
    BY <1>8, <1>9 DEF Return
  <1>10. ASSUME NEW o \in Ops, NEW interrupted \in BOOLEAN, Raise(o, interrupted)
         PROVE  [Abstract!Next]_Holding
    <2>1. SafeFailure(op[o], interrupted) \in BOOLEAN
      BY DEF SafeFailure
    <2> QED
      BY <1>8, <1>10, <2>1 DEF Raise
  <1>11. ASSUME NEW o \in Ops, NEW safe \in BOOLEAN, FinishJob(o, safe)
         PROVE  [Abstract!Next]_Holding
    <2>1. /\ Live(op[o]) /\ op' = Settle(op, o, safe)
          /\ session' = Drain(session, op')
      BY <1>11 DEF FinishJob, Live
    <2> QED
      BY <1>2, <2>1, SettleRefines
  <1>12. ASSUME NEW o \in Ops, ForceRelease(o)
         PROVE  [Abstract!Next]_Holding
    <2>1. /\ Live(SweptOps[o]) /\ op' = Settle(SweptOps, o, TRUE)
          /\ session' = Drain(SweptSessions, op')
      BY <1>12 DEF ForceRelease, Live
    <2> QED
      BY <1>1, <2>1, SettleRefines
  <1>13. ASSUME NEW o \in Ops, NEW r \in Requests, ValidateJob(o, r)
         PROVE  [Abstract!Next]_Holding
    BY <1>3, <1>13 DEF ValidateJob
  <1>14. ASSUME NEW o \in Ops, Dispatch(o) \/ EffectStops(o) \/ Crash(o)
         PROVE  [Abstract!Next]_Holding
    BY <1>4, <1>14 DEF Dispatch, EffectStops, Crash
  <1>15. CASE Observe \/ Tick \/ UNCHANGED vars
    BY <1>3, <1>4, <1>15 DEF Observe, Tick, vars
  <1> QED
    BY <1>5, <1>6, <1>7, <1>9, <1>10, <1>11, <1>12, <1>13, <1>14, <1>15 DEF Next

LEMMA InitRefines == Init => Abstract!Init
  <1> SUFFICES ASSUME Init PROVE Abstract!Init
    OBVIOUS
  <1>1. \A s \in Sessions : SessionPhase(session[s]) = "new" /\ session[s].claims = {}
    BY DEF Init, SessionPhase
  <1>2. \A o \in Ops : /\ OpPhase(op[o]) = "new" /\ op[o].claims = {}
                       /\ op[o].session = NoSession
    BY DEF Init, OpPhase
  <1> QED
    BY <1>1, <1>2 DEF Abstract!Init, Abstract!Holders, Holding

\* Coordination implements the abstract reservations: whatever happens to
\* leases, callers and jobs, holders are only granted claims that conflict
\* with nobody else's, and a session goes after what it admitted.
THEOREM Implements == Spec => RefinesReservations
  BY InitRefines, StepRefines, InvHolds, PTL
  DEF Spec, RefinesReservations, Abstract!Spec
-----------------------------------------------------------------------------
\* What any step does to one job: nothing, its admission, a move of its
\* worker behind an unchanged row, or one of the two settlements.
JobUntouched(o) ==
    /\ op'[o] = op[o] /\ agent'[o] = agent[o] /\ effect'[o] = effect[o]
    /\ o \in forced' <=> o \in forced

JobAdmitted(o) ==
    /\ op[o].status = "none" /\ op'[o].status = "active" /\ op'[o].job
    /\ agent'[o] = "queued" /\ effect'[o] = effect[o] /\ forced' = forced

JobMoves(o) ==
    /\ op'[o] = op[o] /\ forced' = forced
    /\ \/ op[o].status = "active" /\ agent'[o] = "inside" /\ effect'[o] = effect[o]
       \/ agent[o] = "inside" /\ agent'[o] = "inside" /\ effect'[o] = "running"
       \/ /\ agent'[o] = "inside" => agent[o] = "inside"
          /\ effect'[o] = "running" => effect[o] = "running"

JobSettled(o) ==
    /\ op[o].status = "active" /\ op'[o].job
    /\ effect'[o] = effect[o] /\ forced' = forced
    /\ \/ op'[o].status = "uncertain" /\ agent'[o] = agent[o]
       \/ op'[o].status = "released" /\ effect[o] # "running" /\ agent'[o] = "done"

JobForced(o) ==
    /\ op[o].status = "uncertain" /\ op'[o].status = "released" /\ op'[o].job
    /\ forced' = forced \cup {o} /\ agent'[o] = agent[o] /\ effect'[o] = effect[o]

IsJob(o) == op[o].job /\ op[o].status # "none"

\* A row that is not a job's becomes one only by its admission, and a job's
\* row follows these moves.
LEMMA JobRows ==
    ASSUME Inv, [Next]_vars, NEW o \in Ops
    PROVE  \/ ~IsJob(o) /\ ~IsJob(o)'
           \/ ~IsJob(o) /\ JobAdmitted(o)
           \/ IsJob(o) /\ (JobUntouched(o) \/ JobMoves(o) \/ JobSettled(o) \/ JobForced(o))
  <1> DEFINE Follows == \/ ~IsJob(o) /\ ~IsJob(o)'
                        \/ ~IsJob(o) /\ JobAdmitted(o)
                        \/ /\ IsJob(o)
                           /\ \/ JobUntouched(o)
                              \/ JobMoves(o)
                              \/ JobSettled(o)
                              \/ JobForced(o)
  <1>1. /\ op \in [Ops -> OpRow] /\ SweptOps \in [Ops -> OpRow]
        /\ agent \in [Ops -> AgentState] /\ effect \in [Ops -> EffectState]
    BY SweptTables DEF Tables, Inv, TypeOK
  <1>2. /\ SweptOps[o].job = op[o].job
        /\ SweptOps[o].status = "none" <=> op[o].status = "none"
        /\ op[o].job => SweptOps[o] = op[o]
    BY SweptRows
  <1>3. op[o].job \in BOOLEAN /\ SweptOps[o].job \in BOOLEAN
    BY <1>1 DEF OpRow
  <1>4. ASSUME op'[o] = SweptOps[o] \/ op'[o] = op[o],
               agent'[o] = agent[o], effect'[o] = effect[o],
               o \in forced' <=> o \in forced
        PROVE  Follows
    BY <1>2, <1>3, <1>4 DEF IsJob, JobUntouched
  <1>5. ASSUME NEW p \in Ops, NEW s \in Sessions \cup {NoSession},
               NEW r \in Requests, NEW job \in BOOLEAN, Admit(p, s, r, job)
        PROVE  Follows
    <2>1. CASE p = o
      <3>1. op[o].status = "none" /\ op'[o].status = "active" /\ op'[o].job = job
        BY <1>1, <1>5, <2>1 DEF Admit
      <3>2. agent'[o] = (IF job THEN "queued" ELSE "inside") /\ UNCHANGED << effect, forced >>
        BY <1>1, <1>5, <2>1 DEF Admit
      <3>3. CASE job
        BY <3>1, <3>2, <3>3 DEF JobAdmitted, IsJob
      <3>4. CASE ~job
        BY <3>1, <3>4 DEF IsJob
      <3> QED
        BY <3>3, <3>4
    <2>2. CASE p # o
      <3>1. op'[o] = SweptOps[o] /\ agent'[o] = agent[o] /\ UNCHANGED << effect, forced >>
        BY <1>1, <1>5, <2>2 DEF Admit
      <3> QED
        BY <1>4, <3>1
    <2> QED
      BY <2>1, <2>2
  <1>6. ASSUME NEW p \in Ops, NEW safe \in BOOLEAN, Leave(p, safe)
        PROVE  Follows
    <2>1. CASE p = o
      <3>1. ~op[o].job /\ op' = Settle(SweptOps, o, safe)
        BY <1>6, <2>1 DEF Leave
      <3>2. op'[o].job = SweptOps[o].job
        BY <1>1, <3>1 DEF Settle, OpRow
      <3> QED
        BY <1>2, <3>1, <3>2 DEF IsJob
    <2>2. CASE p # o
      <3>1. op'[o] = SweptOps[o] /\ agent'[o] = agent[o] /\ UNCHANGED << effect, forced >>
        BY <1>1, <1>6, <2>2 DEF Leave, Settle
      <3> QED
        BY <1>4, <3>1
    <2> QED
      BY <2>1, <2>2
  <1>7. ASSUME NEW p \in Ops, NEW safe \in BOOLEAN, FinishJob(p, safe)
        PROVE  Follows
    <2>1. CASE p = o
      <3>1. /\ op[o].job /\ op[o].status = "active"
            /\ safe => effect[o] # "running"
            /\ UNCHANGED << effect, forced >>
        BY <1>7, <2>1 DEF FinishJob
      <3>2. op'[o] = [op[o] EXCEPT !.status = IF safe THEN "released" ELSE "uncertain"]
        BY <1>1, <1>7, <2>1, <3>1 DEF FinishJob, Settle
      <3>3. /\ op'[o].job = op[o].job
            /\ op'[o].status = IF safe THEN "released" ELSE "uncertain"
        BY <1>1, <3>2 DEF OpRow
      <3>4. agent'[o] = IF safe THEN "done" ELSE agent[o]
        BY <1>1, <1>7, <2>1 DEF FinishJob
      <3>5. CASE safe
        BY <3>1, <3>3, <3>4, <3>5 DEF JobSettled, IsJob
      <3>6. CASE ~safe
        BY <3>1, <3>3, <3>4, <3>6 DEF JobSettled, IsJob
      <3> QED
        BY <3>5, <3>6
    <2>2. CASE p # o
      <3>1. op'[o] = op[o] /\ agent'[o] = agent[o] /\ UNCHANGED << effect, forced >>
        BY <1>1, <1>7, <2>2 DEF FinishJob, Settle
      <3> QED
        BY <1>4, <3>1
    <2> QED
      BY <2>1, <2>2
  <1>8. ASSUME NEW p \in Ops, ForceRelease(p)
        PROVE  Follows
    <2>1. /\ op' = Settle(SweptOps, p, TRUE) /\ SweptOps[p].status = "uncertain"
          /\ forced' = forced \cup {p} /\ UNCHANGED << agent, effect >>
      BY <1>8 DEF ForceRelease
    <2>2. CASE p = o
      <3>1. op'[o].status = "released" /\ op'[o].job = SweptOps[o].job
        BY <1>1, <2>1, <2>2 DEF Settle, OpRow
      <3>2. CASE op[o].job
        BY <1>2, <2>1, <2>2, <3>1, <3>2 DEF JobForced, IsJob
      <3>3. CASE ~op[o].job
        BY <1>2, <3>1, <3>3 DEF IsJob
      <3> QED
        BY <3>2, <3>3
    <2>3. CASE p # o
      <3>1. op'[o] = SweptOps[o] /\ (o \in forced' <=> o \in forced)
        BY <1>1, <2>1, <2>3 DEF Settle
      <3> QED
        BY <1>4, <2>1, <3>1
    <2> QED
      BY <2>2, <2>3
  <1>9. ASSUME op'[o] = SweptOps[o] \/ op'[o] = op[o], JobMoves(o) \/ op'[o] # op[o]
        PROVE  Follows
    BY <1>2, <1>3, <1>9 DEF IsJob
  <1> HIDE DEF Follows
  <1>10. ASSUME NEW p \in Ops, NEW r \in Requests, ValidateJob(p, r)
         PROVE  Follows
    <2>1. CASE p = o
      <3>1. /\ op'[o] = op[o] /\ op[o].status = "active"
            /\ agent'[o] = "inside" /\ UNCHANGED << effect, forced >>
        BY <1>1, <1>2, <1>10, <2>1 DEF ValidateJob
      <3> QED
        BY <1>9, <3>1 DEF JobMoves
    <2>2. CASE p # o
      BY <1>1, <1>4, <1>10, <2>2 DEF ValidateJob
    <2> QED
      BY <2>1, <2>2
  <1>11. ASSUME NEW p \in Ops, Dispatch(p) \/ EffectStops(p) \/ Crash(p)
         PROVE  Follows
    <2>1. op' = op /\ forced' = forced
      BY <1>11 DEF Dispatch, EffectStops, Crash
    <2>2. CASE p = o
      <3>1. JobMoves(o)
        BY <1>1, <1>11, <2>1, <2>2 DEF Dispatch, EffectStops, Crash, JobMoves
      <3> QED
        BY <1>9, <2>1, <3>1
    <2>3. CASE p # o
      <3>1. agent'[o] = agent[o] /\ effect'[o] = effect[o]
        BY <1>1, <1>11, <2>3 DEF Dispatch, EffectStops, Crash
      <3> QED
        BY <1>4, <2>1, <3>1
    <2> QED
      BY <2>2, <2>3
  <1>12. ASSUME NEW p \in Ops, NEW interrupted \in BOOLEAN, Raise(p, interrupted)
         PROVE  Follows
    <2>1. SafeFailure(op[p], interrupted) \in BOOLEAN
      BY DEF SafeFailure
    <2> QED
      BY <1>6, <1>12, <2>1 DEF Raise
  <1>13. ASSUME NEW p \in Ops, Return(p)
         PROVE  Follows
    BY <1>6, <1>13 DEF Return
  <1>14. ASSUME NEW s \in Sessions, NEW r \in Requests, NEW lease \in Leases,
                Acquire(s, r, lease)
         PROVE  Follows
    BY <1>4, <1>14 DEF Acquire
  <1>15. ASSUME NEW s \in Sessions, Renew(s) \/ Release(s)
         PROVE  Follows
    BY <1>4, <1>15 DEF Renew, Release
  <1>16. ASSUME Observe
         PROVE  Follows
    BY <1>4, <1>16 DEF Observe
  <1>17. ASSUME Tick \/ UNCHANGED vars
         PROVE  Follows
    BY <1>4, <1>17 DEF Tick, vars
  <1>18. Follows
    BY <1>5, <1>7, <1>8, <1>10, <1>11, <1>12, <1>13, <1>14, <1>15, <1>16, <1>17 DEF Next
  <1> QED
    BY <1>18 DEF Follows

\* A row that is not a job's shows nothing of the contract.
LEMMA NoContract ==
    ASSUME Inv, NEW o \in Ops, ~IsJob(o)
    PROVE  /\ (IF op[o].job THEN op[o].status ELSE "none") = "none"
           /\ (op[o].job /\ agent[o] = "inside") = FALSE
           /\ (op[o].job /\ effect[o] = "running") = FALSE
           /\ (op[o].job /\ o \in forced) = FALSE
  <1>1. /\ (IF op[o].job THEN op[o].status ELSE "none") = "none"
        /\ ~(op[o].job /\ agent[o] = "inside")
        /\ ~(op[o].job /\ effect[o] = "running")
        /\ ~(op[o].job /\ o \in forced)
    BY DEF Inv, AgentsAccounted, IsJob
  <1> QED
    BY <1>1

LEMMA NoContractYet ==
    ASSUME Inv', NEW o \in Ops, ~IsJob(o)'
    PROVE  /\ (IF op'[o].job THEN op'[o].status ELSE "none") = "none"
           /\ (op'[o].job /\ agent'[o] = "inside") = FALSE
           /\ (op'[o].job /\ effect'[o] = "running") = FALSE
           /\ (op'[o].job /\ o \in forced') = FALSE
  <1>1. /\ (IF op'[o].job THEN op'[o].status ELSE "none") = "none"
        /\ ~(op'[o].job /\ agent'[o] = "inside")
        /\ ~(op'[o].job /\ effect'[o] = "running")
        /\ ~(op'[o].job /\ o \in forced')
    BY DEF Inv, AgentsAccounted, IsJob
  <1> QED
    BY <1>1

\* Each of the moves is a step of the contract, or none.
LEMMA JobStep ==
    ASSUME Inv, Inv', [Next]_vars, NEW o \in Ops
    PROVE  [JobContract(o)!Next]_(JobContract(o)!vars)
  <1>1. CASE ~IsJob(o) /\ ~IsJob(o)'
    BY <1>1, NoContract, NoContractYet DEF JobContract!vars
  <1>2. CASE ~IsJob(o) /\ JobAdmitted(o)
    <2>1. /\ op'[o].job /\ op'[o].status = "active"
          /\ agent'[o] # "inside" /\ effect'[o] # "running" /\ o \notin forced'
      BY <1>2 DEF JobAdmitted, Inv, AgentsAccounted
    <2>2. /\ (IF op'[o].job THEN op'[o].status ELSE "none") = "active"
          /\ (op'[o].job /\ agent'[o] = "inside") = FALSE
          /\ (op'[o].job /\ effect'[o] = "running") = FALSE
          /\ (op'[o].job /\ o \in forced') = FALSE
      BY <2>1
    <2>3. JobContract(o)!Admit
      BY <1>2, <2>2, NoContract DEF JobContract!Admit
    <2> QED
      BY <2>3 DEF JobContract!Next
  <1>3. CASE IsJob(o) /\ JobUntouched(o)
    BY <1>3 DEF JobUntouched, JobContract!vars
  <1>4. CASE IsJob(o) /\ JobMoves(o)
    <2>1. /\ op[o].job /\ op'[o].job /\ op'[o].status = op[o].status
          /\ forced' = forced
      BY <1>4 DEF IsJob, JobMoves
    <2>2. CASE op[o].status = "active" /\ agent'[o] = "inside" /\ effect'[o] = effect[o]
      <3>1. JobContract(o)!Validate
        BY <2>1, <2>2 DEF JobContract!Validate
      <3> QED
        BY <3>1 DEF JobContract!Next
    <2>3. CASE agent[o] = "inside" /\ agent'[o] = "inside" /\ effect'[o] = "running"
      <3>1. JobContract(o)!Start
        BY <2>1, <2>3 DEF JobContract!Start
      <3> QED
        BY <3>1 DEF JobContract!Next
    <2>4. CASE /\ agent'[o] = "inside" => agent[o] = "inside"
               /\ effect'[o] = "running" => effect[o] = "running"
      <3>1. JobContract(o)!Withdraw
        BY <2>1, <2>4 DEF JobContract!Withdraw
      <3> QED
        BY <3>1 DEF JobContract!Next
    <2> QED
      BY <1>4, <2>2, <2>3, <2>4 DEF JobMoves
  <1>5. CASE IsJob(o) /\ JobSettled(o)
    <2>1. /\ op[o].job /\ op'[o].job /\ op[o].status = "active"
          /\ effect'[o] = effect[o] /\ forced' = forced
          /\ \/ op'[o].status = "uncertain" /\ agent'[o] = agent[o]
             \/ op'[o].status = "released" /\ effect[o] # "running" /\ agent'[o] = "done"
      BY <1>5 DEF IsJob, JobSettled
    <2>2. JobContract(o)!Settle
      BY <2>1 DEF JobContract!Settle
    <2> QED
      BY <2>2 DEF JobContract!Next
  <1>6. CASE IsJob(o) /\ JobForced(o)
    <2>1. /\ op[o].job /\ op'[o].job
          /\ op[o].status = "uncertain" /\ op'[o].status = "released"
          /\ o \in forced' /\ agent'[o] = agent[o] /\ effect'[o] = effect[o]
      BY <1>6 DEF IsJob, JobForced
    <2>2. JobContract(o)!ForceRelease
      BY <2>1 DEF JobContract!ForceRelease
    <2> QED
      BY <2>2 DEF JobContract!Next
  <1> QED
    BY <1>1, <1>2, <1>3, <1>4, <1>5, <1>6, JobRows

\* No transaction of any other caller, observer or operator settles, revives
\* or authorizes a job's claim behind its supervisor's back.
THEOREM JobsKeepContract == Spec => JobsUnderContract
  <1>1. Init => \A o \in Ops : JobContract(o)!Init
    <2> SUFFICES ASSUME Init, NEW o \in Ops PROVE JobContract(o)!Init
      OBVIOUS
    <2>1. ~op[o].job
      BY DEF Init
    <2> QED
      BY <2>1 DEF JobContract!Init
  <1>2. Inv /\ Inv' /\ [Next]_vars =>
            [\A o \in Ops : [JobContract(o)!Next]_(JobContract(o)!vars)]_vars
    BY JobStep
  <1> QED
    BY <1>1, <1>2, InvHolds, PTL DEF Spec, JobsUnderContract
-----------------------------------------------------------------------------
(* A managed session: its check never passes without the database agreeing, and
   fails for good. *)

\* Where the owner is inside.
OwnerWorks == {"body", "using", "joining"}

\* Who is where: the object is open, and a renewer runs, exactly while the owner
\* is inside; an acquisition nobody waits for has no owner.
OwnerPhases ==
    /\ open <=> pc \in OwnerWorks
    /\ renewer \notin {"none", "done"} => pc \in OwnerWorks
    /\ "acquire" \in stray => pc \in {"failed", "dead"}
    /\ "release" \in stray => pc \in {"exited", "dead"}
    /\ pc = "startFailed" => kind = "thread"
    /\ failed => error

\* How the readings of the clock, the lease and the deadline are ordered.
OwnerTimes ==
    /\ clock <= time /\ mark <= time
    /\ expires <= time + Lease
    /\ pc \in {"granted", "starting"} \cup OwnerWorks =>
            \/ status = "open"
            \/ status = "closed" /\ expires <= time
    /\ open => deadline <= expires \/ deadline <= time
    /\ renewer \in {"answered", "setting"} => mark + Lease <= expires

OwnerInv == OwnerTypeOK /\ OwnerPhases /\ OwnerTimes

\* A session that nobody entered.
LEMMA OwnerInitInv == OwnerInit => OwnerInv
  <1> SUFFICES ASSUME OwnerInit PROVE OwnerInv
    OBVIOUS
  <1>1. OwnerTypeOK
    BY DEF OwnerInit, OwnerTypeOK, OwnerPC, RenewerPC, Stray
  <1>2. OwnerPhases
    BY DEF OwnerInit, OwnerPhases, OwnerWorks
  <1>3. OwnerTimes
    BY ManagedSessionAssumption DEF OwnerInit, OwnerTimes, OwnerWorks
  <1> QED
    BY <1>1, <1>2, <1>3 DEF OwnerInv

\* No step of the owner, its renewer, the database or a late request disturbs it.
LEMMA OwnerStepInv == OwnerInv /\ [OwnerNext]_ownerVars => OwnerInv'
  <1> SUFFICES ASSUME OwnerInv, [OwnerNext]_ownerVars PROVE OwnerInv'
    OBVIOUS
  <1> USE ManagedSessionAssumption
      DEF OwnerInv, OwnerTypeOK, OwnerPhases, OwnerTimes, OwnerWorks, OwnerPC, RenewerPC, Stray,
          server, owner, object, renewal, Healthy, Missed, MayGrant, MayExtend, Extend,
          RenewerMove
  <1>1. CASE TimePasses
    BY <1>1 DEF TimePasses
  <1>2. CASE Sweep
    BY <1>2 DEF Sweep
  <1>3. ASSUME NEW r \in Stray, ServeStray(r) PROVE OwnerInv'
    <2>1. CASE UNCHANGED server
      BY <1>3, <2>1 DEF ServeStray
    <2>2. CASE MayGrant /\ Extend /\ r = "acquire"
      BY <1>3, <2>2 DEF ServeStray
    <2>3. CASE MayExtend /\ Extend /\ r = "renew"
      BY <1>3, <2>3 DEF ServeStray
    <2>4. CASE r = "release" /\ status' = "closed" /\ UNCHANGED expires
      BY <1>3, <2>4 DEF ServeStray
    <2> QED
      BY <1>3, <2>1, <2>2, <2>3, <2>4 DEF ServeStray
  <1>4. CASE Enter
    BY <1>4 DEF Enter
  <1>5. CASE AcquireServed
    BY <1>5 DEF AcquireServed
  <1>6. CASE AcquireRefused
    BY <1>6 DEF AcquireRefused
  <1>7. CASE AcquireTimesOut
    BY <1>7 DEF AcquireTimesOut
  <1>8. CASE ReadMonotonic
    BY <1>8 DEF ReadMonotonic
  <1>9. CASE Start
    BY <1>9 DEF Start, FirstDeadline
  <1>10. CASE StartFails
    BY <1>10 DEF StartFails, FirstDeadline
  <1>11. CASE ReleaseServed
    BY <1>11 DEF ReleaseServed
  <1>12. CASE ReleaseFails
    BY <1>12 DEF ReleaseFails
  <1>13. CASE OwnerChecks
    BY <1>13 DEF OwnerChecks
  <1>14. CASE OperationAdmitted
    BY <1>14 DEF OperationAdmitted
  <1>15. CASE OperationRefused
    BY <1>15 DEF OperationRefused
  <1>16. CASE Exit
    BY <1>16 DEF Exit
  <1>17. CASE Joined
    <2>1. OwnerTypeOK' /\ OwnerTimes'
      BY <1>17 DEF Joined
    <2>2. open' = FALSE /\ pc' = "releasing" /\ renewer' = "done"
      BY <1>17 DEF Joined
    <2>3. failed' => error'
      BY <1>17 DEF Joined
    <2>4. "acquire" \notin stray' /\ "release" \notin stray'
      BY <1>17 DEF Joined
    <2> QED
      BY <2>1, <2>2, <2>3, <2>4
  <1>18. CASE Dies
    BY <1>18 DEF Dies
  <1>19. CASE Wakes
    BY <1>19 DEF Wakes
  <1>20. CASE Stops
    BY <1>20 DEF Stops
  <1>21. CASE RenewerChecks("checking", "marking")
    BY <1>21 DEF RenewerChecks
  <1>22. CASE Marks
    BY <1>22 DEF Marks
  <1>23. CASE RenewServed
    BY <1>23 DEF RenewServed
  <1>24. CASE RenewFails
    BY <1>24 DEF RenewFails
  <1>25. CASE RenewerChecks("answered", "setting")
    BY <1>25 DEF RenewerChecks
  <1>26. CASE SetsDeadline
    BY <1>26 DEF SetsDeadline, NextDeadline
  <1>27. CASE UNCHANGED ownerVars
    BY <1>27 DEF ownerVars
  <1> QED
    BY <1>1, <1>2, <1>3, <1>4, <1>5, <1>6, <1>7, <1>8, <1>9, <1>10, <1>11, <1>12,
       <1>13, <1>14, <1>15, <1>16, <1>17, <1>18, <1>19, <1>20, <1>21, <1>22, <1>23,
       <1>24, <1>25, <1>26, <1>27
    DEF OwnerNext, OwnerEnters, OwnerExits, RenewerStep

\* The phases and times of a managed session hold for every lease.
THEOREM OwnerInvHolds == OwnerSpec => []OwnerInv
  <1> QED
    BY OwnerInitInv, OwnerStepInv, PTL DEF OwnerSpec

\* Whenever check() would pass, the session is open in the database and its lease
\* has not run out.
THEOREM OwnerCheckIsRight == OwnerSpec => []TrustedLease
  <1>1. OwnerInv => TrustedLease
    BY ManagedSessionAssumption
    DEF OwnerInv, OwnerTypeOK, OwnerPhases, OwnerTimes, OwnerWorks, TrustedLease, Healthy
  <1> QED
    BY <1>1, OwnerInvHolds, PTL

\* Once a check or a renewal has failed, no check passes again.
THEOREM OwnerFailureIsFinal == OwnerSpec => FailsForGood
  <1>1. OwnerInv /\ OwnerInv' /\ [OwnerNext]_ownerVars => [failed => ~Healthy']_ownerVars
    <2> SUFFICES ASSUME OwnerInv, OwnerInv', [OwnerNext]_ownerVars, failed PROVE ~Healthy'
      OBVIOUS
    <2>1. failed'
      BY DEF OwnerNext, ownerVars, OwnerEnters, OwnerExits, RenewerStep, server, owner, object, renewal,
             TimePasses, Sweep, ServeStray, Enter, AcquireServed, AcquireRefused, AcquireTimesOut,
             ReadMonotonic, Start, StartFails, ReleaseServed, ReleaseFails, OwnerChecks,
             OperationAdmitted, OperationRefused, Exit, Joined, Dies, Wakes, Stops,
             RenewerChecks, Marks, RenewServed, RenewFails, SetsDeadline
    <2> QED
      BY <2>1 DEF OwnerInv, OwnerPhases, Healthy
  <1> QED
    BY <1>1, OwnerInvHolds, PTL DEF OwnerSpec, FailsForGood
=============================================================================
