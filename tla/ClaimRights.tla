----------------------------- MODULE ClaimRights -----------------------------
(***************************************************************************)
(* What claims mean: the rights a set of claims entitles its owner to, one *)
(* path at a time, and what the relations of src/ridge/claims.py should    *)
(* say of them.                                                            *)
(***************************************************************************)
EXTENDS Claims

CONSTANT Depth   \* length of the paths the rights are about

ASSUME ClaimRightsAssumption == Parts # {} /\ Depth \in Nat

Scopes == UNION {[1..n -> Parts] : n \in 0..Depth}

\* The claims on scopes that paths of that length can tell apart.
Universe == [domain : Domains, scope : Scopes, mode : LockMode]

Paths == [1..Depth -> Parts]

Rights(claims) ==
    UNION {{[domain |-> c.domain, path |-> p, mode |-> m] :
                p \in {q \in Paths : \A i \in 1..Len(c.scope) : q[i] = c.scope[i]},
                m \in IF c.mode = "exclusive" THEN LockMode ELSE {"shared"}} :
           c \in claims}

Interfere(a, b) ==
    \E x \in Rights(a), y \in Rights(b) :
        /\ x.domain = y.domain
        /\ x.path = y.path
        /\ "exclusive" \in {x.mode, y.mode}

\* A reservation that covers an admission holds every right the admission
\* uses, and excludes whatever the admission's own claims would exclude
\* (claims.py covers, which admit and validate_job decide with).
CoverageIsSound(left, right) ==
    Covers(left, right) =>
        /\ Rights(right) \subseteq Rights(left)
        /\ \A c \in Universe : Conflicts(right, {c}) => Conflicts(left, {c})

\* Two claim sets conflict exactly when some path is touched by both and
\* one of them may change it (claims.py conflicts).
ConflictIsInterference(left, right) ==
    Conflicts(left, right) <=> Interfere(left, right)

\* Normalizing a plan drops no right and changes no later decision, and
\* leaves nothing redundant (claims.py normalize, run by acquire and admit
\* before the claims are compared and stored).
NormalizeKeepsMeaning(left, right) ==
    LET n == Normalize(left)
    IN  /\ Rights(n) = Rights(left)
        /\ Covers(n, left)
        /\ Conflicts(n, right) <=> Conflicts(left, right)
        /\ Covers(n, right) <=> Covers(left, right)
        /\ \A c \in n : ~Covers(n \ {c}, {c})
=============================================================================
