------------------------------- MODULE Claims -------------------------------
(***************************************************************************)
(* The overlap algebra of src/ridge/claims.py: typed footprints, claims on *)
(* coordination domains, and the three relations every reservation is      *)
(* decided with.                                                           *)
(*                                                                         *)
(* A LockScope is None (the whole domain) or a nonempty tuple of path      *)
(* parts.  The empty sequence stands for None: the code forbids the empty  *)
(* tuple, so the two cannot be confused, and None contains every scope     *)
(* exactly as the empty sequence is a prefix of every sequence.            *)
(***************************************************************************)
EXTENDS Naturals, Sequences

CONSTANTS
    Domains,   \* coordination keys: two resources that may interfere share one
    Parts      \* path parts

WholeDomain == << >>

LockScope == Seq(Parts)

LockMode == {"shared", "exclusive"}

Claim == [domain : Domains, scope : LockScope, mode : LockMode]

\* Contains(p, c): the scope p is c or one of its ancestors.
Contains(parent, child) ==
    /\ Len(parent) <= Len(child)
    /\ \A i \in 1..Len(parent) : parent[i] = child[i]

\* One held claim that entitles its owner to one needed claim.
Entitles(left, right) ==
    /\ left.domain = right.domain
    /\ Contains(left.scope, right.scope)
    /\ left.mode = "exclusive" \/ right.mode = "shared"

Covers(held, needed) ==
    \A right \in needed : \E left \in held : Entitles(left, right)

\* Two claims that may not be held by two owners at once.
Collide(a, b) ==
    /\ a.domain = b.domain
    /\ "exclusive" \in {a.mode, b.mode}
    /\ Contains(a.scope, b.scope) \/ Contains(b.scope, a.scope)

Conflicts(left, right) ==
    \E a \in left, b \in right : Collide(a, b)

\* normalize(): the claims no other claim of the set makes redundant.
Normalize(claims) ==
    {c \in claims : ~Covers(claims \ {c}, {c})}
=============================================================================
