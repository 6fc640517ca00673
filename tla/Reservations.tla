---------------------------- MODULE Reservations ----------------------------
(***************************************************************************)
(* What src/ridge/coordination.py promises, without leases, processes,     *)
(* flocks or recovery: a set of holders, each of which is granted a set of *)
(* claims at most once and gives it up at most once.  A holder may be      *)
(* granted claims under a parent; the parent covers them, and outlives it. *)
(***************************************************************************)
EXTENDS Claims

CONSTANTS
    Sessions,  \* holders that may be a parent
    Ops,       \* holders that may have one
    Nobody,    \* the parent of a holder without one
    Wanted     \* the claim sets holders may ask for

VARIABLE holder

Holders == Sessions \cup Ops

Row == [phase : {"new", "held", "gone"}, claims : SUBSET Claim, parent : Sessions \cup {Nobody}]

Init == holder = [h \in Holders |-> [phase |-> "new", claims |-> {}, parent |-> Nobody]]

\* A parent goes only with, or after, everything granted under it.
MayDrop(D) ==
    /\ \A h \in D : holder[h].phase = "held"
    /\ \A h \in Holders : holder[h].phase = "held" /\ holder[h].parent \in D => h \in D

Dropped(D) ==
    [h \in Holders |-> IF h \in D THEN [holder[h] EXCEPT !.phase = "gone"] ELSE holder[h]]

MayGrant(H, h, claims, parent) ==
    /\ H[h].phase = "new"
    /\ parent # Nobody =>
        /\ h \in Ops
        /\ H[parent].phase = "held"
        /\ Covers(H[parent].claims, claims)
    /\ \A other \in Holders \ {parent} :
            H[other].phase = "held" => ~Conflicts(claims, H[other].claims)

Drop(D) ==
    /\ D # {}
    /\ holder' = Dropped(D)

\* A grant may find room by dropping what is over in the same step.
Grant(D, h, claims, parent) ==
    /\ MayGrant(Dropped(D), h, claims, parent)
    /\ holder' = [Dropped(D) EXCEPT ![h] =
            [phase |-> "held", claims |-> claims, parent |-> parent]]

Next ==
    \E D \in SUBSET Holders :
        /\ MayDrop(D)
        /\ \/ Drop(D)
           \/ \E h \in Holders, claims \in Wanted, parent \in Sessions \cup {Nobody} :
                    Grant(D, h, claims, parent)

Spec == Init /\ [][Next]_holder
=============================================================================
