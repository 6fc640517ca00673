-------------------------- MODULE MCCoordination --------------------------
(***************************************************************************)
(* A small instance of Coordination for TLC: one coordination domain with  *)
(* two files, so that requests overlap, nest and miss each other.  The     *)
(* algebra is compared with the rights claims denote for all pairs of      *)
(* sets of up to two claims on paths as deep as Depth.                     *)
(***************************************************************************)
EXTENDS Coordination, ClaimRights, FiniteSetsExt, TLC

CONSTANTS d, fa, fb, r1

MCKey == [r \in {r1} |-> d]

File(f, mode) == [domain |-> d, scope |-> << f >>, mode |-> mode]

Scope(operation) == [resource |-> r1, operation |-> operation]

\* A planned write of one file, local: a failure of it is safe.
WriteA == [scopes |-> {Scope("data.write")}, plan |-> {File(fa, "exclusive")}, local |-> TRUE]

\* A planned remote write of the other file: a failure of it is not.
WriteB == [scopes |-> {Scope("data.write")}, plan |-> {File(fb, "exclusive")}, local |-> FALSE]

\* A command: it may touch the whole domain, and may leave children.
Exec == [scopes |-> {Scope("compute.exec")}, plan |-> NoPlan, local |-> TRUE]

\* A broad reservation for writing and reading.
Broad == [scopes |-> {Scope("data.write"), Scope("data.read")}, plan |-> NoPlan, local |-> TRUE]

TwoRequests == {WriteA, Broad}
ThreeRequests == {WriteB, Exec, Broad}

Identities == Permutations(Sessions) \cup Permutations(Ops)

SmallSets == UNION {kSubset(k, Universe) : k \in 0..2}

ASSUME AlgebraAssumption ==
    \A left, right \in SmallSets :
        /\ CoverageIsSound(left, right)
        /\ ConflictIsInterference(left, right)
        /\ NormalizeKeepsMeaning(left, right)
=============================================================================
