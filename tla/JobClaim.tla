------------------------------ MODULE JobClaim ------------------------------
(***************************************************************************)
(* The contract between a background job and the claim that is admitted    *)
(* for it, seen from both sides.  Coordination owns the row of table       *)
(* lock_operations and shows that each job's row follows the contract;     *)
(* Jobs owns the processes and shows that they do.  Settling a claim as    *)
(* safe is a statement about the processes, which only Jobs can justify.   *)
(***************************************************************************)
VARIABLES
    row,      \* status of the job's row
    may,      \* a worker passed validate_job() and may still start work
    working,  \* work on the resource is running somewhere
    forced    \* an operator vouched for the end of the work

vars == << row, may, working, forced >>

Init == row = "none" /\ may = FALSE /\ working = FALSE /\ forced = FALSE

Admit ==
    /\ row = "none"
    /\ row' = "active"
    /\ UNCHANGED << may, working, forced >>

\* Only an active row authorizes a worker.
Validate ==
    /\ row = "active"
    /\ may' = TRUE
    /\ UNCHANGED << row, working, forced >>

Start ==
    /\ may
    /\ working' = TRUE
    /\ UNCHANGED << row, may, forced >>

\* Workers and their work end, in any order and for any reason.
Withdraw ==
    /\ may' \in {may, FALSE}
    /\ working' \in {working, FALSE}
    /\ UNCHANGED << row, forced >>

\* Once, and as safe only when nothing runs and nothing will.
Settle ==
    /\ row = "active"
    /\ \/ row' = "uncertain" /\ UNCHANGED may
       \/ row' = "released" /\ ~working /\ may' = FALSE
    /\ UNCHANGED << working, forced >>

ForceRelease ==
    /\ row = "uncertain"
    /\ row' = "released"
    /\ forced' = TRUE
    /\ UNCHANGED << may, working >>

Next == Admit \/ Validate \/ Start \/ Withdraw \/ Settle \/ ForceRelease

Spec == Init /\ [][Next]_vars
=============================================================================
