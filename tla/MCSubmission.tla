---------------------------- MODULE MCSubmission ----------------------------
(***************************************************************************)
(* A small instance of Submission for TLC: a write and a command under one *)
(* idempotency key, and a write without a key, which is its own request.   *)
(* Liveness rules symmetry reduction out; so the requests are dealt out in *)
(* order, which is the same thing for the initial states.                  *)
(***************************************************************************)
EXTENDS Submission, SequencesExt

CONSTANTS write, exec

Write == [digest |-> write, keyed |-> TRUE, prepares |-> TRUE, payload |-> TRUE]
Exec == [digest |-> exec, keyed |-> TRUE, prepares |-> FALSE, payload |-> FALSE]
WriteUnkeyed == [Write EXCEPT !.keyed = FALSE]

MCRequests == {Write, Exec, WriteUnkeyed}

\* A write and a retry of it beside any other, or one of each.
Mixes ==
    {<< Write, Write, r >> : r \in MCRequests} \cup {<< Write, Exec, WriteUnkeyed >>}

Dealt ==
    LET order == SetToSeq(Submitters)
    IN  \E mix \in Mixes : \A i \in 1..Len(order) : request[order[i]] = mix[i]

MCInit == Init /\ Dealt

MCSpec == MCInit /\ [][Next]_vars /\ Fairness
=============================================================================
