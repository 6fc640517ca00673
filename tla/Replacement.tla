---------------------------- MODULE Replacement ----------------------------
(***************************************************************************)
(* What a copy promises its caller: the destination is replaced as a whole *)
(* or not at all, and nothing that is reported as settled changes again.   *)
(* While the replacement is moved in, the destination may be absent; what  *)
(* was there before is kept until then.                                    *)
(***************************************************************************)
VARIABLES
    dest,    \* what is at the destination: "before", "moving" or "after"
    report   \* what the caller was told

vars == << dest, report >>

Init == dest = "before" /\ report = "none"

Moves ==
    /\ \/ dest = "before" /\ dest' \in {"moving", "after"}
       \/ dest = "moving" /\ dest' \in {"before", "after"}
    /\ report \in {"none", "unsettled"}
    /\ UNCHANGED report

Reports ==
    /\ report = "none"
    /\ \/ report' = "published" /\ dest = "after"
       \/ report' = "unchanged" /\ dest = "before"
       \/ report' = "unsettled"
    /\ UNCHANGED dest

Next == Moves \/ Reports

Spec == Init /\ [][Next]_vars
=============================================================================
