---------------------------- MODULE MCAdmission ----------------------------
(***************************************************************************)
(* A small instance of Admission for TLC: two first-level names with one   *)
(* entry below each, so that every kind of alias of two levels occurs.     *)
(***************************************************************************)
EXTENDS Admission

CONSTANTS d, e, f, fs

MCPlaces == {<< d >>, << e >>, << d, f >>, << e, f >>}

Reads(p) == [effect |-> "read", path |-> p]
Writes(p) == [effect |-> "write", path |-> p]

Read == [kind |-> "read", actions |-> {Reads(<< d, f >>)}]
List == [kind |-> "list", actions |-> {Reads(<< e >>)}]
Write == [kind |-> "write", actions |-> {Writes(<< d, f >>)}]
Delete == [kind |-> "delete", actions |-> {Writes(<< d >>)}]
Copy == [kind |-> "copy", actions |-> {Reads(<< d >>), Writes(<< e >>)}]
Exec == [kind |-> "exec", actions |-> {Writes(NoPath)}]

Lift == [kind |-> "copy", actions |-> {Reads(<< d, f >>), Writes(<< d >>)}]

MCRequests == {Read, Write, Delete, Copy, Lift, Exec}
MCSessions == {Write, Delete, Lift}
=============================================================================
