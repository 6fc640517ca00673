-------------------------- MODULE MCAccessScopes --------------------------
(***************************************************************************)
(* A small instance of AccessScopes for TLC: two resources, one right on   *)
(* each, and configurations that take a right away or replace a resource.  *)
(***************************************************************************)
EXTENDS AccessScopes, TLC

CONSTANTS ra, rb, x, y

MCResourceOf == (x :> ra) @@ (y :> rb)

Full == [policy |-> {x, y}, delegable |-> {x, y}, identity |-> [r \in {ra, rb} |-> 0]]

\* x is not allowed any more.
Narrow == [Full EXCEPT !.policy = {y}]

\* Besides, rb was replaced by another machine: a scope that names y is out of
\* date, one for x alone stays active and may do nothing.
Replaced == [Narrow EXCEPT !.identity = [r \in {ra, rb} |-> IF r = rb THEN 1 ELSE 0]]

Worker == [use |-> {x}, delegate |-> {}]
Broker == [use |-> {}, delegate |-> {x, y}]

MCGrants == {Worker, Broker}

MCConfigs == {Full, Narrow, Replaced}

Identities == Permutations(Scopes) \cup Permutations(Requests)
=============================================================================
