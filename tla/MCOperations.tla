---------------------------- MODULE MCOperations ----------------------------
(* Two calls on one destination, through each kind of provider *)
EXTENDS Operations, TLC

CONSTANTS c1, c2

MCCalls == {c1, c2}

\* What stands at the destination from outside is too much for a bounded read.
MCBig == {Foreign}

Ask(kind, tree, timed) == [kind |-> kind, tree |-> tree, timed |-> timed]

\* Every kind beside every kind that a claim lets it meet.
MCRequests ==
    c1 :> {Ask("write", FALSE, FALSE), Ask("delete", TRUE, FALSE), Ask("exec", FALSE, TRUE)} @@
    c2 :> {Ask("write", FALSE, FALSE), Ask("delete", FALSE, FALSE),
           Ask("read", FALSE, FALSE), Ask("look", FALSE, FALSE)}
=============================================================================
