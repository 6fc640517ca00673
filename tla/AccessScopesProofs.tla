------------------------- MODULE AccessScopesProofs -------------------------
(***************************************************************************)
(* The safety of delegated authority, for every set of scopes, requests,   *)
(* rights and configurations, every depth and every clock: Inv is          *)
(* inductive, and what ancestors can do and closures mean follows from it. *)
(***************************************************************************)
EXTENDS AccessScopes, TLAPS, FiniteSetTheorems

USE AccessAssumption

-----------------------------------------------------------------------------
(* The walk from the root *)

LEMMA LeastNatural ==
    ASSUME NEW T, T \subseteq Nat, T # {}
    PROVE  \E i \in T : \A j \in T : i <= j
<1> DEFINE I == {1..i : i \in T}
           R == StrictSubsetOrdering(Nat)
<1>1. I \subseteq FiniteSubsetsOf(Nat) /\ I # {}
  <2>1. ASSUME NEW i \in Nat
        PROVE  1..i \in FiniteSubsetsOf(Nat)
    <3>1. IsFiniteSet(1..i)
      BY FS_Interval
    <3>2. 1..i \subseteq Nat
      OBVIOUS
    <3> QED  BY <3>1, <3>2 DEF FiniteSubsetsOf
  <2> QED  BY <2>1
<1>2. PICK A \in I : \A B \in I : << B, A >> \notin R
  <2> HIDE DEF R, I
  <2> QED  BY <1>1, WFMin, FS_StrictSubsetOrderingWellFounded DEF R
<1>3. PICK i \in T : A = 1..i
  BY <1>2
<1>4. ASSUME NEW j \in T, j < i
      PROVE  FALSE
  <2>1. 1..j \subseteq 1..i /\ 1..j # 1..i /\ 1..j \subseteq Nat /\ 1..i \subseteq Nat
    <3> i \in 1..i /\ i \notin 1..j
      BY <1>4
    <3> QED  BY <1>4
  <2>2. << 1..j, 1..i >> \in R
    BY <2>1 DEF StrictSubsetOrdering
  <2>3. 1..j \in I
    OBVIOUS
  <2> HIDE DEF R, I
  <2> QED  BY <1>2, <1>3, <2>2, <2>3
<1> QED  BY <1>3, <1>4

\* A lineage that is not sound has a row where the walk stops.
LEMMA FirstExists ==
    ASSUME TypeOK, NEW L, NEW s \in Scopes, ~LineageSound(L, s)
    PROVE  \E t \in Lineage(s) : FirstUnsound(L, s, t)
<1> DEFINE line == scope[s].line
           T == {i \in DOMAIN line : ~Sound(L, line[i])}
<1>1. line \in Seq(Scopes)
  BY DEF TypeOK, Row
<1>2. T \subseteq Nat /\ T # {}
  BY <1>1 DEF LineageSound, Lineage
<1>3. PICK i \in T : \A j \in T : i <= j
  <2> HIDE DEF T
  <2> QED  BY <1>2, LeastNatural
<1>4. \A j \in 1..i-1 : Sound(L, line[j])
  BY <1>1, <1>3
<1> QED  BY <1>1, <1>3, <1>4 DEF FirstUnsound, Lineage

-----------------------------------------------------------------------------
(* What a transaction does to rows that are there *)

\* Everything but an active status is for good.
SameRow(t) ==
    /\ scope'[t].line = scope[t].line
    /\ scope'[t].use = scope[t].use
    /\ scope'[t].delegate = scope[t].delegate
    /\ scope'[t].expires = scope[t].expires
    /\ scope'[t].status = "none" <=> scope[t].status = "none"
    /\ scope[t].status \in Terminal => scope'[t].status = scope[t].status

LEMMA ClosingRows ==
    ASSUME TypeOK, NEW L, NEW V, scope' = Closing(L, V)
    PROVE  /\ scope' \in [Scopes -> Row]
           /\ \A t \in Scopes : SameRow(t)
           /\ \A t \in Scopes :
                 scope[t].status = "active" /\ (\E s \in V : FirstUnsound(L, s, t))
                    => scope'[t].status \in Terminal
<1> SUFFICES ASSUME NEW t \in Scopes
             PROVE  /\ scope'[t] \in Row
                    /\ SameRow(t)
                    /\ scope[t].status = "active" /\ (\E s \in V : FirstUnsound(L, s, t))
                          => scope'[t].status \in Terminal
  BY DEF Closing
<1> DEFINE C == scope[t].status = "active" /\ \E s \in V : FirstUnsound(L, s, t)
<1>1. scope[t] \in Row
  BY DEF TypeOK
<1>2. CASE ~C
  <2>1. scope'[t] = scope[t]
    BY <1>2 DEF Closing
  <2> QED  BY <1>1, <1>2, <2>1 DEF SameRow
<1>3. CASE C
  <2>1. PICK c \in {"expired", "invalidated"} : scope'[t] = [scope[t] EXCEPT !.status = c]
    BY <1>3 DEF Closing
  <2> QED  BY <1>1, <1>3, <2>1 DEF Row, SameRow, Terminal
<1> QED  BY <1>2, <1>3

LEMMA RevokedRows ==
    ASSUME TypeOK, NEW s \in Scopes, scope' = [scope EXCEPT ![s].status = "revoked"]
    PROVE  /\ scope' \in [Scopes -> Row]
           /\ scope[s].status = "active" => \A t \in Scopes : SameRow(t)
           /\ scope'[s].status \in Terminal
<1>1. scope' = [scope EXCEPT ![s] = [scope[s] EXCEPT !.status = "revoked"]]
  OBVIOUS
<1>2. scope[s] \in Row
  BY DEF TypeOK
<1>3. [scope[s] EXCEPT !.status = "revoked"] \in Row
  BY <1>2 DEF Row, Terminal
<1>4. scope' \in [Scopes -> Row]
  BY <1>1, <1>3 DEF TypeOK
<1>5. ASSUME scope[s].status = "active", NEW t \in Scopes
      PROVE  SameRow(t)
  BY <1>1, <1>2, <1>5 DEF SameRow, Row, TypeOK, Terminal
<1>6. scope'[s].status \in Terminal
  BY <1>1, <1>2 DEF Row, TypeOK, Terminal
<1> QED  BY <1>4, <1>5, <1>6

\* Whoever is refused has found a row that is closed then, or was before.
LEMMA ClosingCloses ==
    ASSUME TypeOK, LinesAgree, NEW L, NEW V, NEW s \in V, s \in Scopes,
           ~LineageSound(L, s), scope' = Closing(L, V)
    PROVE  \E t \in Lineage(s) : scope'[t].status \in Terminal
<1>1. PICK t \in Lineage(s) : FirstUnsound(L, s, t)
  BY FirstExists
<1>2. t \in Scopes /\ scope[t].status # "none"
  BY <1>1 DEF TypeOK, Row, Lineage, LinesAgree
<1>3. scope[t].status \in {"active"} \cup Terminal
  BY <1>2 DEF TypeOK, Row
<1> QED  BY <1>1, <1>2, <1>3, ClosingRows DEF SameRow

LEMMA LineageTyped ==
    ASSUME TypeOK, NEW s \in Scopes
    PROVE  Lineage(s) \subseteq Scopes
  BY DEF TypeOK, Row, Lineage

-----------------------------------------------------------------------------
(* Types *)

LEMMA TypeInit == Init => TypeOK
  BY DEF Init, TypeOK, Row, Request, Config

LEMMA TypeStep == TypeOK /\ [Next]_vars => TypeOK'
<1> SUFFICES ASSUME TypeOK, [Next]_vars
             PROVE  TypeOK'
  OBVIOUS
<1>1. ASSUME NEW q \in Requests, NEW a \in Scopes \cup {Operator}, Read(q, a)
      PROVE  TypeOK'
  BY <1>1 DEF Read, TypeOK, Request
<1>2. ASSUME NEW q \in Requests, Check(q)
      PROVE  TypeOK'
  <2>1. request' \in [Requests -> Request]
    BY <1>2 DEF Check, TypeOK, Request
  <2> QED  BY <1>2, <2>1 DEF Check, TypeOK
<1>3. ASSUME NEW q \in Requests, Ends(q)
      PROVE  request' \in [Requests -> Request]
  BY <1>3 DEF Ends, TypeOK, Request
<1>4. ASSUME NEW q \in Requests, Refuse(q)
      PROVE  TypeOK'
  <2>1. request' \in [Requests -> Request]
    BY <1>3, <1>4 DEF Refuse, Ends
  <2>2. scope' \in [Scopes -> Row]
    BY <1>4, ClosingRows DEF Refuse
  <2>3. request[q].actor \in Scopes
    BY <1>4 DEF Refuse, Admissible, TypeOK, Request
  <2> QED  BY <1>4, <2>1, <2>2, <2>3 DEF Refuse, TypeOK
<1>5. ASSUME NEW q \in Requests, GiveUp(q)
      PROVE  TypeOK'
  BY <1>3, <1>5 DEF GiveUp, Ends, TypeOK
<1>6. ASSUME NEW q \in Requests, NEW s \in Scopes, NEW g \in Grants, NEW e \in Expiries,
             Issue(q, s, g, e)
      PROVE  TypeOK'
  <2> DEFINE a == request[q].actor
             until == IF a = Operator \/ e # Never THEN e ELSE scope[a].expires
             row == [status |-> "active",
                     line |-> Append(IF a = Operator THEN << >> ELSE scope[a].line, s),
                     use |-> g.use, delegate |-> g.delegate,
                     expires |-> until, pinned |-> request[q].loaded.identity]
  <2>1. request[q] \in Request /\ a \in Scopes \cup {Operator}
    BY DEF TypeOK, Request
  <2>2. until \in Nat \cup {Never}
    BY <2>1 DEF TypeOK, Row
  <2>3. row.line \in Seq(Scopes)
    <3>1. a # Operator => scope[a].line \in Seq(Scopes)
      BY <2>1 DEF TypeOK, Row
    <3>2. (IF a = Operator THEN << >> ELSE scope[a].line) \in Seq(Scopes)
      BY <3>1
    <3> QED  BY <3>2
  <2>4. g.use \in SUBSET Rights /\ g.delegate \in SUBSET Rights
    BY DEF Grant
  <2>5. request[q].loaded.identity \in [Resources -> Nat]
    BY <2>1 DEF Request, Config
  <2>6. row \in Row
    <3> HIDE DEF until, a
    <3> QED  BY <2>2, <2>3, <2>4, <2>5 DEF Row
  <2>7. scope' = [scope EXCEPT ![s] = row]
    BY <1>6 DEF Issue
  <2>8. scope' \in [Scopes -> Row]
    <3> HIDE DEF row
    <3> QED  BY <2>6, <2>7 DEF TypeOK
  <2>9. Ends(q) /\ UNCHANGED << now, config, work, told >>
    BY <1>6 DEF Issue
  <2> QED  BY <1>3, <2>8, <2>9 DEF TypeOK
<1>7. ASSUME NEW q \in Requests, NEW s \in Scopes, Revoke(q, s)
      PROVE  TypeOK'
  <2>1. scope' \in [Scopes -> Row]
    <3>1. CASE LineageSound(request[q].loaded, s)
      <4>1. scope' = [scope EXCEPT ![s].status = "revoked"]
        BY <1>7, <3>1 DEF Revoke
      <4> QED  BY <4>1, RevokedRows
    <3>2. CASE ~LineageSound(request[q].loaded, s)
      BY <1>7, <3>2, ClosingRows DEF Revoke
    <3> QED  BY <3>1, <3>2
  <2> QED  BY <1>3, <1>7, <2>1 DEF Revoke, TypeOK
<1>8. ASSUME NEW q \in Requests, NEW V \in SUBSET Scopes, List(q, V)
      PROVE  TypeOK'
  <2>1. scope' \in [Scopes -> Row]
    BY <1>8, ClosingRows DEF List
  <2> QED  BY <1>3, <1>8, <2>1 DEF List, TypeOK
<1>9. ASSUME NEW q \in Requests, NEW r \in Rights, Admit(q, r)
      PROVE  TypeOK'
  <2>1. request[q].actor \in Scopes
    BY <1>9 DEF Admit, TypeOK, Request
  <2> QED  BY <1>3, <1>9, <2>1 DEF Admit, TypeOK, Work
<1>10. ASSUME NEW q \in Requests, NEW w \in work, Control(q, w)
       PROVE  TypeOK'
  BY <1>3, <1>10 DEF Control, TypeOK
<1>11. CASE ChangeConfig
  BY <1>11 DEF ChangeConfig, TypeOK
<1>12. CASE Tick
  BY <1>12 DEF Tick, TypeOK
<1>13. CASE UNCHANGED vars
  BY <1>13 DEF vars, TypeOK
<1> QED  BY <1>1, <1>2, <1>4, <1>5, <1>6, <1>7, <1>8, <1>9, <1>10, <1>11, <1>12, <1>13 DEF Next

-----------------------------------------------------------------------------
(* Transactions that issue nothing *)

LEMMA RowsKept ==
    ASSUME TypeOK, \A t \in Scopes : SameRow(t), NEW s \in Scopes
    PROVE  /\ Lineage(s)' = Lineage(s)
           /\ Ancestors(s)' = Ancestors(s)
           /\ Granted(s)' = Granted(s)
  BY DEF SameRow, Lineage, Ancestors, Granted

LEMMA Kept ==
    ASSUME Inv, TypeOK', \A t \in Scopes : SameRow(t),
           \A q \in Requests : request'[q].pc # "idle" /\ request'[q].actor # Operator =>
                scope[request'[q].actor].status # "none",
           \A w \in work' : /\ scope[w.owner].status # "none"
                            /\ w.right \in scope[w.owner].use
                            /\ \A t \in Ancestors(w.owner) : w.right \in scope[t].delegate,
           \A s \in told' : \E t \in Lineage(s) : scope'[t].status \in Terminal
    PROVE  Inv'
<1>1. \A s \in Scopes : Lineage(s) \subseteq Scopes
  BY LineageTyped DEF Inv
<1>2. \A s \in Scopes : /\ Lineage(s)' = Lineage(s)
                        /\ Ancestors(s)' = Ancestors(s)
                        /\ Granted(s)' = Granted(s)
  BY RowsKept DEF Inv
<1>3. LinesAgree'
  BY <1>1, <1>2 DEF Inv, LinesAgree, SameRow
<1>4. ActorsIssued'
  BY DEF ActorsIssued, SameRow, TypeOK, Request
<1>5. WorkWithin'
  BY <1>1, <1>2 DEF WorkWithin, SameRow, TypeOK, Work, Ancestors
<1>6. ChildrenWithin'
  BY <1>1, <1>2 DEF Inv, ChildrenWithin, SameRow, Ancestors, NotLater
<1>7. Resolvable'
  BY DEF Inv, Resolvable, SameRow
<1>8. ToldIsClosed'
  BY <1>2 DEF ToldIsClosed, TypeOK
<1> QED  BY <1>3, <1>4, <1>5, <1>6, <1>7, <1>8 DEF Inv

-----------------------------------------------------------------------------
(* issue() *)

\* The new row goes below rows that are there and above none.
LEMMA IssuedBelow ==
    ASSUME Inv, NEW q \in Requests, NEW s \in Scopes, NEW g \in Grants, NEW e \in Expiries,
           Issue(q, s, g, e)
    PROVE  LET a == request[q].actor
               above == IF a = Operator THEN {} ELSE Lineage(a)
           IN  /\ a # Operator => a \in Scopes /\ scope[a].status # "none"
               /\ scope[s].status = "none" /\ scope'[s].status = "active"
               /\ Lineage(s)' = above \cup {s}
               /\ s \notin above
               /\ Len(scope'[s].line) <= MaxDepth
               /\ \A t \in Scopes \ {s} : scope'[t] = scope[t] /\ Lineage(t)' = Lineage(t)
<1> DEFINE a == request[q].actor
           upper == IF a = Operator THEN << >> ELSE scope[a].line
<1>1. a # Operator => a \in Scopes /\ scope[a].status # "none"
  BY DEF Issue, Acts, Inv, TypeOK, Request, ActorsIssued
<1>2. upper \in Seq(Scopes)
  <2>1. a # Operator => scope[a].line \in Seq(Scopes)
    BY <1>1 DEF Inv, TypeOK, Row
  <2> QED  BY <2>1
<1>3. scope'[s].line = Append(upper, s) /\ scope'[s].status = "active"
  BY DEF Issue, Inv, TypeOK
<1>4. \A t \in Scopes \ {s} : scope'[t] = scope[t]
  BY DEF Issue, Inv, TypeOK
<1>5. Lineage(s)' = {upper[i] : i \in DOMAIN upper} \cup {s}
  <2> HIDE DEF upper
  <2>1. Lineage(s)' = {Append(upper, s)[i] : i \in DOMAIN Append(upper, s)}
    BY <1>3 DEF Lineage
  <2>2. DOMAIN Append(upper, s) = DOMAIN upper \cup {Len(upper) + 1}
    BY <1>2
  <2>3. \A i \in DOMAIN upper : Append(upper, s)[i] = upper[i]
    BY <1>2
  <2>4. Append(upper, s)[Len(upper) + 1] = s
    BY <1>2
  <2> QED  BY <2>1, <2>2, <2>3, <2>4
<1>6. {upper[i] : i \in DOMAIN upper} = IF a = Operator THEN {} ELSE Lineage(a)
  BY DEF Lineage
<1>7. scope[s].status = "none"
  BY DEF Issue
<1>8. a # Operator => s \notin Lineage(a)
  BY <1>1, <1>7 DEF Inv, LinesAgree
<1>9. Len(scope'[s].line) <= MaxDepth
  <2>1. Len(upper) < MaxDepth
    BY DEF Issue, Nests
  <2>2. Len(Append(upper, s)) = Len(upper) + 1 /\ Len(upper) \in Nat
    <3> HIDE DEF upper
    <3> QED  BY <1>2
  <2> QED  BY <1>3, <2>1, <2>2
<1>10. \A t \in Scopes \ {s} : Lineage(t)' = Lineage(t)
  BY <1>4 DEF Lineage
<1> QED  BY <1>1, <1>3, <1>4, <1>5, <1>6, <1>7, <1>8, <1>9, <1>10

LEMMA IssueKeepsInv ==
    ASSUME Inv, TypeOK', NEW q \in Requests, NEW s \in Scopes, NEW g \in Grants,
           NEW e \in Expiries, Issue(q, s, g, e)
    PROVE  Inv'
<1> DEFINE a == request[q].actor
           above == IF a = Operator THEN {} ELSE Lineage(a)
           L == request[q].loaded
<1>1. /\ a # Operator => a \in Scopes /\ scope[a].status # "none"
      /\ scope[s].status = "none" /\ scope'[s].status = "active"
      /\ Lineage(s)' = above \cup {s}
      /\ s \notin above
      /\ Len(scope'[s].line) <= MaxDepth
  BY IssuedBelow
<1>2. \A t \in Scopes \ {s} : scope'[t] = scope[t] /\ Lineage(t)' = Lineage(t)
  BY IssuedBelow
<1>3. \A t \in Scopes : Lineage(t) \subseteq Scopes
  BY LineageTyped DEF Inv
<1>4. above \subseteq Scopes \ {s}
  BY <1>1, <1>3
<1>5. \A t \in Scopes \ {s} : s \notin Lineage(t)
  BY <1>1 DEF Inv, LinesAgree
<1>6. \A t \in above : Lineage(t) \subseteq above /\ scope[t].status # "none"
  BY <1>1, <1>3 DEF Inv, LinesAgree
<1>7. LinesAgree'
  <2>1. ASSUME NEW r \in Scopes
        PROVE  /\ scope'[r].status # "none" => r \in Lineage(r)'
               /\ \A t \in Lineage(r)' :
                     /\ scope'[t].status # "none" /\ scope'[r].status # "none"
                     /\ Lineage(t)' \subseteq Lineage(r)'
                     /\ r \in Lineage(t)' => r = t
    <3>1. CASE r = s
      BY <1>1, <1>2, <1>4, <1>5, <1>6, <3>1
    <3>2. CASE r # s
      <4>1. /\ scope'[r] = scope[r] /\ Lineage(r)' = Lineage(r)
            /\ \A t \in Lineage(r) : scope'[t] = scope[t] /\ Lineage(t)' = Lineage(t)
        BY <1>2, <1>3, <1>5, <3>2
      <4> QED  BY <4>1 DEF Inv, LinesAgree
    <3> QED  BY <3>1, <3>2
  <2> QED  BY <2>1 DEF LinesAgree
<1>8. ActorsIssued'
  <2>1. request' = [request EXCEPT ![q].pc = "idle"]
    BY DEF Issue, Ends
  <2>2. \A p \in Requests \ {q} : request'[p] = request[p]
    BY <2>1 DEF Inv, TypeOK
  <2>3. request'[q].pc = "idle"
    BY <2>1 DEF Inv, TypeOK, Request
  <2>4. \A t \in Scopes : scope[t].status # "none" => scope'[t].status # "none"
    BY <1>1, <1>2
  <2> QED  BY <2>2, <2>3, <2>4 DEF Inv, TypeOK, Request, ActorsIssued
<1>9. WorkWithin'
  <2>1. work' = work
    BY DEF Issue
  <2>2. ASSUME NEW w \in work
        PROVE  w.owner \in Scopes \ {s}
    BY <1>1 DEF Inv, TypeOK, Work, WorkWithin
  <2>3. \A w \in work : Ancestors(w.owner)' = Ancestors(w.owner)
    BY <1>2, <2>2 DEF Ancestors
  <2>4. \A w \in work : Ancestors(w.owner) \subseteq Scopes \ {s}
    BY <1>3, <1>5, <2>2 DEF Ancestors
  <2> QED  BY <1>2, <2>1, <2>2, <2>3, <2>4 DEF Inv, WorkWithin
<1>10. ChildrenWithin'
  <2>1. ASSUME NEW r \in Scopes \ {s}, NEW t \in Ancestors(r)'
        PROVE  /\ Granted(r)' \subseteq scope'[t].delegate
               /\ NotLater(scope'[r].expires, scope'[t].expires)
    <3>1. t \in Ancestors(r) /\ t \in Scopes \ {s}
      BY <1>2, <1>3, <1>5, <2>1 DEF Ancestors
    <3> QED  BY <1>2, <2>1, <3>1 DEF Inv, ChildrenWithin, Granted, NotLater
  <2>2. ASSUME NEW t \in Ancestors(s)'
        PROVE  /\ Granted(s)' \subseteq scope'[t].delegate
               /\ NotLater(scope'[s].expires, scope'[t].expires)
    <3>1. a # Operator /\ t \in Lineage(a) /\ t \in Scopes \ {s} /\ a \in Scopes
      BY <1>1, <1>4, <2>2 DEF Ancestors
    <3>2. scope'[t] = scope[t]
      BY <1>2, <3>1
    <3>3. Granted(s)' = g.use \cup g.delegate
      BY DEF Issue, Granted, Inv, TypeOK
    <3>4. Granted(s)' \subseteq scope[a].delegate \cap Ceiling(L, a)
      BY <3>1, <3>3 DEF Issue, Delegable, MayDelegate
    <3>5. Granted(s)' \subseteq scope[t].delegate
      BY <3>1, <3>4 DEF Ceiling, Ancestors
    <3>6. NotLater(scope'[s].expires, scope[a].expires)
      BY <3>1 DEF Issue, Inv, TypeOK
    <3>7. t # a => NotLater(scope[a].expires, scope[t].expires)
      BY <3>1 DEF Inv, ChildrenWithin, Ancestors
    <3>8. NotLater(scope'[s].expires, scope[t].expires)
      <4>1. /\ scope'[s].expires \in Nat \cup {Never}
            /\ scope[a].expires \in Nat \cup {Never}
            /\ scope[t].expires \in Nat \cup {Never}
        BY <3>1 DEF Inv, TypeOK, Row
      <4> QED  BY <3>6, <3>7, <4>1 DEF NotLater
    <3> QED  BY <3>2, <3>5, <3>8
  <2> QED  BY <2>1, <2>2 DEF ChildrenWithin
<1>11. Resolvable'
  BY <1>1, <1>2 DEF Inv, Resolvable
<1>12. ToldIsClosed'
  <2>1. ASSUME NEW r \in told
        PROVE  \E t \in Lineage(r)' : scope'[t].status \in Terminal
    <3>1. PICK t \in Lineage(r) : scope[t].status \in Terminal
      BY DEF Inv, ToldIsClosed
    <3>2. r \in Scopes /\ scope[r].status # "none"
      BY <3>1 DEF Inv, TypeOK, LinesAgree
    <3>3. t \in Scopes \ {s} /\ r # s
      BY <1>1, <1>3, <1>5, <3>1, <3>2
    <3> QED  BY <1>2, <3>1, <3>2, <3>3
  <2>2. told' = told
    BY DEF Issue
  <2> QED  BY <2>1, <2>2 DEF ToldIsClosed
<1> QED  BY <1>7, <1>8, <1>9, <1>10, <1>11, <1>12 DEF Inv

-----------------------------------------------------------------------------
(* The inductive invariant *)

LEMMA InvInit == Init => Inv
<1> SUFFICES ASSUME Init
             PROVE  Inv
  OBVIOUS
<1>1. TypeOK
  BY TypeInit
<1>2. \A s \in Scopes : scope[s].line = << >> /\ scope[s].status = "none"
  BY DEF Init
<1>3. \A s \in Scopes : Lineage(s) = {}
  <2>1. ASSUME NEW s \in Scopes
        PROVE  DOMAIN scope[s].line = {}
    <3>1. scope[s].line = << >>
      BY <1>2
    <3>2. DOMAIN << >> = {}
      OBVIOUS
    <3> QED  BY <3>1, <3>2
  <2> QED  BY <2>1 DEF Lineage
<1>4. LinesAgree /\ ChildrenWithin
  BY <1>2, <1>3 DEF LinesAgree, ChildrenWithin, Ancestors
<1>5. Resolvable
  <2>1. ASSUME NEW s \in Scopes
        PROVE  Len(scope[s].line) <= MaxDepth
    <3>1. Len(<< >>) = 0
      OBVIOUS
    <3> QED  BY <1>2, <3>1
  <2> QED  BY <2>1 DEF Resolvable
<1>6. ActorsIssued /\ WorkWithin /\ ToldIsClosed
  BY DEF Init, ActorsIssued, WorkWithin, ToldIsClosed
<1> QED  BY <1>1, <1>4, <1>5, <1>6 DEF Inv

LEMMA InvStep == Inv /\ [Next]_vars => Inv'
<1> SUFFICES ASSUME Inv, [Next]_vars
             PROVE  Inv'
  OBVIOUS
<1> TypeOK /\ TypeOK'
  BY TypeStep DEF Inv
<1> DEFINE Ask == \A q \in Requests :
                    request'[q].pc # "idle" /\ request'[q].actor # Operator =>
                        scope[request'[q].actor].status # "none"
           Do == \A w \in work' :
                    /\ scope[w.owner].status # "none"
                    /\ w.right \in scope[w.owner].use
                    /\ \A t \in Ancestors(w.owner) : w.right \in scope[t].delegate
           Told == \A s \in told' : \E t \in Lineage(s) : scope'[t].status \in Terminal
<1>1. ASSUME UNCHANGED scope
      PROVE  \A t \in Scopes : SameRow(t)
  BY <1>1 DEF SameRow
<1>2. ASSUME UNCHANGED work
      PROVE  Do
  BY <1>2 DEF Inv, WorkWithin
<1>3. ASSUME \A t \in Scopes : SameRow(t), NEW s \in told
      PROVE  \E t \in Lineage(s) : scope'[t].status \in Terminal
  <2>1. s \in Scopes /\ Lineage(s) \subseteq Scopes
    BY LineageTyped DEF TypeOK
  <2> QED  BY <1>3, <2>1 DEF Inv, ToldIsClosed, SameRow
<1>4. ASSUME NEW q \in Requests,
             \A p \in Requests \ {q} : request'[p] = request[p],
             request'[q].pc # "idle" /\ request'[q].actor # Operator =>
                scope[request'[q].actor].status # "none"
      PROVE  Ask
  BY <1>4 DEF Inv, ActorsIssued
<1>5. ASSUME NEW q \in Requests, Ends(q)
      PROVE  Ask
  BY <1>4, <1>5 DEF Ends, TypeOK, Request
<1>6. ASSUME \A t \in Scopes : SameRow(t), Ask, Do, Told
      PROVE  Inv'
  BY <1>6, Kept
<1>7. ASSUME NEW q \in Requests, NEW a \in Scopes \cup {Operator}, Read(q, a)
      PROVE  Inv'
  <2>1. Ask
    <3>1. request' = [request EXCEPT ![q] = [pc |-> "read", actor |-> a, loaded |-> config]]
      BY <1>7 DEF Read
    <3>2. request'[q].actor = a /\ \A p \in Requests \ {q} : request'[p] = request[p]
      BY <3>1 DEF TypeOK
    <3>3. a # Operator => scope[a].status # "none"
      BY <1>7 DEF Read
    <3> QED  BY <1>4, <3>2, <3>3
  <2> QED  BY <1>1, <1>2, <1>3, <1>6, <1>7, <2>1 DEF Read
<1>8. ASSUME NEW q \in Requests, Check(q)
      PROVE  Inv'
  <2>1. /\ request'[q].actor = request[q].actor /\ request[q].pc # "idle"
        /\ \A p \in Requests \ {q} : request'[p] = request[p]
    BY <1>8 DEF Check, TypeOK, Request
  <2>2. Ask
    BY <1>4, <2>1 DEF Inv, ActorsIssued
  <2> QED  BY <1>1, <1>2, <1>3, <1>6, <1>8, <2>2 DEF Check
<1>9. ASSUME NEW q \in Requests, Refuse(q)
      PROVE  Inv'
  <2>1. \A t \in Scopes : SameRow(t)
    BY <1>9, ClosingRows DEF Refuse
  <2>2. request[q].actor \in Scopes /\ ~LineageSound(request[q].loaded, request[q].actor)
    BY <1>9 DEF Refuse, Admissible, TypeOK, Request
  <2>3. \E t \in Lineage(request[q].actor) : scope'[t].status \in Terminal
    BY <1>9, <2>2, ClosingCloses DEF Refuse, Inv
  <2>4. Ends(q) /\ UNCHANGED work /\ told' = told \cup {request[q].actor}
    BY <1>9 DEF Refuse, Ends
  <2>5. Told
    BY <1>3, <2>1, <2>3, <2>4
  <2> QED  BY <1>2, <1>5, <1>6, <2>1, <2>4, <2>5
<1>10. ASSUME NEW q \in Requests, GiveUp(q)
       PROVE  Inv'
  BY <1>1, <1>2, <1>3, <1>5, <1>6, <1>10 DEF GiveUp, Ends
<1>11. ASSUME NEW q \in Requests, NEW s \in Scopes, NEW g \in Grants, NEW e \in Expiries,
              Issue(q, s, g, e)
       PROVE  Inv'
  BY <1>11, IssueKeepsInv
<1>12. ASSUME NEW q \in Requests, NEW s \in Scopes, Revoke(q, s)
       PROVE  Inv'
  <2>1. scope[s].status # "none" /\ s \in Lineage(s)
    BY <1>12 DEF Revoke, Visible, Inv, LinesAgree
  <2>2. CASE LineageSound(request[q].loaded, s)
    <3>1. scope[s].status = "active" /\ scope' = [scope EXCEPT ![s].status = "revoked"]
      BY <1>12, <2>1, <2>2 DEF Revoke, LineageSound, Sound
    <3>2. (\A t \in Scopes : SameRow(t)) /\ scope'[s].status \in Terminal
      BY <3>1, RevokedRows
    <3>3. Told
      BY <1>3, <1>12, <2>1, <3>2 DEF Revoke
    <3> QED  BY <1>2, <1>5, <1>6, <1>12, <3>2, <3>3 DEF Revoke
  <2>3. CASE ~LineageSound(request[q].loaded, s)
    <3>1. scope' = Closing(request[q].loaded, {s})
      BY <1>12, <2>3 DEF Revoke
    <3>2. \A t \in Scopes : SameRow(t)
      BY <3>1, ClosingRows
    <3>3. \E t \in Lineage(s) : scope'[t].status \in Terminal
      BY <2>3, <3>1, ClosingCloses DEF Inv
    <3>4. Told
      BY <1>3, <1>12, <3>2, <3>3 DEF Revoke
    <3> QED  BY <1>2, <1>5, <1>6, <1>12, <3>2, <3>4 DEF Revoke
  <2> QED  BY <2>2, <2>3
<1>13. ASSUME NEW q \in Requests, NEW V \in SUBSET Scopes, List(q, V)
       PROVE  Inv'
  <2>1. \A t \in Scopes : SameRow(t)
    BY <1>13, ClosingRows DEF List
  <2>2. ASSUME NEW s \in V, ~LineageSound(request[q].loaded, s)
        PROVE  \E t \in Lineage(s) : scope'[t].status \in Terminal
    BY <1>13, <2>2, ClosingCloses DEF List, Inv
  <2>3. Told
    BY <1>3, <1>13, <2>1, <2>2 DEF List
  <2> QED  BY <1>2, <1>5, <1>6, <1>13, <2>1, <2>3 DEF List
<1>14. ASSUME NEW q \in Requests, NEW r \in Rights, Admit(q, r)
       PROVE  Inv'
  <2> DEFINE a == request[q].actor
  <2>1. a \in Scopes /\ scope[a].status # "none"
    BY <1>14 DEF Admit, Acts, Inv, ActorsIssued, TypeOK, Request
  <2>2. r \in scope[a].use /\ \A t \in Ancestors(a) : r \in scope[t].delegate
    BY <1>14 DEF Admit, MayUse, Ceiling
  <2>3. Do
    BY <1>14, <2>1, <2>2 DEF Admit, Inv, WorkWithin
  <2> QED  BY <1>1, <1>3, <1>5, <1>6, <1>14, <2>3 DEF Admit
<1>15. ASSUME NEW q \in Requests, NEW w \in work, Control(q, w)
       PROVE  Inv'
  <2>1. Do
    BY <1>15 DEF Control, Inv, WorkWithin
  <2> QED  BY <1>1, <1>3, <1>5, <1>6, <1>15, <2>1 DEF Control
<1>16. ASSUME UNCHANGED << scope, request, work, told >>
       PROVE  Inv'
  <2>1. Ask
    BY <1>16 DEF Inv, ActorsIssued
  <2> QED  BY <1>1, <1>2, <1>3, <1>6, <1>16, <2>1
<1>17. CASE ChangeConfig \/ Tick \/ UNCHANGED vars
  BY <1>16, <1>17 DEF ChangeConfig, Tick, vars
<1> QED  BY <1>7, <1>8, <1>9, <1>10, <1>11, <1>12, <1>13, <1>14, <1>15, <1>17 DEF Next

\* The rows of access_scopes, the requests in progress and the work admitted
\* for them agree in every reachable state (_access.py).
THEOREM InvHolds == Spec => []Inv
<1> QED  BY InvInit, InvStep, PTL DEF Spec

-----------------------------------------------------------------------------
(* What the invariant is for *)

\* No scope is ever issued rights, or a life, that one of its ancestors may
\* not delegate: through every level, whatever the configuration said in
\* between (issue, _check_delegation).
THEOREM RightsShrink == Spec => []ChildrenWithin
<1>1. Inv => ChildrenWithin
  BY DEF Inv
<1> QED  BY <1>1, InvHolds, PTL

\* Every scope that was issued can be resolved (issue, _lineage).
THEOREM ScopesResolvable == Spec => []Resolvable
<1>1. Inv => Resolvable
  BY DEF Inv
<1> QED  BY <1>1, InvHolds, PTL

\* A closure that was reported is on record (_ClosedScopeError, transaction).
THEOREM ClosureIsRecorded == Spec => []ToldIsClosed
<1>1. Inv => ToldIsClosed
  BY DEF Inv
<1> QED  BY <1>1, InvHolds, PTL

\* Every ancestor of a scope that had work admitted may stop it, if need be
\* with the right to delegate alone (check, _authorize_row).
THEOREM AncestorsInControl == Spec => []AncestorsCanStop
<1>1. ASSUME Inv, NEW w \in work, NEW L \in Configs, w.right \in L.policy \cap L.delegable,
             NEW t \in Lineage(w.owner)
      PROVE  MayControl(L, t, w)
  <2>1. w.owner \in Scopes /\ Lineage(w.owner) \subseteq Scopes
    BY <1>1, LineageTyped DEF Inv, TypeOK, Work
  <2>2. CASE t = w.owner
    BY <1>1, <2>2 DEF Inv, WorkWithin, MayControl, MayUse, Ceiling
  <2>3. CASE t # w.owner
    <3>1. w.right \in scope[t].delegate
      BY <1>1, <2>3 DEF Inv, WorkWithin, Ancestors
    <3>2. Ancestors(t) \subseteq Ancestors(w.owner)
      BY <1>1, <2>1, <2>3 DEF Inv, LinesAgree, Ancestors
    <3>3. w.right \in Ceiling(L, t)
      BY <1>1, <3>2 DEF Inv, WorkWithin, Ceiling
    <3> QED  BY <1>1, <2>3, <3>1, <3>3 DEF MayControl, MayDelegate
  <2> QED  BY <2>2, <2>3
<1>2. Inv => AncestorsCanStop
  BY <1>1 DEF AncestorsCanStop
<1> QED  BY <1>2, InvHolds, PTL

\* A scope that was revoked, expired or invalidated stays so (_status).
THEOREM ClosedStaysClosed == Spec => ClosedForGood
<1>1. ASSUME Inv, Next, NEW s \in Scopes, scope[s].status \in Terminal
      PROVE  scope'[s].status = scope[s].status
  <2> TypeOK
    BY <1>1 DEF Inv
  <2>1. ASSUME NEW L, NEW V, scope' = Closing(L, V)
        PROVE  scope'[s].status = scope[s].status
    BY <1>1, <2>1, ClosingRows DEF SameRow
  <2>2. ASSUME NEW q \in Requests, Refuse(q)
        PROVE  scope'[s].status = scope[s].status
    BY <2>1, <2>2 DEF Refuse
  <2>3. ASSUME NEW q \in Requests, NEW V \in SUBSET Scopes, List(q, V)
        PROVE  scope'[s].status = scope[s].status
    BY <2>1, <2>3 DEF List
  <2>4. ASSUME NEW q \in Requests, NEW t \in Scopes, Revoke(q, t)
        PROVE  scope'[s].status = scope[s].status
    <3>1. CASE LineageSound(request[q].loaded, t)
      <4>1. scope[t].status # "none"
        BY <2>4 DEF Revoke, Visible
      <4>2. scope[t].status = "active"
        BY <1>1, <3>1, <4>1 DEF Inv, LinesAgree, LineageSound, Sound
      <4>3. scope' = [scope EXCEPT ![t].status = "revoked"]
        BY <2>4, <3>1 DEF Revoke
      <4> QED  BY <1>1, <4>2, <4>3, RevokedRows DEF SameRow
    <3>2. CASE ~LineageSound(request[q].loaded, t)
      BY <2>1, <2>4, <3>2 DEF Revoke
    <3> QED  BY <3>1, <3>2
  <2>5. ASSUME NEW q \in Requests, NEW t \in Scopes, NEW g \in Grants, NEW e \in Expiries,
               Issue(q, t, g, e)
        PROVE  scope'[s].status = scope[s].status
    <3>1. s # t /\ scope'[s] = scope[s]
      BY <1>1, <2>5, IssuedBelow DEF Terminal
    <3> QED  BY <3>1
  <2>6. UNCHANGED scope => scope'[s].status = scope[s].status
    OBVIOUS
  <2> QED  BY <1>1, <2>2, <2>3, <2>4, <2>5, <2>6
           DEF Next, Read, Check, GiveUp, Admit, Control, ChangeConfig, Tick
<1>2. Inv /\ [Next]_vars =>
        [\A s \in Scopes : scope[s].status \in Terminal =>
            scope'[s].status = scope[s].status]_vars
  BY <1>1
<1> QED  BY <1>2, InvHolds, PTL DEF Spec, ClosedForGood

\* Nothing is admitted under a scope whose closure, or an ancestor's, is on
\* record or was reported, whatever its request checked before and whatever
\* the configuration says now (the checks in the admission transaction).
THEOREM ClosureHolds == Spec => ClosureIsBarrier
<1>1. ASSUME Inv, Next, NEW w \in work' \ work
      PROVE  /\ \A t \in Lineage(w.owner) :
                    scope[t].status = "active" /\ ~Past(scope[t].expires)
             /\ w.owner \notin told
  <2>1. PICK q \in Requests, r \in Rights : Admit(q, r)
    <3>1. \A q \in Requests :
            /\ \A a \in Scopes \cup {Operator} : Read(q, a) => work' = work
            /\ Check(q) \/ Refuse(q) \/ GiveUp(q) => work' = work
            /\ \A s \in Scopes, g \in Grants, e \in Expiries : Issue(q, s, g, e) => work' = work
            /\ \A s \in Scopes : Revoke(q, s) => work' = work
            /\ \A V \in SUBSET Scopes : List(q, V) => work' = work
            /\ \A v \in work : Control(q, v) => work' \subseteq work
      BY DEF Read, Check, Refuse, GiveUp, Issue, Revoke, List, Control
    <3>2. ChangeConfig \/ Tick => work' = work
      BY DEF ChangeConfig, Tick
    <3> QED  BY <1>1, <3>1, <3>2 DEF Next
  <2>2. w.owner = request[q].actor /\ LineageSound(request[q].loaded, w.owner)
    BY <1>1, <2>1 DEF Admit, Acts, Admissible
  <2>3. \A t \in Lineage(w.owner) : scope[t].status = "active" /\ ~Past(scope[t].expires)
    BY <2>2 DEF LineageSound, Sound
  <2>4. w.owner \notin told
    <3>1. \A t \in Lineage(w.owner) : scope[t].status \notin Terminal
      BY <2>3 DEF Terminal
    <3> QED  BY <1>1, <3>1 DEF Inv, ToldIsClosed
  <2> QED  BY <2>3, <2>4
<1>2. Inv /\ [Next]_vars =>
        [\A w \in work' \ work :
            /\ \A t \in Lineage(w.owner) : scope[t].status = "active" /\ ~Past(scope[t].expires)
            /\ w.owner \notin told]_vars
  BY <1>1
<1> QED  BY <1>2, InvHolds, PTL DEF Spec, ClosureIsBarrier
=============================================================================
