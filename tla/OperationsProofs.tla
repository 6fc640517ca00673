-------------------------- MODULE OperationsProofs --------------------------
(***************************************************************************)
(* Whatever the provider, the requests and the number of calls: a claim    *)
(* that was released is over, what a call was told stands, and a bounded   *)
(* read keeps its limit.                                                   *)
(*                                                                         *)
(* The argument follows one call at a time.  Shape ties the phases of the  *)
(* caller, of its row and of who serves it; Torn says that content cut     *)
(* short comes with a link that is cut, over which no answer is read; Left *)
(* says what a call that is not over may leave where.  What several calls  *)
(* do to each other is in Exclusive and Told: beside the mutating call     *)
(* that was admitted last nobody changes the destination, except an        *)
(* operator was careless, or an object store serves what a write before it *)
(* had given up: Resends says that nothing but writes leaves such attempts.*)
(***************************************************************************)
EXTENDS Operations, TLAPS

Over(c) == call[c].pc \in {"ok", "error", "dead"} /\ ~Working(c)

\* Phases of the caller, its row, and its server.
Shape(c) ==
    /\ call[c].pc = "idle" <=> row[c].status = "none"
    /\ call[c].pc = "idle" <=> call[c].request = Nothing
    /\ call[c].pc \in {"idle", "admitted"} => work[c].pc = "none"
    /\ call[c].pc \in {"admitted", "waiting"} => row[c].status = "active"
    /\ row[c].forced # "no" => row[c].status = "released"
    /\ row[c].forced = "idle" => Over(c)
    /\ row[c].status = "released" /\ row[c].forced = "no" => Over(c)
    /\ call[c].pc = "ok" => work[c].pc = "exited" /\ work[c].ok

\* Who does what, and where.
Place(c) ==
    /\ work[c].pc \in {"checked", "staged", "filled"}
            => Kinds(c) = "write" /\ provider # "object"
    /\ work[c].pc = "sweeping" => Kinds(c) = "delete" /\ provider # "object"
    /\ work[c].pc = "running" => Kinds(c) = "exec" /\ provider # "object"
    /\ work[c].pc = "opened" => Kinds(c) = "read"
    /\ work[c].pc = "killed" => provider # "object"
    /\ work[c].ok => work[c].pc = "exited"
    /\ command[c] # "none"
            => /\ Kinds(c) = "exec" /\ provider # "object"
               /\ work[c].pc \in {"running", "killed"} \/ (work[c].pc = "exited" /\ ~work[c].ok)

Torn(c) ==
    /\ work[c].input = "torn"
            => /\ provider = "helper" /\ link[c] = "cut"
               /\ work[c].pc \notin {"none", "start"} /\ call[c].pc # "ok"
    /\ disk.file = << c, "torn" >> => work[c].input = "torn"

Left(c) ==
    /\ c \in disk.temps => work[c].pc \in {"staged", "filled", "killed"} /\ provider # "object"
    /\ row[c].status = "released" /\ row[c].forced = "no"
            => c \notin disk.temps /\ work[c].input = "whole"

Small(c) == work[c].body \notin Big /\ call[c].got \notin Big

Rooted == provider # "object" /\ ~disk.parent => disk.file = Nothing /\ disk.temps = {}

Exclusive ==
    \A c, o \in Calls :
        last = c /\ o # c /\ ~Careless
            => call[o].pc = "idle" \/ Over(o) \/ Kinds(o) \notin Mutating

Told ==
    \A c \in Calls :
        last = c /\ ~Careless /\ work[c].pc = "exited" /\ work[c].ok
            => /\ Kinds(c) = "write"
                    => disk.file \in {<< c, work[c].input >>, Foreign} \cup Strays(c)
               /\ Kinds(c) = "delete"
                    => disk.file \in {Nothing, Foreign} \cup Strays(c)

Resends ==
    \A c \in Calls :
        resent[c].late # 0 => provider = "object" /\ call[c].pc # "idle" /\ Kinds(c) = "write"

Inv ==
    /\ TypeOK
    /\ \A c \in Calls : Shape(c) /\ Place(c) /\ Torn(c) /\ Left(c) /\ Small(c)
    /\ Rooted /\ Exclusive /\ Told /\ Resends

USE OperationsAssumption

-----------------------------------------------------------------------------
(* Whoever serves a call *)

\* What a step that serves a call keeps to.
Serving(c, next) ==
    /\ next.pc # "none" /\ (next.pc = "start" => work[c].pc = "start")
    /\ next.body \notin Big
    /\ next.input = work[c].input \/ work[c].pc = "start"
    /\ next.input = "torn" => provider = "helper" /\ link[c] = "cut" /\ next.pc # "start"
    /\ disk'.temps \subseteq disk.temps \cup {c}
    /\ c \in disk'.temps => next.pc \in {"staged", "filled", "killed"} /\ provider # "object"
    /\ disk'.file # disk.file
            => /\ Kinds(c) \in Mutating
               /\ disk'.file \in {Nothing, << c, "whole" >>, << c, next.input >>}
    /\ next.pc = "exited" /\ next.ok
            => /\ Kinds(c) = "write" => disk'.file = << c, next.input >>
               /\ Kinds(c) = "delete" => disk'.file = Nothing

LEMMA Serves ==
    ASSUME Inv, NEW c \in Calls, NEW next \in WorkState, Working(c), WorkMove(c, next),
           command' \in [Calls -> {"none", "running", "stray"}],
           \A o \in Calls : o # c => command'[o] = command[o],
           disk' \in Disk, Serving(c, next), Place(c)', Rooted'
    PROVE  Inv'
<1> USE DEF WorkMove, Kinds, Asked
<1>1. TypeOK'
  BY DEF Inv, TypeOK
<1>2. work'[c] = next /\ \A o \in Calls : o # c => work'[o] = work[o]
  BY DEF Inv, TypeOK
<1>3. call[c].pc \notin {"idle", "admitted", "ok"} /\ ~Over(c)
  BY DEF Inv, Shape, Place, Working, Over
<1>4. \A o \in Calls : Over(o)' <=> IF o = c THEN Over(c)' ELSE Over(o)
  BY <1>2 DEF Over, Working
<1>5. Shape(c)' /\ Torn(c)' /\ Left(c)' /\ Small(c)'
  <2>1. Shape(c)'
    BY <1>2, <1>3 DEF Inv, Shape, Serving
  <2>2. Torn(c)'
    <3>1. disk.file = << c, "torn" >> => next.input = "torn"
      BY DEF Inv, Torn, Serving
    <3>2. disk'.file = << c, "torn" >> => next.input = "torn"
      <4>1. Nothing # << c, "torn" >> /\ << c, "whole" >> # << c, "torn" >>
        BY DEF OperationsAssumption
      <4>2. << c, next.input >> = << c, "torn" >> => next.input = "torn"
        OBVIOUS
      <4> QED  BY <3>1, <4>1, <4>2 DEF Serving
    <3> QED  BY <1>2, <1>3, <3>2 DEF Torn, Serving
  <2>3. Left(c)'
    BY <1>2, <1>3 DEF Inv, Shape, Left, Serving
  <2>4. Small(c)'
    BY <1>2 DEF Inv, Small, Serving
  <2> QED  BY <2>1, <2>2, <2>3, <2>4
<1>6. ASSUME NEW o \in Calls, o # c  PROVE Shape(o)' /\ Place(o)' /\ Torn(o)' /\ Left(o)' /\ Small(o)'
  <2>1. Shape(o)'
    BY <1>2, <1>6 DEF Inv, Shape, Over, Working
  <2>2. Place(o)'
    BY <1>2, <1>6 DEF Inv, Place
  <2>3. Torn(o)'
    <3>1. Nothing # << o, "torn" >> /\ \A x : << c, x >> # << o, "torn" >>
      BY <1>6 DEF OperationsAssumption
    <3>2. disk'.file = << o, "torn" >> => disk.file = << o, "torn" >>
      BY <3>1 DEF Serving
    <3> QED  BY <1>2, <1>6, <3>2 DEF Inv, Torn
  <2>4. Left(o)'
    BY <1>2, <1>6 DEF Inv, Left, Serving
  <2>5. Small(o)'
    BY <1>2, <1>6 DEF Inv, Small
  <2> QED  BY <2>1, <2>2, <2>3, <2>4, <2>5
<1>7. Careless' <=> Careless
  BY DEF Careless
<1>8. Exclusive'
  BY <1>2, <1>3, <1>7 DEF Inv, Exclusive, Over, Working
<1>9. Told'
  <2> SUFFICES ASSUME NEW p \in Calls, last = p, ~Careless, work'[p].pc = "exited", work'[p].ok
               PROVE  /\ Kinds(p) = "write"
                            => disk'.file \in {<< p, work'[p].input >>, Foreign} \cup Strays(p)
                      /\ Kinds(p) = "delete" => disk'.file \in {Nothing, Foreign} \cup Strays(p)
    BY <1>7 DEF Told, Strays
  <2>1. CASE p = c
    <3>1. work'[p] = next /\ next.pc = "exited" /\ next.ok
      BY <2>1, <1>2
    <3> QED  BY <2>1, <3>1 DEF Serving
  <2>2. CASE p # c
    <3>1. disk'.file = disk.file
      BY <2>2, <1>3 DEF Inv, Exclusive, Serving
    <3> QED  BY <2>2, <3>1, <1>2 DEF Inv, Told
  <2> QED  BY <2>1, <2>2
<1>10. Resends'
  BY DEF Inv, Resends
<1> QED  BY <1>1, <1>5, <1>6, <1>8, <1>9, <1>10 DEF Inv

LEMMA ServesPlainly ==
    ASSUME Inv, NEW c \in Calls, NEW next \in WorkState, Working(c), WorkMove(c, next),
           UNCHANGED << command, disk >>, Serving(c, next), Place(c)'
    PROVE  Inv'
<1>1. Rooted'
  BY DEF Inv, Rooted, WorkMove
<1>2. command' \in [Calls -> {"none", "running", "stray"}] /\ disk' \in Disk
  BY DEF Inv, TypeOK
<1> QED  BY <1>1, <1>2, Serves

\* What the steps below need to know of who is at work.
LEMMA AtWork ==
    ASSUME Inv, NEW c \in Calls
    PROVE  /\ work[c] \in WorkState /\ disk \in Disk /\ provider \in {"local", "helper", "object"}
           /\ command \in [Calls -> {"none", "running", "stray"}]
           /\ work[c].body \notin Big /\ Nothing \notin Big
           /\ Place(c) /\ Torn(c) /\ Left(c) /\ Rooted
           /\ work[c].pc \notin {"none", "exited", "killed"} => Working(c)
<1>1. Nothing \notin Big
  BY DEF Content
<1> QED  BY <1>1 DEF Inv, TypeOK, Small, Working, Torn

LEMMA Exits ==
    ASSUME Inv, NEW c \in Calls, NEW ok \in BOOLEAN
    PROVE  /\ Exit(c, ok) \in WorkState
           /\ Exit(c, ok).pc = "exited" /\ Exit(c, ok).ok = ok
           /\ Exit(c, ok).input = work[c].input /\ Exit(c, ok).body = work[c].body
<1>1. work[c] \in WorkState
  BY AtWork
<1> QED  BY <1>1 DEF Exit, WorkState

LEMMA Moves ==
    ASSUME Inv, NEW c \in Calls, NEW next, WorkMove(c, next)  PROVE work'[c] = next
  BY DEF WorkMove, Inv, TypeOK

\* Who has exited is nowhere any more, and a command it leaves was cut short.
LEMMA Leaves ==
    ASSUME Inv, NEW c \in Calls, NEW ok \in BOOLEAN, WorkMove(c, Exit(c, ok)),
           command'[c] = "none" \/ (~ok /\ Kinds(c) = "exec" /\ provider # "object")
    PROVE  Place(c)'
<1>1. work'[c].pc = "exited" /\ work'[c].ok = ok
  BY Exits, Moves
<1>2. Kinds(c)' = Kinds(c) /\ provider' = provider
  BY DEF WorkMove, Kinds, Asked
<1> QED  BY <1>1, <1>2 DEF Place

LEMMA Ready ==
    ASSUME Inv, NEW c \in Calls, provider # "local", work[c].pc = "start",
           NEW next \in WorkState, WorkMove(c, next), UNCHANGED << command, disk >>,
           next.pc \in {"ready", "exited"}, ~next.ok,
           next.body = work[c].body,
           next.input = "torn" => provider = "helper" /\ link[c] = "cut"
    PROVE  Inv'
<1>1. work'[c] = next
  BY DEF WorkMove, Inv, TypeOK
<1>2. Working(c)
  BY DEF Working
<1>3. Serving(c, next)
  BY AtWork DEF Serving, Left
<1>4. Place(c)'
  BY <1>1, AtWork DEF Place, WorkMove, Kinds, Asked
<1> QED  BY <1>2, <1>3, <1>4, ServesPlainly

LEMMA Receives == ASSUME Inv, NEW c \in Calls, StoreReceives(c)  PROVE Inv'
<1> DEFINE next == [work[c] EXCEPT !.pc = "ready"]
<1>1. next \in WorkState /\ next.input = work[c].input /\ next.body = work[c].body /\ next.pc = "ready" /\ ~next.ok
  BY AtWork DEF WorkState, StoreReceives, Place
<1>2. next.input # "torn"
  BY <1>1, AtWork DEF StoreReceives, Torn
<1> QED  BY <1>1, <1>2, Ready DEF StoreReceives

LEMMA Reads == ASSUME Inv, NEW c \in Calls, HelperReads(c)  PROVE Inv'
<1>1. PICK next \in WorkState :
        /\ WorkMove(c, next) /\ next.pc = "ready" /\ next.body = work[c].body /\ ~next.ok
        /\ next.input = "torn" => link[c] = "cut"
  <2>1. work[c].pc = "start" /\ work[c].input # "torn" /\ work[c] \in WorkState /\ ~work[c].ok
    BY AtWork DEF HelperReads, Torn, Place
  <2>2. CASE WorkMove(c, [work[c] EXCEPT !.pc = "ready"])
    BY <2>1, <2>2 DEF WorkState
  <2>3. CASE /\ link[c] = "cut"
             /\ WorkMove(c, [work[c] EXCEPT !.pc = "ready",
                              !.input = IF Kinds(c) = "write" THEN "torn" ELSE "whole"])
    <3> DEFINE input == IF Kinds(c) = "write" THEN "torn" ELSE "whole"
    <3>1. [work[c] EXCEPT !.pc = "ready", !.input = input] \in WorkState
      BY <2>1 DEF WorkState
    <3> QED  BY <2>1, <2>3, <3>1 DEF WorkState
  <2> QED  BY <2>2, <2>3 DEF HelperReads
<1> QED  BY <1>1, Ready DEF HelperReads

LEMMA Misses == ASSUME Inv, NEW c \in Calls, NeverStarts(c)  PROVE Inv'
<1> DEFINE next == [work[c] EXCEPT !.pc = "exited"]
<1>1. next \in WorkState /\ next.input = work[c].input /\ next.body = work[c].body
      /\ next.pc = "exited" /\ ~next.ok
  BY AtWork DEF WorkState, NeverStarts, Place
<1>2. next.input # "torn"
  BY <1>1, AtWork DEF NeverStarts, Torn
<1> QED  BY <1>1, <1>2, Ready DEF NeverStarts

\* A step after the request has been read, which leaves the input alone.
LEMMA GoesOn ==
    ASSUME Inv, NEW c \in Calls, work[c].pc \notin {"none", "start", "exited", "killed"},
           NEW next \in WorkState, WorkMove(c, next), next.input = work[c].input,
           next.pc \notin {"none", "start"}, next.body \notin Big,
           UNCHANGED << command, disk >>,
           c \in disk.temps => next.pc \in {"staged", "filled", "killed"},
           next.pc = "exited" /\ next.ok
                => Kinds(c) # "write" /\ (Kinds(c) = "delete" => disk.file = Nothing),
           Place(c)'
    PROVE  Inv'
<1>1. Serving(c, next)
  BY AtWork DEF Serving, Torn, Left
<1> QED  BY <1>1, AtWork, ServesPlainly

LEMMA Refuses == ASSUME Inv, NEW c \in Calls, Refuse(c)  PROVE Inv'
<1>1. Exit(c, FALSE) \in WorkState /\ work'[c] = Exit(c, FALSE)
  BY Exits, Moves DEF Refuse
<1>2. Place(c)'
  BY <1>1, AtWork DEF Place, Exit, Refuse, WorkMove, Kinds, Asked, WorkState
<1>3. c \notin disk.temps
  BY AtWork DEF Refuse, Left
<1> QED  BY <1>1, <1>2, <1>3, AtWork, GoesOn DEF Refuse, Exit, WorkState

LEMMA ChecksSize == ASSUME Inv, NEW c \in Calls, CheckSize(c)  PROVE Inv'
<1>1. PICK next \in {Exit(c, FALSE), [work[c] EXCEPT !.pc = "opened"]} : WorkMove(c, next)
  BY DEF CheckSize
<1>2. next \in WorkState /\ work'[c] = next /\ next.input = work[c].input /\ next.body = work[c].body
      /\ next.pc \in {"exited", "opened"} /\ ~next.ok
  <2>1. CASE next = Exit(c, FALSE)
    BY <2>1, <1>1, Exits, Moves
  <2>2. CASE next = [work[c] EXCEPT !.pc = "opened"]
    BY <2>2, <1>1, Moves, AtWork DEF WorkState, CheckSize, Place
  <2> QED  BY <2>1, <2>2
<1>3. Place(c)'
  BY <1>1, <1>2, AtWork DEF Place, CheckSize, WorkMove, Kinds, Asked, WorkState
<1>4. c \notin disk.temps
  BY AtWork DEF CheckSize, Left
<1> QED  BY <1>1, <1>2, <1>3, <1>4, AtWork, GoesOn DEF CheckSize

LEMMA ReadsBody == ASSUME Inv, NEW c \in Calls, ReadBody(c)  PROVE Inv'
<1>1. PICK next \in {Exit(c, FALSE), [Exit(c, TRUE) EXCEPT !.body = disk.file]} :
        WorkMove(c, next) /\ (next = Exit(c, FALSE) \/ disk.file \notin Big)
  BY DEF ReadBody
<1>2. next \in WorkState /\ work'[c] = next /\ next.input = work[c].input /\ next.pc = "exited"
      /\ next.body \notin Big
  <2>1. CASE next = Exit(c, FALSE)
    BY <2>1, <1>1, Exits, Moves, AtWork
  <2>2. CASE next = [Exit(c, TRUE) EXCEPT !.body = disk.file] /\ disk.file \notin Big
    <3>1. disk.file \in Content \cup {Nothing} /\ Exit(c, TRUE) \in WorkState
      BY AtWork, Exits DEF Disk
    <3> QED  BY <2>2, <3>1, <1>1, Exits, Moves DEF WorkState
  <2> QED  BY <1>1, <2>1, <2>2
<1>3. Kinds(c) = "read" /\ command[c] = "none" /\ c \notin disk.temps
  BY AtWork DEF ReadBody, Place, Left
<1>4. Place(c)'
  BY <1>2, <1>3, AtWork DEF Place, ReadBody, WorkMove, Kinds, Asked
<1> QED  BY <1>1, <1>2, <1>3, <1>4, AtWork, GoesOn DEF ReadBody

LEMMA Looks == ASSUME Inv, NEW c \in Calls, Look(c)  PROVE Inv'
<1> DEFINE next == Exit(c, disk.file # Nothing)
<1>1. next \in WorkState /\ work'[c] = next /\ next.input = work[c].input /\ next.pc = "exited"
      /\ next.body = work[c].body
  BY Exits, Moves, AtWork DEF Look
<1>2. command[c] = "none" /\ c \notin disk.temps
  BY AtWork DEF Look, Place, Left
<1>3. Place(c)'
  BY <1>1, <1>2, AtWork DEF Place, Look, WorkMove, Kinds, Asked
<1> QED  BY <1>1, <1>2, <1>3, AtWork, GoesOn DEF Look
-----------------------------------------------------------------------------
(* write() *)

\* A step of a write, a deletion or a command, which leaves the body alone.
LEMMA Changes ==
    ASSUME Inv, NEW c \in Calls, work[c].pc \notin {"none", "start", "exited", "killed"},
           NEW next \in WorkState, WorkMove(c, next), next.input = work[c].input,
           next.body = work[c].body, next.pc \notin {"none", "start"},
           command' \in [Calls -> {"none", "running", "stray"}],
           \A o \in Calls : o # c => command'[o] = command[o],
           disk' \in Disk, disk'.temps \subseteq disk.temps \cup {c},
           c \in disk'.temps => next.pc \in {"staged", "filled", "killed"} /\ provider # "object",
           disk'.file # disk.file
                => Kinds(c) \in Mutating
                   /\ disk'.file \in {Nothing, << c, "whole" >>, << c, next.input >>},
           next.pc = "exited" /\ next.ok
                => /\ Kinds(c) = "write" => disk'.file = << c, next.input >>
                   /\ Kinds(c) = "delete" => disk'.file = Nothing,
           Place(c)', Rooted'
    PROVE  Inv'
<1>1. Serving(c, next)
  BY AtWork DEF Serving, Torn
<1> QED  BY <1>1, AtWork, Serves

LEMMA Unstages ==
    ASSUME Inv, NEW c \in Calls
    PROVE  /\ Unstaged(c) \in Disk /\ Unstaged(c).temps = disk.temps \ {c}
           /\ Unstaged(c).file = disk.file /\ Unstaged(c).parent = disk.parent
<1>1. disk \in Disk
  BY AtWork
<1> QED  BY <1>1 DEF Unstaged, Disk

LEMMA MakesParents ==
    ASSUME Inv, NEW c \in Calls, MakeParents(c)  PROVE Inv'
<1>1. PICK next \in {Exit(c, FALSE), [work[c] EXCEPT !.pc = "checked"]} : WorkMove(c, next)
  BY DEF MakeParents
<1>2. next \in WorkState /\ work'[c] = next /\ next.input = work[c].input /\ next.body = work[c].body
      /\ next.pc \in {"exited", "checked"} /\ ~next.ok
  <2>1. CASE next = Exit(c, FALSE)
    BY <2>1, <1>1, Exits, Moves
  <2>2. CASE next = [work[c] EXCEPT !.pc = "checked"]
    BY <2>2, <1>1, Moves, AtWork DEF WorkState, MakeParents, Place
  <2> QED  BY <2>1, <2>2
<1>3. disk' \in Disk /\ disk'.temps = disk.temps /\ disk'.file = disk.file /\ disk'.parent
  BY AtWork DEF MakeParents, Disk
<1>4. c \notin disk.temps /\ command[c] = "none"
  BY AtWork DEF MakeParents, Left, Place
<1>5. Place(c)'
  BY <1>1, <1>2, <1>4, AtWork DEF Place, MakeParents, WorkMove, Kinds, Asked
<1>6. Rooted'
  BY <1>3 DEF Rooted
<1> QED  BY <1>1, <1>2, <1>3, <1>4, <1>5, <1>6, AtWork, Changes DEF MakeParents

LEMMA Stages == ASSUME Inv, NEW c \in Calls, Stage(c)  PROVE Inv'
<1>1. Kinds(c) = "write" /\ provider # "object" /\ command[c] = "none" /\ ~work[c].ok
  BY AtWork DEF Stage, Place
<1>2. CASE disk.parent
  <2> DEFINE next == [work[c] EXCEPT !.pc = "staged"]
  <2>1. next \in WorkState /\ work'[c] = next /\ next.input = work[c].input
        /\ next.body = work[c].body /\ next.pc = "staged" /\ ~next.ok
    BY <1>1, <1>2, Moves, AtWork DEF Stage, WorkState
  <2>2. disk' \in Disk /\ disk'.temps = disk.temps \cup {c} /\ disk'.file = disk.file /\ disk'.parent
    BY <1>2, AtWork DEF Stage, Disk
  <2>3. Place(c)' /\ Rooted'
    <3>1. UNCHANGED << provider, call, command >>
      BY DEF Stage, WorkMove
    <3>2. Place(c)'
      BY <1>1, <2>1, <3>1 DEF Place, Kinds, Asked
    <3> QED  BY <2>2, <3>2 DEF Rooted
  <2> QED  BY <1>1, <1>2, <2>1, <2>2, <2>3, AtWork, Changes DEF Stage
<1>3. CASE ~disk.parent
  <2>1. WorkMove(c, Exit(c, FALSE)) /\ UNCHANGED << command, disk >>
    BY <1>3 DEF Stage
  <2>2. Place(c)'
    BY <1>1, <2>1, Leaves
  <2>3. c \notin disk.temps
    BY AtWork DEF Stage, Left
  <2> QED  BY <2>1, <2>2, <2>3, Exits, AtWork, GoesOn DEF Stage
<1> QED  BY <1>2, <1>3

LEMMA Fills == ASSUME Inv, NEW c \in Calls, Fill(c)  PROVE Inv'
<1>1. Kinds(c) = "write" /\ provider # "object" /\ command[c] = "none" /\ ~work[c].ok
  BY AtWork DEF Fill, Place
<1>2. CASE UNCHANGED disk /\ WorkMove(c, [work[c] EXCEPT !.pc = "filled"])
  <2> DEFINE next == [work[c] EXCEPT !.pc = "filled"]
  <2>1. next \in WorkState /\ work'[c] = next /\ next.input = work[c].input
        /\ next.body = work[c].body /\ next.pc = "filled" /\ ~next.ok
    BY <1>1, <1>2, Moves, AtWork DEF WorkState
  <2>2. Place(c)'
    BY <1>1, <1>2, <2>1 DEF Place, Fill, WorkMove, Kinds, Asked
  <2> QED  BY <1>2, <2>1, <2>2, AtWork, GoesOn DEF Fill
<1>3. CASE disk' = Unstaged(c) /\ WorkMove(c, Exit(c, FALSE))
  <2>1. Place(c)'
    BY <1>1, <1>3, Leaves DEF Fill
  <2>2. Rooted'
    BY <1>3, Unstages, AtWork DEF Rooted, WorkMove
  <2> QED  BY <1>1, <1>3, <2>1, <2>2, Unstages, Exits, AtWork, Changes DEF Fill
<1> QED  BY <1>2, <1>3 DEF Fill

LEMMA Publishes == ASSUME Inv, NEW c \in Calls, Publish(c)  PROVE Inv'
<1>1. Kinds(c) = "write" /\ provider # "object" /\ command[c] = "none" /\ ~work[c].ok
  BY AtWork DEF Publish, Place
<1>2. CASE /\ c \in disk.temps
           /\ disk' = [Unstaged(c) EXCEPT !.file = << c, work[c].input >>]
           /\ WorkMove(c, Exit(c, TRUE))
  <2>1. << c, work[c].input >> \in Content
    BY AtWork DEF Content, WorkState
  <2>2. disk' \in Disk /\ disk'.temps = disk.temps \ {c} /\ disk'.file = << c, work[c].input >>
        /\ disk'.parent = disk.parent
    BY <1>2, <2>1, Unstages DEF Disk
  <2>3. Place(c)'
    BY <1>1, <1>2, Leaves DEF Publish
  <2>4. Rooted'
    BY <1>1, <1>2, <2>2, AtWork DEF Rooted, WorkMove
  <2> QED  BY <1>1, <1>2, <2>2, <2>3, <2>4, Exits, AtWork, Changes DEF Publish, Mutating
<1>3. CASE disk' = Unstaged(c) /\ WorkMove(c, Exit(c, FALSE))
  <2>1. Place(c)'
    BY <1>1, <1>3, Leaves DEF Publish
  <2>2. Rooted'
    BY <1>3, Unstages, AtWork DEF Rooted, WorkMove
  <2> QED  BY <1>1, <1>3, <2>1, <2>2, Unstages, Exits, AtWork, Changes DEF Publish
<1> QED  BY <1>2, <1>3 DEF Publish
-----------------------------------------------------------------------------
(* delete() *)

LEMMA Removes ==
    ASSUME Inv, NEW c \in Calls, Remove(c), provider # "object"  PROVE Inv'
<1>1. Kinds(c) = "delete" /\ command[c] = "none" /\ c \notin disk.temps
  BY AtWork DEF Remove, Place, Left
<1>2. disk' \in Disk /\ disk'.temps = disk.temps /\ disk'.file = Nothing /\ disk'.parent = disk.parent
  BY AtWork DEF Remove, Disk
<1>3. Place(c)'
  BY <1>1, Leaves DEF Remove
<1>4. Rooted'
  BY <1>2, AtWork DEF Rooted, Remove, WorkMove
<1> QED  BY <1>1, <1>2, <1>3, <1>4, Exits, AtWork, Changes DEF Remove, Mutating

LEMMA Scans == ASSUME Inv, NEW c \in Calls, Scan(c), provider # "object"  PROVE Inv'
<1>1. Kinds(c) = "delete" /\ command[c] = "none" /\ c \notin disk.temps /\ ~work[c].ok
  BY AtWork DEF Scan, Place, Left
<1>2. CASE disk.parent
  <2> DEFINE next == [work[c] EXCEPT !.pc = "sweeping", !.todo = Entries]
  <2>1. Entries \in SUBSET (Calls \cup {"file"})
    BY AtWork DEF Entries, Disk
  <2>2. next \in WorkState /\ next.input = work[c].input /\ next.body = work[c].body
        /\ next.pc = "sweeping" /\ ~next.ok
    <3>1. work[c] \in WorkState
      BY AtWork
    <3> QED  BY <1>1, <2>1, <3>1 DEF WorkState
  <2>3. WorkMove(c, next) /\ work'[c] = next
    BY <1>2, Moves DEF Scan
  <2>4. Place(c)'
    BY <1>1, <2>2, <2>3 DEF Place, Scan, WorkMove, Kinds, Asked
  <2> QED  BY <1>1, <2>2, <2>3, <2>4, AtWork, GoesOn DEF Scan
<1>3. CASE ~disk.parent
  <2>1. WorkMove(c, Exit(c, TRUE)) /\ disk.file = Nothing
    BY <1>3, AtWork DEF Scan, Rooted
  <2>2. Place(c)'
    BY <1>1, <2>1, Leaves DEF Scan
  <2> QED  BY <1>1, <2>1, <2>2, Exits, AtWork, GoesOn DEF Scan
<1> QED  BY <1>2, <1>3

LEMMA RemovesEntry == ASSUME Inv, NEW c \in Calls, RemoveEntry(c)  PROVE Inv'
<1>1. Kinds(c) = "delete" /\ provider # "object" /\ command[c] = "none" /\ ~work[c].ok
  BY AtWork DEF RemoveEntry, Place
<1>2. PICK e \in work[c].todo :
        /\ disk' = [disk EXCEPT !.temps = @ \ {e}, !.file = IF e = "file" THEN Nothing ELSE @]
        /\ WorkMove(c, [work[c] EXCEPT !.todo = @ \ {e}])
  BY DEF RemoveEntry
<1> DEFINE next == [work[c] EXCEPT !.todo = @ \ {e}]
<1>3. next \in WorkState /\ next.input = work[c].input /\ next.body = work[c].body
      /\ next.pc = "sweeping" /\ ~next.ok /\ work'[c] = next
  BY <1>1, <1>2, Moves, AtWork DEF RemoveEntry, WorkState
<1>4. /\ disk' \in Disk /\ disk'.temps = disk.temps \ {e} /\ disk'.parent = disk.parent
      /\ disk'.file \in {disk.file, Nothing}
  BY <1>2, AtWork DEF Disk
<1>5. c \notin disk.temps
  BY AtWork DEF RemoveEntry, Left
<1>6. Place(c)'
  BY <1>1, <1>2, <1>3 DEF Place, RemoveEntry, WorkMove, Kinds, Asked
<1>7. Rooted'
  BY <1>2, <1>4, AtWork DEF Rooted, WorkMove
<1> QED  BY <1>1, <1>2, <1>3, <1>4, <1>5, <1>6, <1>7, AtWork, Changes DEF RemoveEntry, Mutating

LEMMA RemovesTree == ASSUME Inv, NEW c \in Calls, RemoveTree(c)  PROVE Inv'
<1>1. Kinds(c) = "delete" /\ provider # "object" /\ command[c] = "none" /\ c \notin disk.temps
  BY AtWork DEF RemoveTree, Place, Left
<1>2. CASE Entries = {} /\ disk' = [disk EXCEPT !.parent = FALSE] /\ WorkMove(c, Exit(c, TRUE))
  <2>1. disk.file = Nothing /\ disk.temps = {}
    BY <1>2 DEF Entries
  <2>2. disk' \in Disk /\ disk'.temps = {} /\ disk'.file = Nothing
    BY <1>2, <2>1, AtWork DEF Disk
  <2>3. Place(c)'
    BY <1>1, <1>2, Leaves DEF RemoveTree
  <2>4. Rooted'
    BY <2>2 DEF Rooted
  <2> QED  BY <1>1, <1>2, <2>1, <2>2, <2>3, <2>4, Exits, AtWork, Changes DEF RemoveTree
<1>3. CASE UNCHANGED disk /\ WorkMove(c, Exit(c, FALSE))
  <2>1. Place(c)'
    BY <1>1, <1>3, Leaves DEF RemoveTree
  <2> QED  BY <1>1, <1>3, <2>1, Exits, AtWork, GoesOn DEF RemoveTree
<1> QED  BY <1>2, <1>3 DEF RemoveTree

LEMMA ReplacesObject == ASSUME Inv, NEW c \in Calls, ReplaceObject(c)  PROVE Inv'
<1>1. command[c] = "none" /\ c \notin disk.temps /\ work[c].input = "whole"
  <2>1. work[c].input # "torn"
    BY AtWork DEF ReplaceObject, Torn
  <2> QED  BY <2>1, AtWork DEF ReplaceObject, Place, Left, WorkState
<1>2. << c, "whole" >> \in Content /\ Kinds(c) \in {"write", "delete"}
  BY DEF Content, ReplaceObject
<1>3. /\ disk' \in Disk /\ disk'.temps = disk.temps
      /\ disk'.file = IF Kinds(c) = "write" THEN << c, "whole" >> ELSE Nothing
  BY <1>2, AtWork DEF ReplaceObject, Replaced, Disk
<1>4. Place(c)' /\ Rooted'
  <2>1. Place(c)'
    BY <1>1, Leaves DEF ReplaceObject
  <2> QED  BY <2>1 DEF Rooted, ReplaceObject, WorkMove
<1>5. /\ disk'.file # disk.file
            => Kinds(c) \in Mutating /\ disk'.file \in {Nothing, << c, "whole" >>}
      /\ Kinds(c) = "write" => disk'.file = << c, Exit(c, TRUE).input >>
      /\ Kinds(c) = "delete" => disk'.file = Nothing
  <2>1. Exit(c, TRUE).input = "whole" /\ Kinds(c) \in Mutating
    BY <1>1, <1>2, Exits DEF Mutating
  <2> QED  BY <1>2, <1>3, <2>1
<1>6. WorkMove(c, Exit(c, TRUE)) /\ work[c].pc = "ready" /\ command' = command
  BY DEF ReplaceObject
<1> QED  BY <1>1, <1>3, <1>4, <1>5, <1>6, Exits, AtWork, Changes
-----------------------------------------------------------------------------
(* exec() *)

LEMMA Spawns ==
    ASSUME Inv, NEW c \in Calls, Spawn(c), provider # "object"  PROVE Inv'
<1> DEFINE next == [work[c] EXCEPT !.pc = "running"]
<1>1. next \in WorkState /\ work'[c] = next /\ next.input = work[c].input
      /\ next.body = work[c].body /\ next.pc = "running" /\ ~next.ok /\ Kinds(c) = "exec"
  BY Moves, AtWork DEF Spawn, WorkState, Place
<1>2. /\ command' \in [Calls -> {"none", "running", "stray"}]
      /\ \A o \in Calls : o # c => command'[o] = command[o]
  BY AtWork DEF Spawn
<1>3. Place(c)' /\ Rooted'
  BY <1>1, AtWork DEF Place, Rooted, Spawn, WorkMove, Kinds, Asked
<1>4. c \notin disk.temps
  BY AtWork DEF Spawn, Left
<1> QED  BY <1>1, <1>2, <1>3, <1>4, AtWork, Changes DEF Spawn

LEMMA Killing ==
    ASSUME Inv, NEW c \in Calls
    PROVE  /\ Killed(c) \in [Calls -> {"none", "running", "stray"}]
           /\ [command EXCEPT ![c] = "none"] \in [Calls -> {"none", "running", "stray"}]
           /\ Killed(c)[c] # "none" => command[c] # "none"
           /\ \A o \in Calls \ {c} : Killed(c)[o] = command[o]
  BY AtWork DEF Killed

LEMMA TimesOut == ASSUME Inv, NEW c \in Calls, ExecTimeout(c)  PROVE Inv'
<1>1. Kinds(c) = "exec" /\ provider # "object" /\ c \notin disk.temps
  BY AtWork DEF ExecTimeout, Place, Left
<1>2. /\ command' \in [Calls -> {"none", "running", "stray"}]
      /\ \A o \in Calls : o # c => command'[o] = command[o]
  BY Killing DEF ExecTimeout
<1>3. Place(c)'
  <2>1. WorkMove(c, Exit(c, FALSE)) /\ work'[c] = Exit(c, FALSE)
    BY Moves DEF ExecTimeout
  <2> QED  BY <1>1, <2>1, Exits DEF Place, WorkMove, Kinds, Asked
<1>4. Rooted'
  BY AtWork DEF Rooted, ExecTimeout, WorkMove
<1> QED  BY <1>1, <1>2, <1>3, <1>4, Exits, AtWork, Changes DEF ExecTimeout

LEMMA Ends == ASSUME Inv, NEW c \in Calls, CommandEnds(c)  PROVE Inv'
<1> DEFINE next == IF work[c].pc = "running" THEN Exit(c, TRUE) ELSE work[c]
<1>1. Kinds(c) = "exec" /\ provider # "object" /\ Working(c)
      /\ work[c].pc \in {"running", "killed", "exited"} /\ (work[c].pc = "exited" => ~work[c].ok)
  BY AtWork DEF CommandEnds, Place, Working
<1>2. /\ next \in WorkState /\ work'[c] = next /\ next.input = work[c].input
      /\ next.body = work[c].body /\ next.pc \in {"exited", "killed"}
      /\ work[c].pc = "killed" => next.pc = "killed"
      /\ next.pc = "killed" => ~next.ok
  <2>1. WorkMove(c, next)
    BY DEF CommandEnds
  <2>2. CASE work[c].pc = "running"
    BY <2>1, <2>2, Exits, Moves
  <2>3. CASE work[c].pc # "running"
    BY <1>1, <2>1, <2>3, Moves, AtWork DEF Place
  <2> QED  BY <2>2, <2>3
<1>3. /\ command' \in [Calls -> {"none", "running", "stray"}] /\ command'[c] = "none"
      /\ \A o \in Calls : o # c => command'[o] = command[o]
  BY AtWork DEF CommandEnds
<1>4. Place(c)' /\ Rooted'
  <2>1. Kinds(c)' = Kinds(c) /\ provider' = provider /\ disk' = disk
    BY DEF CommandEnds, WorkMove, Kinds, Asked
  <2>2. Rooted'
    BY <2>1, AtWork DEF Rooted
  <2> QED  BY <1>1, <1>2, <1>3, <2>1, <2>2 DEF Place
<1>5. c \in disk.temps => work[c].pc = "killed"
  BY <1>1, AtWork DEF Left
<1>6. Serving(c, next)
  BY <1>1, <1>2, <1>5, AtWork DEF Serving, CommandEnds, Torn
<1> QED  BY <1>1, <1>2, <1>3, <1>4, <1>6, AtWork, Serves DEF CommandEnds

LEMMA Dies == ASSUME Inv, NEW c \in Calls, HelperDies(c)  PROVE Inv'
<1> DEFINE next == [work[c] EXCEPT !.pc = "killed"]
<1>1. next \in WorkState /\ work'[c] = next /\ next.input = work[c].input
      /\ next.body = work[c].body /\ next.pc = "killed" /\ ~next.ok /\ Working(c)
  BY Moves, AtWork DEF HelperDies, WorkState, Place
<1>2. /\ command' \in [Calls -> {"none", "running", "stray"}]
      /\ command'[c] # "none" => command[c] # "none"
      /\ \A o \in Calls : o # c => command'[o] = command[o]
  BY AtWork DEF HelperDies
<1>3. Place(c)' /\ Rooted'
  BY <1>1, <1>2, AtWork DEF Place, Rooted, HelperDies, WorkMove, Kinds, Asked
<1>4. Serving(c, next)
  BY <1>1, AtWork DEF Serving, HelperDies, Torn, Left
<1> QED  BY <1>1, <1>2, <1>3, <1>4, AtWork, Serves DEF HelperDies
-----------------------------------------------------------------------------
(* The caller and its row *)

LEMMA Starts == Init => Inv
<1> SUFFICES ASSUME Init  PROVE Inv
  OBVIOUS
<1>1. Nothing \notin Big /\ \A c \in Calls : << c, "torn" >> \notin {Original, Nothing}
  BY DEF Content
<1>2. TypeOK
  <2>1. call \in [Calls -> CallState] /\ row \in [Calls -> RowState]
    BY DEF Init, CallState, RowState
  <2>2. work \in [Calls -> WorkState]
    BY DEF Init, WorkState
  <2>3. disk \in Disk
    <3>1. Original \in Content
      BY DEF Content
    <3>2. \A p \in BOOLEAN, f \in Content \cup {Nothing} :
                [parent |-> p, file |-> f, temps |-> {}] \in Disk
      BY DEF Disk
    <3> QED  BY <3>1, <3>2 DEF Init
  <2>4. /\ link \in [Calls -> LinkState] /\ command \in [Calls -> {"none", "running", "stray"}]
        /\ provider \in Providers /\ last \in Calls \cup {Nothing}
        /\ resent \in [Calls -> Resent]
    BY DEF Init, LinkState, Resent
  <2> QED  BY <2>1, <2>2, <2>3, <2>4 DEF TypeOK
<1>3. ASSUME NEW c \in Calls  PROVE Shape(c) /\ Place(c) /\ Torn(c) /\ Left(c) /\ Small(c)
  <2>1. Shape(c) /\ Place(c) /\ Left(c)
    BY DEF Init, Shape, Place, Left
  <2>2. Torn(c)
    <3>1. disk.file \in {Original, Nothing} /\ work[c].input = "whole"
      BY DEF Init
    <3> QED  BY <1>1, <3>1 DEF Torn
  <2>3. Small(c)
    BY <1>1 DEF Init, Small
  <2> QED  BY <2>1, <2>2, <2>3
<1>4. Rooted /\ Exclusive /\ Told /\ Resends
  BY DEF Init, Rooted, Exclusive, Told, Resends
<1> QED  BY <1>2, <1>3, <1>4 DEF Inv

LEMMA Admits == ASSUME Inv, NEW c \in Calls, NEW r \in Requests[c], Admit(c, r)  PROVE Inv'
<1>1. r \in Request /\ r # Nothing
  OBVIOUS
<1>2. TypeOK'
  <2>1. call' \in [Calls -> CallState]
    <3>1. call \in [Calls -> CallState] /\ call[c] \in CallState
      BY DEF Inv, TypeOK
    <3>2. [call[c] EXCEPT !.pc = "admitted", !.request = r] \in CallState
      BY <1>1, <3>1 DEF CallState
    <3> QED  BY <3>1, <3>2 DEF Admit
  <2>2. row' \in [Calls -> RowState]
    BY DEF Inv, TypeOK, Admit, RowState
  <2> QED  BY <2>1, <2>2 DEF Inv, TypeOK, Admit
<1>3. /\ call'[c].pc = "admitted" /\ call'[c].request = r /\ call'[c].got = call[c].got
      /\ row'[c].status = "active" /\ row'[c].forced = row[c].forced
      /\ \A o \in Calls : o # c => call'[o] = call[o] /\ row'[o] = row[o]
      /\ UNCHANGED << provider, link, work, resent, command, disk >>
  BY DEF Admit, Inv, TypeOK, CallState, RowState
<1>4. row[c].status = "none" /\ row[c].forced = "no" /\ work[c].pc = "none" /\ command[c] = "none"
  BY DEF Inv, Shape, Place, Admit
<1>5. ASSUME NEW o \in Calls  PROVE Shape(o)' /\ Place(o)' /\ Torn(o)' /\ Left(o)' /\ Small(o)'
  <2>1. CASE o = c
    <3>1. Shape(c)' /\ Place(c)' /\ Left(c)'
      BY <1>1, <1>3, <1>4 DEF Inv, Shape, Place, Left
    <3>2. Torn(c)' /\ Small(c)'
      BY <1>3, <1>4 DEF Inv, Torn, Small
    <3> QED  BY <2>1, <3>1, <3>2
  <2>2. CASE o # c
    BY <2>2, <1>3 DEF Inv, Shape, Place, Torn, Left, Small, Kinds, Asked, Over, Working
  <2> QED  BY <2>1, <2>2
<1>6. Careless' <=> Careless
  BY <1>3 DEF Careless
<1>7. Exclusive'
  <2> SUFFICES ASSUME NEW p \in Calls, NEW o \in Calls, last' = p, o # p, ~Careless
               PROVE  (call[o].pc = "idle" \/ Over(o) \/ Kinds(o) \notin Mutating)'
    BY <1>6 DEF Exclusive
  <2>1. CASE r.kind \in Mutating
    <3>1. p = c /\ call'[o] = call[o]
      BY <2>1, <1>3 DEF Admit
    <3>2. row[o].status \in {"none", "released"} /\ row[o].forced # "working"
      BY <2>1 DEF Admit, Compatible, Careless, Inv, TypeOK, RowState
    <3>3. call[o].pc = "idle" \/ Over(o)
      BY <3>2 DEF Inv, Shape, TypeOK, RowState
    <3> QED  BY <1>3, <3>1, <3>3 DEF Over, Working
  <2>2. CASE r.kind \notin Mutating
    <3>1. last = p
      BY <2>2 DEF Admit
    <3>2. CASE o = c
      BY <2>2, <3>2, <1>3 DEF Kinds, Asked
    <3>3. CASE o # c
      BY <3>1, <3>3, <1>3 DEF Inv, Exclusive, Over, Working, Kinds, Asked
    <3> QED  BY <3>2, <3>3
  <2> QED  BY <2>1, <2>2
<1>8. Told'
  <2>1. \A p \in Calls : last' = p /\ work[p].pc = "exited" => p # c /\ last = p
    BY <1>4 DEF Admit
  <2> QED  BY <1>3, <1>6, <2>1 DEF Inv, Told, Strays, Kinds, Asked, Admit
<1>9. Rooted' /\ Resends'
  <2>1. call[c].pc = "idle" /\ resent' = resent
    BY DEF Admit
  <2> QED  BY <1>3, <2>1 DEF Inv, Rooted, Resends, Kinds, Asked
<1> QED  BY <1>2, <1>5, <1>7, <1>8, <1>9 DEF Inv

LEMMA Invokes == ASSUME Inv, NEW c \in Calls, Invoke(c)  PROVE Inv'
<1>1. TypeOK'
  <2>1. call' \in [Calls -> CallState]
    <3>1. call \in [Calls -> CallState] /\ call[c] \in CallState
      BY DEF Inv, TypeOK
    <3>2. [call[c] EXCEPT !.pc = "waiting"] \in CallState
      BY <3>1 DEF CallState
    <3> QED  BY <3>1, <3>2 DEF Invoke
  <2>2. work' \in [Calls -> WorkState]
    <3>1. work \in [Calls -> WorkState] /\ work[c] \in WorkState
      BY DEF Inv, TypeOK
    <3>2. \A pc \in {"ready", "start"} : [work[c] EXCEPT !.pc = pc] \in WorkState
      BY <3>1 DEF WorkState
    <3> QED  BY <3>1, <3>2 DEF Invoke
  <2> QED  BY <2>1, <2>2 DEF Inv, TypeOK, Invoke
<1>2. /\ call'[c].pc = "waiting" /\ call'[c].request = call[c].request /\ call'[c].got = call[c].got
      /\ work'[c].pc \in {"ready", "start"} /\ work'[c].input = work[c].input
      /\ work'[c].body = work[c].body /\ work'[c].ok = work[c].ok
      /\ \A o \in Calls : o # c => call'[o] = call[o] /\ work'[o] = work[o]
      /\ UNCHANGED << provider, row, link, command, disk, resent, last >>
  BY DEF Invoke, Inv, TypeOK, CallState, WorkState
<1>3. call[c].pc = "admitted" /\ work[c].pc = "none"
  BY DEF Inv, Shape, Invoke
<1>4. ASSUME NEW o \in Calls  PROVE Shape(o)' /\ Place(o)' /\ Torn(o)' /\ Left(o)' /\ Small(o)'
  <2>1. CASE o = c
    <3>1. Shape(c)' /\ Left(c)'
      BY <1>2, <1>3 DEF Inv, Shape, Left, Over
    <3>2. Place(c)'
      BY <1>2, <1>3 DEF Inv, Place
    <3>3. Torn(c)' /\ Small(c)'
      BY <1>2, <1>3 DEF Inv, Torn, Small
    <3> QED  BY <2>1, <3>1, <3>2, <3>3
  <2>2. CASE o # c
    BY <2>2, <1>2 DEF Inv, Shape, Place, Torn, Left, Small, Kinds, Asked, Over, Working
  <2> QED  BY <2>1, <2>2
<1>5. \A o \in Calls : /\ Kinds(o)' = Kinds(o) /\ (Over(o)' <=> Over(o))
                       /\ call'[o].pc = "idle" <=> call[o].pc = "idle"
  BY <1>2, <1>3 DEF Over, Working, Kinds, Asked
<1>6. Careless' <=> Careless
  BY <1>2 DEF Careless
<1>7. Rooted' /\ Exclusive' /\ Resends'
  BY <1>2, <1>5, <1>6 DEF Inv, Rooted, Exclusive, Resends
<1>8. Told'
  <2>1. \A p \in Calls : work'[p].pc = "exited" => work'[p] = work[p]
    BY <1>2
  <2> QED  BY <1>2, <1>5, <1>6, <2>1 DEF Inv, Told, Strays
<1> QED  BY <1>1, <1>4, <1>7, <1>8 DEF Inv

\* The caller leaves, with an answer or without; its local work stops with it.
LEMMA Departs ==
    ASSUME Inv, NEW c \in Calls, call[c].pc \in {"admitted", "waiting"},
           call' \in [Calls -> CallState], row' \in [Calls -> RowState],
           work' \in [Calls -> WorkState],
           command' \in [Calls -> {"none", "running", "stray"}],
           \A o \in Calls : o # c => /\ call'[o] = call[o] /\ row'[o] = row[o]
                                     /\ work'[o] = work[o] /\ command'[o] = command[o],
           call'[c].pc \in {"ok", "error", "dead"}, call'[c].request = call[c].request,
           call'[c].got \notin Big,
           row'[c].status # "none", row'[c].forced = row[c].forced,
           link' = HungUp(c), UNCHANGED << provider, resent, last >>,
           work'[c].input = work[c].input, work'[c].body = work[c].body, work'[c].ok = work[c].ok,
           work'[c].pc # work[c].pc
             => work'[c].pc = "killed" /\ provider = "local" /\ work[c].pc \notin {"none", "exited"},
           command'[c] # "none" => command[c] # "none",
           disk' \in {disk, Unstaged(c)},
           call'[c].pc = "ok" => work[c].pc = "exited" /\ work[c].ok /\ work[c].input = "whole",
           row'[c].status = "released"
             => /\ work[c].pc = "exited" /\ command'[c] = "none"
                /\ c \notin disk.temps /\ work[c].input = "whole"
    PROVE  Inv'
<1>1. /\ disk' \in Disk /\ disk'.temps \subseteq disk.temps
      /\ disk'.file = disk.file /\ disk'.parent = disk.parent
  BY Unstages, AtWork
<1>2. /\ link' \in [Calls -> LinkState] /\ \A o \in Calls : o # c => link'[o] = link[o]
      /\ link[c] = "cut" => link'[c] = "cut"
  BY DEF HungUp, Inv, TypeOK, LinkState
<1>3. TypeOK'
  BY <1>1, <1>2 DEF Inv, TypeOK
<1>4. row[c].status = "active" /\ row[c].forced = "no" /\ ~Over(c) /\ call[c].pc # "idle"
  BY DEF Inv, Shape, Over
<1>5. Shape(c)' /\ Place(c)' /\ Torn(c)' /\ Left(c)' /\ Small(c)'
  <2>1. Shape(c)'
    <3>1. row'[c].status = "released" => ~Working(c)'
      BY DEF Working
    <3> QED  BY <1>4, <3>1 DEF Inv, Shape, Over
  <2>2. Place(c)'
    BY DEF Inv, Place, Kinds, Asked
  <2>3. Torn(c)'
    BY <1>1, <1>2 DEF Inv, Torn
  <2>4. Left(c)'
    <3>1. c \in disk'.temps => c \in disk.temps
      BY <1>1
    <3> QED  BY <3>1 DEF Inv, Left
  <2>5. Small(c)'
    BY DEF Inv, Small
  <2> QED  BY <2>1, <2>2, <2>3, <2>4, <2>5
<1>6. ASSUME NEW o \in Calls, o # c  PROVE Shape(o)' /\ Place(o)' /\ Torn(o)' /\ Left(o)' /\ Small(o)'
  BY <1>1, <1>2, <1>6 DEF Inv, Shape, Place, Torn, Left, Small, Kinds, Asked, Over, Working
<1>7. \A o \in Calls : Kinds(o)' = Kinds(o) /\ (o # c => (Over(o)' <=> Over(o)))
  BY DEF Over, Working, Kinds, Asked
<1>8. Careless' <=> Careless
  BY DEF Careless
<1>9. Exclusive'
  BY <1>4, <1>7, <1>8 DEF Inv, Exclusive
<1>10. Told'
  <2>1. \A p \in Calls : /\ work'[p].pc = "exited" => work[p].pc = "exited"
                         /\ work'[p].ok = work[p].ok /\ work'[p].input = work[p].input
    OBVIOUS
  <2> QED  BY <1>1, <1>7, <1>8, <2>1 DEF Inv, Told, Strays
<1>11. Rooted' /\ Resends'
  BY <1>1, <1>4, <1>7 DEF Inv, Rooted, Resends
<1> QED  BY <1>3, <1>5, <1>6, <1>9, <1>10, <1>11 DEF Inv

\* What Return() does to the caller, its row and its link.
HangingUp(c, pc, got, safe) ==
    /\ call' \in [Calls -> CallState] /\ row' \in [Calls -> RowState]
    /\ \A o \in Calls : o # c => call'[o] = call[o] /\ row'[o] = row[o]
    /\ call'[c].pc = pc /\ call'[c].request = call[c].request /\ call'[c].got = got
    /\ row'[c].status = IF safe THEN "released" ELSE "uncertain"
    /\ row'[c].forced = row[c].forced /\ link' = HungUp(c)

LEMMA Hangs ==
    ASSUME Inv, NEW c \in Calls, NEW pc \in {"ok", "error"},
           NEW got \in (Content \cup {Nothing}) \ Big, NEW safe \in BOOLEAN,
           call[c].pc \in {"admitted", "waiting"}, Return(c, pc, got, safe)
    PROVE  HangingUp(c, pc, got, safe)
<1>1. /\ call \in [Calls -> CallState] /\ call[c] \in CallState
      /\ row \in [Calls -> RowState] /\ row[c] \in RowState /\ row[c].status = "active"
  BY DEF Inv, TypeOK, Shape
<1> DEFINE next == [call[c] EXCEPT !.pc = pc, !.got = got]
<1>2. next \in CallState /\ next.pc = pc /\ next.got = got /\ next.request = call[c].request
  BY <1>1 DEF CallState
<1>3. call' = [call EXCEPT ![c] = next] /\ link' = HungUp(c)
  BY DEF Return
<1>4. row' = [row EXCEPT ![c].status = IF safe THEN "released" ELSE "uncertain"]
  BY <1>1 DEF Return, Settled
<1> HIDE DEF next
<1>5. /\ call' \in [Calls -> CallState] /\ call'[c] = next
      /\ \A o \in Calls : o # c => call'[o] = call[o]
  BY <1>1, <1>2, <1>3
<1>6. /\ row' \in [Calls -> RowState] /\ row'[c].forced = row[c].forced
      /\ row'[c].status = IF safe THEN "released" ELSE "uncertain"
      /\ \A o \in Calls : o # c => row'[o] = row[o]
  BY <1>1, <1>4 DEF RowState
<1> QED  BY <1>2, <1>3, <1>5, <1>6 DEF HangingUp

\* A call that comes back leaves everything else as it is.
LEMMA Returns ==
    ASSUME Inv, NEW c \in Calls, NEW pc \in {"ok", "error"},
           NEW got \in (Content \cup {Nothing}) \ Big, NEW safe \in BOOLEAN,
           call[c].pc \in {"admitted", "waiting"}, Return(c, pc, got, safe),
           UNCHANGED << provider, work, resent, command, disk, last >>,
           pc = "ok" => work[c].pc = "exited" /\ work[c].ok /\ work[c].input = "whole",
           safe => /\ work[c].pc = "exited" /\ command[c] = "none"
                   /\ c \notin disk.temps /\ work[c].input = "whole"
    PROVE  Inv'
<1>1. /\ work \in [Calls -> WorkState]
      /\ command \in [Calls -> {"none", "running", "stray"}]
  BY DEF Inv, TypeOK
<1>2. HangingUp(c, pc, got, safe)
  BY Hangs
<1>3. /\ work' \in [Calls -> WorkState] /\ work' = work
      /\ command' \in [Calls -> {"none", "running", "stray"}] /\ command' = command
      /\ disk' = disk /\ got \notin Big
  BY <1>1
<1> QED  BY <1>2, <1>3, Departs DEF HangingUp

\* Only what is safe may release: no error of a remote call is.
LEMMA Errors ==
    ASSUME Inv, NEW c \in Calls, call[c].pc \in {"admitted", "waiting"}, provider # "local",
           Return(c, "error", Nothing, SafeError(c)),
           UNCHANGED << provider, work, resent, command, disk, last >>
    PROVE  Inv'
<1>1. SafeError(c) = FALSE /\ Nothing \notin Big
  BY AtWork DEF SafeError
<1>2. Return(c, "error", Nothing, FALSE)
  BY <1>1
<1> QED  BY <1>1, <1>2, Returns

LEMMA Answers == ASSUME Inv, NEW c \in Calls, Answered(c)  PROVE Inv'
<1>1. /\ call[c].pc = "waiting" /\ work[c].pc = "exited" /\ c \notin disk.temps
      /\ UNCHANGED << provider, work, resent, command, disk, last >>
  BY AtWork DEF Answered, Left
<1>2. work[c].input = "whole"
  <2>1. work[c].input # "torn"
    BY AtWork DEF Answered, Up, Torn
  <2> QED  BY <2>1, AtWork DEF WorkState
<1>3. CASE work[c].ok
  <2>1. work[c].body \in (Content \cup {Nothing}) \ Big
    BY AtWork DEF WorkState
  <2>2. command[c] = "none"
    BY <1>1, <1>3, AtWork DEF Place
  <2>3. Return(c, "ok", work[c].body, TRUE)
    BY <1>3 DEF Answered
  <2> QED  BY <1>1, <1>2, <1>3, <2>1, <2>2, <2>3, Returns
<1>4. CASE ~work[c].ok
  <2>1. Return(c, "error", Nothing, SafeError(c)) /\ Nothing \notin Big
    BY <1>4, AtWork DEF Answered
  <2>2. SafeError(c) => command[c] = "none"
    BY AtWork DEF SafeError, Place
  <2>3. SafeError(c) \in BOOLEAN
    BY DEF SafeError
  <2> QED  BY <1>1, <1>2, <2>1, <2>2, <2>3, Returns
<1> QED  BY <1>3, <1>4

LEMMA Stops ==
    ASSUME Inv, NEW c \in Calls, work' = Stopped(c)
    PROVE  /\ work' \in [Calls -> WorkState] /\ \A o \in Calls : o # c => work'[o] = work[o]
           /\ work'[c].input = work[c].input /\ work'[c].body = work[c].body
           /\ work'[c].ok = work[c].ok
           /\ work'[c].pc # work[c].pc
                => work'[c].pc = "killed" /\ provider = "local" /\ work[c].pc \notin {"none", "exited"}
<1>1. work \in [Calls -> WorkState] /\ work[c] \in WorkState
  BY DEF Inv, TypeOK
<1> DEFINE next == [work[c] EXCEPT !.pc = "killed"]
<1>2. next \in WorkState /\ next.pc = "killed" /\ next.input = work[c].input
      /\ next.body = work[c].body /\ next.ok = work[c].ok
  BY <1>1 DEF WorkState
<1>3. work' = IF provider = "local" /\ work[c].pc \notin {"none", "exited"}
              THEN [work EXCEPT ![c] = next] ELSE work
  BY DEF Stopped
<1> HIDE DEF next
<1> QED  BY <1>1, <1>2, <1>3

LEMMA Interrupts == ASSUME Inv, NEW c \in Calls, Interrupted(c)  PROVE Inv'
<1>1. /\ call[c].pc \in {"admitted", "waiting"} /\ Return(c, "error", Nothing, FALSE)
      /\ work' = Stopped(c) /\ UNCHANGED << provider, resent, last >> /\ Nothing \notin Big
  BY AtWork DEF Interrupted
<1>2. disk' \in {disk, Unstaged(c)}
  BY DEF Interrupted
<1>3. /\ command' \in [Calls -> {"none", "running", "stray"}]
      /\ \A o \in Calls : o # c => command'[o] = command[o]
      /\ command'[c] # "none" => command[c] # "none"
  <2>1. command' \in {command, Killed(c), [command EXCEPT ![c] = "none"]}
    BY DEF Interrupted
  <2> QED  BY <2>1, Killing, AtWork
<1>4. HangingUp(c, "error", Nothing, FALSE)
  BY <1>1, Hangs
<1>5. /\ call'[c].pc \in {"ok", "error", "dead"} /\ call'[c].pc # "ok" /\ call'[c].got \notin Big
      /\ row'[c].status \notin {"none", "released"}
  BY <1>1, <1>4 DEF HangingUp
<1> QED  BY <1>1, <1>2, <1>3, <1>4, <1>5, Stops, Departs DEF HangingUp

LEMMA Vanishes == ASSUME Inv, NEW c \in Calls, CallerDies(c)  PROVE Inv'
<1>1. /\ call[c].pc \in {"admitted", "waiting"} /\ link' = HungUp(c) /\ work' = Stopped(c)
      /\ UNCHANGED << provider, row, command, disk, resent, last >>
  BY DEF CallerDies
<1>2. /\ call' \in [Calls -> CallState] /\ \A o \in Calls : o # c => call'[o] = call[o]
      /\ call'[c].pc = "dead" /\ call'[c].request = call[c].request
      /\ call'[c].got = call[c].got
  <2>1. call \in [Calls -> CallState] /\ call[c] \in CallState
    BY DEF Inv, TypeOK
  <2>2. [call[c] EXCEPT !.pc = "dead"] \in CallState
    BY <2>1 DEF CallState
  <2> QED  BY <2>1, <2>2 DEF CallerDies, CallState
<1>3. /\ row \in [Calls -> RowState] /\ command \in [Calls -> {"none", "running", "stray"}]
      /\ row[c].status = "active" /\ call[c].got \notin Big
  BY <1>1 DEF Inv, TypeOK, Shape, Small
<1>4. /\ call'[c].pc \in {"ok", "error", "dead"} /\ call'[c].pc # "ok" /\ call'[c].got \notin Big
      /\ row'[c].status \notin {"none", "released"} /\ row'[c].forced = row[c].forced
      /\ row' \in [Calls -> RowState] /\ \A o \in Calls : o # c => row'[o] = row[o]
      /\ command' \in [Calls -> {"none", "running", "stray"}]
      /\ disk' \in {disk, Unstaged(c)}
  BY <1>1, <1>2, <1>3
<1> QED  BY <1>1, <1>2, <1>4, Stops, Departs
-----------------------------------------------------------------------------
(* Transports, commands, operators, and others *)

LEMMA Cuts ==
    ASSUME Inv, NEW c \in Calls, Deliver(c) \/ LinkBreaks(c)  PROVE Inv'
<1>1. /\ UNCHANGED << provider, call, row, work, resent, command, disk, last >>
      /\ link' \in [Calls -> LinkState] /\ \A o \in Calls : o # c => link'[o] = link[o]
  BY DEF Deliver, LinkBreaks, HungUp, Inv, TypeOK, LinkState
<1>2. work[c].input # "torn"
  BY AtWork DEF Torn, Deliver, LinkBreaks, Up
<1>3. ASSUME NEW o \in Calls  PROVE Shape(o)' /\ Place(o)' /\ Torn(o)' /\ Left(o)' /\ Small(o)'
  <2>1. Shape(o)' /\ Place(o)' /\ Left(o)' /\ Small(o)'
    BY <1>1 DEF Inv, Shape, Place, Left, Small, Kinds, Asked, Over, Working
  <2>2. Torn(o)'
    BY <1>1, <1>2 DEF Inv, Torn
  <2> QED  BY <2>1, <2>2
<1>4. TypeOK' /\ Rooted' /\ Exclusive' /\ Told' /\ Resends'
  BY <1>1 DEF Inv, TypeOK, Rooted, Exclusive, Told, Resends, Strays, Careless, Over, Working,
              Kinds, Asked
<1> QED  BY <1>3, <1>4 DEF Inv

LEMMA Retries == ASSUME Inv, NEW c \in Calls, Retry(c)  PROVE Inv'
<1> DEFINE next == [work[c] EXCEPT !.pc = "start", !.ok = FALSE, !.body = Nothing]
<1>1. next \in WorkState /\ next.pc = "start" /\ ~next.ok /\ next.body = Nothing
      /\ next.input = work[c].input
  <2>1. work[c] \in WorkState
    BY AtWork
  <2> QED  BY <2>1 DEF WorkState
<1>2. work' = [work EXCEPT ![c] = next]
  BY DEF Retry
<1> HIDE DEF next
<1>3. /\ work' \in [Calls -> WorkState] /\ work'[c] = next
      /\ \A o \in Calls : o # c => work'[o] = work[o] /\ link'[o] = link[o]
      /\ link' \in [Calls -> LinkState]
      /\ UNCHANGED << provider, call, row, command, disk, last >>
  <2>1. work \in [Calls -> WorkState] /\ link \in [Calls -> LinkState]
    BY DEF Inv, TypeOK
  <2>2. link' = [link EXCEPT ![c] = "sending"]
        /\ UNCHANGED << provider, call, row, command, disk, last >>
    BY DEF Retry
  <2> QED  BY <1>1, <1>2, <2>1, <2>2 DEF LinkState
<1>4. call[c].pc = "waiting" /\ provider = "object" /\ command[c] = "none" /\ Nothing \notin Big
  BY AtWork DEF Retry, Place
<1>5. ASSUME NEW o \in Calls  PROVE Shape(o)' /\ Place(o)' /\ Torn(o)' /\ Left(o)' /\ Small(o)'
  <2>1. CASE o = c
    <3>1. Shape(c)' /\ Place(c)'
      BY <1>1, <1>3, <1>4 DEF Inv, Shape, Place, Over
    <3>2. Torn(c)' /\ Left(c)' /\ Small(c)'
      BY <1>1, <1>3, <1>4 DEF Inv, Torn, Left, Small
    <3> QED  BY <2>1, <3>1, <3>2
  <2>2. CASE o # c
    BY <2>2, <1>3 DEF Inv, Shape, Place, Torn, Left, Small, Kinds, Asked, Over, Working
  <2> QED  BY <2>1, <2>2
<1>6. \A o \in Calls : Over(o)' <=> Over(o)
  BY <1>3, <1>4 DEF Over, Working
<1>7. \A p \in Calls : work'[p].pc = "exited" => work'[p] = work[p]
  BY <1>1, <1>3
<1>8. /\ resent' \in [Calls -> Resent]
      /\ \A o \in Calls : /\ resent'[o].strayed = resent[o].strayed
                          /\ o # c => resent'[o] = resent[o]
      /\ resent'[c].late # resent[c].late => Kinds(c) = "write"
  <2>1. resent \in [Calls -> Resent] /\ Kinds(c) # "delete"
    BY DEF Inv, TypeOK, Retry, Retried
  <2> DEFINE late == IF /\ Kinds(c) \in {"write", "delete"} /\ link[c] = "lost"
                        /\ work[c].pc \in {"start", "ready"}
                     THEN resent[c].late + 1 ELSE resent[c].late
             counted == [resent[c] EXCEPT !.times = @ + 1, !.late = late]
  <2>2. late # resent[c].late => Kinds(c) = "write"
    BY <2>1
  <2>3. counted \in Resent /\ counted.strayed = resent[c].strayed /\ counted.late = late
    <3>1. resent[c] \in Resent
      BY <2>1
    <3>2. late \in Nat
      BY <3>1 DEF Resent
    <3>3. resent[c].times + 1 \in Nat
      BY <3>1 DEF Resent
    <3> HIDE DEF late
    <3> QED  BY <3>1, <3>2, <3>3 DEF Resent
  <2>4. resent' = [resent EXCEPT ![c] = counted]
    BY <2>1 DEF Retry
  <2> HIDE DEF late, counted
  <2> QED  BY <2>1, <2>2, <2>3, <2>4
<1>9. TypeOK' /\ Rooted' /\ Resends'
  BY <1>3, <1>4, <1>8 DEF Inv, TypeOK, Rooted, Resends, Kinds, Asked
<1>10. Exclusive' /\ Told'
  BY <1>3, <1>6, <1>7, <1>8 DEF Inv, Exclusive, Told, Strays, Careless, Kinds, Asked
<1> QED  BY <1>5, <1>9, <1>10 DEF Inv

\* The attempt is a write's, and who is told of the destination is told of it.
LEMMA ServesLate == ASSUME Inv, NEW c \in Calls, ServeLate(c)  PROVE Inv'
<1>1. provider = "object" /\ Kinds(c) = "write" /\ resent[c] \in Resent /\ resent[c].late # 0
  BY DEF ServeLate, Inv, TypeOK, Resends, Resent
<1>2. /\ disk' \in Disk /\ disk'.temps = disk.temps /\ disk'.file = << c, "whole" >>
      /\ UNCHANGED << provider, call, row, link, work, command, last >>
  <2>1. << c, "whole" >> \in Content
    BY DEF Content
  <2> QED  BY <1>1, <2>1, AtWork DEF ServeLate, Replaced, Disk
<1>3. /\ resent' \in [Calls -> Resent]
      /\ \A o \in Calls : o # c => resent'[o] = resent[o]
      /\ last # c => resent'[c].strayed
  <2>1. resent \in [Calls -> Resent] /\ resent[c].late - 1 \in Nat
    BY <1>1 DEF Inv, TypeOK, Resent
  <2> QED  BY <2>1 DEF ServeLate, Resent
<1>4. ASSUME NEW o \in Calls  PROVE Shape(o)' /\ Place(o)' /\ Torn(o)' /\ Left(o)' /\ Small(o)'
  BY <1>2 DEF Inv, Shape, Place, Torn, Left, Small, Kinds, Asked, Over, Working
<1>5. TypeOK' /\ Rooted' /\ Exclusive' /\ Resends'
  BY <1>1, <1>2, <1>3 DEF Inv, TypeOK, Rooted, Exclusive, Resends, Careless, Over, Working,
                          Kinds, Asked
<1>6. Told'
  <2> SUFFICES ASSUME NEW p \in Calls, last = p
               PROVE  /\ Kinds(p) = "write"
                            => disk'.file \in {<< p, work[p].input >>, Foreign} \cup Strays(p)'
                      /\ Kinds(p) = "delete" => disk'.file \in {Nothing, Foreign} \cup Strays(p)'
    BY <1>2 DEF Told, Kinds, Asked
  <2>1. CASE p = c
    <3>1. work[c].input = "whole"
      BY <1>1, AtWork DEF Torn, WorkState
    <3> QED  BY <1>1, <1>2, <2>1, <3>1
  <2>2. CASE p # c
    BY <1>2, <1>3, <2>2 DEF Strays
  <2> QED  BY <2>1, <2>2
<1> QED  BY <1>4, <1>5, <1>6 DEF Inv

\* Somebody other than who serves a call changes the file, to what is not torn.
LEMMA Overwrites ==
    ASSUME Inv, UNCHANGED << provider, call, row, link, work, resent, command, last >>, disk.parent,
           disk' \in Disk, disk'.parent, disk'.temps = disk.temps,
           \A c \in Calls : disk'.file # << c, "torn" >>,
           \A c \in Calls : last = c /\ ~Careless /\ work[c].pc = "exited" /\ work[c].ok
                => disk'.file = Foreign
    PROVE  Inv'
<1>1. ASSUME NEW o \in Calls  PROVE Shape(o)' /\ Place(o)' /\ Torn(o)' /\ Left(o)' /\ Small(o)'
  BY DEF Inv, Shape, Place, Torn, Left, Small, Kinds, Asked, Over, Working
<1>2. TypeOK' /\ Rooted' /\ Exclusive' /\ Told' /\ Resends'
  BY DEF Inv, TypeOK, Rooted, Exclusive, Told, Resends, Strays, Careless, Over, Working,
         Kinds, Asked
<1> QED  BY <1>1, <1>2 DEF Inv

LEMMA CommandsWrite == ASSUME Inv, NEW c \in Calls, CommandWrites(c)  PROVE Inv'
<1>1. << c, "whole" >> \in Content
  BY DEF Content
<1>2. disk' \in Disk /\ disk'.parent /\ disk'.temps = disk.temps /\ disk'.file = << c, "whole" >>
  BY <1>1, AtWork DEF CommandWrites, Disk
<1>3. Kinds(c) \in Mutating /\ ~Over(c) /\ call[c].pc # "idle" /\ ~work[c].ok
  BY DEF CommandWrites, Inv, Shape, Place, Over, Working, Mutating
<1>4. \A p \in Calls : last = p /\ ~Careless => p = c
  BY <1>3 DEF Inv, Exclusive
<1> QED  BY <1>2, <1>3, <1>4, Overwrites DEF CommandWrites

LEMMA OthersWrite == ASSUME Inv, Outside  PROVE Inv'
<1>1. Foreign \in Content /\ \A c \in Calls : Foreign # << c, "torn" >>
  BY DEF Content
<1>2. disk' \in Disk /\ disk'.parent /\ disk'.temps = disk.temps /\ disk'.file = Foreign
  <2>1. disk \in Disk
    BY DEF Inv, TypeOK
  <2> QED  BY <1>1, <2>1 DEF Outside, Disk
<1> QED  BY <1>1, <1>2, Overwrites DEF Outside

LEMMA Settles ==
    ASSUME Inv, NEW c \in Calls, Reconcile(c) \/ ForceRelease(c)  PROVE Inv'
<1>1. /\ UNCHANGED << provider, call, link, work, resent, command, disk, last >>
      /\ row' \in [Calls -> RowState] /\ \A o \in Calls : o # c => row'[o] = row[o]
      /\ \/ row'[c].status = "uncertain" /\ row'[c].forced = row[c].forced
         \/ row'[c] = [status |-> "released", forced |-> IF Working(c) THEN "working" ELSE "idle"]
  BY DEF Reconcile, ForceRelease, Settled, Inv, TypeOK, RowState
<1>2. row[c].forced = "no" /\ call[c].pc \in {"ok", "error", "dead"}
  BY DEF Reconcile, ForceRelease, Inv, TypeOK, Shape, CallState
<1>3. ASSUME NEW o \in Calls  PROVE Shape(o)' /\ Place(o)' /\ Torn(o)' /\ Left(o)' /\ Small(o)'
  <2>1. Shape(o)' /\ Left(o)'
    <3>1. CASE o = c
      BY <3>1, <1>1, <1>2 DEF Inv, Shape, Left, Over, Working
    <3>2. CASE o # c
      BY <3>2, <1>1 DEF Inv, Shape, Left, Over, Working
    <3> QED  BY <3>1, <3>2
  <2>2. Place(o)' /\ Torn(o)' /\ Small(o)'
    BY <1>1 DEF Inv, Place, Torn, Small, Kinds, Asked
  <2> QED  BY <2>1, <2>2
<1>4. Careless => Careless'
  BY <1>1, <1>2 DEF Careless
<1>5. TypeOK' /\ Rooted'
  BY <1>1 DEF Inv, TypeOK, Rooted
<1>6. Exclusive' /\ Told' /\ Resends'
  BY <1>1, <1>4 DEF Inv, Exclusive, Told, Resends, Strays, Over, Working, Kinds, Asked
<1> QED  BY <1>3, <1>5, <1>6 DEF Inv
-----------------------------------------------------------------------------
(* What holds of every run *)

LEMMA Steps == Inv /\ [Next]_vars => Inv'
<1> SUFFICES ASSUME Inv, [Next]_vars  PROVE Inv'
  OBVIOUS
<1>1. ASSUME NEW c \in Calls, NEW r \in Requests[c], Admit(c, r)  PROVE Inv'
  BY <1>1, Admits
<1>2. ASSUME NEW c \in Calls, Transport(c)  PROVE Inv'
  BY <1>2, Cuts, Reads, Receives, Retries, Misses, Dies DEF Transport
<1>3. ASSUME NEW c \in Calls, Local(c)  PROVE Inv'
  <2>1. CASE LocalWrite(c)
    BY <2>1, MakesParents, Stages, Fills, Publishes DEF LocalWrite, Write
  <2>2. CASE LocalRead(c) \/ LocalLook(c)
    BY <2>2, ChecksSize, ReadsBody, Looks DEF LocalRead, LocalLook, Read
  <2>3. CASE LocalExec(c)
    BY <2>3, Spawns, TimesOut DEF LocalExec, Exec
  <2>4. CASE LocalDelete(c)
    BY <2>4, Removes, Scans, RemovesEntry, RemovesTree DEF LocalDelete, Delete
  <2>5. CASE Refuse(c)
    BY <2>5, Refuses
  <2> QED  BY <1>3, <2>1, <2>2, <2>3, <2>4, <2>5 DEF Local
<1>4. ASSUME NEW c \in Calls, Helper(c)  PROVE Inv'
  <2>1. CASE Write(c)
    BY <2>1, MakesParents, Stages, Fills, Publishes DEF Write
  <2>2. CASE Read(c) \/ Look(c) \/ Refuse(c)
    BY <2>2, ChecksSize, ReadsBody, Looks, Refuses DEF Read
  <2>3. CASE Exec(c)
    BY <1>4, <2>3, Spawns, TimesOut DEF Helper, Exec
  <2>4. CASE Delete(c)
    BY <1>4, <2>4, Removes, Scans, RemovesEntry, RemovesTree DEF Helper, Delete
  <2> QED  BY <1>4, <2>1, <2>2, <2>3, <2>4 DEF Helper
<1>5. ASSUME NEW c \in Calls, StoreRead(c) \/ ReplaceObject(c) \/ ServeLate(c)  PROVE Inv'
  BY <1>5, ChecksSize, ReadsBody, Looks, Refuses, ReplacesObject, ServesLate DEF StoreRead, Read
<1>6. ASSUME NEW c \in Calls, CommandWrites(c) \/ CommandEnds(c)  PROVE Inv'
  BY <1>6, CommandsWrite, Ends
<1>7. ASSUME NEW c \in Calls, CannotInvoke(c) \/ Unavailable(c)  PROVE Inv'
  BY <1>7, Errors DEF CannotInvoke, Unavailable
<1>8. ASSUME NEW c \in Calls, TransportTimeout(c)  PROVE Inv'
  <2>1. provider # "local"
    BY <1>8 DEF TransportTimeout, HasTimeout
  <2> QED  BY <1>8, <2>1, Errors DEF TransportTimeout
<1>9. ASSUME NEW c \in Calls, Invoke(c) \/ Answered(c) \/ Reconcile(c) \/ ForceRelease(c)  PROVE Inv'
  BY <1>9, Invokes, Answers, Settles
<1>10. ASSUME NEW c \in Calls, Fault(c)  PROVE Inv'
  BY <1>10, Interrupts, Vanishes DEF Fault
<1>11. CASE Outside
  BY <1>11, OthersWrite
<1>12. CASE UNCHANGED vars
  <2> USE <1>12 DEF vars
  <2>1. ASSUME NEW o \in Calls  PROVE Shape(o)' /\ Place(o)' /\ Torn(o)' /\ Left(o)' /\ Small(o)'
    BY DEF Inv, Shape, Place, Torn, Left, Small, Kinds, Asked, Over, Working
  <2>2. TypeOK' /\ Rooted' /\ Exclusive' /\ Told' /\ Resends'
    BY DEF Inv, TypeOK, Rooted, Exclusive, Told, Resends, Strays, Careless, Over, Working,
           Kinds, Asked
  <2> QED  BY <2>1, <2>2 DEF Inv
<1> QED
  BY <1>1, <1>2, <1>3, <1>4, <1>5, <1>6, <1>7, <1>8, <1>9, <1>10, <1>11, <1>12 DEF Next, Comeback

\* The invariant holds of every run of the operations of application.py.
THEOREM InvHolds == Spec => []Inv
  BY Starts, Steps, PTL DEF Spec

\* Every variable keeps its type, whatever fails between a caller, a helper
\* and a command.
THEOREM TypesHold == Spec => []TypeOK
<1>1. Inv => TypeOK
  BY DEF Inv
<1> QED  BY <1>1, InvHolds, PTL

\* Coordination.operation() lets go of a claim by itself only when nothing of
\* its call can act any more, nothing is staged, and nothing cut short stands.
THEOREM ReleasedClaimsAreOver == Spec => []ReleasedIsOver
<1>1. Inv => ReleasedIsOver
  BY DEF Inv, Shape, Torn, Left, Over, ReleasedIsOver
<1> QED  BY <1>1, InvHolds, PTL

\* An answer of write() or delete() is not undone by what the call left behind,
\* nor by a call that was given up on: only by who is admitted next, by others
\* outside, because an operator forced a claim whose work went on, or by an
\* attempt at an earlier write() that the client of an object store repeated.
THEOREM AnswersHold == Spec => []AnswersStand
<1>1. Inv => AnswersStand
  <2> SUFFICES ASSUME Inv, NEW c \in Calls, call[c].pc = "ok", last = c, ~Careless
               PROVE  /\ Kinds(c) = "write"
                            => disk.file \in {<< c, "whole" >>, Foreign} \cup Strays(c)
                      /\ Kinds(c) = "delete" => disk.file \in {Nothing, Foreign} \cup Strays(c)
    BY DEF AnswersStand
  <2>1. work[c].pc = "exited" /\ work[c].ok /\ work[c].input # "torn"
    BY DEF Inv, Shape, Torn
  <2>2. work[c].input = "whole"
    BY <2>1, AtWork DEF WorkState
  <2> QED  BY <2>1, <2>2 DEF Inv, Told
<1> QED  BY <1>1, InvHolds, PTL

\* read() returns no more than it was allowed to, whatever became of the file
\* while it was read.
THEOREM ReadsAreBounded == Spec => []ReadsWithinLimit
<1>1. Inv => ReadsWithinLimit
  BY DEF Inv, Small, ReadsWithinLimit
<1> QED  BY <1>1, InvHolds, PTL
=============================================================================
