--------------------------- MODULE S3UploadProofs ---------------------------
(***************************************************************************)
(* The safety of a copy from an S3 object to another one, for objects,     *)
(* reads and parts of any size and any number of uploads.                  *)
(***************************************************************************)
EXTENDS S3Upload, Integers, FiniteSetTheorems, WellFoundedInduction, SequenceTheorems, TLAPS

\* Before a copy cleans up, or has ended.
Running == {"open", "stream", "finishSource", "finish", "commit"}

\* A piece of the stream, from a unit on.
Counts(s, from) == \A j \in 1..Len(s) : s[j] = from + j

\* The n-th part of a stream of which so much was read.
IsPart(s, n, read) ==
    /\ Counts(s, (n - 1) * PartSize)
    /\ Len(s) = IF n * PartSize <= read THEN PartSize ELSE read - (n - 1) * PartSize
    /\ (n - 1) * PartSize < read

\* What was read is in the parts and in the buffer, and nothing else is: all
\* parts are full, except one that was sent after the end of the stream.
Streamed ==
    /\ caller.pc \in Running =>
        /\ Counts(caller.buffer, Len(caller.parts) * PartSize)
        /\ Len(caller.buffer) = IF Len(caller.parts) * PartSize <= caller.read
                                THEN caller.read - Len(caller.parts) * PartSize ELSE 0
    /\ \A n \in 1..Len(caller.parts) :
        /\ IsPart(caller.parts[n], n, caller.read)
        /\ n * PartSize <= caller.read \/ caller.pc \notin {"open", "stream"}
    /\ Len(caller.buffer) <= PartSize + MaxChunk
    /\ Len(caller.parts) <= MaxParts

\* What the locals of the caller say where it is.
Phases ==
    /\ caller.pc = "open" =>
            caller.read = 0 /\ caller.buffer = << >> /\ caller.parts = << >> /\ caller.id = 0
    /\ caller.pc \in Running /\ caller.id = 0 => ghost.known = {} /\ caller.parts = << >>
    /\ caller.sourceOk =>
            /\ caller.read = source.size[caller.opened]
            /\ caller.pc \notin {"open", "stream", "finishSource"}
    /\ caller.pc = "commit" =>
            /\ caller.sourceOk
            /\ IF caller.id = 0 THEN caller.read <= PartSize
               ELSE caller.read <= Len(caller.parts) * PartSize
    /\ ghost.committed => caller.sourceOk /\ caller.pc # "finish"
    /\ ghost.full => caller.read > MaxParts * PartSize
    /\ caller.pc = "returned" => store.object # Before
    /\ Ended /\ caller.id # 0 => caller.id \in ghost.asked

IsStream(s) == s \in Units /\ Len(s) = source.size[caller.opened] /\ Counts(s, 0)

\* What may be sent: to an upload whose identity is known, and to the
\* destination nothing but the stream.
Sendable(r) ==
    /\ r.op # "none"
    /\ r.op \in {"part", "complete", "abort"} => r.id \in ghost.known
    /\ r.op \in {"part", "put"} => Len(r.data) = 1
    /\ r.op = "put" => ghost.committed /\ IsStream(r.data[1])
    /\ r.op = "complete" => ghost.committed /\ IsStream(FlattenSeq(r.data))

\* Where the caller waits for what.
Awaited(r) ==
    /\ r.op = "create" => caller.pc = "stream" /\ StartsUpload
    /\ r.op = "part" =>
            /\ caller.pc \in {"stream", "finish"} /\ FillsPart /\ ~TooMany
            /\ r.id = caller.id /\ r.data = << NextPart >>
    /\ r.op = "put" => caller.pc = "commit" /\ caller.id = 0 /\ Len(r.data[1]) <= PartSize
    /\ r.op = "complete" => caller.pc = "commit" /\ r.id = caller.id
    /\ r.op = "abort" =>
            caller.pc \in {"cancel", "abort"} /\ r.id = caller.id /\ r.id \in ghost.asked

\* What an answer proves.
Answered(r) ==
    /\ IF r.op = "create" THEN wire.answer[2] # 0 /\ IsOpen(wire.answer[2])
       ELSE wire.answer[2] = 0
    /\ r.op = "put" => store.object # Before
    /\ r.op = "complete" => store.uploads[r.id].state = "completed"
    /\ r.op = "abort" => ~IsOpen(r.id)

Requested ==
    /\ \A r \in wire.sent : Sendable(r)
    /\ ~Idle => Sendable(wire.waiting) /\ Awaited(wire.waiting)
    /\ wire.answer[1] => ~Idle /\ Answered(wire.waiting)

\* The object is the stream or what it was; the caller knows of one upload.
Stored ==
    /\ store.object # Before => ghost.committed /\ IsStream(store.object)
    /\ \A u \in 1..MaxUploads : store.uploads[u].state = "completed" => store.object # Before
    /\ \A u \in ghost.known : store.uploads[u].state # "none"
    /\ \A u, v \in ghost.known : u = v
    /\ caller.id # 0 => caller.id \in ghost.known
    /\ \A u \in ghost.known : IsOpen(u) => u = caller.id

Inv == TypeOK /\ Streamed /\ Phases /\ Requested /\ Stored
-----------------------------------------------------------------------------
(* Sequences *)

\* A set of natural numbers has a least element.
LEMMA LeastNatural ==
    ASSUME NEW T, T \subseteq Nat, T # {}
    PROVE  \E i \in T : \A j \in T : i <= j
<1> DEFINE I == {1..i : i \in T}
           R == StrictSubsetOrdering(Nat)
<1>1. I \subseteq FiniteSubsetsOf(Nat) /\ I # {}
  <2>1. ASSUME NEW i \in Nat
        PROVE  1..i \in FiniteSubsetsOf(Nat)
    <3>1. IsFiniteSet(1..i)
      BY FS_Interval
    <3>2. 1..i \subseteq Nat
      OBVIOUS
    <3> QED  BY <3>1, <3>2 DEF FiniteSubsetsOf
  <2> QED  BY <2>1
<1>2. PICK A \in I : \A B \in I : << B, A >> \notin R
  <2> HIDE DEF R, I
  <2> QED  BY <1>1, WFMin, FS_StrictSubsetOrderingWellFounded DEF R
<1>3. PICK i \in T : A = 1..i
  BY <1>2
<1>4. ASSUME NEW j \in T, j < i
      PROVE  FALSE
  <2>1. 1..j \subseteq 1..i /\ 1..j # 1..i /\ 1..j \subseteq Nat /\ 1..i \subseteq Nat
    <3> i \in 1..i /\ i \notin 1..j
      BY <1>4
    <3> QED  BY <1>4
  <2>2. << 1..j, 1..i >> \in R
    BY <2>1 DEF StrictSubsetOrdering
  <2>3. 1..j \in I
    OBVIOUS
  <2> HIDE DEF R, I
  <2> QED  BY <1>2, <1>3, <2>2, <2>3
<1> QED  BY <1>3, <1>4

\* Flattening n sequences yields what is known to be put together step by step.
LEMMA Flattened ==
    ASSUME NEW seqs, Len(seqs) \in Nat \ {0}, NEW G,
           G = [i \in 1..Len(seqs) |-> IF i = 1 THEN seqs[i] ELSE G[i-1] \o seqs[i]]
    PROVE  FlattenSeq(seqs) = G[Len(seqs)]
<1> DEFINE Flattens(f) ==
            f = [i \in 1..Len(seqs) |-> IF i = 1 THEN seqs[i] ELSE f[i-1] \o seqs[i]]
           flatten == CHOOSE f : Flattens(f)
           T == {i \in 1..Len(seqs) : flatten[i] # G[i]}
<1>1. Flattens(flatten)
  <2>1. \E f : Flattens(f)
    OBVIOUS
  <2> HIDE DEF Flattens
  <2> QED BY <2>1
<1>2. FlattenSeq(seqs) = flatten[Len(seqs)]
  BY DEF FlattenSeq
<1> HIDE DEF flatten
<1>3. CASE T # {}
  <2>1. PICK i \in T : \A j \in T : i <= j
    <3>1. T \subseteq Nat
      OBVIOUS
    <3> HIDE DEF T
    <3> QED BY <3>1, <1>3, LeastNatural
  <2>2. i \in 1..Len(seqs) /\ flatten[i] # G[i]
    OBVIOUS
  <2>3. /\ flatten[i] = IF i = 1 THEN seqs[i] ELSE flatten[i-1] \o seqs[i]
        /\ G[i] = IF i = 1 THEN seqs[i] ELSE G[i-1] \o seqs[i]
    BY <1>1, <2>2
  <2>4. CASE i # 1
    <3>1. i - 1 \in 1..Len(seqs) /\ i - 1 \notin T
      BY <2>1, <2>2, <2>4
    <3>2. flatten[i-1] = G[i-1]
      BY <3>1
    <3> QED BY <3>2, <2>2, <2>3
  <2> QED BY <2>2, <2>3, <2>4
<1>4. CASE T = {}
  <2>1. Len(seqs) \in 1..Len(seqs)
    OBVIOUS
  <2>2. Len(seqs) \notin T
    <3> HIDE DEF T
    <3> QED BY <1>4
  <2> QED BY <1>2, <2>1, <2>2
<1> QED BY <1>3, <1>4

\* A product and the one before it.
LEMMA Times ==
    ASSUME NEW n \in Nat, NEW m \in Nat
    PROVE  /\ m * PartSize \in Nat
           /\ (n + 1) * PartSize = n * PartSize + PartSize
           /\ n < m => n * PartSize + PartSize <= m * PartSize
<1>1. PartSize \in Nat
  BY S3UploadAssumption
<1>2. m * PartSize \in Nat /\ (n + 1) * PartSize = n * PartSize + PartSize
  BY <1>1
<1>3. ASSUME n < m
      PROVE  n * PartSize + PartSize <= m * PartSize
  <2>1. PICK k \in Nat : m = n + 1 + k
    BY <1>3
  <2>2. m * PartSize = n * PartSize + PartSize + k * PartSize /\ k * PartSize \in Nat
    BY <1>1, <2>1
  <2> QED BY <1>1, <2>2
<1> QED BY <1>1, <1>2, <1>3

\* Parts that follow each other, all full but the last one, are the stream.
LEMMA PartsAreStream ==
    ASSUME NEW parts \in Seq(Units), NEW size \in Nat,
           \A n \in 1..Len(parts) : IsPart(parts[n], n, size),
           size <= Len(parts) * PartSize
    PROVE  /\ FlattenSeq(parts) \in Units
           /\ Len(FlattenSeq(parts)) = size
           /\ Counts(FlattenSeq(parts), 0)
<1> DEFINE upto(n) == IF n * PartSize <= size THEN n * PartSize ELSE size
           G == [n \in 1..Len(parts) |-> [k \in 1..upto(n) |-> k]]
<1>0. PartSize \in Nat \ {0} /\ Len(parts) \in Nat
  BY S3UploadAssumption
<1>1. CASE Len(parts) = 0
  <2>1. FlattenSeq(parts) = << >> /\ size = 0
    BY <1>0, <1>1 DEF FlattenSeq
  <2> QED BY <2>1 DEF Units, Counts
<1>2. CASE Len(parts) # 0
  <2>1. ASSUME NEW n \in 1..Len(parts)
        PROVE  upto(n) \in Nat /\ G[n] = [k \in 1..upto(n) |-> k]
    BY <1>0, <2>1, Times
  <2>2. ASSUME NEW m \in Nat, NEW s, s = [k \in 1..m |-> k]
        PROVE  s \in Units /\ Len(s) = m /\ \A k \in 1..m : s[k] = k
    BY <2>2 DEF Units
  <2>3. ASSUME NEW n \in 1..Len(parts)
        PROVE  /\ parts[n] \in Units
               /\ Len(parts[n]) = upto(n) - (n - 1) * PartSize
               /\ \A j \in 1..Len(parts[n]) : parts[n][j] = (n - 1) * PartSize + j
    <3>1. parts[n] \in Units
      OBVIOUS
    <3>2. n - 1 \in Nat /\ (n - 1) + 1 = n
      BY <2>3, <1>0
    <3>3. n * PartSize = (n - 1) * PartSize + PartSize
      BY <3>2, Times
    <3>4. IsPart(parts[n], n, size)
      BY <2>3
    <3> QED BY <1>0, <3>1, <3>2, <3>3, <3>4, Times DEF IsPart, Counts
  <2>4. ASSUME NEW n \in 1..Len(parts)
        PROVE  G[n] = IF n = 1 THEN parts[n] ELSE G[n-1] \o parts[n]
    <3> HIDE DEF G
    <3> SUFFICES G[n] = IF n = 1 THEN parts[n] ELSE G[n-1] \o parts[n]
      OBVIOUS
    <3>1. n \in Nat /\ n - 1 \in Nat
      BY <2>4, <1>0
    <3>2. G[n] \in Units /\ Len(G[n]) = upto(n) /\ \A k \in 1..upto(n) : G[n][k] = k
      BY <2>1, <2>2
    <3>3. CASE n = 1
      <4>1. (n - 1) * PartSize = 0
        BY <3>3, <1>0
      <4>2. upto(n) \in Nat
        BY <2>1
      <4> HIDE DEF upto
      <4>3. Len(parts[n]) = upto(n) /\ \A j \in 1..Len(parts[n]) : parts[n][j] = j
        BY <4>1, <4>2, <2>3
      <4>4. G[n] = parts[n]
        BY <3>2, <4>3, <2>3, SeqEqual DEF Units
      <4> QED BY <4>4, <3>3
    <3>4. CASE n # 1
      <4>1. n - 1 \in 1..Len(parts)
        BY <3>4, <1>0
      <4>2. upto(n - 1) = (n - 1) * PartSize
        <5>1. IsPart(parts[n], n, size)
          BY <2>4
        <5>2. (n - 1) * PartSize < size /\ (n - 1) * PartSize \in Nat
          BY <5>1, <3>1, Times DEF IsPart
        <5> QED BY <5>2
      <4>3. /\ G[n-1] \in Units /\ Len(G[n-1]) = (n - 1) * PartSize
            /\ \A k \in 1..(n - 1) * PartSize : G[n-1][k] = k
        BY <4>1, <4>2, <2>1, <2>2
      <4>4. (n - 1) * PartSize \in Nat /\ upto(n) \in Nat
        BY <3>1, <2>1, Times
      <4> HIDE DEF upto
      <4> DEFINE base == (n - 1) * PartSize
                 c == G[n-1] \o parts[n]
      <4>5. /\ c \in Units /\ Len(c) = base + Len(parts[n])
            /\ \A k \in 1..base + Len(parts[n]) :
                    c[k] = IF k <= base THEN G[n-1][k] ELSE parts[n][k - base]
        <5>1. /\ G[n-1] \in Seq(Nat) /\ parts[n] \in Seq(Nat)
              /\ Len(G[n-1]) = base
          BY <4>3, <2>3 DEF Units
        <5> HIDE DEF base
        <5> QED BY <5>1, ConcatProperties DEF Units
      <4>6. base \in Nat /\ base + Len(parts[n]) = upto(n)
        BY <4>4, <2>3
      <4>7. Len(parts[n]) \in Nat
        BY <2>3 DEF Units
      <4>8. /\ \A k \in 1..base : G[n-1][k] = k
            /\ \A j \in 1..Len(parts[n]) : parts[n][j] = base + j
        BY <4>3, <2>3
      <4>11. base \in Nat
        BY <4>6
      <4> HIDE DEF base, c
      <4>9. \A k \in 1..upto(n) : c[k] = k
        <5> TAKE k \in 1..upto(n)
        <5>1. CASE k <= base
          <6>1. k \in 1..base
            BY <5>1, <4>4, <4>11
          <6>2. c[k] = G[n-1][k]
            BY <5>1, <4>4, <4>5, <4>6
          <6> QED BY <6>1, <6>2, <4>8
        <5>2. CASE k > base
          <6>1. k - base \in 1..Len(parts[n])
            BY <5>2, <4>4, <4>6, <4>7
          <6>2. c[k] = parts[n][k - base]
            BY <5>2, <4>4, <4>5, <4>6, <4>7, <4>11
          <6> QED BY <5>2, <6>1, <6>2, <4>4, <4>6, <4>8, <4>11
        <5> QED BY <5>1, <5>2, <4>4, <4>6, <4>11
      <4>10. G[n] = c
        BY <3>2, <4>5, <4>6, <4>9, SeqEqual DEF Units
      <4> QED BY <3>4, <4>10 DEF c
    <3> QED BY <3>3, <3>4
  <2>5. G = [n \in 1..Len(parts) |-> IF n = 1 THEN parts[n] ELSE G[n-1] \o parts[n]]
    BY <2>4
  <2>6. FlattenSeq(parts) = G[Len(parts)]
    <3> HIDE DEF G
    <3> QED BY <1>0, <1>2, <2>5, Flattened
  <2>7. Len(parts) \in 1..Len(parts) /\ upto(Len(parts)) = size
    <3>1. Len(parts) * PartSize \in Nat
      BY <1>0, Times
    <3> QED BY <3>1, <1>0, <1>2
  <2>8. G[Len(parts)] = [k \in 1..size |-> k]
    BY <2>1, <2>7
  <2> HIDE DEF G
  <2> QED BY <2>2, <2>6, <2>8 DEF Counts
<1> QED BY <1>1, <1>2
-----------------------------------------------------------------------------
(* Types *)

\* What the answer to an attempt leaves of the wire.
LEMMA AnswerLeaves ==
    ASSUME wire \in Wire, NEW r \in wire.sent,
           NEW ok \in BOOLEAN, NEW u \in 0..MaxUploads, Answer(r, ok, u)
    PROVE  /\ wire' \in Wire
           /\ wire'.waiting = wire.waiting
           /\ wire'.sent \subseteq wire.sent
           /\ \/ wire'.answer = wire.answer
              \/ r = wire.waiting /\ wire'.answer = << ok, u >>
<1>1. PICK sent \in {wire.sent \ {r}} \cup (IF r = wire.waiting THEN {wire.sent} ELSE {}),
           answer \in {wire.answer} \cup (IF r = wire.waiting THEN {<< ok, u >>} ELSE {}) :
        wire' = [wire EXCEPT !.sent = sent, !.answer = answer]
  BY DEF Answer
<1>2. sent \subseteq wire.sent
  BY <1>1
<1>3. answer = wire.answer \/ (r = wire.waiting /\ answer = << ok, u >>)
  BY <1>1
<1>4. answer \in BOOLEAN \X (0..MaxUploads)
  BY <1>3 DEF Wire
<1>5. wire' = [waiting |-> wire.waiting, sent |-> sent, answer |-> answer]
  BY <1>1 DEF Wire
<1> QED BY <1>2, <1>3, <1>4, <1>5 DEF Wire

\* The parameters are positive, and no answer is one the wire can hold.
LEMMA Constants ==
    /\ MaxChunk \in Nat \ {0} /\ PartSize \in Nat \ {0}
    /\ MaxParts \in Nat \ {0} /\ MaxUploads \in Nat \ {0}
    /\ NoAnswer \in BOOLEAN \X (0..MaxUploads)
    /\ NoAnswer[1] = FALSE /\ NoAnswer[2] = 0
    /\ << >> \in Units /\ << >> \in Seq(Units)
<1>1. /\ MaxChunk \in Nat \ {0} /\ PartSize \in Nat \ {0}
      /\ MaxParts \in Nat \ {0} /\ MaxUploads \in Nat \ {0}
  BY S3UploadAssumption
<1>2. FALSE \in BOOLEAN /\ 0 \in 0..MaxUploads
  BY <1>1
<1>3. NoAnswer \in BOOLEAN \X (0..MaxUploads)
  BY <1>2, Zenon DEF NoAnswer
<1>4. NoAnswer[1] = FALSE /\ NoAnswer[2] = 0
  BY DEF NoAnswer
<1> QED BY <1>1, <1>3, <1>4, EmptySeq DEF Units

\* A request that is sent.
LEMMA SendType ==
    ASSUME wire \in Wire, NEW r \in Request, Send(r)
    PROVE  /\ wire' \in Wire
           /\ wire'.waiting = r /\ wire'.sent = wire.sent \cup {r}
           /\ wire'.answer = NoAnswer
BY Constants DEF Send, Wire

\* The requests that are changes of Silence.
LEMMA CreateType == Create \in Request /\ Create.op = "create"
<1>1. Create = [op |-> "create", id |-> 0, part |-> 0, data |-> << >>]
  BY DEF Create, Silence
<1>2. 0 \in 0..MaxUploads /\ << >> \in Seq(Units)
  BY Constants
<1> QED BY <1>1, <1>2 DEF Request

\* A put that may be sent twice leaves values of their types.
LEMMA PutType ==
    ASSUME caller \in Caller, NEW r,
           r = [Silence EXCEPT !.op = "put", !.data = << caller.buffer >>]
    PROVE  r \in Request /\ r.op = "put" /\ r.data = << caller.buffer >>
<1>1. PICK data \in Seq(Units) : data = << caller.buffer >>
  <2>1. caller.buffer \in Units
    BY DEF Caller
  <2>2. << caller.buffer >> \in Seq(Units)
    BY <2>1
  <2> QED BY <2>2
<1>2. r = [op |-> "put", id |-> 0, part |-> 0, data |-> data]
  BY <1>1 DEF Silence
<1>3. r \in Request
  BY <1>2, Constants DEF Request
<1> QED BY <1>1, <1>2, <1>3

\* So does a completion.
LEMMA CompleteType ==
    ASSUME caller \in Caller, NEW r,
           r = [Silence EXCEPT !.op = "complete", !.id = caller.id, !.data = caller.parts]
    PROVE  r \in Request /\ r.op = "complete" /\ r.id = caller.id /\ r.data = caller.parts
<1>1. PICK id \in 0..MaxUploads, data \in Seq(Units) : id = caller.id /\ data = caller.parts
  BY DEF Caller
<1>2. r = [op |-> "complete", id |-> id, part |-> 0, data |-> data]
  BY <1>1 DEF Silence
<1>3. r \in Request
  BY <1>2 DEF Request
<1> QED BY <1>1, <1>2, <1>3

\* So does an abortion.
LEMMA AbortType ==
    ASSUME caller \in Caller, NEW r,
           r = [Silence EXCEPT !.op = "abort", !.id = caller.id]
    PROVE  r \in Request /\ r.op = "abort" /\ r.id = caller.id
<1>1. PICK id \in 0..MaxUploads, data \in Seq(Units) : id = caller.id /\ data = << >>
  <2>1. caller.id \in 0..MaxUploads /\ << >> \in Seq(Units)
    BY Constants DEF Caller
  <2> QED BY <2>1
<1>2. r = [op |-> "abort", id |-> id, part |-> 0, data |-> data]
  BY <1>1 DEF Silence
<1>3. r \in Request
  BY <1>2 DEF Request
<1> QED BY <1>1, <1>2, <1>3

\* No answer is waited for any more.
LEMMA NotWaitingType ==
    ASSUME wire \in Wire
    PROVE  /\ NotWaiting \in Wire
           /\ NotWaiting.waiting = Silence /\ NotWaiting.sent = wire.sent
           /\ NotWaiting.answer = NoAnswer
<1>1. Silence \in Request
  BY S3UploadAssumption DEF Silence, Request, Units
<1>2. NotWaiting = [waiting |-> Silence, sent |-> wire.sent, answer |-> NoAnswer]
  <2>1. PICK w : w = NotWaiting
    OBVIOUS
  <2>2. w = [waiting |-> Silence, sent |-> wire.sent, answer |-> NoAnswer]
    BY <2>1 DEF NotWaiting, Wire
  <2> QED BY <2>1, <2>2
<1> QED BY <1>1, <1>2, Constants DEF Wire

\* The next part is the beginning of the buffer.
LEMMA NextPartType ==
    ASSUME caller \in Caller
    PROVE  /\ NextPart \in Units
           /\ Len(NextPart) = IF Len(caller.buffer) < PartSize
                              THEN Len(caller.buffer) ELSE PartSize
           /\ \A j \in 1..Len(NextPart) : NextPart[j] = caller.buffer[j]
<1> DEFINE m == IF Len(caller.buffer) < PartSize THEN Len(caller.buffer) ELSE PartSize
<1>1. /\ caller.buffer \in Seq(Nat) /\ Len(caller.buffer) \in Nat
      /\ PartSize \in Nat \ {0}
  BY S3UploadAssumption DEF Caller, Units
<1>2. m \in Nat /\ m <= Len(caller.buffer)
  BY <1>1
<1>3. NextPart = SubSeq(caller.buffer, 1, m)
  BY DEF NextPart
<1> HIDE DEF m
<1>4. \A i \in 1..m : caller.buffer[i] \in Nat
  BY <1>1, <1>2
<1>5. /\ NextPart \in Seq(Nat)
      /\ Len(NextPart) = IF 1 <= m THEN m - 1 + 1 ELSE 0
      /\ \A i \in 1..m - 1 + 1 : NextPart[i] = caller.buffer[1 + i - 1]
  BY <1>2, <1>3, <1>4, SubSeqProperties
<1>6. Len(NextPart) = m
  BY <1>2, <1>5
<1>7. \A j \in 1..m : NextPart[j] = caller.buffer[j]
  BY <1>1, <1>2, <1>5
<1> QED BY <1>5, <1>6, <1>7 DEF Units, m

\* Every step keeps the types.
LEMMA TypeKept ==
    ASSUME Inv, [Next]_vars
    PROVE  TypeOK'
<1> USE Constants DEF Inv, TypeOK
<1>1. CASE Open
  BY <1>1 DEF Open, Move, Caller, Source
<1>2. CASE Relay
  <2>1. PICK n \in 1..MaxChunk :
            caller' = [caller EXCEPT !.read = @ + n,
                            !.buffer = @ \o [i \in 1..n |-> caller.read + i]]
    BY <1>2 DEF Relay, Move
  <2>2. caller.read \in Nat /\ caller.buffer \in Seq(Nat)
    BY DEF Caller, Units
  <2>3. [i \in 1..n |-> caller.read + i] \in Seq(Nat)
    BY <2>2
  <2>4. caller.buffer \o [i \in 1..n |-> caller.read + i] \in Seq(Nat)
    BY <2>2, <2>3, ConcatProperties
  <2>5. caller.read + n \in Nat
    BY <2>2
  <2>6. caller' \in Caller
    BY <2>1, <2>4, <2>5 DEF Caller, Units
  <2> QED BY <1>2, <2>6 DEF Relay, Move
<1>3. CASE StreamEnds \/ StreamFails
  BY <1>3 DEF StreamEnds, StreamFails, Fail, Move, Caller
<1>4. CASE FinishSource
  <2>1. PICK ok \in {FALSE, Intact} :
            caller' = [caller EXCEPT !.pc = "finish", !.sourceOk = ok]
    BY <1>4 DEF FinishSource, Move
  <2>2. ok \in BOOLEAN
    BY DEF Intact
  <2> QED BY <1>4, <2>1, <2>2 DEF FinishSource, Move, Caller
<1>5. CASE Finish
  BY <1>5 DEF Finish, Caller
<1>6. CASE StartMultipart
  <2> QED BY <1>6, CreateType, SendType DEF StartMultipart
<1>7. CASE UploadPart
  <2>1. UNCHANGED << source, store >>
    BY <1>7 DEF UploadPart
  <2>2. CASE TooMany
    <3>1. caller' = [caller EXCEPT !.pc = Fail] /\ ghost' = [ghost EXCEPT !.full = TRUE]
          /\ UNCHANGED wire
      BY <1>7, <2>2 DEF UploadPart
    <3>2. caller' \in Caller
      BY <3>1 DEF Fail, Caller
    <3>3. ghost' \in Ghost
      BY <3>1 DEF Ghost
    <3> QED BY <2>1, <3>1, <3>2, <3>3
  <2>3. CASE ~TooMany
    <3> DEFINE r == [op |-> "part", id |-> caller.id,
                     part |-> Len(caller.parts) + 1, data |-> << NextPart >>]
    <3>1. Send(r) /\ UNCHANGED << caller, ghost >>
      BY <1>7, <2>3 DEF UploadPart
    <3>2. r \in Request
      BY NextPartType DEF Request, Caller
    <3> QED BY <2>1, <3>1, <3>2, SendType
  <2> QED BY <2>2, <2>3
<1>8. CASE Commit
  <2>2. PICK r : Send(r) /\ r = IF caller.id = 0
                    THEN [Silence EXCEPT !.op = "put", !.data = << caller.buffer >>]
                    ELSE [Silence EXCEPT !.op = "complete", !.id = caller.id, !.data = caller.parts]
    BY <1>8 DEF Commit
  <2>5. r \in Request
    <3>1. CASE caller.id = 0
      BY <2>2, <3>1, PutType
    <3>2. CASE caller.id # 0
      BY <2>2, <3>2, CompleteType
    <3> QED BY <3>1, <3>2
  <2>3. wire' \in Wire
    BY <2>2, <2>5, SendType
  <2>4. ghost' \in Ghost
    BY <1>8 DEF Commit, Ghost
  <2> QED BY <1>8, <2>3, <2>4 DEF Commit
<1>9. CASE Abort
  <2>1. UNCHANGED << source, store >>
    BY <1>9 DEF Abort
  <2>2. CASE MayAbort
    <3>1. [Silence EXCEPT !.op = "abort", !.id = caller.id] \in Request
      BY AbortType
    <3>2. wire' \in Wire
      BY <1>9, <2>2, <3>1, SendType DEF Abort
    <3>3. caller.id \in 1..MaxUploads
      BY <2>2 DEF MayAbort, Caller
    <3>4. ghost' \in Ghost
      BY <1>9, <2>2, <3>3 DEF Abort, Ghost
    <3> QED BY <1>9, <2>1, <2>2, <3>2, <3>4 DEF Abort
  <2>3. CASE ~MayAbort
    <3>1. caller' \in Caller
      BY <1>9, <2>3 DEF Abort, AfterAbort, Caller
    <3> QED BY <1>9, <2>1, <2>3, <3>1 DEF Abort
  <2> QED BY <2>2, <2>3
<1>10. CASE Receive
  <2>1. /\ wire.waiting \in Request /\ wire.answer[2] \in 0..MaxUploads
        /\ wire.waiting.op # "none"
    BY <1>10 DEF Receive, Requested, Sendable, Wire
  <2>2. wire' \in Wire
    BY <1>10, NotWaitingType DEF Receive
  <2>3. ghost' \in Ghost
    BY <1>10, <2>1 DEF Receive, Ghost
  <2>4. Received(wire.waiting, wire.answer[2]) \in Caller
    <3>1. CASE wire.waiting.op = "create"
      BY <2>1, <3>1 DEF Received, Caller
    <3>2. CASE wire.waiting.op = "part"
      <4>1. wire.waiting.data \in Seq(Units) /\ wire.waiting.data[1] = NextPart
        BY <1>10, <2>1, <3>2 DEF Receive, Requested, Awaited, Request
      <4>2. caller.parts \o wire.waiting.data \in Seq(Units)
        BY <4>1, ConcatProperties DEF Caller
      <4> DEFINE k == Len(NextPart)
      <4>3. k \in Nat
        BY NextPartType DEF Units
      <4> HIDE DEF k
      <4>4. SubSeq(caller.buffer, k + 1, Len(caller.buffer)) \in Units
        <5>1. caller.buffer \in Seq(Nat)
          BY DEF Caller, Units
        <5>2. \A i \in k + 1..Len(caller.buffer) : caller.buffer[i] \in Nat
          BY <4>3, <5>1
        <5>3. k + 1 \in Int /\ Len(caller.buffer) \in Int
          BY <4>3, <5>1
        <5> QED BY <5>2, <5>3, SubSeqProperties DEF Units
      <4>5. Received(wire.waiting, wire.answer[2]) =
                [caller EXCEPT !.parts = caller.parts \o wire.waiting.data,
                    !.buffer = SubSeq(caller.buffer, k + 1, Len(caller.buffer))]
        BY <3>2, <4>1 DEF Received, k
      <4> QED BY <4>2, <4>4, <4>5 DEF Caller
    <3>3. CASE wire.waiting.op = "put"
      BY <3>3 DEF Received, Caller
    <3>4. CASE wire.waiting.op = "complete"
      BY <3>4 DEF Received, Caller
    <3>5. CASE wire.waiting.op = "abort"
      BY <3>5 DEF Received, AfterAbort, Caller
    <3> QED BY <2>1, <3>1, <3>2, <3>3, <3>4, <3>5 DEF Request
  <2> QED BY <1>10, <2>2, <2>3, <2>4 DEF Receive
<1>11. CASE GiveUp
  <2>1. caller' \in Caller
    BY <1>11 DEF GiveUp, AfterAbort, Fail, Caller
  <2> QED BY <1>11, <2>1, NotWaitingType DEF GiveUp
<1>12. CASE Interrupted
  <2>1. caller' \in Caller
    BY <1>12 DEF Interrupted, Fail, Caller
  <2> QED BY <1>12, <2>1, NotWaitingType DEF Interrupted
<1>13. CASE CallerDies
  <2>1. caller' \in Caller
    BY <1>13 DEF CallerDies, Caller
  <2> QED BY <1>13, <2>1, NotWaitingType DEF CallerDies
<1>14. CASE Lose
  BY <1>14 DEF Lose, Wire
<1>15. CASE Decline
  <2>1. PICK r \in wire.sent : Answer(r, FALSE, 0) \/ Answer(r, TRUE, 0)
    BY <1>15 DEF Decline
  <2>2. 0 \in 0..MaxUploads
    OBVIOUS
  <2>3. wire' \in Wire
    BY <2>1, <2>2, AnswerLeaves
  <2> QED BY <1>15, <2>3 DEF Decline
<1>16. CASE ReplaceSource
  BY <1>16 DEF ReplaceSource, Source
<1>17. CASE ServeCreate
  <2>1. PICK u \in 1..MaxUploads :
            /\ store' = Change(u, [state |-> "open", parts |-> << >>])
            /\ Answer(Create, TRUE, u)
    BY <1>17 DEF ServeCreate
  <2>2. Create \in wire.sent /\ u \in 0..MaxUploads
    BY <1>17 DEF ServeCreate
  <2>3. wire' \in Wire
    BY <2>1, <2>2, AnswerLeaves
  <2>4. [state |-> "open", parts |-> << >>] \in Upload
    BY DEF Upload
  <2>5. store' \in Store
    BY <2>1, <2>4 DEF Change, Store
  <2> QED BY <1>17, <2>3, <2>5 DEF ServeCreate
<1>18. CASE ServePart
  <2>1. PICK r \in wire.sent :
            /\ r.op = "part"
            /\ LET old == store.uploads[r.id].parts
               IN  store' = Change(r.id, [state |-> "open",
                        parts |-> IF r.part > Len(old) THEN old \o r.data
                                  ELSE [old EXCEPT ![r.part] = r.data[1]]])
            /\ Answer(r, TRUE, 0)
    BY <1>18 DEF ServePart
  <2>2. wire' \in Wire
    BY <2>1, AnswerLeaves
  <2>3. /\ r.data \in Seq(Units) /\ r.data[1] \in Units /\ r.part \in Nat
        /\ r.id \in 1..MaxUploads
    <3>1. r \in Request /\ Sendable(r)
      BY DEF Wire, Requested
    <3>2. r.data \in Seq(Units) /\ Len(r.data) = 1 /\ r.part \in Nat /\ r.id \in ghost.known
      BY <2>1, <3>1 DEF Request, Sendable
    <3> QED BY <3>2 DEF Ghost
  <2> DEFINE old == store.uploads[r.id].parts
             parts == IF r.part > Len(old) THEN old \o r.data
                      ELSE [old EXCEPT ![r.part] = r.data[1]]
  <2>4. old \in Seq(Units)
    BY <2>3 DEF Store, Upload
  <2>5. parts \in Seq(Units)
    <3> HIDE DEF old
    <3>1. CASE r.part > Len(old)
      BY <2>3, <2>4, <3>1, ConcatProperties
    <3>2. CASE ~(r.part > Len(old))
      <4>1. CASE r.part = 0
        <5>1. r.part \notin DOMAIN old
          BY <2>4, <4>1
        <5>2. [old EXCEPT ![r.part] = r.data[1]] = [i \in DOMAIN old |-> old[i]]
          BY <5>1
        <5>3. old = [i \in DOMAIN old |-> old[i]]
          BY <2>4
        <5> QED BY <5>2, <5>3, <2>4, <3>2
      <4>2. CASE r.part # 0
        <5>1. r.part \in 1..Len(old)
          BY <2>3, <2>4, <3>2, <4>2
        <5> QED BY <2>3, <2>4, <3>2, <5>1, ExceptSeq
      <4> QED BY <4>1, <4>2
    <3> QED BY <3>1, <3>2
  <2>6. store' = Change(r.id, [state |-> "open", parts |-> parts])
    BY <2>1
  <2> HIDE DEF parts
  <2>7. [state |-> "open", parts |-> parts] \in Upload
    BY <2>5 DEF Upload
  <2>8. store' \in Store
    BY <2>3, <2>6, <2>7 DEF Change, Store
  <2> QED BY <1>18, <2>2, <2>8 DEF ServePart
<1>19. CASE ServePut
  <2>1. PICK r \in wire.sent :
            r.op = "put" /\ store' = [store EXCEPT !.object = r.data[1]] /\ Answer(r, TRUE, 0)
    BY <1>19 DEF ServePut
  <2>2. wire' \in Wire
    BY <2>1, AnswerLeaves
  <2>3. r.data[1] \in Units
    BY <2>1 DEF Requested, Sendable, IsStream
  <2> QED BY <1>19, <2>1, <2>2, <2>3 DEF ServePut, Store
<1>20. CASE ServeComplete
  <2>1. PICK r \in wire.sent :
            /\ r.op = "complete"
            /\ store' = [Change(r.id, [state |-> "completed", parts |-> << >>])
                            EXCEPT !.object = FlattenSeq(r.data)]
            /\ Answer(r, TRUE, 0)
    BY <1>20 DEF ServeComplete
  <2>2. wire' \in Wire
    BY <2>1, AnswerLeaves
  <2>3. FlattenSeq(r.data) \in Units
    BY <2>1 DEF Requested, Sendable, IsStream
  <2>4. [state |-> "completed", parts |-> << >>] \in Upload
    BY DEF Upload
  <2>5. store' \in Store
    BY <2>1, <2>3, <2>4 DEF Change, Store
  <2> QED BY <1>20, <2>2, <2>5 DEF ServeComplete
<1>21. CASE ServeAbort
  <2>1. PICK r \in wire.sent :
            /\ store' = Change(r.id, [state |-> "aborted", parts |-> << >>])
            /\ Answer(r, TRUE, 0)
    BY <1>21 DEF ServeAbort
  <2>2. wire' \in Wire
    BY <2>1, AnswerLeaves
  <2>3. [state |-> "aborted", parts |-> << >>] \in Upload
    BY DEF Upload
  <2>4. store' \in Store
    BY <2>1, <2>3 DEF Change, Store
  <2> QED BY <1>21, <2>2, <2>4 DEF ServeAbort
<1>22. CASE UNCHANGED vars
  BY <1>22 DEF vars
<1> QED
  BY <1>1, <1>2, <1>3, <1>4, <1>5, <1>6, <1>7, <1>8, <1>9, <1>10, <1>11, <1>12, <1>13,
     <1>14, <1>15, <1>16, <1>17, <1>18, <1>19, <1>20, <1>21, <1>22
  DEF Next, Copying, Failing, Serving
-----------------------------------------------------------------------------
(* What the caller does *)

\* The caller waits at certain points only.
LEMMA WaitsWhere ==
    ASSUME Inv, ~Idle
    PROVE  /\ wire.waiting \in Request
           /\ caller.pc \in {"stream", "finish", "commit", "cancel", "abort"}
<1>1. wire.waiting \in Request
  BY DEF Inv, TypeOK, Wire
<1>2. wire.waiting.op \in {"create", "part", "put", "complete", "abort"}
  BY <1>1 DEF Inv, Requested, Sendable, Request
<1> QED BY <1>1, <1>2 DEF Inv, Requested, Awaited

\* The types of the locals.
LEMMA Locals ==
    ASSUME Inv
    PROVE  /\ caller.read \in Nat /\ caller.id \in 0..MaxUploads
           /\ caller.buffer \in Seq(Nat) /\ Len(caller.buffer) \in Nat
           /\ caller.parts \in Seq(Units) /\ Len(caller.parts) \in Nat
           /\ Len(caller.parts) * PartSize \in Nat
           /\ source.size[caller.opened] \in Nat
<1>1. caller \in Caller /\ source \in Source
  BY DEF Inv, TypeOK
<1>2. /\ caller.read \in Nat /\ caller.id \in 0..MaxUploads
      /\ caller.buffer \in Seq(Nat) /\ Len(caller.buffer) \in Nat
      /\ caller.parts \in Seq(Units) /\ Len(caller.parts) \in Nat
  BY <1>1 DEF Caller, Units
<1>3. source.size[caller.opened] \in Nat
  BY <1>1, S3UploadAssumption DEF Caller, Source
<1> QED BY <1>2, <1>3, Constants, Times

\* As long as the source delivers, the full parts and the buffer are what was read.
LEMMA Held ==
    ASSUME Inv, caller.pc \in Running
    PROVE  LET base == Len(caller.parts) * PartSize
           IN  /\ caller.pc \in {"open", "stream"} \/ caller.buffer # << >> => base <= caller.read
               /\ base <= caller.read => Len(caller.buffer) = caller.read - base
               /\ base > caller.read => Len(caller.buffer) = 0
               /\ \A j \in 1..Len(caller.buffer) : caller.buffer[j] = base + j
<1> DEFINE base == Len(caller.parts) * PartSize
<1>1. base \in Nat /\ caller.read \in Nat /\ Len(caller.parts) \in Nat
      /\ caller.buffer \in Seq(Nat)
  BY Locals
<1>2. /\ base <= caller.read => Len(caller.buffer) = caller.read - base
      /\ base > caller.read => Len(caller.buffer) = 0
      /\ \A j \in 1..Len(caller.buffer) : caller.buffer[j] = base + j
  BY <1>1 DEF Inv, Streamed, Counts
<1>3. ASSUME caller.pc \in {"open", "stream"}
      PROVE  base <= caller.read
  <2>1. CASE Len(caller.parts) = 0
    BY <1>1, <2>1, Constants
  <2>2. CASE Len(caller.parts) # 0
    <3>1. Len(caller.parts) \in 1..Len(caller.parts)
      BY <1>1, <2>2
    <3> QED BY <1>3, <3>1 DEF Inv, Streamed
  <2> QED BY <2>1, <2>2
<1>4. ASSUME caller.buffer # << >>
      PROVE  base <= caller.read
  <2>1. Len(caller.buffer) # 0
    BY <1>1, <1>4, EmptySeq
  <2> QED BY <1>1, <1>2, <2>1
<1> QED BY <1>2, <1>3, <1>4

\* The source is opened.
LEMMA OpenKeeps ==
    ASSUME Inv, Open
    PROVE  Streamed' /\ Phases' /\ Requested' /\ Stored'
<1>1. PICK pc \in {"stream", "raised"}, opened \in {0, 1} :
        caller' = [caller EXCEPT !.pc = pc, !.opened = opened]
  <2>1. CASE Move([caller EXCEPT !.pc = "stream", !.opened = source.version])
    <3>1. source.version \in {0, 1}
      BY DEF Inv, TypeOK, Source
    <3> QED BY <2>1, <3>1 DEF Move
  <2>2. CASE Move([caller EXCEPT !.pc = "raised"])
    <3>1. caller.opened \in {0, 1}
      BY DEF Inv, TypeOK, Caller
    <3>2. [caller EXCEPT !.pc = "raised"] = [caller EXCEPT !.pc = "raised", !.opened = caller.opened]
      BY DEF Inv, TypeOK, Caller
    <3> QED BY <2>2, <3>1, <3>2 DEF Move
  <2> QED BY <2>1, <2>2 DEF Open
<1>2. UNCHANGED << source, wire, store, ghost >> /\ caller.pc = "open"
  BY DEF Open, Move
<1>3. /\ caller'.pc = pc /\ caller'.opened = opened /\ caller'.read = caller.read
      /\ caller'.sourceOk = caller.sourceOk /\ caller'.buffer = caller.buffer
      /\ caller'.id = caller.id /\ caller'.parts = caller.parts
  BY <1>1 DEF Inv, TypeOK, Caller
<1>4. /\ caller.read = 0 /\ caller.buffer = << >> /\ caller.parts = << >> /\ caller.id = 0
      /\ ghost.known = {} /\ ~caller.sourceOk /\ ~ghost.committed
      /\ Idle /\ ~wire.answer[1]
  <2>1. Idle
    BY <1>2, WaitsWhere
  <2> QED BY <1>2, <2>1 DEF Inv, Phases, Running, Requested
<1>5. ~ghost.full
  <2>1. MaxParts * PartSize \in Nat
    BY Constants, Times
  <2> QED BY <1>4, <2>1 DEF Inv, Phases
<1>6. Streamed'
  <2>1. Len(caller.parts) = 0 /\ Len(caller.buffer) = 0 /\ 0 * PartSize = 0
    BY <1>4, Constants
  <2> QED BY <1>3, <1>4, <2>1, Constants DEF Streamed, Counts
<1>7. Phases'
  BY <1>2, <1>3, <1>4, <1>5 DEF Phases, Running, Ended
<1>8. Requested'
  <2>1. \A r \in wire.sent : r.op \notin {"put", "complete"}
    BY <1>4 DEF Inv, Requested, Sendable
  <2> QED BY <1>2, <1>4, <2>1 DEF Inv, Requested, Sendable, Idle
<1>9. Stored'
  BY <1>2, <1>3, <1>4 DEF Inv, Stored, IsOpen
<1> QED BY <1>6, <1>7, <1>8, <1>9

\* What a request may be sent for does not change while the source and the copy
\* of it stay the ones they are.
LEMMA StaysSendable ==
    ASSUME source'.size = source.size, caller'.opened = caller.opened,
           ghost.known \subseteq ghost'.known, ghost.committed => ghost'.committed
    PROVE  /\ \A s : IsStream(s) <=> IsStream(s)'
           /\ \A r : Sendable(r) => Sendable(r)'
<1>1. \A s : IsStream(s) <=> IsStream(s)'
  BY DEF IsStream, Counts
<1>2. ASSUME NEW r, Sendable(r)
      PROVE  Sendable(r)'
  <2>1. r.op = "put" => ghost'.committed /\ IsStream(r.data[1])'
    BY <1>1, <1>2 DEF Sendable
  <2>2. r.op = "complete" => ghost'.committed /\ IsStream(FlattenSeq(r.data))'
    BY <1>1, <1>2 DEF Sendable
  <2> QED BY <1>2, <2>1, <2>2 DEF Sendable
<1> QED BY <1>1, <1>2

\* Nothing is awaited after the step.
LEMMA IdleAfter ==
    ASSUME Inv, wire'.sent \subseteq wire.sent, wire'.waiting = Silence, ~wire'.answer[1],
           source'.size = source.size, caller'.opened = caller.opened,
           ghost.known \subseteq ghost'.known, ghost.committed => ghost'.committed
    PROVE  Requested'
<1>1. \A r \in wire'.sent : Sendable(r)'
  BY StaysSendable DEF Inv, Requested
<1>2. Idle'
  BY DEF Idle
<1> QED BY <1>1, <1>2 DEF Requested

\* The store stays as it is, and so does the upload the caller works on.
LEMMA StoreStays ==
    ASSUME Inv, UNCHANGED << source, store >>, caller'.opened = caller.opened,
           caller'.id = caller.id, ghost'.known = ghost.known,
           ghost.committed => ghost'.committed
    PROVE  Stored'
<1>1. store.object # Before => ghost'.committed /\ IsStream(store.object)'
  BY StaysSendable DEF Inv, Stored
<1> QED BY <1>1 DEF Inv, Stored, IsOpen

\* Only the position and the verdict on the source change, and nothing is awaited.
LEMMA MoveKeeps ==
    ASSUME Inv, Idle, NEW pc, NEW ok \in BOOLEAN,
           caller' = [caller EXCEPT !.pc = pc, !.sourceOk = ok],
           UNCHANGED << source, wire, store, ghost >>,
           pc \in Running => caller.pc \in Running, pc \notin {"open", "stream"},
           Phases'
    PROVE  Streamed' /\ Phases' /\ Requested' /\ Stored'
<1>1. /\ caller'.pc = pc /\ caller'.opened = caller.opened /\ caller'.read = caller.read
      /\ caller'.buffer = caller.buffer
      /\ caller'.id = caller.id /\ caller'.parts = caller.parts
  BY DEF Inv, TypeOK, Caller
<1>2. Streamed'
  BY <1>1 DEF Inv, Streamed, IsPart, Counts, Running
<1>3. wire.waiting = Silence /\ ~wire.answer[1]
  BY DEF Inv, Requested, Idle
<1>4. Requested'
  BY <1>1, <1>3, IdleAfter
<1>5. Stored'
  BY <1>1, StoreStays
<1> QED BY <1>2, <1>4, <1>5

\* The stream ends or breaks, and the source is looked at once more.
LEMMA SourceEndsKeeps ==
    ASSUME Inv, StreamEnds \/ StreamFails \/ FinishSource
    PROVE  Streamed' /\ Phases' /\ Requested' /\ Stored'
<1>1. Idle
  BY WaitsWhere DEF StreamEnds, StreamFails, FinishSource
<1>2. caller.pc \in {"stream", "finishSource"} /\ UNCHANGED << source, wire, store, ghost >>
  BY DEF StreamEnds, StreamFails, FinishSource, Move
<1>3. PICK pc \in {"finishSource", "cancel", "finish"}, ok \in BOOLEAN :
        /\ caller' = [caller EXCEPT !.pc = pc, !.sourceOk = ok]
        /\ ok => caller.read = source.size[caller.opened]
        /\ pc \in {"finishSource", "cancel"} => ~ok
  <2>1. ~caller.sourceOk /\ caller.sourceOk \in BOOLEAN
    BY <1>2 DEF Inv, Phases, TypeOK, Caller
  <2>2. ASSUME NEW pc, caller' = [caller EXCEPT !.pc = pc]
        PROVE  caller' = [caller EXCEPT !.pc = pc, !.sourceOk = FALSE]
    BY <2>1, <2>2 DEF Inv, TypeOK, Caller
  <2>3. CASE StreamEnds
    BY <2>2, <2>3 DEF StreamEnds, Move
  <2>4. CASE StreamFails
    BY <2>2, <2>4 DEF StreamFails, Move, Fail
  <2>5. CASE FinishSource
    <3>1. PICK ok \in {FALSE, Intact} : caller' = [caller EXCEPT !.pc = "finish", !.sourceOk = ok]
      BY <2>5 DEF FinishSource, Move
    <3>2. ok \in BOOLEAN /\ (ok => caller.read = source.size[caller.opened])
      BY DEF Intact
    <3> QED BY <3>1, <3>2
  <2> QED BY <2>3, <2>4, <2>5
<1>4. /\ caller'.pc = pc /\ caller'.opened = caller.opened /\ caller'.read = caller.read
      /\ caller'.sourceOk = ok /\ caller'.buffer = caller.buffer
      /\ caller'.id = caller.id /\ caller'.parts = caller.parts
  BY <1>3 DEF Inv, TypeOK, Caller
<1>5. Phases'
  <2>1. ~ghost.committed
    BY <1>2 DEF Inv, Phases
  <2>2. caller.pc \in Running /\ pc \notin {"open", "commit", "returned", "raised"}
    BY <1>2, <1>3 DEF Running
  <2>3. /\ caller.id = 0 => ghost.known = {} /\ caller.parts = << >>
        /\ ghost.full => caller.read > MaxParts * PartSize
    BY <2>2 DEF Inv, Phases
  <2>4. ok => caller.read = source.size[caller.opened] /\ pc \notin {"open", "stream", "finishSource"}
    BY <1>3
  <2> QED BY <1>2, <1>4, <2>1, <2>2, <2>3, <2>4 DEF Phases, Ended
<1> QED BY <1>1, <1>2, <1>3, <1>5, MoveKeeps DEF Running

\* All that was read was sent, but for what is put as a whole.
LEMMA FinishKeeps ==
    ASSUME Inv, Finish
    PROVE  Streamed' /\ Phases' /\ Requested' /\ Stored'
<1>1. /\ caller.pc = "finish" /\ Idle /\ ~Writing
      /\ UNCHANGED << source, wire, store, ghost >>
  BY DEF Finish
<1>2. PICK pc : pc = IF caller.sourceOk THEN "commit" ELSE "abort"
  OBVIOUS
<1>3. /\ caller'.pc = pc /\ caller'.opened = caller.opened /\ caller'.read = caller.read
      /\ caller'.sourceOk = caller.sourceOk /\ caller'.buffer = caller.buffer
      /\ caller'.id = caller.id /\ caller'.parts = caller.parts
      /\ caller' = [caller EXCEPT !.pc = pc, !.sourceOk = caller.sourceOk]
      /\ caller.sourceOk \in BOOLEAN
  BY <1>2 DEF Finish, Inv, TypeOK, Caller
<1>4. IF caller.id = 0 THEN caller.read <= PartSize
      ELSE caller.read <= Len(caller.parts) * PartSize
  <2> DEFINE base == Len(caller.parts) * PartSize
  <2>1. /\ base <= caller.read => Len(caller.buffer) = caller.read - base
        /\ base \in Nat /\ caller.read \in Nat /\ Len(caller.buffer) \in Nat
    BY <1>1, Held, Locals DEF Running
  <2>2. CASE caller.id = 0
    <3>1. base = 0
      BY <1>1, <2>2, Constants DEF Inv, Phases, Running
    <3>2. Len(caller.buffer) <= PartSize
      BY <1>1, <2>1, <2>2, Constants DEF Writing, StartsUpload
    <3> QED BY <2>1, <2>2, <3>1, <3>2
  <2>3. CASE caller.id # 0
    <3>1. Len(caller.buffer) = 0
      BY <1>1, <2>3 DEF Writing, FillsPart
    <3> QED BY <2>1, <2>3, <3>1
  <2> QED BY <2>2, <2>3
<1>5. Phases'
  <2>1. /\ ~ghost.committed
        /\ caller.sourceOk => caller.read = source.size[caller.opened]
        /\ caller.id = 0 => ghost.known = {} /\ caller.parts = << >>
        /\ ghost.full => caller.read > MaxParts * PartSize
    BY <1>1 DEF Inv, Phases, Running
  <2>2. pc \in {"commit", "abort"} /\ (pc = "commit" => caller.sourceOk)
    BY <1>2
  <2> QED BY <1>1, <1>3, <1>4, <2>1, <2>2 DEF Phases, Ended
<1> QED BY <1>1, <1>2, <1>3, <1>5, MoveKeeps DEF Running

\* The next units of the stream join the buffer.
LEMMA RelayKeeps ==
    ASSUME Inv, Relay
    PROVE  Streamed' /\ Phases' /\ Requested' /\ Stored'
<1>1. /\ caller.pc = "stream" /\ Idle /\ ~Writing
      /\ UNCHANGED << source, wire, store, ghost >>
  BY DEF Relay, Move
<1>2. PICK n \in 1..MaxChunk :
        caller' = [caller EXCEPT !.read = @ + n,
                        !.buffer = @ \o [i \in 1..n |-> caller.read + i]]
  BY DEF Relay, Move
<1>3. PICK chunk : chunk = [i \in 1..n |-> caller.read + i]
  OBVIOUS
<1>4. /\ caller'.pc = caller.pc /\ caller'.opened = caller.opened
      /\ caller'.read = caller.read + n
      /\ caller'.sourceOk = caller.sourceOk /\ caller'.buffer = caller.buffer \o chunk
      /\ caller'.id = caller.id /\ caller'.parts = caller.parts
  BY <1>2, <1>3 DEF Inv, TypeOK, Caller
<1>5. Streamed'
  <2> DEFINE base == Len(caller.parts) * PartSize
  <2>1. /\ base \in Nat /\ caller.read \in Nat /\ Len(caller.buffer) \in Nat
        /\ caller.buffer \in Seq(Nat) /\ n \in Nat \ {0} /\ n <= MaxChunk
    BY Locals, Constants
  <2>2. /\ base <= caller.read /\ Len(caller.buffer) = caller.read - base
        /\ \A j \in 1..Len(caller.buffer) : caller.buffer[j] = base + j
    BY <1>1, Held DEF Running
  <2>3. chunk \in Seq(Nat) /\ Len(chunk) = n /\ \A i \in 1..n : chunk[i] = caller.read + i
    BY <1>3, <2>1
  <2> HIDE DEF base
  <2>4. PICK b : b = caller.buffer \o chunk
    OBVIOUS
  <2>5. /\ b \in Seq(Nat) /\ Len(b) = Len(caller.buffer) + n
        /\ \A j \in 1..Len(caller.buffer) + n :
                b[j] = IF j <= Len(caller.buffer) THEN caller.buffer[j]
                       ELSE chunk[j - Len(caller.buffer)]
    <3>1. /\ caller.buffer \o chunk \in Seq(Nat)
          /\ Len(caller.buffer \o chunk) = Len(caller.buffer) + Len(chunk)
          /\ \A j \in 1..Len(caller.buffer) + Len(chunk) :
                (caller.buffer \o chunk)[j] = IF j <= Len(caller.buffer) THEN caller.buffer[j]
                                             ELSE chunk[j - Len(caller.buffer)]
      BY <2>1, <2>3, ConcatProperties
    <3> QED BY <2>3, <2>4, <3>1
  <2>6. ASSUME NEW j \in 1..Len(b)
        PROVE  b[j] = base + j
    <3>1. CASE j <= Len(caller.buffer)
      BY <2>1, <2>2, <2>5, <3>1
    <3>2. CASE j > Len(caller.buffer)
      <4>1. j - Len(caller.buffer) \in 1..n
        BY <2>1, <2>5, <3>2
      <4>2. b[j] = caller.read + (j - Len(caller.buffer))
        BY <2>1, <2>3, <2>5, <3>2, <4>1
      <4> QED BY <2>1, <2>2, <4>2
    <3> QED BY <2>1, <2>5, <3>1, <3>2
  <2>7. /\ Len(b) = caller.read + n - base
        /\ base <= caller.read + n
    BY <2>1, <2>2, <2>5
  <2>8. Len(b) <= PartSize + MaxChunk
    <3>1. Len(caller.buffer) <= PartSize
      BY <1>1, <2>1, Constants DEF Writing, StartsUpload, FillsPart
    <3> QED BY <2>1, <2>5, <3>1, Constants
  <2>9. ASSUME NEW m \in 1..Len(caller.parts)
        PROVE  /\ IsPart(caller.parts[m], m, caller.read + n)
               /\ m * PartSize <= caller.read + n
    <3>1. IsPart(caller.parts[m], m, caller.read) /\ m * PartSize <= caller.read
      BY <1>1 DEF Inv, Streamed
    <3>2. m \in Nat /\ m - 1 \in Nat /\ m * PartSize \in Nat /\ (m - 1) * PartSize \in Nat
      <4>1. m \in Nat /\ m - 1 \in Nat
        BY Locals
      <4> QED BY <4>1, Times
    <3> QED BY <2>1, <3>1, <3>2 DEF IsPart
  <2>10. Len(caller.parts) <= MaxParts
    BY DEF Inv, Streamed
  <2>11. caller'.buffer = b
    BY <1>4, <2>4
  <2>12. /\ Counts(caller'.buffer, Len(caller'.parts) * PartSize)
         /\ Len(caller'.buffer) = caller'.read - Len(caller'.parts) * PartSize
         /\ Len(caller'.parts) * PartSize <= caller'.read
    <3>1. Len(caller'.parts) * PartSize = base
      BY <1>4 DEF base
    <3>2. caller'.read = caller.read + n
      BY <1>4
    <3>3. Counts(caller'.buffer, base)
      BY <2>6, <2>11 DEF Counts
    <3>4. base <= caller'.read /\ Len(caller'.buffer) = caller'.read - base
      BY <3>2, <2>1, <2>7, <2>11
    <3> QED BY <3>1, <3>3, <3>4
  <2>13. \A m \in 1..Len(caller'.parts) :
            /\ IsPart(caller'.parts[m], m, caller'.read)
            /\ m * PartSize <= caller'.read
    BY <1>4, <2>9
  <2> QED BY <1>4, <2>8, <2>10, <2>11, <2>12, <2>13 DEF Streamed
<1>6. Phases'
  <2>1. /\ ~caller.sourceOk /\ ~ghost.committed
        /\ caller.id = 0 => ghost.known = {} /\ caller.parts = << >>
    BY <1>1 DEF Inv, Phases, Running
  <2>2. ghost.full => caller.read + n > MaxParts * PartSize
    <3>1. caller.read \in Nat /\ MaxParts * PartSize \in Nat
      BY Locals, Constants, Times
    <3> QED BY <3>1 DEF Inv, Phases
  <2> QED BY <1>1, <1>4, <2>1, <2>2 DEF Phases, Ended
<1>7. Requested'
  <2>1. wire.waiting = Silence /\ ~wire.answer[1]
    BY <1>1 DEF Inv, Requested, Idle
  <2> QED BY <1>1, <1>4, <2>1, IdleAfter
<1>8. Stored'
  BY <1>1, <1>4, StoreStays
<1> QED BY <1>5, <1>6, <1>7, <1>8

\* A request is sent: it may be, and the caller waits where it should.
LEMMA SendKeeps ==
    ASSUME Inv, NEW r \in Request, Send(r), UNCHANGED << source, caller, store >>,
           ghost'.known = ghost.known, ghost.committed => ghost'.committed,
           Sendable(r)', Awaited(r)'
    PROVE  Requested' /\ Stored'
<1>1. wire'.waiting = r /\ wire'.sent = wire.sent \cup {r} /\ ~wire'.answer[1]
  BY SendType, Constants DEF Inv, TypeOK
<1>2. \A q \in wire.sent : Sendable(q)'
  BY StaysSendable DEF Inv, Requested
<1>3. Requested'
  BY <1>1, <1>2 DEF Requested
<1>4. Stored'
  BY StoreStays
<1> QED BY <1>3, <1>4

\* A multipart upload is asked for.
LEMMA StartKeeps ==
    ASSUME Inv, StartMultipart
    PROVE  Streamed' /\ Phases' /\ Requested' /\ Stored'
<1>1. /\ caller.pc = "stream" /\ StartsUpload /\ Send(Create)
      /\ UNCHANGED << source, caller, store, ghost >>
  BY DEF StartMultipart
<1>2. Sendable(Create)' /\ Awaited(Create)'
  BY <1>1, CreateType DEF Sendable, Awaited, StartsUpload
<1>3. Streamed' /\ Phases'
  BY <1>1 DEF Inv, Streamed, Phases, Ended
<1> QED BY <1>1, <1>2, <1>3, CreateType, SendKeeps

\* A part is sent; one more than allowed ends the copy instead.
LEMMA UploadPartKeeps ==
    ASSUME Inv, UploadPart
    PROVE  Streamed' /\ Phases' /\ Requested' /\ Stored'
<1>1. /\ caller.pc \in {"stream", "finish"} /\ Idle /\ FillsPart
      /\ UNCHANGED << source, store >>
  BY DEF UploadPart
<1>2. CASE TooMany
  <2>1. /\ caller' = [caller EXCEPT !.pc = Fail]
        /\ ghost' = [ghost EXCEPT !.full = TRUE]
        /\ UNCHANGED wire /\ Fail = "cancel"
    BY <1>1, <1>2 DEF UploadPart, Fail
  <2>2. /\ caller'.pc = "cancel" /\ caller'.opened = caller.opened
        /\ caller'.read = caller.read
        /\ caller'.sourceOk = caller.sourceOk /\ caller'.buffer = caller.buffer
        /\ caller'.id = caller.id /\ caller'.parts = caller.parts
    BY <2>1 DEF Inv, TypeOK, Caller
  <2>3. /\ ghost'.known = ghost.known /\ ghost'.committed = ghost.committed
        /\ ghost'.asked = ghost.asked
    BY <2>1 DEF Inv, TypeOK, Ghost
  <2>4. caller.read > MaxParts * PartSize
    <3> DEFINE base == Len(caller.parts) * PartSize
    <3>1. caller.buffer # << >>
      BY <1>1, Constants DEF FillsPart
    <3>2. base <= caller.read /\ Len(caller.buffer) = caller.read - base
      BY <1>1, <3>1, Held DEF Running
    <3>3. Len(caller.buffer) # 0 /\ caller.read \in Nat /\ base \in Nat
      BY <3>1, Locals, EmptySeq
    <3>4. Len(caller.parts) = MaxParts
      BY <1>2, Locals, Constants DEF TooMany, Inv, Streamed
    <3> QED BY <3>2, <3>3, <3>4
  <2>5. Streamed'
    BY <2>2 DEF Inv, Streamed, Running
  <2>6. Phases'
    BY <1>1, <2>2, <2>3, <2>4 DEF Inv, Phases, Running, Ended
  <2>7. Requested'
    <3>1. wire.waiting = Silence /\ ~wire.answer[1]
      BY <1>1 DEF Inv, Requested, Idle
    <3> QED BY <1>1, <2>1, <2>2, <2>3, <3>1, IdleAfter
  <2>8. Stored'
    BY <1>1, <2>2, <2>3, StoreStays
  <2> QED BY <2>5, <2>6, <2>7, <2>8
<1>3. CASE ~TooMany
  <2>1. PICK r : r = [op |-> "part", id |-> caller.id,
                      part |-> Len(caller.parts) + 1, data |-> << NextPart >>]
    OBVIOUS
  <2>2. Send(r) /\ UNCHANGED << caller, ghost >>
    BY <1>3, <2>1 DEF UploadPart
  <2>3. r \in Request
    BY <2>1, NextPartType DEF Request, Caller, Inv, TypeOK
  <2>4. caller.id # 0 /\ caller.id \in ghost.known
    BY <1>1 DEF FillsPart, Inv, Stored
  <2>5. /\ r.op = "part" /\ r.id = caller.id /\ r.data = << NextPart >> /\ Len(r.data) = 1
    BY <2>1
  <2>6. Sendable(r)'
    BY <2>2, <2>4, <2>5 DEF Sendable
  <2>7. Awaited(r)'
    BY <1>1, <1>3, <2>2, <2>5 DEF Awaited, FillsPart, TooMany, NextPart
  <2>8. Streamed' /\ Phases'
    BY <1>1, <2>2 DEF Inv, Streamed, Phases, Ended
  <2> QED BY <1>1, <2>2, <2>3, <2>6, <2>7, <2>8, SendKeeps
<1> QED BY <1>2, <1>3

\* What is put, or completed, is the stream.
LEMMA CommitKeeps ==
    ASSUME Inv, Commit
    PROVE  Streamed' /\ Phases' /\ Requested' /\ Stored'
<1>1. /\ caller.pc = "commit" /\ UNCHANGED << source, caller, store >>
      /\ ghost' = [ghost EXCEPT !.committed = TRUE]
  BY DEF Commit
<1>2. /\ ghost'.known = ghost.known /\ ghost'.committed /\ ghost'.full = ghost.full
      /\ ghost'.asked = ghost.asked
  BY <1>1 DEF Inv, TypeOK, Ghost
<1>3. /\ caller.sourceOk /\ caller.read = source.size[caller.opened]
      /\ IF caller.id = 0 THEN caller.read <= PartSize
         ELSE caller.read <= Len(caller.parts) * PartSize
      /\ caller.id = 0 => caller.parts = << >>
  BY <1>1 DEF Inv, Phases, Running
<1>4. Streamed' /\ Phases'
  BY <1>1, <1>2, <1>3 DEF Inv, Streamed, Phases, Ended
<1>5. CASE caller.id = 0
  <2>1. PICK r : r = [Silence EXCEPT !.op = "put", !.data = << caller.buffer >>]
    OBVIOUS
  <2>2. Send(r)
    BY <1>5, <2>1 DEF Commit
  <2>3. caller.buffer \in Units
    BY DEF Inv, TypeOK, Caller
  <2>4. r \in Request /\ r.op = "put" /\ r.data = << caller.buffer >>
    BY <2>1, PutType DEF Inv, TypeOK
  <2>5. /\ Len(caller.buffer) = caller.read
        /\ \A j \in 1..Len(caller.buffer) : caller.buffer[j] = 0 + j
    <3>1. Len(caller.parts) * PartSize = 0
      BY <1>3, <1>5, Constants
    <3> QED BY <1>1, <3>1, Held, Locals DEF Running
  <2>6. IsStream(caller.buffer)
    BY <1>3, <2>3, <2>5 DEF IsStream, Counts
  <2>7. IsStream(r.data[1])'
    BY <1>1, <1>2, <2>4, <2>6, StaysSendable
  <2>8. Sendable(r)'
    BY <1>2, <2>4, <2>7 DEF Sendable
  <2>9. Awaited(r)'
    BY <1>1, <1>3, <1>5, <2>4, <2>5 DEF Awaited
  <2> QED BY <1>1, <1>2, <1>4, <2>2, <2>4, <2>8, <2>9, SendKeeps
<1>6. CASE caller.id # 0
  <2>1. PICK r : r = [Silence EXCEPT !.op = "complete", !.id = caller.id, !.data = caller.parts]
    OBVIOUS
  <2>2. Send(r)
    BY <1>6, <2>1 DEF Commit
  <2>3. caller.parts \in Seq(Units) /\ caller.id \in 0..MaxUploads
    BY Locals
  <2>4. r \in Request /\ r.op = "complete" /\ r.id = caller.id /\ r.data = caller.parts
    BY <2>1, CompleteType DEF Inv, TypeOK
  <2>5. IsStream(FlattenSeq(caller.parts))
    <3>1. \A n \in 1..Len(caller.parts) : IsPart(caller.parts[n], n, caller.read)
      BY DEF Inv, Streamed
    <3>2. caller.read \in Nat /\ caller.read <= Len(caller.parts) * PartSize
      BY <1>3, <1>6, Locals
    <3> QED BY <1>3, <2>3, <3>1, <3>2, PartsAreStream DEF IsStream
  <2>6. IsStream(FlattenSeq(r.data))'
    BY <1>1, <1>2, <2>4, <2>5, StaysSendable
  <2>7. caller.id \in ghost'.known
    BY <1>2, <1>6 DEF Inv, Stored
  <2>8. Sendable(r)'
    BY <1>2, <2>4, <2>6, <2>7 DEF Sendable
  <2>9. Awaited(r)'
    BY <1>1, <2>4 DEF Awaited
  <2> QED BY <1>1, <1>2, <1>4, <2>2, <2>4, <2>8, <2>9, SendKeeps
<1> QED BY <1>5, <1>6

\* The caller leaves the copy, or goes on cleaning up after it.
LEMMA LeaveKeeps ==
    ASSUME Inv, wire'.sent \subseteq wire.sent, wire'.waiting = Silence, ~wire'.answer[1],
           UNCHANGED << source, store, ghost >>,
           NEW pc \in {"cancel", "abort", "raised", "dead"},
           caller.pc = "open" => pc = "dead",
           pc = "raised" /\ caller.id # 0 => caller.id \in ghost.asked,
           caller' = [caller EXCEPT !.pc = pc]
    PROVE  Streamed' /\ Phases' /\ Requested' /\ Stored'
<1>1. /\ caller'.pc = pc /\ caller'.opened = caller.opened /\ caller'.read = caller.read
      /\ caller'.sourceOk = caller.sourceOk /\ caller'.buffer = caller.buffer
      /\ caller'.id = caller.id /\ caller'.parts = caller.parts
  BY DEF Inv, TypeOK, Caller
<1>2. Streamed'
  BY <1>1 DEF Inv, Streamed, Running
<1>3. Phases'
  BY <1>1 DEF Inv, Phases, Running, Ended
<1>4. Requested'
  BY <1>1, IdleAfter
<1>5. Stored'
  BY <1>1, StoreStays
<1> QED BY <1>2, <1>3, <1>4, <1>5

\* A request is given up, or the copy is.
LEMMA GiveUpKeeps ==
    ASSUME Inv, GiveUp \/ Interrupted \/ CallerDies
    PROVE  Streamed' /\ Phases' /\ Requested' /\ Stored'
<1>1. /\ wire'.sent = wire.sent /\ wire'.waiting = Silence /\ ~wire'.answer[1]
      /\ UNCHANGED << source, store, ghost >>
  BY NotWaitingType, Constants DEF GiveUp, Interrupted, CallerDies, Inv, TypeOK
<1>2. CASE GiveUp
  <2>1. PICK pc : pc = IF wire.waiting.op = "abort" THEN AfterAbort ELSE Fail
    OBVIOUS
  <2>2. caller' = [caller EXCEPT !.pc = pc] /\ ~Idle
    BY <1>2, <2>1 DEF GiveUp
  <2>3. caller.pc # "open" /\ Awaited(wire.waiting)
    BY <2>2, WaitsWhere DEF Inv, Requested
  <2>4. /\ pc \in {"cancel", "abort", "raised"}
        /\ pc = "raised" => caller.id \in ghost.asked
    BY <2>1, <2>3 DEF AfterAbort, Fail, Awaited
  <2> QED BY <1>1, <2>2, <2>3, <2>4, LeaveKeeps
<1>3. CASE Interrupted
  <2>1. PICK pc : pc = Fail
    OBVIOUS
  <2>2. /\ caller' = [caller EXCEPT !.pc = pc] /\ caller.pc # "open"
        /\ pc \in {"cancel", "abort"}
    BY <1>3, <2>1 DEF Interrupted, Fail
  <2> QED BY <1>1, <2>2, LeaveKeeps
<1>4. CASE CallerDies
  <2>1. caller' = [caller EXCEPT !.pc = "dead"]
    BY <1>4 DEF CallerDies
  <2> QED BY <1>1, <2>1, LeaveKeeps
<1> QED BY <1>2, <1>3, <1>4

\* An abort is asked for, if there is an upload.
LEMMA AbortKeeps ==
    ASSUME Inv, Abort
    PROVE  Streamed' /\ Phases' /\ Requested' /\ Stored'
<1>1. caller.pc \in {"cancel", "abort"} /\ Idle /\ UNCHANGED << source, store >>
  BY DEF Abort
<1>2. CASE MayAbort
  <2>1. PICK r : r = [Silence EXCEPT !.op = "abort", !.id = caller.id]
    OBVIOUS
  <2>2. /\ Send(r) /\ UNCHANGED caller
        /\ ghost' = [ghost EXCEPT !.asked = @ \cup {caller.id}]
    BY <1>2, <2>1 DEF Abort
  <2>3. r \in Request /\ r.op = "abort" /\ r.id = caller.id
    BY <2>1, AbortType DEF Inv, TypeOK
  <2>4. /\ ghost'.known = ghost.known /\ ghost'.committed = ghost.committed
        /\ ghost'.full = ghost.full /\ ghost'.asked = ghost.asked \cup {caller.id}
    BY <2>2 DEF Inv, TypeOK, Ghost
  <2>5. caller.id \in ghost.known
    BY <1>2 DEF MayAbort, Inv, Stored
  <2>6. Sendable(r)'
    BY <2>3, <2>4, <2>5 DEF Sendable
  <2>7. Awaited(r)'
    BY <1>1, <2>2, <2>3, <2>4 DEF Awaited
  <2>8. Streamed' /\ Phases'
    BY <1>1, <2>2, <2>4 DEF Inv, Streamed, Phases, Ended
  <2> QED BY <1>1, <2>2, <2>3, <2>4, <2>6, <2>7, <2>8, SendKeeps
<1>3. CASE ~MayAbort
  <2>1. /\ caller' = [caller EXCEPT !.pc = AfterAbort, !.buffer = << >>]
        /\ UNCHANGED << wire, ghost >> /\ caller.id = 0
    BY <1>3 DEF Abort, MayAbort
  <2>2. /\ caller'.pc \in {"abort", "raised"} /\ caller'.opened = caller.opened
        /\ caller'.read = caller.read
        /\ caller'.sourceOk = caller.sourceOk /\ caller'.buffer = << >>
        /\ caller'.id = caller.id /\ caller'.parts = caller.parts
    BY <2>1 DEF Inv, TypeOK, Caller, AfterAbort
  <2>3. Streamed'
    <3>1. Len(<< >>) <= PartSize + MaxChunk
      BY Constants
    <3> QED BY <2>2, <3>1 DEF Inv, Streamed, Running
  <2>4. Phases'
    BY <1>1, <2>1, <2>2 DEF Inv, Phases, Running, Ended
  <2>5. Requested'
    <3>1. wire.waiting = Silence /\ ~wire.answer[1]
      BY <1>1 DEF Inv, Requested, Idle
    <3> QED BY <1>1, <2>1, <2>2, <3>1, IdleAfter
  <2>6. Stored'
    BY <1>1, <2>1, <2>2, StoreStays
  <2> QED BY <2>3, <2>4, <2>5, <2>6
<1> QED BY <1>2, <1>3

\* A part was accepted: the next one begins where it ended.
LEMMA PartAccepted ==
    ASSUME Inv, caller.pc \in {"stream", "finish"}, FillsPart, ~TooMany,
           caller'.pc = caller.pc, caller'.read = caller.read,
           caller'.parts = caller.parts \o << NextPart >>,
           caller'.buffer = SubSeq(caller.buffer, Len(NextPart) + 1, Len(caller.buffer))
    PROVE  Streamed'
<1> DEFINE parts == caller.parts
           buffer == caller.buffer
           read == caller.read
           n == Len(parts)
           base == n * PartSize
           k == Len(NextPart)
<1>1. /\ buffer # << >> /\ Len(buffer) \in Nat \ {0} /\ buffer \in Seq(Nat)
      /\ read \in Nat /\ n \in Nat /\ base \in Nat /\ parts \in Seq(Units)
  <2>1. buffer # << >>
    BY Constants DEF FillsPart
  <2> QED BY <2>1, Locals, EmptySeq
<1>2. /\ base <= read /\ Len(buffer) = read - base
      /\ \A j \in 1..Len(buffer) : buffer[j] = base + j
  BY <1>1, Held DEF Running
<1>3. /\ NextPart \in Units /\ k = IF Len(buffer) < PartSize THEN Len(buffer) ELSE PartSize
      /\ \A j \in 1..k : NextPart[j] = buffer[j]
  BY NextPartType DEF Inv, TypeOK
<1>4. (n + 1) * PartSize = base + PartSize
  BY <1>1, Constants, Times
<1>5. k \in Nat \ {0} /\ k <= Len(buffer) /\ PartSize \in Nat \ {0}
  BY <1>1, <1>3, Constants
<1>6. /\ Len(caller'.parts) = n + 1
      /\ caller'.parts[n + 1] = NextPart
      /\ \A m \in 1..n : caller'.parts[m] = parts[m]
  BY <1>1, <1>3
<1>7. IsPart(NextPart, n + 1, read)
  <2>1. (n + 1) - 1 = n
    BY <1>1
  <2>2. Counts(NextPart, base)
    BY <1>1, <1>2, <1>3, <1>5 DEF Counts
  <2>3. k = IF base + PartSize <= read THEN PartSize ELSE read - base
    BY <1>1, <1>2, <1>3, <1>5
  <2>4. base < read
    BY <1>1, <1>2
  <2> HIDE DEF base, k
  <2>5. base = n * PartSize /\ k = Len(NextPart)
    BY DEF base, k
  <2> QED BY <1>4, <2>1, <2>2, <2>3, <2>4, <2>5 DEF IsPart
<1>8. base + PartSize <= read \/ caller.pc \notin {"open", "stream"}
  <2>1. caller.pc = "finish" \/ Len(buffer) >= PartSize
    BY DEF FillsPart
  <2>2. CASE caller.pc = "finish"
    BY <2>2
  <2>3. CASE Len(buffer) >= PartSize
    <3>1. read \in Nat /\ base \in Nat /\ Len(buffer) \in Nat /\ PartSize \in Nat
          /\ Len(buffer) = read - base
      BY <1>1, <1>2, <1>5
    <3> HIDE DEF base, read, buffer
    <3>2. base + PartSize <= read
      BY <2>3, <3>1
    <3> QED BY <3>2
  <2> QED BY <2>1, <2>2, <2>3
<1>9. n + 1 <= MaxParts
  BY <1>1, Constants DEF TooMany
<1>10. \A m \in 1..n : /\ IsPart(parts[m], m, read)
                       /\ m * PartSize <= read \/ caller.pc \notin {"open", "stream"}
  BY DEF Inv, Streamed
<1>11. \A m \in 1..Len(caller'.parts) :
            /\ IsPart(caller'.parts[m], m, caller'.read)
            /\ m * PartSize <= caller'.read \/ caller'.pc \notin {"open", "stream"}
  <2> TAKE m \in 1..Len(caller'.parts)
  <2>1. CASE m = n + 1
    BY <1>4, <1>6, <1>7, <1>8, <2>1
  <2>2. CASE m # n + 1
    <3>1. m \in 1..n
      BY <1>1, <1>6, <2>2
    <3> QED BY <1>6, <1>10, <3>1
  <2> QED BY <2>1, <2>2
<1>12. /\ Len(caller'.buffer) = Len(buffer) - k
       /\ \A j \in 1..Len(buffer) - k : caller'.buffer[j] = base + k + j
  <2>1. PICK b : b = caller'.buffer
    OBVIOUS
  <2> HIDE DEF k
  <2>2. ASSUME NEW i \in k + 1..Len(buffer)
        PROVE  buffer[i] \in Nat
    <3>1. i \in 1..Len(buffer)
      BY <1>1, <1>5
    <3> QED BY <1>1, <3>1, ElementOfSeq
  <2>3. /\ Len(SubSeq(buffer, k + 1, Len(buffer))) =
                IF k + 1 <= Len(buffer) THEN Len(buffer) - (k + 1) + 1 ELSE 0
        /\ \A i \in 1..Len(buffer) - (k + 1) + 1 :
                SubSeq(buffer, k + 1, Len(buffer))[i] = buffer[(k + 1) + i - 1]
    BY <1>1, <1>5, <2>2, SubSeqProperties
  <2>4. b = SubSeq(buffer, k + 1, Len(buffer))
    BY <2>1 DEF k
  <2>5. Len(b) = Len(buffer) - k
    BY <1>1, <1>5, <2>3, <2>4
  <2>6. ASSUME NEW j \in 1..Len(buffer) - k
        PROVE  b[j] = base + k + j
    <3>1. j \in 1..Len(buffer) - (k + 1) + 1 /\ (k + 1) + j - 1 = k + j
      BY <1>1, <1>5
    <3>2. b[j] = buffer[k + j]
      BY <2>3, <2>4, <3>1
    <3>3. k + j \in 1..Len(buffer)
      BY <1>1, <1>5
    <3>4. buffer[k + j] = base + (k + j)
      BY <1>2, <3>3
    <3> HIDE DEF base
    <3> QED BY <1>1, <1>5, <3>2, <3>4
  <2> QED BY <2>1, <2>5, <2>6
<1>13. /\ Counts(caller'.buffer, base + PartSize)
       /\ Len(caller'.buffer) = IF base + PartSize <= read THEN read - (base + PartSize) ELSE 0
  <2> HIDE DEF base, k
  <2>1. CASE Len(buffer) < PartSize
    <3>1. Len(caller'.buffer) = 0 /\ ~(base + PartSize <= read)
      BY <1>1, <1>2, <1>3, <1>5, <1>12, <2>1
    <3> QED BY <3>1 DEF Counts
  <2>2. CASE ~(Len(buffer) < PartSize)
    <3>1. k = PartSize /\ base + PartSize <= read
      BY <1>1, <1>2, <1>3, <1>5, <2>2
    <3>2. Len(caller'.buffer) = read - (base + PartSize)
      BY <1>1, <1>2, <1>5, <1>12, <3>1
    <3>3. \A j \in 1..Len(caller'.buffer) : caller'.buffer[j] = base + PartSize + j
      BY <1>12, <3>1
    <3> QED BY <3>1, <3>2, <3>3 DEF Counts
  <2> QED BY <2>1, <2>2
<1>14. Len(caller'.buffer) <= PartSize + MaxChunk
  <2>1. Len(buffer) <= PartSize + MaxChunk
    BY DEF Inv, Streamed
  <2> HIDE DEF k
  <2> QED BY <1>1, <1>5, <1>12, <2>1, Constants
<1>15. Len(caller'.parts) * PartSize = base + PartSize
  BY <1>4, <1>6
<1> HIDE DEF base, k
<1> QED BY <1>6, <1>9, <1>11, <1>13, <1>14, <1>15 DEF Streamed

\* An answer is received.
LEMMA ReceiveKeeps ==
    ASSUME Inv, Receive
    PROVE  Streamed' /\ Phases' /\ Requested' /\ Stored'
<1> DEFINE r == wire.waiting
           u == wire.answer[2]
<1>1. /\ ~Idle /\ UNCHANGED << source, store >> /\ caller' = Received(r, u)
      /\ ghost' = [ghost EXCEPT !.known = @ \cup ({u} \ {0})]
      /\ wire'.sent = wire.sent /\ wire'.waiting = Silence /\ ~wire'.answer[1]
  BY NotWaitingType, Constants DEF Receive, Inv, TypeOK
<1>2. /\ r \in Request /\ u \in 0..MaxUploads
      /\ Sendable(r) /\ Awaited(r) /\ Answered(r)
  BY WaitsWhere DEF Receive, Inv, TypeOK, Wire, Requested
<1>3. /\ ghost'.known = ghost.known \cup ({u} \ {0}) /\ ghost'.committed = ghost.committed
      /\ ghost'.full = ghost.full /\ ghost'.asked = ghost.asked
  BY <1>1 DEF Inv, TypeOK, Ghost
<1> HIDE DEF r, u
<1>4. r.op \in {"create", "part", "put", "complete", "abort"}
  BY <1>2 DEF Request, Sendable
<1>5. CASE r.op = "create"
  <2>1. caller' = [caller EXCEPT !.id = u]
    BY <1>1, <1>5 DEF Received
  <2>2. /\ caller'.pc = caller.pc /\ caller'.opened = caller.opened
        /\ caller'.read = caller.read
        /\ caller'.sourceOk = caller.sourceOk /\ caller'.buffer = caller.buffer
        /\ caller'.id = u /\ caller'.parts = caller.parts
    BY <1>2, <2>1 DEF Inv, TypeOK, Caller
  <2>3. /\ caller.pc = "stream" /\ caller.id = 0 /\ u # 0 /\ IsOpen(u)
    BY <1>2, <1>5 DEF Awaited, StartsUpload, Answered, u
  <2>4. ghost.known = {} /\ ghost'.known = {u}
    BY <1>3, <2>3 DEF Inv, Phases, Running
  <2>5. Streamed'
    BY <2>2 DEF Inv, Streamed
  <2>6. Phases'
    BY <1>1, <1>3, <2>2, <2>3 DEF Inv, Phases, Ended
  <2>7. Requested'
    BY <1>1, <1>3, <2>2, IdleAfter
  <2>8. Stored'
    <3>1. store.object # Before => ghost'.committed /\ IsStream(store.object)'
      BY <1>1, <1>3, <2>2, StaysSendable DEF Inv, Stored
    <3> QED BY <1>1, <2>2, <2>3, <2>4, <3>1 DEF Inv, Stored, IsOpen
  <2> QED BY <2>5, <2>6, <2>7, <2>8
<1>6. ASSUME r.op # "create"
      PROVE  u = 0 /\ ghost'.known = ghost.known
  BY <1>2, <1>3, <1>6 DEF Answered, u
<1>7. CASE r.op = "part"
  <2>1. /\ caller.pc \in {"stream", "finish"} /\ FillsPart /\ ~TooMany
        /\ r.data = << NextPart >> /\ r.data[1] = NextPart
    BY <1>2, <1>7 DEF Awaited
  <2>2. caller' = [caller EXCEPT !.parts = caller.parts \o << NextPart >>,
                !.buffer = SubSeq(caller.buffer, Len(NextPart) + 1, Len(caller.buffer))]
    BY <1>1, <1>7, <2>1 DEF Received
  <2>3. /\ caller'.pc = caller.pc /\ caller'.opened = caller.opened
        /\ caller'.read = caller.read /\ caller'.id = caller.id
        /\ caller'.sourceOk = caller.sourceOk
        /\ caller'.parts = caller.parts \o << NextPart >>
        /\ caller'.buffer = SubSeq(caller.buffer, Len(NextPart) + 1, Len(caller.buffer))
    BY <2>2 DEF Inv, TypeOK, Caller
  <2>4. Streamed'
    BY <2>1, <2>3, PartAccepted
  <2>5. caller.id # 0
    BY <2>1 DEF FillsPart
  <2>6. Phases'
    BY <1>1, <1>3, <1>6, <1>7, <2>1, <2>3, <2>5 DEF Inv, Phases, Ended
  <2>7. Requested'
    BY <1>1, <1>3, <2>3, IdleAfter
  <2>8. Stored'
    BY <1>1, <1>3, <1>6, <1>7, <2>3, StoreStays
  <2> QED BY <2>4, <2>6, <2>7, <2>8
<1>8. CASE r.op = "put"
  <2>1. caller' = [caller EXCEPT !.pc = "returned", !.buffer = << >>]
    BY <1>1, <1>8 DEF Received
  <2>2. /\ caller'.pc = "returned" /\ caller'.opened = caller.opened
        /\ caller'.read = caller.read
        /\ caller'.sourceOk = caller.sourceOk /\ caller'.buffer = << >>
        /\ caller'.id = caller.id /\ caller'.parts = caller.parts
    BY <2>1 DEF Inv, TypeOK, Caller
  <2>3. caller.pc = "commit" /\ caller.id = 0 /\ store.object # Before
    BY <1>2, <1>8 DEF Awaited, Answered
  <2>4. Streamed'
    <3>1. Len(<< >>) <= PartSize + MaxChunk
      BY Constants
    <3> QED BY <2>2, <3>1 DEF Inv, Streamed, Running
  <2>5. Phases'
    BY <1>1, <1>3, <2>2, <2>3 DEF Inv, Phases, Ended, Running
  <2>6. Requested'
    BY <1>1, <1>3, <2>2, IdleAfter
  <2>7. Stored'
    BY <1>1, <1>3, <1>6, <1>8, <2>2, StoreStays
  <2> QED BY <2>4, <2>5, <2>6, <2>7
<1>9. CASE r.op \in {"complete", "abort"}
  <2>1. PICK pc \in {"returned", "abort", "raised"} :
            /\ caller' = [caller EXCEPT !.pc = pc, !.id = 0]
            /\ pc = "returned" => r.op = "complete"
    <3>1. CASE r.op = "complete"
      BY <1>1, <3>1 DEF Received
    <3>2. CASE r.op = "abort"
      BY <1>1, <3>2 DEF Received, AfterAbort
    <3> QED BY <1>9, <3>1, <3>2
  <2>2. /\ caller'.pc = pc /\ caller'.opened = caller.opened /\ caller'.read = caller.read
        /\ caller'.sourceOk = caller.sourceOk /\ caller'.buffer = caller.buffer
        /\ caller'.id = 0 /\ caller'.parts = caller.parts
    BY <2>1 DEF Inv, TypeOK, Caller
  <2>3. /\ r.id = caller.id /\ r.id \in ghost.known /\ ~IsOpen(r.id)
        /\ caller.pc \in {"commit", "cancel", "abort"}
    BY <1>2, <1>9 DEF Awaited, Answered, Sendable, IsOpen
  <2>4. r.op = "complete" => store.object # Before
    <3>1. ASSUME r.op = "complete"
          PROVE  store.object # Before
      <4>1. r.id \in 1..MaxUploads /\ store.uploads[r.id].state = "completed"
        BY <1>2, <2>3, <3>1 DEF Answered, Inv, TypeOK, Ghost
      <4> QED BY <4>1 DEF Inv, Stored
    <3> QED BY <3>1
  <2>5. Streamed'
    BY <2>2 DEF Inv, Streamed, Running
  <2>6. Phases'
    BY <1>1, <1>3, <1>6, <1>9, <2>1, <2>2, <2>3, <2>4 DEF Inv, Phases, Ended, Running
  <2>7. Requested'
    BY <1>1, <1>3, <2>2, IdleAfter
  <2>8. Stored'
    <3>1. store.object # Before => ghost'.committed /\ IsStream(store.object)'
      BY <1>1, <1>3, <2>2, StaysSendable DEF Inv, Stored
    <3>2. ghost'.known = ghost.known
      BY <1>6, <1>9
    <3>3. \A v \in ghost.known : ~IsOpen(v)
      BY <2>3 DEF Inv, Stored
    <3> QED BY <1>1, <2>2, <3>1, <3>2, <3>3 DEF Inv, Stored, IsOpen
  <2> QED BY <2>5, <2>6, <2>7, <2>8
<1> QED BY <1>4, <1>5, <1>7, <1>8, <1>9
-----------------------------------------------------------------------------
(* What the store does *)
-----------------------------------------------------------------------------
(* What the store does *)

\* An attempt is served or not; what its answer proves is so, and what another
\* answer proves stays so.
LEMMA AnswerKeeps ==
    ASSUME Inv, UNCHANGED << source, caller, ghost >>,
           NEW r \in wire.sent, NEW ok \in BOOLEAN, NEW u \in 0..MaxUploads, Answer(r, ok, u),
           store.object # Before => store'.object # Before,
           store'.object # Before => ghost.committed /\ IsStream(store'.object),
           \A v \in 1..MaxUploads :
                /\ store'.uploads[v].state = "completed" => store'.object # Before
                /\ store.uploads[v].state = "completed" => store'.uploads[v].state = "completed"
                /\ ghost.known = {} /\ IsOpen(v) => IsOpen(v)'
                /\ v \in ghost.known => store'.uploads[v].state # "none"
                /\ v \in ghost.known /\ IsOpen(v)' => IsOpen(v),
           ok => /\ IF r.op = "create" THEN u # 0 /\ IsOpen(u)' ELSE u = 0
                 /\ r.op = "put" => store'.object # Before
                 /\ r.op = "complete" => store'.uploads[r.id].state = "completed"
                 /\ r.op = "abort" => ~IsOpen(r.id)'
    PROVE  Streamed' /\ Phases' /\ Requested' /\ Stored'
<1>1. /\ wire'.waiting = wire.waiting /\ wire'.sent \subseteq wire.sent
      /\ \/ wire'.answer = wire.answer
         \/ r = wire.waiting /\ wire'.answer = << ok, u >>
  BY AnswerLeaves DEF Inv, TypeOK
<1>2. Streamed'
  BY DEF Inv, Streamed
<1>3. Phases'
  BY DEF Inv, Phases, Ended
<1>4. ghost.known \subseteq 1..MaxUploads
  BY DEF Inv, TypeOK, Ghost
<1>5. Stored'
  <2>1. store'.object # Before => ghost'.committed /\ IsStream(store.object)'
    BY DEF IsStream, Counts
  <2>2. /\ \A v \in ghost'.known : store'.uploads[v].state # "none"
        /\ \A v, w \in ghost'.known : v = w
        /\ caller'.id # 0 => caller'.id \in ghost'.known
    BY <1>4 DEF Inv, Stored
  <2>3. \A v \in ghost'.known : IsOpen(v)' => v = caller'.id
    BY <1>4 DEF Inv, Stored
  <2>4. \A v \in 1..MaxUploads : store'.uploads[v].state = "completed" => store'.object # Before
    OBVIOUS
  <2> QED BY <2>1, <2>2, <2>3, <2>4 DEF Stored, IsOpen
<1>6. \A q \in wire'.sent : Sendable(q)'
  BY <1>1, StaysSendable DEF Inv, Requested
<1>7. ~Idle' => Sendable(wire.waiting)' /\ Awaited(wire.waiting)'
  <2>1. ~Idle' => Sendable(wire.waiting)'
    BY <1>1, StaysSendable DEF Inv, Requested, Idle
  <2>2. ~Idle' => Awaited(wire.waiting)'
    BY <1>1 DEF Inv, Requested, Idle, Awaited, StartsUpload, FillsPart, TooMany, NextPart
  <2> QED BY <1>1, <2>1, <2>2
<1>8. ASSUME wire'.answer[1]
      PROVE  ~Idle' /\ Answered(wire.waiting)'
  <2>1. CASE wire'.answer = wire.answer
    <3>0. PICK w : w = wire.waiting
      OBVIOUS
    <3>1. ~Idle /\ Answered(w) /\ Sendable(w) /\ Awaited(w) /\ w \in Request
      BY <1>8, <2>1, <3>0, WaitsWhere DEF Inv, Requested
    <3>2. ~Idle'
      BY <1>1, <3>0, <3>1 DEF Idle
    <3>3. wire.answer[2] \in 0..MaxUploads
      BY DEF Inv, TypeOK, Wire
    <3>6. wire'.waiting = w
      BY <1>1, <3>0
    <3>4. CASE w.op = "create"
      <4>1. wire.answer[2] \in 1..MaxUploads /\ IsOpen(wire.answer[2])
        BY <3>1, <3>3, <3>4 DEF Answered
      <4>2. ghost.known = {}
        BY <3>1, <3>4 DEF Awaited, StartsUpload, Inv, Phases, Running
      <4>3. IsOpen(wire.answer[2])'
        BY <2>1, <4>1, <4>2 DEF IsOpen
      <4> QED BY <2>1, <3>2, <3>4, <3>6, <4>1, <4>3 DEF Answered, IsOpen
    <3>5. CASE w.op # "create"
      <4>1. wire'.answer[2] = 0
        BY <2>1, <3>1, <3>5 DEF Answered
      <4>2. w.op = "put" => store'.object # Before
        BY <3>1 DEF Answered
      <4>3. w.op = "complete" => store'.uploads[w.id].state = "completed"
        BY <1>4, <3>1 DEF Answered, Sendable
      <4>4. w.op = "abort" => ~IsOpen(w.id)'
        BY <1>4, <3>1 DEF Answered, Sendable
      <4> QED BY <3>2, <3>5, <4>1, <4>2, <4>3, <4>4, <3>6 DEF Answered, IsOpen
    <3> QED BY <3>4, <3>5
  <2>2. CASE r = wire.waiting /\ wire'.answer = << ok, u >>
    <3>1. ok /\ wire'.answer[2] = u
      BY <1>8, <2>2
    <3>2. ~Idle'
      BY <1>1, <2>2 DEF Idle, Inv, Requested, Sendable, Silence
    <3>3. wire'.waiting = r
      BY <1>1, <2>2
    <3>4. IF r.op = "create" THEN u # 0 /\ IsOpen(u)' ELSE u = 0
      BY <3>1
    <3>5. /\ r.op = "put" => store'.object # Before
          /\ r.op = "complete" => store'.uploads[r.id].state = "completed"
          /\ r.op = "abort" => ~IsOpen(r.id)'
      BY <3>1
    <3> QED BY <3>1, <3>2, <3>3, <3>4, <3>5 DEF Answered, IsOpen
  <2> QED BY <1>1, <2>1, <2>2
<1>9. Requested'
  BY <1>6, <1>7, <1>8 DEF Requested
<1> QED BY <1>2, <1>3, <1>5, <1>9

\* A stream is nothing that was there before.
LEMMA StreamIsNew ==
    ASSUME NEW s, IsStream(s)
    PROVE  s # Before
<1>1. CASE s = Before
  <2>1. Len(s) = 2 /\ s[1] = 0
    BY <1>1 DEF Before
  <2>2. s[1] = 0 + 1
    BY <2>1 DEF IsStream, Counts
  <2> QED BY <2>1, <2>2
<1> QED BY <1>1

\* The change of one upload leaves the others and the object.
LEMMA ChangeOne ==
    ASSUME Inv, NEW u \in 1..MaxUploads, NEW next, store' = Change(u, next)
    PROVE  /\ store'.object = store.object
           /\ \A v \in 1..MaxUploads :
                store'.uploads[v] = IF v = u THEN next ELSE store.uploads[v]
BY DEF Inv, TypeOK, Store, Change

\* Of what was sent, what is known of its upload and its data.
LEMMA SentKnown ==
    ASSUME Inv, NEW r \in wire.sent
    PROVE  /\ Sendable(r)
           /\ r.op \in {"part", "complete", "abort"} => r.id \in 1..MaxUploads /\ ghost.known # {}
<1>1. Sendable(r)
  BY DEF Inv, Requested
<1>2. ghost.known \subseteq 1..MaxUploads
  BY DEF Inv, TypeOK, Ghost
<1> QED BY <1>1, <1>2 DEF Sendable

\* An upload is created.
LEMMA ServeCreateKeeps ==
    ASSUME Inv, ServeCreate
    PROVE  Streamed' /\ Phases' /\ Requested' /\ Stored'
<1>1. PICK u \in 1..MaxUploads :
        /\ store.uploads[u].state = "none"
        /\ store' = Change(u, [state |-> "open", parts |-> << >>])
        /\ Answer(Create, TRUE, u)
  BY DEF ServeCreate
<1>2. /\ Create \in wire.sent /\ UNCHANGED << source, caller, ghost >>
      /\ Create.op = "create" /\ u \in 0..MaxUploads /\ u # 0 /\ TRUE \in BOOLEAN
  BY CreateType DEF ServeCreate
<1>3. /\ store'.object = store.object
      /\ \A v \in 1..MaxUploads : store'.uploads[v].state =
            IF v = u THEN "open" ELSE store.uploads[v].state
  BY <1>1, ChangeOne
<1>4. /\ store'.object # Before => ghost.committed /\ IsStream(store'.object)
      /\ \A v \in ghost.known : v # u
  BY <1>1, <1>3 DEF Inv, Stored
<1>5. \A v \in 1..MaxUploads :
            /\ store'.uploads[v].state = "completed" => store'.object # Before
            /\ store.uploads[v].state = "completed" => store'.uploads[v].state = "completed"
            /\ ghost.known = {} /\ IsOpen(v) => IsOpen(v)'
            /\ v \in ghost.known => store'.uploads[v].state # "none"
            /\ v \in ghost.known /\ IsOpen(v)' => IsOpen(v)
  BY <1>1, <1>3, <1>4 DEF Inv, Stored, IsOpen
<1>6. IsOpen(u)'
  BY <1>3 DEF IsOpen
<1> QED BY <1>1, <1>2, <1>3, <1>4, <1>5, <1>6, AnswerKeeps

\* A part arrives.
LEMMA ServePartKeeps ==
    ASSUME Inv, ServePart
    PROVE  Streamed' /\ Phases' /\ Requested' /\ Stored'
<1>1. PICK r, parts :
        /\ r \in wire.sent /\ r.op = "part" /\ IsOpen(r.id)
        /\ store' = Change(r.id, [state |-> "open", parts |-> parts])
        /\ Answer(r, TRUE, 0)
  BY DEF ServePart
<1>2. /\ UNCHANGED << source, caller, ghost >> /\ r.id \in 1..MaxUploads
      /\ 0 \in 0..MaxUploads /\ TRUE \in BOOLEAN
  BY <1>1, SentKnown, Constants DEF ServePart
<1>3. /\ store'.object = store.object
      /\ \A v \in 1..MaxUploads : store'.uploads[v].state = store.uploads[v].state
  BY <1>1, <1>2, ChangeOne DEF IsOpen
<1>4. store'.object # Before => ghost.committed /\ IsStream(store'.object)
  BY <1>3 DEF Inv, Stored
<1>5. \A v \in 1..MaxUploads :
            /\ store'.uploads[v].state = "completed" => store'.object # Before
            /\ store.uploads[v].state = "completed" => store'.uploads[v].state = "completed"
            /\ ghost.known = {} /\ IsOpen(v) => IsOpen(v)'
            /\ v \in ghost.known => store'.uploads[v].state # "none"
            /\ v \in ghost.known /\ IsOpen(v)' => IsOpen(v)
  BY <1>3 DEF Inv, Stored, IsOpen
<1> QED BY <1>1, <1>2, <1>3, <1>4, <1>5, AnswerKeeps

\* The stream is put.
LEMMA ServePutKeeps ==
    ASSUME Inv, ServePut
    PROVE  Streamed' /\ Phases' /\ Requested' /\ Stored'
<1>1. PICK r \in wire.sent :
        r.op = "put" /\ store' = [store EXCEPT !.object = r.data[1]] /\ Answer(r, TRUE, 0)
  BY DEF ServePut
<1>2. /\ UNCHANGED << source, caller, ghost >> /\ 0 \in 0..MaxUploads /\ TRUE \in BOOLEAN
  BY Constants DEF ServePut
<1>3. store'.object = r.data[1] /\ store'.uploads = store.uploads
  BY <1>1 DEF Inv, TypeOK, Store
<1>4. ghost.committed /\ IsStream(r.data[1]) /\ r.data[1] # Before
  BY <1>1, SentKnown, StreamIsNew DEF Sendable
<1>5. \A v \in 1..MaxUploads :
            /\ store'.uploads[v].state = "completed" => store'.object # Before
            /\ store.uploads[v].state = "completed" => store'.uploads[v].state = "completed"
            /\ ghost.known = {} /\ IsOpen(v) => IsOpen(v)'
            /\ v \in ghost.known => store'.uploads[v].state # "none"
            /\ v \in ghost.known /\ IsOpen(v)' => IsOpen(v)
  BY <1>3, <1>4 DEF Inv, Stored, IsOpen
<1> QED BY <1>1, <1>2, <1>3, <1>4, <1>5, AnswerKeeps

\* The parts become the object.
LEMMA ServeCompleteKeeps ==
    ASSUME Inv, ServeComplete
    PROVE  Streamed' /\ Phases' /\ Requested' /\ Stored'
<1>1. PICK r \in wire.sent :
        /\ r.op = "complete" /\ IsOpen(r.id)
        /\ store' = [Change(r.id, [state |-> "completed", parts |-> << >>])
                        EXCEPT !.object = FlattenSeq(r.data)]
        /\ Answer(r, TRUE, 0)
  BY DEF ServeComplete
<1>2. /\ UNCHANGED << source, caller, ghost >> /\ r.id \in 1..MaxUploads /\ ghost.known # {}
      /\ 0 \in 0..MaxUploads /\ TRUE \in BOOLEAN
  BY <1>1, SentKnown, Constants DEF ServeComplete
<1>3. /\ store'.object = FlattenSeq(r.data)
      /\ \A v \in 1..MaxUploads : store'.uploads[v].state =
            IF v = r.id THEN "completed" ELSE store.uploads[v].state
  BY <1>1, <1>2 DEF Inv, TypeOK, Store, Change
<1>4. ghost.committed /\ IsStream(FlattenSeq(r.data)) /\ FlattenSeq(r.data) # Before
  BY <1>1, SentKnown, StreamIsNew DEF Sendable
<1>5. \A v \in 1..MaxUploads :
            /\ store'.uploads[v].state = "completed" => store'.object # Before
            /\ store.uploads[v].state = "completed" => store'.uploads[v].state = "completed"
            /\ ghost.known = {} /\ IsOpen(v) => IsOpen(v)'
            /\ v \in ghost.known => store'.uploads[v].state # "none"
            /\ v \in ghost.known /\ IsOpen(v)' => IsOpen(v)
  BY <1>2, <1>3, <1>4 DEF Inv, Stored, IsOpen
<1> QED BY <1>1, <1>2, <1>3, <1>4, <1>5, AnswerKeeps

\* The upload is aborted.
LEMMA ServeAbortKeeps ==
    ASSUME Inv, ServeAbort
    PROVE  Streamed' /\ Phases' /\ Requested' /\ Stored'
<1>1. PICK r \in wire.sent :
        /\ r.op = "abort" /\ IsOpen(r.id)
        /\ store' = Change(r.id, [state |-> "aborted", parts |-> << >>])
        /\ Answer(r, TRUE, 0)
  BY DEF ServeAbort
<1>2. /\ UNCHANGED << source, caller, ghost >> /\ r.id \in 1..MaxUploads /\ ghost.known # {}
      /\ 0 \in 0..MaxUploads /\ TRUE \in BOOLEAN
  BY <1>1, SentKnown, Constants DEF ServeAbort
<1>3. /\ store'.object = store.object
      /\ \A v \in 1..MaxUploads : store'.uploads[v].state =
            IF v = r.id THEN "aborted" ELSE store.uploads[v].state
  BY <1>1, <1>2, ChangeOne
<1>4. store'.object # Before => ghost.committed /\ IsStream(store'.object)
  BY <1>3 DEF Inv, Stored
<1>5. \A v \in 1..MaxUploads :
            /\ store'.uploads[v].state = "completed" => store'.object # Before
            /\ store.uploads[v].state = "completed" => store'.uploads[v].state = "completed"
            /\ ghost.known = {} /\ IsOpen(v) => IsOpen(v)'
            /\ v \in ghost.known => store'.uploads[v].state # "none"
            /\ v \in ghost.known /\ IsOpen(v)' => IsOpen(v)
  BY <1>1, <1>2, <1>3 DEF Inv, Stored, IsOpen
<1>6. ~IsOpen(r.id)'
  BY <1>2, <1>3 DEF IsOpen
<1> QED BY <1>1, <1>2, <1>3, <1>4, <1>5, <1>6, AnswerKeeps

\* An attempt is declined, or one at a completed upload answered as before.
LEMMA DeclineKeeps ==
    ASSUME Inv, Decline
    PROVE  Streamed' /\ Phases' /\ Requested' /\ Stored'
<1>1. PICK r \in wire.sent, ok \in BOOLEAN :
        /\ Answer(r, ok, 0)
        /\ ok => r.op = "complete" /\ store.uploads[r.id].state = "completed"
  <2>1. TRUE \in BOOLEAN /\ FALSE \in BOOLEAN
    OBVIOUS
  <2> QED BY <2>1, Zenon DEF Decline
<1>2. UNCHANGED << source, caller, store, ghost >> /\ 0 \in 0..MaxUploads
  BY Constants DEF Decline
<1>3. store'.object # Before => ghost.committed /\ IsStream(store'.object)
  BY <1>2 DEF Inv, Stored
<1>4. \A v \in 1..MaxUploads :
            /\ store'.uploads[v].state = "completed" => store'.object # Before
            /\ store.uploads[v].state = "completed" => store'.uploads[v].state = "completed"
            /\ ghost.known = {} /\ IsOpen(v) => IsOpen(v)'
            /\ v \in ghost.known => store'.uploads[v].state # "none"
            /\ v \in ghost.known /\ IsOpen(v)' => IsOpen(v)
  BY <1>2 DEF Inv, Stored, IsOpen
<1> QED BY <1>1, <1>2, <1>3, <1>4, AnswerKeeps

\* An attempt is lost.
LEMMA LoseKeeps ==
    ASSUME Inv, Lose
    PROVE  Streamed' /\ Phases' /\ Requested' /\ Stored'
<1>1. /\ wire'.sent \subseteq wire.sent /\ wire'.waiting = wire.waiting
      /\ wire'.answer = wire.answer /\ UNCHANGED << source, caller, store, ghost >>
  BY DEF Lose, Inv, TypeOK, Wire
<1>2. Streamed' /\ Phases' /\ Stored'
  <2>1. Stored'
    BY <1>1, StoreStays
  <2> QED BY <1>1, <2>1 DEF Inv, Streamed, Phases, Ended
<1>3. Requested'
  <2>1. \A r : Sendable(r) => Sendable(r)'
    BY <1>1, StaysSendable
  <2>2. \A r : Awaited(r) => Awaited(r)'
    BY <1>1 DEF Awaited, StartsUpload, FillsPart, TooMany, NextPart
  <2>3. \A r : Answered(r) => Answered(r)'
    BY <1>1 DEF Answered, IsOpen
  <2>4. Idle <=> Idle'
    BY <1>1 DEF Idle
  <2> QED BY <1>1, <2>1, <2>2, <2>3, <2>4 DEF Inv, Requested
<1> QED BY <1>2, <1>3

\* The source is replaced by an object whose size is known from the start.
LEMMA ReplaceKeeps ==
    ASSUME Inv, ReplaceSource
    PROVE  Streamed' /\ Phases' /\ Requested' /\ Stored'
<1>1. source'.size = source.size /\ UNCHANGED << caller, wire, store, ghost >>
  BY DEF ReplaceSource, Inv, TypeOK, Source
<1>2. \A s : IsStream(s) => IsStream(s)'
  BY <1>1, StaysSendable
<1>3. \A r : Sendable(r) => Sendable(r)'
  BY <1>1, StaysSendable
<1>4. Streamed' /\ Phases'
  BY <1>1 DEF Inv, Streamed, Phases, Ended
<1>5. Requested'
  <2>1. \A r : Awaited(r) => Awaited(r)'
    BY <1>1 DEF Awaited, StartsUpload, FillsPart, TooMany, NextPart
  <2>2. \A r : Answered(r) => Answered(r)'
    BY <1>1 DEF Answered, IsOpen
  <2>3. Idle <=> Idle'
    BY <1>1 DEF Idle
  <2> QED BY <1>1, <1>3, <2>1, <2>2, <2>3 DEF Inv, Requested
<1>6. Stored'
  <2>1. store.object # Before => ghost'.committed /\ IsStream(store.object)'
    BY <1>1, <1>2 DEF Inv, Stored
  <2> QED BY <1>1, <2>1 DEF Inv, Stored, IsOpen
<1> QED BY <1>4, <1>5, <1>6
-----------------------------------------------------------------------------
(* The invariant *)

\* Before the first request nothing is stored, sent or read.
LEMMA InitInv == Init => Inv
<1> SUFFICES ASSUME Init PROVE Inv
  OBVIOUS
<1> USE Constants
<1>1. TypeOK
  <2>1. source \in Source
    BY DEF Init, Source
  <2>2. caller \in Caller
    BY DEF Init, Caller
  <2>3. wire \in Wire
    <3>1. Silence \in Request
      BY DEF Silence, Request
    <3>2. {} \subseteq Request
      OBVIOUS
    <3> QED BY <3>1, <3>2 DEF Init, Wire
  <2>4. store \in Store
    <3>1. [state |-> "none", parts |-> << >>] \in Upload
      BY DEF Upload
    <3>2. Before \in Units
      BY DEF Before, Units
    <3> QED BY <3>1, <3>2 DEF Init, Store
  <2>5. ghost \in Ghost
    BY DEF Init, Ghost
  <2> QED BY <2>1, <2>2, <2>3, <2>4, <2>5 DEF TypeOK
<1>2. Streamed
  <2>1. 0 * PartSize = 0 /\ Len(<< >>) = 0
    OBVIOUS
  <2> QED BY <2>1 DEF Init, Streamed, Counts
<1>3. Phases
  BY DEF Init, Phases, Running, Ended
<1>4. Requested
  BY DEF Init, Requested, Idle
<1>5. Stored
  BY DEF Init, Stored, IsOpen
<1> QED BY <1>1, <1>2, <1>3, <1>4, <1>5 DEF Inv

\* Every step keeps the four parts.
LEMMA StepInv == Inv /\ [Next]_vars => Inv'
<1> SUFFICES ASSUME Inv, [Next]_vars PROVE Inv'
  OBVIOUS
<1>1. TypeOK'
  BY TypeKept
<1>2. Streamed' /\ Phases' /\ Requested' /\ Stored'
  <2>1. CASE UNCHANGED vars
    BY <2>1 DEF vars, Inv, Streamed, Phases, Requested, Stored, Ended, Idle, IsOpen, Awaited,
       Answered, Sendable, IsStream, Counts, StartsUpload, FillsPart, TooMany, NextPart
  <2>2. CASE Copying
    BY <2>2, OpenKeeps, RelayKeeps, SourceEndsKeeps, FinishKeeps, StartKeeps, UploadPartKeeps,
       CommitKeeps, AbortKeeps, ReceiveKeeps, GiveUpKeeps DEF Copying
  <2>3. CASE Failing
    BY <2>3, SourceEndsKeeps, GiveUpKeeps, LoseKeeps, DeclineKeeps, ReplaceKeeps DEF Failing
  <2>4. CASE Serving
    BY <2>4, ServeCreateKeeps, ServePartKeeps, ServePutKeeps, ServeCompleteKeeps,
       ServeAbortKeeps DEF Serving
  <2> QED BY <2>1, <2>2, <2>3, <2>4 DEF Next
<1> QED BY <1>1, <1>2 DEF Inv

\* What was read is in the parts and the buffer, what is sent and stored is the
\* stream, and every upload is known to whom it belongs, in every reachable state.
THEOREM S3UploadInvariant == Spec => []Inv
<1> QED BY InitInv, StepInv, PTL DEF Spec

\* The variables stay within their types.
THEOREM TypeCorrect == Spec => []TypeOK
<1>1. Inv => TypeOK
  BY DEF Inv
<1> QED BY <1>1, S3UploadInvariant, PTL

\* What is published is the whole stream, each unit once and in order, for parts
\* and reads of any size and whatever the store and the network do.
THEOREM PublishedWhole == Spec => []PublishedIsWhole
<1>1. Inv => PublishedIsWhole
  <2> SUFFICES ASSUME Inv, store.object # Before
               PROVE  /\ Len(store.object) = source.size[caller.opened]
                      /\ \A i \in DOMAIN store.object : store.object[i] = i
    BY DEF PublishedIsWhole
  <2>1. IsStream(store.object)
    BY DEF Inv, Stored
  <2>2. store.object \in Seq(Nat) /\ DOMAIN store.object = 1..Len(store.object)
    BY <2>1 DEF IsStream, Units
  <2> QED BY <2>1, <2>2 DEF IsStream, Counts
<1> QED BY <1>1, S3UploadInvariant, PTL

\* The parts are what the store accepts, for every size of the stream.
THEOREM PartsFitAlways == Spec => []PartsFit
<1>1. Inv => PartsFit
  <2> SUFFICES ASSUME Inv PROVE PartsFit
    OBVIOUS
  <2> DEFINE n == Len(caller.parts)
  <2>1. /\ caller.parts \in Seq(Units) /\ n \in Nat /\ caller.read \in Nat
        /\ Len(caller.buffer) \in Nat /\ DOMAIN caller.parts = 1..n
    BY Locals
  <2>2. ASSUME NEW i \in 1..n
        PROVE  /\ Len(caller.parts[i]) \in 1..PartSize
               /\ i < n => Len(caller.parts[i]) = PartSize
    <3>1. i \in Nat /\ i - 1 \in Nat /\ (i - 1) + 1 = i
      BY <2>1
    <3>2. i * PartSize = (i - 1) * PartSize + PartSize /\ (i - 1) * PartSize \in Nat
      BY <3>1, Times
    <3>3. /\ Len(caller.parts[i]) = IF i * PartSize <= caller.read THEN PartSize
                                    ELSE caller.read - (i - 1) * PartSize
          /\ (i - 1) * PartSize < caller.read
      BY DEF Inv, Streamed, IsPart
    <3>4. Len(caller.parts[i]) \in 1..PartSize
      BY <2>1, <3>2, <3>3, Constants
    <3>5. ASSUME i < n
          PROVE  Len(caller.parts[i]) = PartSize
      <4>1. n \in 1..n /\ n - 1 \in Nat
        BY <2>1, <3>5
      <4>2. (n - 1) * PartSize < caller.read
        BY <4>1 DEF Inv, Streamed, IsPart
      <4>3. i - 1 < n - 1
        BY <2>1, <3>5
      <4>4. (i - 1) * PartSize + PartSize <= (n - 1) * PartSize
        <5> HIDE DEF n
        <5> QED BY <3>1, <4>1, <4>3, Times
      <4>5. (n - 1) * PartSize \in Nat
        <5> HIDE DEF n
        <5> QED BY <4>1, Times
      <4>6. i * PartSize <= caller.read
        <5> HIDE DEF n
        <5> QED BY <2>1, <3>2, <4>2, <4>4, <4>5, Constants
      <4> QED BY <3>3, <4>6
    <3> QED BY <3>4, <3>5
  <2>3. n <= MaxParts
    BY DEF Inv, Streamed
  <2>4. wire.waiting.op = "put" => Len(wire.waiting.data[1]) <= PartSize
    BY DEF Inv, Requested, Awaited, Idle, Silence
  <2>5. ghost.full => caller.read > MaxParts * PartSize
    BY DEF Inv, Phases
  <2>6. Len(caller.buffer) < PartSize + MaxChunk + 1
    BY <2>1, Constants DEF Inv, Streamed
  <2> QED BY <2>1, <2>2, <2>3, <2>4, <2>5, <2>6 DEF PartsFit
<1> QED BY <1>1, S3UploadInvariant, PTL

\* A copy that has ended leaves no upload open that it knows of and has not tried
\* to abort, for any number of uploads.
THEOREM NothingLeftUnasked == Spec => []UploadsAccounted
<1>1. Inv => UploadsAccounted
  BY DEF Inv, Stored, Phases, UploadsAccounted
<1> QED BY <1>1, S3UploadInvariant, PTL
-----------------------------------------------------------------------------
(* Replacement *)

\* The object changes only where a put or a completion is served.
LEMMA ObjectMoves ==
    ASSUME Inv, [Next]_vars
    PROVE  \/ store'.object = store.object
           \/ /\ ghost.committed /\ ghost'.committed /\ store'.object # Before
              /\ caller' = caller
<1>1. CASE Serving
  <2>1. CASE ServeCreate
    <3>1. PICK u, next : u \in 1..MaxUploads /\ store' = Change(u, next)
      BY <2>1 DEF ServeCreate
    <3> QED BY <3>1, ChangeOne
  <2>2. CASE ServePart
    <3>1. PICK r, next : r \in wire.sent /\ r.op = "part" /\ store' = Change(r.id, next)
      BY <2>2 DEF ServePart
    <3> QED BY <3>1, SentKnown, ChangeOne
  <2>3. CASE ServePut
    <3>1. PICK r \in wire.sent : r.op = "put" /\ store' = [store EXCEPT !.object = r.data[1]]
      BY <2>3 DEF ServePut
    <3>2. store'.object = r.data[1]
      BY <3>1 DEF Inv, TypeOK, Store
    <3> QED BY <2>3, <3>1, <3>2, SentKnown, StreamIsNew DEF ServePut, Sendable
  <2>4. CASE ServeComplete
    <3>1. PICK r \in wire.sent :
            /\ r.op = "complete"
            /\ store' = [Change(r.id, [state |-> "completed", parts |-> << >>])
                            EXCEPT !.object = FlattenSeq(r.data)]
      BY <2>4 DEF ServeComplete
    <3>2. store'.object = FlattenSeq(r.data)
      BY <3>1 DEF Inv, TypeOK, Store, Change
    <3> QED BY <2>4, <3>1, <3>2, SentKnown, StreamIsNew DEF ServeComplete, Sendable
  <2>5. CASE ServeAbort
    <3>1. PICK r, next : r \in wire.sent /\ r.op = "abort" /\ store' = Change(r.id, next)
      BY <2>5 DEF ServeAbort
    <3> QED BY <3>1, SentKnown, ChangeOne
  <2> QED BY <1>1, <2>1, <2>2, <2>3, <2>4, <2>5 DEF Serving
<1>2. CASE ~Serving
  BY <1>2 DEF Next, vars, Copying, Failing, Open, Relay, StreamEnds, FinishSource, Finish,
     StartMultipart, UploadPart, Commit, Abort, Receive, GiveUp, StreamFails, Interrupted,
     CallerDies, Lose, Decline, ReplaceSource, Move
<1> QED BY <1>1, <1>2

\* What the caller was told does not change, and is told only where it is so.
LEMMA ReportMoves ==
    ASSUME Inv, Inv', [Next]_vars
    PROVE  /\ caller.pc \in {"returned", "raised", "dead"} =>
                caller'.pc = caller.pc /\ (ghost'.committed <=> ghost.committed)
           /\ caller'.pc = "returned" => store'.object # Before
           /\ store'.object # Before => ghost'.committed
<1>1. ASSUME caller.pc \in {"returned", "raised", "dead"}
      PROVE  caller'.pc = caller.pc /\ (ghost'.committed <=> ghost.committed)
  <2>1. Idle
    BY <1>1, WaitsWhere
  <2> QED
    BY <1>1, <2>1 DEF Next, vars, Copying, Failing, Serving, Open, Relay, StreamEnds,
       FinishSource, Finish, StartMultipart, UploadPart, Commit, Abort, Receive, GiveUp,
       StreamFails, Interrupted, CallerDies, Lose, Decline, ReplaceSource, ServeCreate,
       ServePart, ServePut, ServeComplete, ServeAbort
<1>2. /\ caller'.pc = "returned" => store'.object # Before
      /\ store'.object # Before => ghost'.committed
  BY DEF Inv, Phases, Stored
<1> QED BY <1>1, <1>2

\* The copy implements Replacement: the object is replaced as a whole or not at
\* all, and what was reported as settled stays true whatever arrives late.
THEOREM CopyKeepsPromise == Spec => KeepsPromise
<1>1. Init => Promise!Init
  BY DEF Init, Promise!Init
<1>2. Inv /\ Inv' /\ [Next]_vars => [Promise!Next]_(Promise!vars)
  <2> SUFFICES ASSUME Inv, Inv', [Next]_vars
               PROVE  [Promise!Next]_(Promise!vars)
    OBVIOUS
  <2> DEFINE dest == IF store.object = Before THEN "before" ELSE "after"
             report == IF caller.pc = "returned" THEN "published"
                       ELSE IF caller.pc \notin {"raised", "dead"} THEN "none"
                       ELSE IF ghost.committed THEN "unsettled" ELSE "unchanged"
  <2>1. store.object # Before => ghost.committed
    BY DEF Inv, Stored
  <2>2. caller.pc = "returned" => store.object # Before
    BY DEF Inv, Phases
  <2>3. CASE store'.object = store.object
    <3>1. dest' = dest
      BY <2>3
    <3>2. CASE report # "none"
      <4>1. report' = report
        BY <3>2, ReportMoves
      <4> QED BY <3>1, <4>1 DEF Promise!vars
    <3>3. CASE report = "none"
      <4>1. /\ report' = "published" => dest = "after"
            /\ report' = "unchanged" => dest = "before"
            /\ report' \in {"none", "published", "unchanged", "unsettled"}
        BY <2>3, ReportMoves
      <4> QED BY <3>1, <3>3, <4>1 DEF Promise!vars, Promise!Next, Promise!Reports
    <3> QED BY <3>2, <3>3
  <2>4. CASE store'.object # store.object
    <3>1. /\ ghost.committed /\ ghost'.committed /\ store'.object # Before
          /\ caller' = caller
      BY <2>4, ObjectMoves
    <3>2. report' = report
      BY <3>1
    <3>3. CASE store.object # Before
      BY <3>1, <3>2, <3>3 DEF Promise!vars
    <3>4. CASE store.object = Before
      <4>1. dest = "before" /\ dest' = "after"
        BY <3>1, <3>4
      <4>2. report \in {"none", "unsettled"}
        BY <2>2, <3>1, <3>4
      <4> QED BY <3>2, <4>1, <4>2 DEF Promise!Next, Promise!Moves
    <3> QED BY <3>3, <3>4
  <2> QED BY <2>3, <2>4
<1> QED BY <1>1, <1>2, S3UploadInvariant, PTL DEF Spec, KeepsPromise, Promise!Spec
=============================================================================
