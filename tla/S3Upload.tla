------------------------------- MODULE S3Upload -------------------------------
(***************************************************************************)
(* One copy from an S3 object to an S3 object: copy() of transfer.py over  *)
(* the source and the destination of s3.py.                                *)
(*                                                                         *)
(* A stream of up to one part is put as a whole; a longer one goes up as   *)
(* the parts of a multipart upload, which the store keeps until it is      *)
(* completed or aborted.  The SDK sends a request again when no answer     *)
(* comes, and gives up at some point: what it sent may still arrive, and   *)
(* be served, later.  Data is counted in units; the n-th unit of the       *)
(* stream is the number n.  The store is modelled from its use.            *)
(***************************************************************************)
EXTENDS Naturals, Sequences, SequencesExt

CONSTANTS
    Sizes,      \* what the source may hold, in units
    MaxChunk,   \* units that one read returns at most
    PartSize,   \* units of a part
    MaxParts,   \* parts of one upload
    MaxUploads  \* bound: identities the store has for uploads

ASSUME S3UploadAssumption ==
    /\ Sizes \subseteq Nat
    /\ {MaxChunk, PartSize, MaxParts, MaxUploads} \subseteq Nat \ {0}

VARIABLES
    source,   \* the source object, which others may replace once
    caller,   \* copy(), with the locals of both endpoints
    wire,     \* attempts at a request that may still be served
    store,    \* the destination object and the uploads to it
    ghost     \* what the caller was told and tried, for the properties

vars == << source, caller, wire, store, ghost >>

Units == Seq(Nat)

Source == [version : {0, 1}, size : [{0, 1} -> Sizes]]

\* id 0: no upload was started; opened: version of the stream; read: units of it.
Caller == [pc       : {"open", "stream", "finishSource", "finish", "commit",
                       "cancel", "abort", "returned", "raised", "dead"},
           opened   : {0, 1},
           read     : Nat,
           sourceOk : BOOLEAN,
           buffer   : Units,
           id       : 0..MaxUploads,
           parts    : Seq(Units)]

Request == [op   : {"none", "create", "part", "put", "complete", "abort"},
            id   : 0..MaxUploads,
            part : Nat,
            data : Seq(Units)]

Silence == [op |-> "none", id |-> 0, part |-> 0, data |-> << >>]

Create == [Silence EXCEPT !.op = "create"]

\* What was at the destination, no unit of the stream.
Before == << 0, 0 >>

Upload == [state : {"none", "open", "completed", "aborted"}, parts : Seq(Units)]

\* waiting: for the answer to this request; whether it was served, and the
\* identity that was given.
Wire == [waiting : Request, sent : SUBSET Request, answer : BOOLEAN \X (0..MaxUploads)]

NoAnswer == << FALSE, 0 >>

Store == [object : Units, uploads : [1..MaxUploads -> Upload]]

\* known: uploads whose identity came back; asked: uploads an abort was sent for;
\* full: a part more than allowed was needed; committed: commit() began.
Ghost == [known : SUBSET (1..MaxUploads), asked : SUBSET (1..MaxUploads),
          full : BOOLEAN, committed : BOOLEAN]
-----------------------------------------------------------------------------
Init ==
    /\ source \in [version : {0}, size : [{0, 1} -> Sizes]]
    /\ caller = [pc |-> "open", opened |-> 0, read |-> 0, sourceOk |-> FALSE,
                 buffer |-> << >>, id |-> 0, parts |-> << >>]
    /\ wire = [waiting |-> Silence, sent |-> {}, answer |-> NoAnswer]
    /\ store = [object |-> Before,
                uploads |-> [u \in 1..MaxUploads |-> [state |-> "none", parts |-> << >>]]]
    /\ ghost = [known |-> {}, asked |-> {}, full |-> FALSE, committed |-> FALSE]

ReplaceSource ==
    /\ source.version = 0
    /\ source' = [source EXCEPT !.version = 1]
    /\ UNCHANGED << caller, wire, store, ghost >>
-----------------------------------------------------------------------------
(* copy() and its endpoints *)

Idle == wire.waiting = Silence

Move(next) ==
    /\ caller' = next
    /\ UNCHANGED << source, wire, store, ghost >>

\* get_object() fixes what is streamed; a source that is not there ends it.
Open ==
    /\ caller.pc = "open"
    /\ \/ Move([caller EXCEPT !.pc = "stream", !.opened = source.version])
       \/ Move([caller EXCEPT !.pc = "raised"])

\* The except clause: cancel() before finish() has returned, and abort().
Fail == IF caller.pc \in {"stream", "finish", "finishSource"} THEN "cancel" ELSE "abort"

\* What write() and finish() send before they return.
StartsUpload == caller.id = 0 /\ Len(caller.buffer) > PartSize

FillsPart ==
    /\ caller.id # 0
    /\ \/ Len(caller.buffer) >= PartSize
       \/ caller.pc = "finish" /\ caller.buffer # << >>

Writing == StartsUpload \/ FillsPart

\* read(), and write() up to its first request.
Relay ==
    /\ caller.pc = "stream" /\ Idle /\ ~Writing
    /\ \E n \in 1..MaxChunk :
        /\ caller.read + n <= source.size[caller.opened]
        /\ Move([caller EXCEPT !.read = @ + n,
                    !.buffer = @ \o [i \in 1..n |-> caller.read + i]])

\* The stream ends, or is cut and looks like it.
StreamEnds ==
    /\ caller.pc = "stream" /\ Idle /\ ~Writing
    /\ Move([caller EXCEPT !.pc = "finishSource"])

StreamFails ==
    /\ caller.pc = "stream" /\ Idle /\ ~Writing
    /\ Move([caller EXCEPT !.pc = Fail])

\* Mutant of Intact: only the object is looked at, not the stream.
IntactByTag == source.version = caller.opened

Intact ==
    /\ caller.read = source.size[caller.opened]
    /\ source.version = caller.opened

\* finish() of the source: what was read, and the object once more.
FinishSource ==
    /\ caller.pc = "finishSource"
    /\ \E ok \in {FALSE, Intact} :
        Move([caller EXCEPT !.pc = "finish", !.sourceOk = ok])

\* finish() of the destination has sent the last part, if there are parts;
\* the source's failure is raised after it.
Finish ==
    /\ caller.pc = "finish" /\ Idle /\ ~Writing
    /\ caller' = [caller EXCEPT !.pc = IF caller.sourceOk THEN "commit" ELSE "abort"]
    /\ UNCHANGED << source, wire, store, ghost >>

Send(r) == wire' = [waiting |-> r, sent |-> wire.sent \cup {r}, answer |-> NoAnswer]

StartMultipart ==
    /\ caller.pc = "stream" /\ Idle /\ StartsUpload
    /\ Send(Create)
    /\ UNCHANGED << source, caller, store, ghost >>

\* Mutant of TooMany: as many parts as were accepted so far.
TooManyAlready == Len(caller.parts) + 1 >= MaxParts

TooMany == Len(caller.parts) + 1 > MaxParts

NextPart == SubSeq(caller.buffer, 1, IF Len(caller.buffer) < PartSize
                                     THEN Len(caller.buffer) ELSE PartSize)

UploadPart ==
    /\ caller.pc \in {"stream", "finish"} /\ Idle /\ FillsPart
    /\ IF TooMany
       THEN /\ caller' = [caller EXCEPT !.pc = Fail]
            /\ ghost' = [ghost EXCEPT !.full = TRUE]
            /\ UNCHANGED wire
       ELSE /\ Send([op |-> "part", id |-> caller.id,
                     part |-> Len(caller.parts) + 1, data |-> << NextPart >>])
            /\ UNCHANGED << caller, ghost >>
    /\ UNCHANGED << source, store >>

Commit ==
    /\ caller.pc = "commit" /\ Idle
    /\ Send(IF caller.id = 0
            THEN [Silence EXCEPT !.op = "put", !.data = << caller.buffer >>]
            ELSE [Silence EXCEPT !.op = "complete", !.id = caller.id, !.data = caller.parts])
    /\ ghost' = [ghost EXCEPT !.committed = TRUE]
    /\ UNCHANGED << source, caller, store >>

\* After cancel() comes abort(), whatever came of it.
AfterAbort == IF caller.pc = "cancel" THEN "abort" ELSE "raised"

\* Mutant of MayAbort: not before finish() has returned.
MayAbortLater == caller.id # 0 /\ caller.pc = "abort" /\ ghost.committed

MayAbort == caller.id # 0

Abort ==
    /\ caller.pc \in {"cancel", "abort"} /\ Idle
    /\ IF MayAbort
       THEN /\ Send([Silence EXCEPT !.op = "abort", !.id = caller.id])
            /\ ghost' = [ghost EXCEPT !.asked = @ \cup {caller.id}]
            /\ UNCHANGED caller
       ELSE /\ caller' = [caller EXCEPT !.pc = AfterAbort, !.buffer = << >>]
            /\ UNCHANGED << wire, ghost >>
    /\ UNCHANGED << source, store >>

NotWaiting == [wire EXCEPT !.waiting = Silence, !.answer = NoAnswer]

\* What the caller does with an answer.
Received(r, u) ==
    CASE r.op = "create"   -> [caller EXCEPT !.id = u]
      [] r.op = "part"     -> [caller EXCEPT !.parts = @ \o r.data,
                                  !.buffer = SubSeq(@, Len(r.data[1]) + 1, Len(@))]
      [] r.op = "put"      -> [caller EXCEPT !.pc = "returned", !.buffer = << >>]
      [] r.op = "complete" -> [caller EXCEPT !.pc = "returned", !.id = 0]
      [] r.op = "abort"    -> [caller EXCEPT !.pc = AfterAbort, !.id = 0]

Receive ==
    /\ ~Idle /\ wire.answer[1]
    /\ caller' = Received(wire.waiting, wire.answer[2])
    /\ wire' = NotWaiting
    /\ ghost' = [ghost EXCEPT !.known = @ \cup ({wire.answer[2]} \ {0})]
    /\ UNCHANGED << source, store >>

\* Mutant of GiveUp: a commit without an answer is taken for done.
GiveUpHoping ==
    /\ ~Idle /\ ~wire.answer[1]
    /\ caller' = IF wire.waiting.op = "put" THEN Received(wire.waiting, 0)
                 ELSE [caller EXCEPT !.pc = IF wire.waiting.op = "abort" THEN AfterAbort ELSE Fail]
    /\ wire' = NotWaiting
    /\ UNCHANGED << source, store, ghost >>

\* An error answer, none to the last attempt, or a client that cannot send.
GiveUp ==
    /\ ~Idle /\ ~wire.answer[1]
    /\ caller' = [caller EXCEPT !.pc = IF wire.waiting.op = "abort" THEN AfterAbort ELSE Fail]
    /\ wire' = NotWaiting
    /\ UNCHANGED << source, store, ghost >>

\* Ctrl-C or a cancelled job, at any point before the cleanup.
Interrupted ==
    /\ caller.pc \in {"stream", "finishSource", "finish", "commit"}
    /\ caller' = [caller EXCEPT !.pc = Fail]
    /\ wire' = NotWaiting
    /\ UNCHANGED << source, store, ghost >>

CallerDies ==
    /\ caller.pc \notin {"returned", "raised", "dead"}
    /\ caller' = [caller EXCEPT !.pc = "dead"]
    /\ wire' = NotWaiting
    /\ UNCHANGED << source, store, ghost >>
-----------------------------------------------------------------------------
(* The SDK and the store *)

\* What a served attempt leaves: it is forgotten, or has been sent again while
\* its caller waits; its answer is on its way, or lost.
Answer(r, ok, u) ==
    \E sent \in {wire.sent \ {r}} \cup (IF r = wire.waiting THEN {wire.sent} ELSE {}),
       answer \in {wire.answer} \cup (IF r = wire.waiting THEN {<< ok, u >>} ELSE {}) :
        wire' = [wire EXCEPT !.sent = sent, !.answer = answer]

Change(u, next) == [store EXCEPT !.uploads[u] = next]

ServeCreate ==
    /\ Create \in wire.sent
    /\ \E u \in 1..MaxUploads :
        /\ store.uploads[u].state = "none"
        /\ store' = Change(u, [state |-> "open", parts |-> << >>])
        /\ Answer(Create, TRUE, u)
    /\ UNCHANGED << source, caller, ghost >>

IsOpen(u) == store.uploads[u].state = "open"

\* A part replaces the one of its number.
ServePart ==
    /\ \E r \in wire.sent :
        /\ r.op = "part" /\ IsOpen(r.id)
        /\ LET old == store.uploads[r.id].parts
           IN  store' = Change(r.id, [state |-> "open",
                    parts |-> IF r.part > Len(old) THEN old \o r.data
                              ELSE [old EXCEPT ![r.part] = r.data[1]]])
        /\ Answer(r, TRUE, 0)
    /\ UNCHANGED << source, caller, ghost >>

ServePut ==
    /\ \E r \in wire.sent :
        /\ r.op = "put"
        /\ store' = [store EXCEPT !.object = r.data[1]]
        /\ Answer(r, TRUE, 0)
    /\ UNCHANGED << source, caller, ghost >>

\* The parts must be those the store has.
ServeComplete ==
    /\ \E r \in wire.sent :
        /\ r.op = "complete" /\ IsOpen(r.id) /\ r.data = store.uploads[r.id].parts
        /\ store' = [Change(r.id, [state |-> "completed", parts |-> << >>])
                        EXCEPT !.object = FlattenSeq(r.data)]
        /\ Answer(r, TRUE, 0)
    /\ UNCHANGED << source, caller, ghost >>

ServeAbort ==
    /\ \E r \in wire.sent :
        /\ r.op = "abort" /\ IsOpen(r.id)
        /\ store' = Change(r.id, [state |-> "aborted", parts |-> << >>])
        /\ Answer(r, TRUE, 0)
    /\ UNCHANGED << source, caller, ghost >>

\* No such upload any more, or no wish to serve it.  A store may answer that a
\* completed upload is complete.
Decline ==
    /\ \E r \in wire.sent :
        \/ Answer(r, FALSE, 0)
        \/ /\ r.op = "complete" /\ store.uploads[r.id].state = "completed"
           /\ Answer(r, TRUE, 0)
    /\ UNCHANGED << source, caller, store, ghost >>

Lose ==
    /\ \E r \in wire.sent : wire' = [wire EXCEPT !.sent = @ \ {r}]
    /\ UNCHANGED << source, caller, store, ghost >>
-----------------------------------------------------------------------------
Copying ==
    \/ Open \/ Relay \/ StreamEnds \/ FinishSource \/ Finish
    \/ StartMultipart \/ UploadPart \/ Commit \/ Abort \/ Receive \/ GiveUp

Failing == StreamFails \/ Interrupted \/ CallerDies \/ Lose \/ Decline \/ ReplaceSource

Serving == ServeCreate \/ ServePart \/ ServePut \/ ServeComplete \/ ServeAbort

Next == Copying \/ Failing \/ Serving

Spec == Init /\ [][Next]_vars

-----------------------------------------------------------------------------
TypeOK ==
    /\ source \in Source
    /\ caller \in Caller
    /\ wire \in Wire
    /\ store \in Store
    /\ ghost \in Ghost

Ended == caller.pc \in {"returned", "raised"}

\* What is published is the whole stream: each unit once and in order, however
\* the stream was cut into reads and parts, whichever attempts were repeated,
\* and none of it when the source ended early or changed (finish() of the
\* source, write() and commit() of the destination).
PublishedIsWhole ==
    store.object # Before =>
        /\ Len(store.object) = source.size[caller.opened]
        /\ \A i \in DOMAIN store.object : store.object[i] = i

\* The parts are what the store accepts, all but the last of full size and no
\* more than their limit; nothing longer than a part is put; the limit strikes
\* only a stream that needs more; no more than a part and a chunk is held.
PartsFit ==
    /\ \A i \in DOMAIN caller.parts :
        /\ Len(caller.parts[i]) \in 1..PartSize
        /\ i < Len(caller.parts) => Len(caller.parts[i]) = PartSize
    /\ Len(caller.parts) <= MaxParts
    /\ wire.waiting.op = "put" => Len(wire.waiting.data[1]) <= PartSize
    /\ ghost.full => caller.read > MaxParts * PartSize
    /\ Len(caller.buffer) < PartSize + MaxChunk + 1

\* A copy that has ended, whichever way, leaves an upload open only if its
\* identity never came back or an abort for it was sent in vain.
UploadsAccounted ==
    \A u \in 1..MaxUploads :
        Ended /\ IsOpen(u) /\ u \in ghost.known => u = caller.id /\ u \in ghost.asked

Promise == INSTANCE Replacement WITH
    dest <- IF store.object = Before THEN "before" ELSE "after",
    report <- IF caller.pc = "returned" THEN "published"
              ELSE IF caller.pc \notin {"raised", "dead"} THEN "none"
              ELSE IF ghost.committed THEN "unsettled" ELSE "unchanged"

\* An object is replaced as a whole or not at all; "published" and a failure
\* before the commit are true and stay true, whatever arrives late.
KeepsPromise == Promise!Spec
=============================================================================
