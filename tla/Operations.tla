----------------------------- MODULE Operations -----------------------------
(***************************************************************************)
(* One operation on a resource: the calls of application.py, the backends  *)
(* local.py, docker.py, ssh.py and s3.py, and the helper that docker and   *)
(* ssh run on the other side (_helper.py, _scripts/operations.py and       *)
(* _scripts/deletion.py).                                                  *)
(*                                                                         *)
(* A local resource is worked on by the calling process itself.  A helper  *)
(* is a process elsewhere, behind a transport that can be cut at any time: *)
(* it reads its request up to the end of its input, so that a cut is not   *)
(* told from the end, and it goes on when nobody waits for it any more.    *)
(* An object store serves whole requests or none, each when it gets to it: *)
(* a request the SDK repeated may be served after the repetition was       *)
(* answered.  What the caller does not know is why its claim stays: the    *)
(* row here is the one of Coordination.operation(), reduced to the claims  *)
(* of a whole resource.                                                    *)
(*                                                                         *)
(* The calls work on one destination: an entry in a directory that may not *)
(* exist yet.  A command under compute.exec may write it; what a command   *)
(* leaves behind on purpose, detached, is its own affair and not shown.    *)
(***************************************************************************)
EXTENDS Naturals, FiniteSets

CONSTANTS
    Calls,      \* operation identities, each with a process that calls
    Providers,  \* what the resource may be: "local", "helper" or "object"
    Requests,   \* what each call may ask for
    Attempts,   \* how often the SDK sends one request at most
    Big,        \* contents over the limit of a bounded read
    Original,   \* what is at the destination before
    Foreign,    \* what others, who know nothing of Ridge, put there
    Nothing     \* no content, no request, no call

Kind == {"write", "read", "look", "delete", "exec"}

\* tree: delete names the directory, recursively.  timed: exec has a timeout.
Request == [kind : Kind, tree : BOOLEAN, timed : BOOLEAN]

Mutating == {"write", "delete", "exec"}

\* What a call writes, whole or cut short.
Content == (Calls \X {"whole", "torn"}) \cup {Original, Foreign}

ASSUME OperationsAssumption ==
    /\ Providers \subseteq {"local", "helper", "object"}
    /\ Requests \in [Calls -> SUBSET Request]
    /\ Attempts \in Nat \ {0}
    /\ Big \subseteq Content
    /\ {Original, Foreign, Nothing} \cap (Calls \X {"whole", "torn"}) = {}
    /\ Nothing \notin {Original, Foreign} \cup Request \cup Calls

VARIABLES
    provider,  \* of the resource; never changes
    call,      \* the calling processes
    row,       \* their rows in lock_operations
    link,      \* the transports of helpers
    work,      \* who serves each call
    resent,    \* the requests the SDK repeated
    command,   \* processes of a command under compute.exec
    disk,      \* the destination, its directory and the files staged in it
    last       \* the mutating call admitted last

vars == << provider, call, row, link, work, resent, command, disk, last >>

CallState == [pc      : {"idle", "admitted", "waiting", "ok", "error", "dead"},
              request : Request \cup {Nothing},
              got     : Content \cup {Nothing}]

RowState == [status : {"none", "active", "uncertain", "released"},
             forced : {"no", "idle", "working"}]   \* by an operator, and what was going on

\* The request on its way, or through; the transport gone before it was, or after.
LinkState == {"sending", "sent", "cut", "lost"}

WorkState == [pc    : {"none", "start", "ready", "checked", "staged", "filled",
                       "opened", "sweeping", "running", "exited", "killed"},
              input : {"torn", "whole"},
              body  : Content \cup {Nothing},
              todo  : SUBSET (Calls \cup {"file"}),  \* entries left of a tree
              ok    : BOOLEAN]

\* How often a request was repeated; how many of the attempts that were given
\* up are whole and not served yet; and whether one of them was served after
\* another mutating call had been admitted.
Resent == [times : Nat, late : Nat, strayed : BOOLEAN]

Disk == [parent : BOOLEAN, file : Content \cup {Nothing}, temps : SUBSET Calls]

Asked(c) == call[c].request

Kinds(c) == Asked(c).kind

\* A helper, a command or the last attempt at a request may still act.
Working(c) ==
    \/ work[c].pc \notin {"none", "exited", "killed"}
    \/ command[c] # "none"

Up(c) == link[c] \in {"sending", "sent"}

\* The client of the transport is gone.
HungUp(c) == [link EXCEPT ![c] = IF @ \in {"sending", "cut"} THEN "cut" ELSE "lost"]
-----------------------------------------------------------------------------
Init ==
    /\ provider \in Providers
    /\ call = [c \in Calls |-> [pc |-> "idle", request |-> Nothing, got |-> Nothing]]
    /\ row = [c \in Calls |-> [status |-> "none", forced |-> "no"]]
    /\ link = [c \in Calls |-> "sending"]
    /\ work = [c \in Calls |-> [pc |-> "none", input |-> "whole", body |-> Nothing,
                             todo |-> {}, ok |-> FALSE]]
    /\ resent = [c \in Calls |-> [times |-> 0, late |-> 0, strayed |-> FALSE]]
    /\ command = [c \in Calls |-> "none"]
    /\ disk \in {[parent |-> TRUE, file |-> Original, temps |-> {}],
                 [parent |-> FALSE, file |-> Nothing, temps |-> {}]}
    /\ last = Nothing

\* What a call of one kind may share the resource with.
Compatible(k, other) == k \notin Mutating /\ other \notin Mutating

Admit(c, r) ==
    /\ call[c].pc = "idle"
    /\ provider = "object" => r.kind # "exec" /\ ~r.tree
    /\ \A o \in Calls :
            row[o].status \in {"active", "uncertain"} => Compatible(r.kind, Kinds(o))
    /\ call' = [call EXCEPT ![c] = [@ EXCEPT !.pc = "admitted", !.request = r]]
    /\ row' = [row EXCEPT ![c].status = "active"]
    /\ last' = IF r.kind \in Mutating THEN c ELSE last
    /\ UNCHANGED << provider, link, work, resent, command, disk >>

\* The backend is called; a local one needs no transport.
Invoke(c) ==
    /\ call[c].pc = "admitted"
    /\ call' = [call EXCEPT ![c].pc = "waiting"]
    /\ work' = [work EXCEPT ![c].pc = IF provider = "local" THEN "ready" ELSE "start"]
    /\ UNCHANGED << provider, row, link, resent, command, disk, last >>

\* Mutant: an exception proves the end of whatever was no command.
SafeUnlessExec(c) == Kinds(c) # "exec"

\* Mutant: an exception out of a local call proves that nothing runs.
SafeIfLocal(c) == provider = "local"

\* operation(): an exception proves the end of local work other than a command.
SafeError(c) == provider = "local" /\ Kinds(c) # "exec"

Settled(c, safe) ==
    [row EXCEPT ![c].status =
        IF @ # "active" THEN @ ELSE IF safe THEN "released" ELSE "uncertain"]

\* The call comes back: its answer, or an exception, and the row with it.
Return(c, pc, got, safe) ==
    /\ call' = [call EXCEPT ![c] = [@ EXCEPT !.pc = pc, !.got = got]]
    /\ row' = Settled(c, safe)
    /\ link' = HungUp(c)

\* Which calls give up by themselves: _invoke() has a default of ten seconds,
\* passes exec's own timeout on and none for delete; the SDK has its own.
HasTimeout(r) ==
    \/ provider = "object"
    \/ provider = "helper" /\ (r.kind \in {"write", "read", "look"} \/ r.timed)

\* A client that cannot be started, or a request the SDK does not send.
CannotInvoke(c) ==
    /\ call[c].pc = "admitted" /\ provider # "local"
    /\ Return(c, "error", Nothing, SafeError(c))
    /\ UNCHANGED << provider, work, resent, command, disk, last >>
-----------------------------------------------------------------------------
(* The transport of a helper, and of a request to an object store *)

WorkMove(c, next) ==
    /\ work' = [work EXCEPT ![c] = next]
    /\ UNCHANGED << provider, call, row, link, resent, last >>

\* communicate() got the whole input through.
Deliver(c) ==
    /\ provider # "local" /\ call[c].pc = "waiting" /\ link[c] = "sending"
    /\ link' = [link EXCEPT ![c] = "sent"]
    /\ UNCHANGED << provider, call, row, work, resent, command, disk, last >>

LinkBreaks(c) ==
    /\ provider # "local" /\ call[c].pc = "waiting" /\ Up(c)
    /\ link' = HungUp(c)
    /\ UNCHANGED << provider, call, row, work, resent, command, disk, last >>

\* A store takes a request when it is complete.
StoreReceives(c) ==
    /\ provider = "object" /\ work[c].pc = "start" /\ link[c] \in {"sent", "lost"}
    /\ WorkMove(c, [work[c] EXCEPT !.pc = "ready"])
    /\ UNCHANGED << command, disk >>

\* Mutant: deletions go through the client of everything else.
RetriedAlike(c) == TRUE

\* The SDK repeats a request; the client for deletions does not.
Retried(c) == Kinds(c) # "delete"

\* A request that failed is sent once more.  Nothing takes back the attempt
\* before: the store may have it whole and serve it later.
Retry(c) ==
    /\ provider = "object" /\ call[c].pc = "waiting" /\ ~Up(c)
    /\ Retried(c) /\ resent[c].times + 1 < Attempts
    /\ link' = [link EXCEPT ![c] = "sending"]
    /\ work' = [work EXCEPT ![c].pc = "start", ![c].ok = FALSE, ![c].body = Nothing]
    /\ resent' = [resent EXCEPT
            ![c].times = @ + 1,
            ![c].late = IF /\ Kinds(c) \in {"write", "delete"} /\ link[c] = "lost"
                          /\ work[c].pc \in {"start", "ready"}
                       THEN @ + 1 ELSE @]
    /\ UNCHANGED << provider, call, row, command, disk, last >>

\* The request line, and for a write what follows it until the input ends.
HelperReads(c) ==
    /\ provider = "helper" /\ work[c].pc = "start"
    /\ \/ link[c] \in {"sent", "lost"} /\ WorkMove(c, [work[c] EXCEPT !.pc = "ready"])
       \/ /\ link[c] = "cut"
          /\ WorkMove(c, [work[c] EXCEPT !.pc = "ready",
                            !.input = IF Kinds(c) = "write" THEN "torn" ELSE "whole"])
    /\ UNCHANGED << command, disk >>

\* Cut before it started, or within the request line.
NeverStarts(c) ==
    /\ provider # "local" /\ work[c].pc = "start"
    /\ link[c] = "cut"
    /\ WorkMove(c, [work[c] EXCEPT !.pc = "exited"])
    /\ UNCHANGED << command, disk >>

\* The helper, its host or its container goes; a command it ran may stay.
HelperDies(c) ==
    /\ provider = "helper" /\ work[c].pc \notin {"none", "exited", "killed"}
    /\ WorkMove(c, [work[c] EXCEPT !.pc = "killed"])
    /\ command' \in {command, [command EXCEPT ![c] = "none"]}
    /\ UNCHANGED disk
-----------------------------------------------------------------------------
(* What is done on the resource *)

Exit(c, ok) == [work[c] EXCEPT !.pc = "exited", !.ok = ok]

\* The destination cannot be what is asked for: a path that leaves the root, a
\* directory or a special file in the way, no program of that name.
Refuse(c) ==
    /\ work[c].pc = "ready"
    /\ WorkMove(c, Exit(c, FALSE))
    /\ UNCHANGED << command, disk >>

\* mkdir(parents=True), and the checks after it.
MakeParents(c) ==
    /\ work[c].pc = "ready" /\ Kinds(c) = "write" /\ provider # "object"
    /\ disk' = [disk EXCEPT !.parent = TRUE]
    /\ \/ WorkMove(c, [work[c] EXCEPT !.pc = "checked"])
       \/ WorkMove(c, Exit(c, FALSE))
    /\ UNCHANGED command

\* mkstemp() beside the destination.
Stage(c) ==
    /\ work[c].pc = "checked"
    /\ IF disk.parent
       THEN /\ disk' = [disk EXCEPT !.temps = @ \cup {c}]
            /\ WorkMove(c, [work[c] EXCEPT !.pc = "staged"])
       ELSE UNCHANGED disk /\ WorkMove(c, Exit(c, FALSE))
    /\ UNCHANGED command

Unstaged(c) == [disk EXCEPT !.temps = @ \ {c}]

\* write(): a full disk takes the staged file back.
Fill(c) ==
    /\ work[c].pc = "staged"
    /\ \/ UNCHANGED disk /\ WorkMove(c, [work[c] EXCEPT !.pc = "filled"])
       \/ disk' = Unstaged(c) /\ WorkMove(c, Exit(c, FALSE))
    /\ UNCHANGED command

\* os.replace(), and the unlink() that finds nothing left; a staged file that
\* somebody removed cannot be moved.
Publish(c) ==
    /\ work[c].pc = "filled"
    /\ \/ /\ c \in disk.temps
          /\ disk' = [Unstaged(c) EXCEPT !.file = << c, work[c].input >>]
          /\ WorkMove(c, Exit(c, TRUE))
       \/ disk' = Unstaged(c) /\ WorkMove(c, Exit(c, FALSE))
    /\ UNCHANGED command

\* delete_path() of an entry: gone already is no error.
Remove(c) ==
    /\ work[c].pc = "ready" /\ Kinds(c) = "delete" /\ ~Asked(c).tree
    /\ disk' = [disk EXCEPT !.file = Nothing]
    /\ WorkMove(c, Exit(c, TRUE))
    /\ UNCHANGED command

Entries == disk.temps \cup (IF disk.file = Nothing THEN {} ELSE {"file"})

\* delete_path() of the directory: what scandir() finds ...
Scan(c) ==
    /\ work[c].pc = "ready" /\ Kinds(c) = "delete" /\ Asked(c).tree
    /\ WorkMove(c, IF disk.parent
                   THEN [work[c] EXCEPT !.pc = "sweeping", !.todo = Entries]
                   ELSE Exit(c, TRUE))
    /\ UNCHANGED << command, disk >>

\* ... is removed one after the other ...
RemoveEntry(c) ==
    /\ work[c].pc = "sweeping"
    /\ \E e \in work[c].todo :
        /\ disk' = [disk EXCEPT !.temps = @ \ {e},
                                !.file = IF e = "file" THEN Nothing ELSE @]
        /\ WorkMove(c, [work[c] EXCEPT !.todo = @ \ {e}])
    /\ UNCHANGED command

\* ... and the directory last, if nothing has come since.  An entry that
\* cannot be removed ends it half-way.
RemoveTree(c) ==
    /\ work[c].pc = "sweeping"
    /\ \/ /\ work[c].todo = {} /\ Entries = {}
          /\ disk' = [disk EXCEPT !.parent = FALSE]
          /\ WorkMove(c, Exit(c, TRUE))
       \/ UNCHANGED disk /\ WorkMove(c, Exit(c, FALSE))
    /\ UNCHANGED command

\* put_object() or delete_object() of a store.
Replaced(c) ==
    [disk EXCEPT !.file = IF Kinds(c) = "write" THEN << c, "whole" >> ELSE Nothing]

ReplaceObject(c) ==
    /\ provider = "object" /\ work[c].pc = "ready" /\ Kinds(c) \in {"write", "delete"}
    /\ disk' = Replaced(c)
    /\ WorkMove(c, Exit(c, TRUE))
    /\ UNCHANGED command

\* An attempt that was given up, for which nobody waits.
ServeLate(c) ==
    /\ resent[c].late > 0
    /\ disk' = Replaced(c)
    /\ resent' = [resent EXCEPT ![c].late = @ - 1, ![c].strayed = @ \/ last # c]
    /\ UNCHANGED << provider, call, row, link, work, command, last >>

\* A bounded read: the size as the metadata tells it ...
CheckSize(c) ==
    /\ work[c].pc = "ready" /\ Kinds(c) = "read"
    /\ WorkMove(c, IF disk.file \in Big \cup {Nothing}
                   THEN Exit(c, FALSE)
                   ELSE [work[c] EXCEPT !.pc = "opened"])
    /\ UNCHANGED << command, disk >>

\* Mutant of ReadBody: the size was checked.
ReadBodyTrusting(c) ==
    /\ work[c].pc = "opened"
    /\ WorkMove(c, IF disk.file = Nothing
                   THEN Exit(c, FALSE)
                   ELSE [Exit(c, TRUE) EXCEPT !.body = disk.file])
    /\ UNCHANGED << command, disk >>

\* ... and the content, with one more byte than the limit allows.
ReadBody(c) ==
    /\ work[c].pc = "opened"
    /\ WorkMove(c, IF disk.file \in Big \cup {Nothing}
                   THEN Exit(c, FALSE)
                   ELSE [Exit(c, TRUE) EXCEPT !.body = disk.file])
    /\ UNCHANGED << command, disk >>

\* list, stat and probe.
Look(c) ==
    /\ work[c].pc = "ready" /\ Kinds(c) = "look"
    /\ WorkMove(c, Exit(c, disk.file # Nothing))
    /\ UNCHANGED << command, disk >>

\* subprocess.run()
Spawn(c) ==
    /\ work[c].pc = "ready" /\ Kinds(c) = "exec"
    /\ WorkMove(c, [work[c] EXCEPT !.pc = "running"])
    /\ command' = [command EXCEPT ![c] = "running"]
    /\ UNCHANGED disk

CommandWrites(c) ==
    /\ command[c] # "none" /\ disk.parent
    /\ disk' = [disk EXCEPT !.file = << c, "whole" >>]
    /\ UNCHANGED << provider, call, row, link, work, resent, command, last >>

\* With the output, which whoever inherited it keeps open.
CommandEnds(c) ==
    /\ command[c] # "none"
    /\ command' = [command EXCEPT ![c] = "none"]
    /\ WorkMove(c, IF work[c].pc = "running" THEN Exit(c, TRUE) ELSE work[c])
    /\ UNCHANGED disk

\* run() kills the process it started, not what that one started.
Killed(c) == [command EXCEPT ![c] = IF @ = "none" THEN "none" ELSE "stray"]

ExecTimeout(c) ==
    /\ work[c].pc = "running" /\ Asked(c).timed
    /\ WorkMove(c, Exit(c, FALSE))
    /\ command' \in {Killed(c), [command EXCEPT ![c] = "none"]}
    /\ UNCHANGED disk

Write(c) == MakeParents(c) \/ Stage(c) \/ Fill(c) \/ Publish(c)

Delete(c) == (provider # "object" /\ Remove(c)) \/ Scan(c) \/ RemoveEntry(c) \/ RemoveTree(c)

Exec(c) == Spawn(c) \/ ExecTimeout(c)

Read(c) == CheckSize(c) \/ ReadBody(c)

\* The local backend, within the calling process.
LocalWrite(c) == provider = "local" /\ Write(c)

LocalRead(c) == provider = "local" /\ Read(c)

LocalLook(c) == provider = "local" /\ Look(c)

LocalExec(c) == provider = "local" /\ Exec(c)

LocalDelete(c) == provider = "local" /\ Delete(c)

Local(c) ==
    \/ LocalWrite(c) \/ LocalRead(c) \/ LocalLook(c) \/ LocalExec(c) \/ LocalDelete(c)
    \/ provider = "local" /\ Refuse(c)

\* main() of the helper.
Helper(c) ==
    /\ provider = "helper"
    /\ Write(c) \/ Read(c) \/ Look(c) \/ Refuse(c) \/ Exec(c) \/ Delete(c)

StoreRead(c) == provider = "object" /\ (Read(c) \/ Look(c) \/ Refuse(c))
-----------------------------------------------------------------------------
(* How the call ends *)

\* _invoke(): an answer is read only from a transport that ended well.
Answered(c) ==
    /\ call[c].pc = "waiting" /\ work[c].pc = "exited"
    /\ provider = "local" \/ Up(c)
    /\ IF work[c].ok
       THEN Return(c, "ok", work[c].body, TRUE)
       ELSE Return(c, "error", Nothing, SafeError(c))
    /\ UNCHANGED << provider, work, resent, command, disk, last >>

\* The transport failed, or what came over it is no answer.
Unavailable(c) ==
    /\ provider # "local" /\ call[c].pc = "waiting"
    /\ ~Up(c) \/ work[c].pc = "killed"
    /\ Return(c, "error", Nothing, SafeError(c))
    /\ UNCHANGED << provider, work, resent, command, disk, last >>

\* Mutant: only the connection has a time limit.
ConnectTimeout(c) ==
    /\ call[c].pc = "waiting" /\ HasTimeout(Asked(c)) /\ link[c] = "sending"
    /\ Return(c, "error", Nothing, SafeError(c))
    /\ UNCHANGED << provider, work, resent, command, disk, last >>

\* run() kills the client; nobody tells the other side.
TransportTimeout(c) ==
    /\ call[c].pc = "waiting" /\ HasTimeout(Asked(c))
    /\ Return(c, "error", Nothing, SafeError(c))
    /\ UNCHANGED << provider, work, resent, command, disk, last >>

\* The local work of a process that stops.
Stopped(c) ==
    IF provider = "local" /\ work[c].pc \notin {"none", "exited"}
    THEN [work EXCEPT ![c].pc = "killed"]
    ELSE work

\* Ctrl-C: no Exception, so nothing is proved; local work cleans up on its way.
Interrupted(c) ==
    /\ call[c].pc \in {"admitted", "waiting"}
    /\ Return(c, "error", Nothing, FALSE)
    /\ work' = Stopped(c)
    /\ disk' = IF provider = "local" THEN Unstaged(c) ELSE disk
    /\ command' \in IF provider = "local"
                    THEN {Killed(c), [command EXCEPT ![c] = "none"]}
                    ELSE {command}
    /\ UNCHANGED << provider, resent, last >>

CallerDies(c) ==
    /\ call[c].pc \in {"admitted", "waiting"}
    /\ call' = [call EXCEPT ![c].pc = "dead"]
    /\ link' = HungUp(c)
    /\ work' = Stopped(c)
    /\ UNCHANGED << provider, row, resent, command, disk, last >>

\* reconcile(): the flock of a caller that is gone is free.
Reconcile(c) ==
    /\ row[c].status = "active" /\ call[c].pc = "dead"
    /\ row' = Settled(c, FALSE)
    /\ UNCHANGED << provider, call, link, work, resent, command, disk, last >>

ForceRelease(c) ==
    /\ row[c].status = "uncertain"
    /\ row' = [row EXCEPT ![c] =
            [status |-> "released", forced |-> IF Working(c) THEN "working" ELSE "idle"]]
    /\ UNCHANGED << provider, call, link, work, resent, command, disk, last >>

\* Somebody outside of Ridge replaces the destination.
Outside ==
    /\ disk.parent /\ disk.file # Foreign
    /\ disk' = [disk EXCEPT !.file = Foreign]
    /\ UNCHANGED << provider, call, row, link, work, resent, command, last >>
-----------------------------------------------------------------------------
Transport(c) ==
    \/ Deliver(c) \/ LinkBreaks(c) \/ HelperReads(c) \/ StoreReceives(c)
    \/ Retry(c) \/ NeverStarts(c) \/ HelperDies(c)

Fault(c) == Interrupted(c) \/ CallerDies(c)

Comeback(c) ==
    \/ Invoke(c) \/ Answered(c) \/ Unavailable(c) \/ TransportTimeout(c) \/ Reconcile(c)

Next ==
    \/ \E c \in Calls :
        \/ \E r \in Requests[c] : Admit(c, r)
        \/ Transport(c) \/ Local(c) \/ Helper(c) \/ StoreRead(c) \/ ReplaceObject(c)
        \/ ServeLate(c) \/ CommandWrites(c) \/ CommandEnds(c)
        \/ CannotInvoke(c) \/ Comeback(c) \/ Fault(c) \/ ForceRelease(c)
    \/ Outside

Spec == Init /\ [][Next]_vars

\* Callers go on, their timeouts run out, somebody looks at the rows; local
\* work gets on.  Nothing is assumed of transports, helpers and commands.
FairSpec ==
    /\ Spec
    /\ \A c \in Calls : WF_vars(Comeback(c)) /\ WF_vars(Local(c))
-----------------------------------------------------------------------------
TypeOK ==
    /\ provider \in Providers
    /\ call \in [Calls -> CallState]
    /\ row \in [Calls -> RowState]
    /\ link \in [Calls -> LinkState]
    /\ work \in [Calls -> WorkState]
    /\ resent \in [Calls -> Resent]
    /\ command \in [Calls -> {"none", "running", "stray"}]
    /\ disk \in Disk
    /\ last \in Calls \cup {Nothing}

\* A claim that was released without an operator, by an answer or by local work
\* that failed, leaves nothing of its call: no helper and no process of a
\* command that could still act, no staged file, no content cut short.  (What
\* it may leave in the hands of an object store is in Strays, below.)
ReleasedIsOver ==
    \A c \in Calls :
        row[c].status = "released" /\ row[c].forced = "no"
            => /\ ~Working(c)
               /\ c \notin disk.temps
               /\ disk.file # << c, "torn" >>

\* A force-release that came while a helper or a command was still at work.
Careless == \E c \in Calls : row[c].forced = "working"

\* What other writes to an object store left in the store's hands, and it
\* served when the next call had been admitted.
Strays(c) == {<< o, "whole" >> : o \in {o \in Calls \ {c} : resent[o].strayed}}

\* What a call was told to have done is there: a write that returned is whole
\* and stands, and what a deletion removed stays away, until somebody else is
\* admitted or acts outside; no helper that was given up on undoes it later,
\* and no deletion.  Only a write to an object store can: write_object() goes
\* through the client that repeats requests, and an attempt it gave up may be
\* served after its repetition was answered and the claim released.
AnswersStand ==
    \A c \in Calls :
        call[c].pc = "ok" /\ last = c /\ ~Careless
            => /\ Kinds(c) = "write"
                    => disk.file \in {<< c, "whole" >>, Foreign} \cup Strays(c)
               /\ Kinds(c) = "delete"
                    => disk.file \in {Nothing, Foreign} \cup Strays(c)

\* A bounded read returns no more than its limit, whatever became of the file
\* between the look at its size and the reading.
ReadsWithinLimit == \A c \in Calls : call[c].got \notin Big

\* Whoever knows a time limit comes back and settles the row: local work other
\* than a command without a timeout, and remote work the transport bounds,
\* whatever the other side does.
Bounded(c) ==
    \/ HasTimeout(Asked(c))
    \/ provider = "local" /\ (Kinds(c) # "exec" \/ Asked(c).timed)

CallsSettle ==
    \A c \in Calls :
        (row[c].status = "active" /\ (Bounded(c) \/ call[c].pc = "dead"))
            ~> row[c].status # "active"
=============================================================================
