------------------------------ MODULE Transfer ------------------------------
(***************************************************************************)
(* One copy between two resources: src/ridge/transfer.py, the caller's     *)
(* side of both endpoints in src/ridge/backends/_transfer.py, and the      *)
(* helpers they run next to the data,                                      *)
(* src/ridge/backends/_scripts/transfer.py.                                *)
(*                                                                         *)
(* An exporter streams the source, the caller relays it, a stager writes   *)
(* it beside the destination, and a control helper moves it in (commit) or *)
(* removes it (abort).  Helpers run on other machines: a connection may    *)
(* break while its helper goes on, a helper may die between any two steps, *)
(* and any of its file operations may fail.  The payload is a number of    *)
(* chunks, each carrying the version of the source it was read from.  The  *)
(* directories created above the destination are left out: cleanup removes *)
(* them only where they are empty.                                         *)
(***************************************************************************)
EXTENDS Naturals, Sequences

CONSTANT Size   \* chunks in the source, which is one longer once it changed

ASSUME TransferAssumption == Size \in Nat

VARIABLES
    version,    \* of the source, which others may change once
    exporter,   \* export-file or export-tree
    caller,     \* copy(), with the locals of its destination
    stager,     \* stage-file or stage-tree
    committer,  \* the control helper of commit()
    cleaner,    \* the control helper of abort()
    fs          \* the destination's file system

vars == << version, exporter, caller, stager, committer, cleaner, fs >>

\* seen: the version of the snapshot; sent: the version of each chunk.
Exporter == [pc   : {"none", "snapshot", "stream", "complete", "failed"},
             seen : {0, 1},
             sent : Seq({0, 1})]

\* token, staging and publication are those of ProcessTransferDestination;
\* relayed: chunks written to the stager; input: the stager's standard input;
\* cleaned: abort() returned.
Caller == [pc          : {"open", "await", "relay", "finishSource", "finishDest", "commit",
                          "committing", "cancel", "abort", "aborting",
                          "returned", "raised", "dead"},
           relayed     : Nat,
           sourceOk    : BOOLEAN,
           input       : {"open", "closed"},
           token       : BOOLEAN,
           staging     : {"UNCONFIRMED", "STOPPED", "FINISHED"},
           publication : {"NOT_ATTEMPTED", "FAILED", "UNCONFIRMED", "PUBLISHED"},
           cleaned     : BOOLEAN]

\* link: whether its answers still reach the caller; answer: the last one.
Stager == [pc       : {"none", "prepare", "announce", "receive", "staged", "failing",
                       "exited", "failed"},
           link     : {"up", "down"},
           answer   : {"none", "ready", "stopped", "finished"},
           received : Nat]

\* exists: the target was there; phase: what the rollback came to.
Control == [pc     : {"none", "load", "intent", "backup", "publish", "rollback", "note",
                      "record", "remove", "exited"},
            link   : {"up", "down"},
            answer : {"none", "ok", "failed"},
            exists : BOOLEAN,
            phase  : {"none", "rolled_back", "rollback_failed"}]

Phase == {"none", "receiving", "staged", "staging_failed", "publishing",
          "rolled_back", "rollback_failed", "published"}

\* Where the previous destination is, where the payload is, and the staging
\* directory with the phase its metadata file records.
FileSystem == [old     : {"none", "target", "replaced", "gone"},
               payload : {"none", "stage", "target", "gone"},
               stage   : BOOLEAN,
               phase   : Phase]

TargetExists == fs.old = "target" \/ fs.payload = "target"
-----------------------------------------------------------------------------
Init ==
    /\ version = 0
    /\ exporter = [pc |-> "none", seen |-> 0, sent |-> << >>]
    /\ caller = [pc |-> "open", relayed |-> 0, sourceOk |-> FALSE, input |-> "open",
                 token |-> FALSE, staging |-> "UNCONFIRMED",
                 publication |-> "NOT_ATTEMPTED", cleaned |-> FALSE]
    /\ stager = [pc |-> "none", link |-> "up", answer |-> "none", received |-> 0]
    /\ committer = [pc |-> "none", link |-> "up", answer |-> "none",
                    exists |-> FALSE, phase |-> "none"]
    /\ cleaner = committer
    /\ \E old \in {"none", "target"} :
        fs = [old |-> old, payload |-> "none", stage |-> FALSE, phase |-> "none"]
-----------------------------------------------------------------------------
(* The source *)

ChangeSource ==
    /\ version = 0
    /\ version' = 1
    /\ UNCHANGED << exporter, caller, stager, committer, cleaner, fs >>

ExporterMove(next) ==
    /\ exporter' = next
    /\ UNCHANGED << version, caller, stager, committer, cleaner, fs >>

\* snapshot(): fingerprints of everything that will be read.
TakeSnapshot ==
    /\ exporter.pc = "snapshot"
    /\ ExporterMove([exporter EXCEPT !.pc = "stream", !.seen = version])

SendChunk ==
    /\ exporter.pc = "stream" /\ Len(exporter.sent) < Size + version
    /\ ExporterMove([exporter EXCEPT !.sent = Append(@, version)])

\* The fingerprints are compared once everything has been read.
VerifySource ==
    /\ exporter.pc = "stream" /\ Len(exporter.sent) >= Size + exporter.seen
    /\ ExporterMove([exporter EXCEPT
            !.pc = IF version = exporter.seen THEN "complete" ELSE "failed"])

\* A path that cannot be copied, a change noticed early, a death, or a
\* broken connection, behind which it does not matter whether it goes on.
ExportFails ==
    /\ exporter.pc \in {"snapshot", "stream"}
    /\ ExporterMove([exporter EXCEPT !.pc = "failed"])
-----------------------------------------------------------------------------
(* copy() and ProcessTransferDestination *)

CallerMove(next) ==
    /\ caller' = next
    /\ UNCHANGED << version, exporter, stager, committer, cleaner, fs >>

\* Both endpoints are started; the request is the stager's first input.
Open ==
    /\ caller.pc = "open"
    /\ exporter' = [exporter EXCEPT !.pc = "snapshot"]
    /\ \/ /\ caller' = [caller EXCEPT !.pc = "await"]
          /\ stager' = [stager EXCEPT !.pc = "prepare"]
       \/ /\ caller' = [caller EXCEPT !.pc = "raised"]
          /\ UNCHANGED stager
    /\ UNCHANGED << version, committer, cleaner, fs >>

\* start(): the readiness line.
Ready ==
    /\ caller.pc = "await" /\ stager.answer # "none"
    /\ CallerMove([caller EXCEPT !.pc = "relay", !.token = TRUE])

\* The stager, or the way to it, is gone.
StagerEnded == stager.link = "down" \/ stager.pc \in {"exited", "failed"}

\* It ended without one; without a token abort() has nothing to do.
NotReady ==
    /\ caller.pc = "await" /\ stager.answer = "none" /\ StagerEnded
    /\ CallerMove([caller EXCEPT !.pc = "raised", !.input = "closed"])

Relay ==
    /\ caller.pc = "relay" /\ caller.relayed < Len(exporter.sent)
    /\ CallerMove([caller EXCEPT !.relayed = @ + 1])

\* The stager does not take any more: BrokenPipeError.
RelayFails ==
    /\ caller.pc = "relay" /\ StagerEnded
    /\ CallerMove([caller EXCEPT !.pc = "cancel"])

\* A stream that was cut looks like one that ended.
RelayEnds ==
    /\ caller.pc = "relay"
    /\ \/ exporter.pc = "complete" /\ caller.relayed = Len(exporter.sent)
       \/ exporter.pc = "failed"
    /\ CallerMove([caller EXCEPT !.pc = "finishSource"])

\* Mutants of FinishSource: the exporter's exit status is not looked at; the
\* stager's input stays open.
FinishSourceBlindly ==
    /\ caller.pc = "finishSource" /\ exporter.pc \in {"complete", "failed"}
    /\ CallerMove([caller EXCEPT !.pc = "finishDest", !.input = "closed", !.sourceOk = TRUE])

FinishSourceOpen ==
    /\ caller.pc = "finishSource" /\ exporter.pc \in {"complete", "failed"}
    /\ CallerMove([caller EXCEPT !.pc = "finishDest", !.sourceOk = exporter.pc = "complete"])

\* source.finish(), then the destination's input is closed.
FinishSource ==
    /\ caller.pc = "finishSource" /\ exporter.pc \in {"complete", "failed"}
    /\ CallerMove([caller EXCEPT !.pc = "finishDest", !.input = "closed",
                                 !.sourceOk = exporter.pc = "complete"])

\* Mutant of Completion: an exit is taken for the stop report.
CompletionByExit ==
    IF stager.answer = "finished" /\ stager.link = "up" /\ stager.pc = "exited"
    THEN "FINISHED" ELSE "STOPPED"

\* _completion(): the evidence in the stager's last report and exit status.
Completion ==
    IF ~caller.token \/ stager.answer \notin {"stopped", "finished"} THEN "UNCONFIRMED"
    ELSE IF stager.answer = "finished" /\ stager.link = "up" /\ stager.pc = "exited"
    THEN "FINISHED"
    ELSE "STOPPED"

\* destination.finish(); its own failure is reported after the source's.
FinishDest ==
    /\ caller.pc = "finishDest" /\ StagerEnded
    /\ CallerMove([caller EXCEPT
            !.staging = Completion,
            !.pc = IF caller.sourceOk /\ Completion = "FINISHED" THEN "commit" ELSE "abort"])

\* commit(): the control helper is started, or cannot be.
Commit ==
    /\ caller.pc = "commit"
    /\ caller.token /\ caller.staging = "FINISHED" /\ caller.publication = "NOT_ATTEMPTED"
    /\ \/ /\ caller' = [caller EXCEPT !.publication = "UNCONFIRMED", !.pc = "committing"]
          /\ committer' = [committer EXCEPT !.pc = "load"]
       \/ /\ caller' = [caller EXCEPT !.publication = "UNCONFIRMED", !.pc = "abort"]
          /\ UNCHANGED committer
    /\ UNCHANGED << version, exporter, stager, cleaner, fs >>

Published ==
    /\ caller.pc = "committing" /\ committer.answer = "ok"
    /\ CallerMove([caller EXCEPT !.pc = "returned", !.publication = "PUBLISHED",
                                 !.token = FALSE])

\* The helper itself reported a failure, so it has ended.
PublicationFailed ==
    /\ caller.pc = "committing" /\ committer.answer = "failed"
    /\ CallerMove([caller EXCEPT !.pc = "abort", !.publication = "FAILED"])

\* Mutant of PublicationLost: a missing answer is taken for a failure.
PublicationLostAsFailed ==
    /\ caller.pc = "committing"
    /\ committer.link = "down" \/ (committer.pc = "exited" /\ committer.answer = "none")
    /\ CallerMove([caller EXCEPT !.pc = "abort", !.publication = "FAILED"])

\* The transport broke or ended without an answer: publication may still go on.
PublicationLost ==
    /\ caller.pc = "committing"
    /\ committer.link = "down" \/ (committer.pc = "exited" /\ committer.answer = "none")
    /\ CallerMove([caller EXCEPT !.pc = "abort"])

\* cancel(): close the input and wait for the report ...
CancelCollects ==
    /\ caller.pc = "cancel" /\ caller.input = "closed" /\ StagerEnded
    /\ CallerMove([caller EXCEPT !.pc = "abort", !.staging = Completion])

CancelCloses ==
    /\ caller.pc = "cancel" /\ caller.input = "open"
    /\ CallerMove([caller EXCEPT !.input = "closed"])

\* ... for two seconds, and stop the transport.
CancelTimesOut ==
    /\ caller.pc = "cancel" /\ caller.input = "closed" /\ ~StagerEnded
    /\ caller' = [caller EXCEPT !.pc = "abort"]
    /\ stager' = [stager EXCEPT !.link = "down"]
    /\ UNCHANGED << version, exporter, committer, cleaner, fs >>

\* abort() cleans up only what is known to have stopped.
MayClean ==
    /\ caller.token
    /\ caller.staging # "UNCONFIRMED"
    /\ caller.publication # "UNCONFIRMED"

Abort ==
    /\ caller.pc = "abort" /\ MayClean
    /\ caller' = [caller EXCEPT !.pc = "aborting"]
    /\ cleaner' = [cleaner EXCEPT !.pc = "load"]
    /\ UNCHANGED << version, exporter, stager, committer, fs >>

AbortRefused ==
    /\ caller.pc = "abort" /\ ~MayClean
    /\ CallerMove([caller EXCEPT !.pc = "raised"])

AbortAnswered ==
    /\ caller.pc = "aborting"
    /\ \/ /\ cleaner.answer = "ok"
          /\ CallerMove([caller EXCEPT !.pc = "raised", !.token = FALSE, !.cleaned = TRUE])
       \/ /\ cleaner.link = "down" \/ (cleaner.pc = "exited" /\ cleaner.answer # "ok")
          /\ CallerMove([caller EXCEPT !.pc = "raised"])

\* Ctrl-C, or a cancelled job: cleanup follows.  subprocess.run() kills the
\* transport of the control helper it was waiting for.
Interrupted ==
    /\ caller.pc \in {"await", "relay", "finishSource", "finishDest", "commit", "committing"}
    /\ caller' = [caller EXCEPT !.pc =
            IF @ \in {"commit", "committing"} THEN "abort" ELSE "cancel"]
    /\ committer' = [committer EXCEPT !.link =
            IF caller.pc = "committing" THEN "down" ELSE @]
    /\ UNCHANGED << version, exporter, stager, cleaner, fs >>

\* Killed, or interrupted during the cleanup.  Its pipes are closed.
CallerDies ==
    /\ caller.pc \notin {"returned", "raised", "dead"}
    /\ CallerMove([caller EXCEPT !.pc = "dead", !.input = "closed"])
-----------------------------------------------------------------------------
(* begin_stage(), stage_file() and stage_tree() *)

\* What the caller has of a helper's answer.
Told(helper, answer) == IF helper.link = "up" THEN answer ELSE helper.answer

StagerMove(next) ==
    /\ stager' = next
    /\ UNCHANGED << version, exporter, caller, committer, cleaner, fs >>

MakeStage ==
    /\ stager.pc = "prepare"
    /\ stager' = [stager EXCEPT !.pc = "announce"]
    /\ fs' = [fs EXCEPT !.stage = TRUE]
    /\ UNCHANGED << version, exporter, caller, committer, cleaner >>

\* record_phase("receiving"), then the readiness line with the token.
Announce ==
    /\ stager.pc = "announce"
    /\ stager' = [stager EXCEPT !.pc = "receive", !.answer = Told(stager, "ready")]
    /\ fs' = [fs EXCEPT !.phase = "receiving"]
    /\ UNCHANGED << version, exporter, caller, committer, cleaner >>

\* A refused path, or a startup that fails and takes its directory back if
\* it can.
StartupFails ==
    /\ stager.pc \in {"prepare", "announce"}
    /\ stager' = [stager EXCEPT !.pc = "failed"]
    /\ \E phase \in {fs.phase, IF stager.pc = "announce" THEN "receiving" ELSE fs.phase} :
        fs' \in {[fs EXCEPT !.stage = FALSE, !.phase = "none"], [fs EXCEPT !.phase = phase]}
    /\ UNCHANGED << version, exporter, caller, committer, cleaner >>

Receive ==
    /\ stager.pc = "receive" /\ stager.received < caller.relayed
    /\ stager' = [stager EXCEPT !.received = @ + 1]
    /\ fs' = [fs EXCEPT !.payload = "stage"]
    /\ UNCHANGED << version, exporter, caller, committer, cleaner >>

\* Mutant of InputEnds: the stager waits for as much as the source has.
InputEndsFull == stager.received = Size

\* The input ended, or was cut: a file, or a tree cut between two members,
\* does not show the difference.
InputEnds ==
    \/ caller.input = "closed" /\ stager.received = caller.relayed
    \/ stager.link = "down"

RecordStaged ==
    /\ stager.pc = "receive" /\ InputEnds
    /\ stager' = [stager EXCEPT !.pc = "staged"]
    /\ fs' = [fs EXCEPT !.payload = "stage", !.phase = "staged"]
    /\ UNCHANGED << version, exporter, caller, committer, cleaner >>

ReportStaged ==
    /\ stager.pc = "staged"
    /\ StagerMove([stager EXCEPT !.pc = "exited", !.answer = Told(stager, "finished")])

\* A full disk, a truncated or unacceptable archive, or SIGTERM.
StagingFails ==
    /\ stager.pc = "receive"
    /\ StagerMove([stager EXCEPT !.pc = "failing"])

\* staging_failed(): no write follows this report, recorded or not.
ReportStopped ==
    /\ stager.pc = "failing"
    /\ stager' = [stager EXCEPT !.pc = "failed", !.answer = Told(stager, "stopped")]
    /\ fs' \in {fs, [fs EXCEPT !.phase = "staging_failed"]}
    /\ UNCHANGED << version, exporter, caller, committer, cleaner >>

\* Killed, or terminated where cancel_staging() is not caught.
StagerDies ==
    /\ stager.pc \notin {"none", "exited", "failed"}
    /\ StagerMove([stager EXCEPT !.pc = "failed"])

StagerLinkBreaks ==
    /\ stager.pc # "none" /\ stager.link = "up"
    /\ StagerMove([stager EXCEPT !.link = "down"])
-----------------------------------------------------------------------------
(* commit() of the helper *)

CommitterStep(next, files) ==
    /\ committer' = next
    /\ fs' = files
    /\ UNCHANGED << version, exporter, caller, stager, cleaner >>

CommitterFails ==
    CommitterStep([committer EXCEPT !.pc = "exited", !.answer = Told(committer, "failed")], fs)

CommitLoad ==
    /\ committer.pc = "load" /\ fs.stage /\ fs.phase = "staged"
    /\ CommitterStep([committer EXCEPT !.pc = "intent", !.exists = TargetExists], fs)

\* The intent is recorded before user data moves.
CommitIntent ==
    /\ committer.pc = "intent" /\ fs.payload = "stage"
    /\ CommitterStep([committer EXCEPT !.pc = "backup"], [fs EXCEPT !.phase = "publishing"])

CommitBackup ==
    /\ committer.pc = "backup"
    /\ CommitterStep([committer EXCEPT !.pc = "publish"],
                     [fs EXCEPT !.old = IF committer.exists /\ @ = "target" THEN "replaced" ELSE @])

CommitPublish ==
    /\ committer.pc = "publish"
    /\ \/ CommitterStep([committer EXCEPT !.pc = "record"],
                        [fs EXCEPT !.payload = IF @ = "stage" THEN "target" ELSE @])
       \/ CommitterStep([committer EXCEPT !.pc = "rollback"], fs)

CommitRollback ==
    /\ committer.pc = "rollback"
    /\ \/ CommitterStep([committer EXCEPT !.pc = "note", !.phase = "rolled_back"],
                        [fs EXCEPT !.old = IF @ = "replaced" THEN "target" ELSE @])
       \/ /\ committer.exists
          /\ CommitterStep([committer EXCEPT !.pc = "note", !.phase = "rollback_failed"], fs)

CommitNote ==
    /\ committer.pc = "note"
    /\ \E phase \in {fs.phase, committer.phase} :
        CommitterStep([committer EXCEPT !.pc = "exited", !.answer = Told(committer, "failed")],
                      [fs EXCEPT !.phase = phase])

CommitRecord ==
    /\ committer.pc = "record"
    /\ CommitterStep([committer EXCEPT !.pc = "remove"], [fs EXCEPT !.phase = "published"])

\* remove_tree() of the staging directory, which may get stuck half-way.
Removed ==
    [fs EXCEPT !.stage = FALSE, !.phase = "none",
               !.payload = IF @ = "stage" THEN "gone" ELSE @,
               !.old = IF @ = "replaced" THEN "gone" ELSE @]

PartlyRemoved ==
    {[fs EXCEPT !.phase = phase, !.payload = payload, !.old = old] :
        phase \in {fs.phase, "none"}, payload \in {fs.payload, Removed.payload},
        old \in {fs.old, Removed.old}}

CommitRemove ==
    /\ committer.pc = "remove"
    /\ \/ CommitterStep([committer EXCEPT !.pc = "exited", !.answer = Told(committer, "ok")], Removed)
       \/ \E files \in PartlyRemoved : CommitterStep(committer, files)

\* What is not as it must be, or a file operation that fails.
CommitFails ==
    /\ committer.pc \in {"load", "intent", "backup", "record", "remove"}
    /\ CommitterFails

CommitterDies ==
    /\ committer.pc \notin {"none", "exited"}
    /\ CommitterStep([committer EXCEPT !.pc = "exited"], fs)

CommitterLinkBreaks ==
    /\ committer.pc # "none" /\ committer.link = "up"
    /\ CommitterStep([committer EXCEPT !.link = "down"], fs)
-----------------------------------------------------------------------------
(* abort() of the helper *)

CleanerStep(next, files) ==
    /\ cleaner' = next
    /\ fs' = files
    /\ UNCHANGED << version, exporter, caller, stager, committer >>

\* Phases in which the staging directory holds nothing but a copy.
Disposable ==
    /\ fs.stage /\ fs.phase \in {"staged", "staging_failed", "rolled_back"}
    /\ fs.old # "replaced"

CleanLoad ==
    /\ cleaner.pc = "load"
    /\ \/ Disposable /\ CleanerStep([cleaner EXCEPT !.pc = "remove"], fs)
       \/ CleanerStep([cleaner EXCEPT !.pc = "exited", !.answer = Told(cleaner, "failed")], fs)

CleanRemove ==
    /\ cleaner.pc = "remove"
    /\ \/ CleanerStep([cleaner EXCEPT !.pc = "exited", !.answer = Told(cleaner, "ok")], Removed)
       \/ CleanerStep([cleaner EXCEPT !.pc = "exited", !.answer = Told(cleaner, "failed")], fs)
       \/ \E files \in PartlyRemoved : CleanerStep(cleaner, files)

CleanerDies ==
    /\ cleaner.pc \notin {"none", "exited"}
    /\ CleanerStep([cleaner EXCEPT !.pc = "exited"], fs)

CleanerLinkBreaks ==
    /\ cleaner.pc # "none" /\ cleaner.link = "up"
    /\ CleanerStep([cleaner EXCEPT !.link = "down"], fs)
-----------------------------------------------------------------------------
Exporting == TakeSnapshot \/ SendChunk \/ VerifySource

Copying ==
    \/ Open \/ Ready \/ NotReady \/ Relay \/ RelayFails \/ RelayEnds
    \/ FinishSource \/ FinishDest
    \/ Commit \/ Published \/ PublicationFailed \/ PublicationLost
    \/ CancelCloses \/ CancelCollects \/ CancelTimesOut
    \/ Abort \/ AbortRefused \/ AbortAnswered

Staging ==
    \/ MakeStage \/ Announce \/ StartupFails \/ Receive
    \/ RecordStaged \/ ReportStaged \/ ReportStopped

Committing ==
    \/ CommitLoad \/ CommitIntent \/ CommitBackup \/ CommitPublish
    \/ CommitRollback \/ CommitNote \/ CommitRecord \/ CommitRemove \/ CommitFails

Cleaning == CleanLoad \/ CleanRemove

Failing ==
    \/ ExportFails \/ Interrupted \/ CallerDies
    \/ StagingFails \/ StagerDies \/ StagerLinkBreaks
    \/ CommitterDies \/ CommitterLinkBreaks
    \/ CleanerDies \/ CleanerLinkBreaks

Next ==
    \/ Exporting \/ Copying \/ Staging \/ Committing \/ Cleaning
    \/ Failing \/ ChangeSource

Spec == Init /\ [][Next]_vars

\* Every process that is there is scheduled.  Nothing is assumed of failures.
Fairness ==
    /\ WF_vars(Exporting) /\ WF_vars(Copying) /\ WF_vars(Staging)
    /\ WF_vars(Committing) /\ WF_vars(Cleaning)

FairSpec == Spec /\ Fairness
-----------------------------------------------------------------------------
TypeOK ==
    /\ version \in {0, 1}
    /\ exporter \in Exporter
    /\ caller \in Caller
    /\ stager \in Stager
    /\ committer \in Control
    /\ cleaner \in Control
    /\ fs \in FileSystem

\* What is published is the whole source as it was at one moment, whichever
\* process died, connection broke or source changed while it was copied
\* (finish of both endpoints before commit, the exporter's fingerprints).
PublishedIsSnapshot ==
    fs.payload = "target" =>
        /\ stager.received = Len(exporter.sent)
        /\ Len(exporter.sent) = Size + exporter.seen
        /\ \A i \in DOMAIN exporter.sent : exporter.sent[i] = exporter.seen

\* At most one helper works in the staging directory: nothing is published
\* or removed while an unconfirmed writer may still be there (_StagingState,
\* _PublicationState).
OneWriter ==
    /\ committer.pc # "none" => stager.pc = "exited"
    /\ cleaner.pc # "none" => stager.pc \in {"exited", "failed"}
    /\ cleaner.pc # "none" => committer.pc \in {"none", "exited"}

\* A copy ends, however its helpers, connections and callers fail, and a
\* caller that was killed leaves no writer behind: the closed input ends it.
CopyEnds ==
    /\ caller.pc = "await" ~> caller.pc \in {"returned", "raised", "dead"}
    /\ caller.pc = "dead" ~> stager.pc \in {"none", "exited", "failed"}

Promise == INSTANCE Replacement WITH
    dest <- CASE fs.payload = "target" -> "after"
              [] fs.payload # "target" /\ fs.old = "gone" -> "lost"
              [] fs.payload # "target" /\ fs.old = "replaced" -> "moving"
              [] OTHER -> "before",
    report <- IF caller.pc = "returned" THEN "published"
              ELSE IF caller.pc \notin {"raised", "dead"} THEN "none"
              ELSE IF caller.cleaned THEN "unchanged" ELSE "unsettled"

\* The destination is replaced as a whole or not at all, what was there is kept
\* until the payload has taken its place, "published" and a
\* confirmed cleanup are true, and they stay true (copy, commit, abort).
KeepsPromise == Promise!Spec
=============================================================================
