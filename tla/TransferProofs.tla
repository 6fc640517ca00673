--------------------------- MODULE TransferProofs ---------------------------
(***************************************************************************)
(* The safety of a copy for a source of any size: what is published is a   *)
(* snapshot, helpers never work on the destination beside each other, and  *)
(* the copy implements Replacement.                                        *)
(***************************************************************************)
EXTENDS Transfer, TLAPS

\* Before the input of the stager is closed, and after commit() was called.
Early == {"open", "await", "relay", "finishSource"}

Late == {"committing", "abort", "aborting", "returned", "raised", "dead"}

\* What the exporter has read, between the version it saw and the present.
SourceWatched ==
    /\ exporter.pc \in {"none", "snapshot"} => exporter.sent = << >>
    /\ exporter.pc = "stream" =>
            /\ exporter.seen <= version
            /\ Len(exporter.sent) <= Size + version
            /\ \A i \in DOMAIN exporter.sent :
                    exporter.seen <= exporter.sent[i] /\ exporter.sent[i] <= version
    /\ exporter.pc = "complete" =>
            /\ Len(exporter.sent) = Size + exporter.seen
            /\ \A i \in DOMAIN exporter.sent : exporter.sent[i] = exporter.seen

\* What the caller knows of the source once it stopped reading.
SourceKnown ==
    /\ caller.pc = "open" => exporter.pc = "none" /\ stager.pc = "none"
    /\ caller.input = "closed" => caller.pc \notin Early
    /\ caller.pc = "finishDest" => caller.input = "closed"
    /\ caller.pc = "finishSource" =>
            \/ exporter.pc = "failed"
            \/ exporter.pc = "complete" /\ caller.relayed = Len(exporter.sent)
    /\ caller.sourceOk =>
            /\ exporter.pc = "complete" /\ caller.relayed = Len(exporter.sent)
            /\ caller.pc \notin Early

\* What a report of the stager proves, and what the caller made of it.
StagerKnown ==
    /\ stager.answer = "stopped" => stager.pc = "failed"
    /\ stager.answer = "finished" => stager.pc = "exited"
    /\ stager.pc \in {"staged", "exited"} /\ stager.link = "up" =>
            caller.input = "closed" /\ stager.received = caller.relayed
    /\ caller.staging # "UNCONFIRMED" =>
            caller.input = "closed" /\ stager.pc \in {"exited", "failed"}
    /\ caller.staging = "FINISHED" =>
            stager.pc = "exited" /\ stager.received = caller.relayed

\* When the control helpers may be there, and what their answers prove.
HelpersKnown ==
    /\ caller.pc = "commit" =>
            /\ caller.sourceOk /\ caller.staging = "FINISHED"
            /\ caller.publication = "NOT_ATTEMPTED"
    /\ caller.publication # "NOT_ATTEMPTED" => caller.pc \in Late
    /\ caller.pc = "committing" =>
            committer.pc # "none" /\ caller.publication = "UNCONFIRMED"
    /\ committer.pc # "none" =>
            /\ caller.pc \in Late
            /\ caller.sourceOk /\ caller.staging = "FINISHED"
            /\ caller.publication # "NOT_ATTEMPTED"
    /\ committer.answer # "none" => committer.pc = "exited"
    /\ caller.publication \in {"FAILED", "PUBLISHED"} => committer.pc = "exited"
    /\ cleaner.pc # "none" =>
            /\ caller.pc \in {"aborting", "raised", "dead"}
            /\ caller.staging # "UNCONFIRMED" /\ caller.publication # "UNCONFIRMED"
    /\ cleaner.answer # "none" => cleaner.pc = "exited"
    /\ caller.cleaned => caller.pc = "raised" /\ cleaner.answer = "ok"
    /\ caller.pc = "returned" => committer.answer = "ok"

\* Where the payload and the previous destination are at each step.
FilesKnown ==
    /\ fs.payload = "target" =>
            committer.pc # "none" /\ fs.phase \in {"publishing", "published", "none"}
    /\ fs.old = "gone" => fs.payload = "target"
    /\ committer.pc \in {"backup", "publish", "rollback", "note", "record"} =>
            fs.phase = "publishing"
    /\ committer.pc \in {"backup", "publish", "rollback", "note"} => fs.payload = "stage"
    /\ committer.pc \in {"record", "remove"} \/ committer.answer = "ok" =>
            fs.payload = "target"
    /\ cleaner.pc = "remove" \/ cleaner.answer = "ok" =>
            fs.payload # "target" /\ fs.old \notin {"replaced", "gone"}

Inv ==
    /\ TypeOK
    /\ SourceWatched
    /\ SourceKnown
    /\ StagerKnown
    /\ HelpersKnown
    /\ FilesKnown
-----------------------------------------------------------------------------
\* What _completion() returns is a proof of what it says.
LEMMA CompletionKnown ==
    ASSUME Inv
    PROVE  /\ Completion \in {"UNCONFIRMED", "STOPPED", "FINISHED"}
           /\ Completion # "UNCONFIRMED" => stager.pc \in {"exited", "failed"}
           /\ Completion = "FINISHED" =>
                  stager.pc = "exited" /\ stager.received = caller.relayed
BY DEF Completion, Inv, TypeOK, StagerKnown, Stager, Caller

\* Removing the staging directory loses the copies in it, and nothing else.
LEMMA RemovedFiles ==
    ASSUME fs \in FileSystem,
           NEW files \in {Removed} \cup PartlyRemoved
    PROVE  /\ files \in FileSystem
           /\ files.phase \in {fs.phase, "none"}
           /\ files.payload = fs.payload \/ (fs.payload = "stage" /\ files.payload = "gone")
           /\ files.old = fs.old \/ (fs.old = "replaced" /\ files.old = "gone")
<1> DEFINE lostPayload == IF fs.payload = "stage" THEN "gone" ELSE fs.payload
           lostOld == IF fs.old = "replaced" THEN "gone" ELSE fs.old
<1>1. ASSUME NEW stage \in BOOLEAN, NEW phase \in {fs.phase, "none"},
             NEW payload \in {fs.payload, lostPayload}, NEW old \in {fs.old, lostOld},
             files = [fs EXCEPT !.stage = stage, !.phase = phase, !.payload = payload, !.old = old]
      PROVE  /\ files \in FileSystem
             /\ files.phase \in {fs.phase, "none"}
             /\ files.payload = fs.payload \/ (fs.payload = "stage" /\ files.payload = "gone")
             /\ files.old = fs.old \/ (fs.old = "replaced" /\ files.old = "gone")
  <2>1. files \in FileSystem
    <3>1. phase \in Phase /\ payload \in {"none", "stage", "target", "gone"}
          /\ old \in {"none", "target", "replaced", "gone"}
      BY DEF FileSystem, Phase
    <3> QED BY <3>1, <1>1 DEF FileSystem
  <2>2. /\ files.phase = phase /\ files.payload = payload /\ files.old = old
    BY <1>1 DEF FileSystem
  <2>3. files.phase \in {fs.phase, "none"}
    BY <2>2
  <2>4. files.payload = fs.payload \/ (fs.payload = "stage" /\ files.payload = "gone")
    BY <2>2
  <2>5. files.old = fs.old \/ (fs.old = "replaced" /\ files.old = "gone")
    BY <2>2
  <2> QED BY <2>1, <2>3, <2>4, <2>5
<1>2. Removed = [fs EXCEPT !.stage = FALSE, !.phase = "none",
                           !.payload = lostPayload, !.old = lostOld]
  BY DEF Removed, FileSystem
<1>3. Removed.payload = lostPayload /\ Removed.old = lostOld
  BY <1>2 DEF FileSystem
<1>4. CASE files = Removed
  <2> HIDE DEF lostPayload, lostOld
  <2> QED BY <1>4, <1>2, <1>1
<1>5. CASE files \in PartlyRemoved
  <2>1. PICK phase \in {fs.phase, "none"}, payload \in {fs.payload, lostPayload},
             old \in {fs.old, lostOld} :
            files = [fs EXCEPT !.phase = phase, !.payload = payload, !.old = old]
    <3> HIDE DEF lostPayload, lostOld
    <3> QED BY <1>5, <1>3 DEF PartlyRemoved
  <2>2. fs.stage \in BOOLEAN
    BY DEF FileSystem
  <2>3. files = [fs EXCEPT !.stage = fs.stage, !.phase = phase, !.payload = payload, !.old = old]
    BY <2>1 DEF FileSystem
  <2> HIDE DEF lostPayload, lostOld
  <2> QED BY <2>2, <2>3, <1>1
<1> QED BY <1>4, <1>5
-----------------------------------------------------------------------------
\* A helper that ends has given its answer or has not.
LEMMA HelperAnswered ==
    ASSUME NEW helper \in Control, NEW answer \in {"ok", "failed"}
    PROVE  [helper EXCEPT !.pc = "exited", !.answer = Told(helper, answer)] \in Control
<1>1. Told(helper, answer) \in {"none", "ok", "failed"}
  BY DEF Told, Control
<1> QED BY <1>1 DEF Control

\* Every step keeps the types.
LEMMA TypeKept ==
    ASSUME TypeOK, [Next]_vars
    PROVE  TypeOK'
<1> USE DEF TypeOK
<1>1. CASE ChangeSource
  BY <1>1 DEF ChangeSource, Exporter
<1>2. CASE TakeSnapshot
  BY <1>2 DEF TakeSnapshot, ExporterMove, Exporter
<1>3. CASE SendChunk
  <2>1. exporter' = [exporter EXCEPT !.sent = Append(exporter.sent, version)]
        /\ UNCHANGED << version, caller, stager, committer, cleaner, fs >>
    BY <1>3 DEF SendChunk, ExporterMove
  <2>2. Append(exporter.sent, version) \in Seq({0, 1})
    BY DEF Exporter
  <2> QED BY <2>1, <2>2 DEF Exporter
<1>4. CASE VerifySource
  BY <1>4 DEF VerifySource, ExporterMove, Exporter
<1>5. CASE ExportFails
  BY <1>5 DEF ExportFails, ExporterMove, Exporter
<1>6. CASE Open
  BY <1>6 DEF Open, Caller, Exporter, Stager
<1>7. CASE Ready
  BY <1>7 DEF Ready, CallerMove, Caller
<1>8. CASE NotReady
  BY <1>8 DEF NotReady, CallerMove, StagerEnded, Caller
<1>9. CASE Relay
  BY <1>9 DEF Relay, CallerMove, Caller
<1>10. CASE RelayFails
  BY <1>10 DEF RelayFails, CallerMove, StagerEnded, Caller
<1>11. CASE RelayEnds
  BY <1>11 DEF RelayEnds, CallerMove, Caller
<1>12. CASE FinishSource
  BY <1>12 DEF FinishSource, CallerMove, Caller
<1>13. CASE FinishDest
  BY <1>13 DEF FinishDest, CallerMove, StagerEnded, Completion, Caller
<1>14. CASE Commit
  <2>1. UNCHANGED << version, exporter, stager, cleaner, fs >>
    BY <1>14 DEF Commit
  <2>2. caller' \in Caller
    BY <1>14 DEF Commit, Caller
  <2>3. committer' \in Control
    BY <1>14 DEF Commit, Control
  <2> QED BY <2>1, <2>2, <2>3
<1>15. CASE Published
  BY <1>15 DEF Published, CallerMove, Caller
<1>16. CASE PublicationFailed
  BY <1>16 DEF PublicationFailed, CallerMove, Caller
<1>17. CASE PublicationLost
  BY <1>17 DEF PublicationLost, CallerMove, Caller
<1>18. CASE CancelCollects
  BY <1>18 DEF CancelCollects, CallerMove, StagerEnded, Completion, Caller
<1>19. CASE CancelCloses
  BY <1>19 DEF CancelCloses, CallerMove, Caller
<1>20. CASE CancelTimesOut
  BY <1>20 DEF CancelTimesOut, StagerEnded, Caller, Stager
<1>21. CASE Abort
  BY <1>21 DEF Abort, MayClean, Caller, Control
<1>22. CASE AbortRefused
  BY <1>22 DEF AbortRefused, CallerMove, MayClean, Caller
<1>23. CASE AbortAnswered
  BY <1>23 DEF AbortAnswered, CallerMove, Caller
<1>24. CASE Interrupted
  BY <1>24 DEF Interrupted, Caller, Control
<1>25. CASE CallerDies
  BY <1>25 DEF CallerDies, CallerMove, Caller
<1>26. CASE MakeStage
  BY <1>26 DEF MakeStage, Stager, FileSystem, Phase
<1>27. CASE Announce
  BY <1>27 DEF Announce, Told, Stager, FileSystem, Phase
<1>28. CASE StartupFails
  <2>1. stager' \in Stager /\ UNCHANGED << version, exporter, caller, committer, cleaner >>
    BY <1>28 DEF StartupFails, Stager
  <2>2. PICK phase \in {fs.phase, "receiving"} :
            \/ fs' = [fs EXCEPT !.stage = FALSE, !.phase = "none"]
            \/ fs' = [fs EXCEPT !.phase = phase]
    BY <1>28 DEF StartupFails
  <2>3. phase \in Phase
    BY DEF FileSystem, Phase
  <2>4. CASE fs' = [fs EXCEPT !.stage = FALSE, !.phase = "none"]
    BY <2>1, <2>4 DEF FileSystem, Phase
  <2>5. CASE fs' = [fs EXCEPT !.phase = phase]
    BY <2>1, <2>3, <2>5 DEF FileSystem
  <2> QED BY <2>2, <2>4, <2>5
<1>29. CASE Receive
  BY <1>29 DEF Receive, Stager, FileSystem, Phase
<1>30. CASE RecordStaged
  BY <1>30 DEF RecordStaged, InputEnds, Stager, FileSystem, Phase
<1>31. CASE ReportStaged
  BY <1>31 DEF ReportStaged, StagerMove, Told, Stager
<1>32. CASE StagingFails
  BY <1>32 DEF StagingFails, StagerMove, Stager
<1>33. CASE ReportStopped
  BY <1>33 DEF ReportStopped, Told, Stager, FileSystem, Phase
<1>34. CASE StagerDies
  BY <1>34 DEF StagerDies, StagerMove, Stager
<1>35. CASE StagerLinkBreaks
  BY <1>35 DEF StagerLinkBreaks, StagerMove, Stager
<1>36. CASE CommitLoad
  <2>1. TargetExists \in BOOLEAN
    BY DEF TargetExists
  <2> QED BY <1>36, <2>1 DEF CommitLoad, CommitterStep, Control
<1>37. CASE CommitIntent
  BY <1>37 DEF CommitIntent, CommitterStep, Control, FileSystem, Phase
<1>38. CASE CommitBackup
  BY <1>38 DEF CommitBackup, CommitterStep, Control, FileSystem, Phase
<1>39. CASE CommitPublish
  BY <1>39 DEF CommitPublish, CommitterStep, Control, FileSystem, Phase
<1>40. CASE CommitRollback
  <2>1. UNCHANGED << version, exporter, caller, stager, cleaner >>
    BY <1>40 DEF CommitRollback, CommitterStep
  <2>2. committer' \in Control
    BY <1>40 DEF CommitRollback, CommitterStep, Control
  <2>3. fs' \in FileSystem
    BY <1>40 DEF CommitRollback, CommitterStep, FileSystem
  <2> QED BY <2>1, <2>2, <2>3
<1>41. CASE CommitNote
  <2>1. PICK phase \in {fs.phase, committer.phase} :
            CommitterStep([committer EXCEPT !.pc = "exited", !.answer = Told(committer, "failed")],
                          [fs EXCEPT !.phase = phase])
    BY <1>41 DEF CommitNote
  <2>2. phase \in Phase
    BY DEF Control, FileSystem, Phase
  <2>3. committer' \in Control
    BY <2>1, HelperAnswered DEF CommitterStep
  <2>4. fs' \in FileSystem
    BY <2>1, <2>2 DEF CommitterStep, FileSystem
  <2> QED BY <2>1, <2>3, <2>4 DEF CommitterStep
<1>42. CASE CommitRecord
  BY <1>42 DEF CommitRecord, CommitterStep, Control, FileSystem, Phase
<1>43. CASE CommitRemove
  <2>1. UNCHANGED << version, exporter, caller, stager, cleaner >>
    BY <1>43 DEF CommitRemove, CommitterStep
  <2>2. committer' \in Control
    BY <1>43, HelperAnswered DEF CommitRemove, CommitterStep
  <2>3. fs' \in FileSystem
    BY <1>43, RemovedFiles DEF CommitRemove, CommitterStep
  <2> QED BY <2>1, <2>2, <2>3
<1>44. CASE CommitFails
  BY <1>44, HelperAnswered DEF CommitFails, CommitterFails, CommitterStep
<1>45. CASE CommitterDies
  BY <1>45 DEF CommitterDies, CommitterStep, Control, FileSystem, Phase
<1>46. CASE CommitterLinkBreaks
  BY <1>46 DEF CommitterLinkBreaks, CommitterStep, Control, FileSystem, Phase
<1>47. CASE CleanLoad
  <2>1. UNCHANGED << version, exporter, caller, stager, committer, fs >>
    BY <1>47 DEF CleanLoad, CleanerStep
  <2>2. CASE cleaner' = [cleaner EXCEPT !.pc = "remove"]
    BY <2>1, <2>2 DEF Control
  <2>3. CASE cleaner' = [cleaner EXCEPT !.pc = "exited", !.answer = Told(cleaner, "failed")]
    BY <2>1, <2>3, HelperAnswered
  <2> QED BY <1>47, <2>2, <2>3 DEF CleanLoad, CleanerStep
<1>48. CASE CleanRemove
  <2>1. UNCHANGED << version, exporter, caller, stager, committer >>
    BY <1>48 DEF CleanRemove, CleanerStep
  <2>2. cleaner' \in Control
    BY <1>48, HelperAnswered DEF CleanRemove, CleanerStep
  <2>3. fs' \in FileSystem
    BY <1>48, RemovedFiles DEF CleanRemove, CleanerStep
  <2> QED BY <2>1, <2>2, <2>3
<1>49. CASE CleanerDies
  BY <1>49 DEF CleanerDies, CleanerStep, Control, FileSystem, Phase
<1>50. CASE CleanerLinkBreaks
  BY <1>50 DEF CleanerLinkBreaks, CleanerStep, Control, FileSystem, Phase
<1>51. CASE UNCHANGED vars
  BY <1>51 DEF vars
<1> QED
  BY <1>1, <1>2, <1>3, <1>4, <1>5, <1>6, <1>7, <1>8, <1>9, <1>10, <1>11, <1>12, <1>13, <1>14, <1>15, <1>16, <1>17, <1>18, <1>19, <1>20, <1>21, <1>22, <1>23, <1>24, <1>25, <1>26, <1>27, <1>28, <1>29, <1>30, <1>31, <1>32, <1>33, <1>34, <1>35, <1>36, <1>37, <1>38, <1>39, <1>40, <1>41, <1>42, <1>43, <1>44, <1>45, <1>46, <1>47, <1>48, <1>49, <1>50, <1>51 DEF Next, Exporting, Copying, Staging, Committing, Cleaning, Failing
-----------------------------------------------------------------------------
\* The exporter and the source move what was read and nothing else.
LEMMA SourceKeeps ==
    ASSUME Inv, ChangeSource \/ TakeSnapshot \/ SendChunk \/ VerifySource \/ ExportFails
    PROVE  /\ SourceWatched' /\ SourceKnown' /\ StagerKnown'
           /\ HelpersKnown' /\ FilesKnown'
<1> USE TransferAssumption DEF Inv, TypeOK, SourceWatched, SourceKnown, StagerKnown, HelpersKnown, FilesKnown, Exporter, Caller, Stager, Control, FileSystem, Phase, Early, Late
<1>1. CASE ChangeSource
  <2>1. SourceWatched'
    BY <1>1 DEF ChangeSource
  <2>2. SourceKnown'
    BY <1>1 DEF ChangeSource
  <2>3. StagerKnown' /\ HelpersKnown' /\ FilesKnown'
    BY <1>1 DEF ChangeSource
  <2> QED BY <2>1, <2>2, <2>3
<1>2. CASE TakeSnapshot
  <2>1. SourceWatched'
    BY <1>2 DEF TakeSnapshot, ExporterMove
  <2>2. SourceKnown'
    BY <1>2 DEF TakeSnapshot, ExporterMove
  <2>3. StagerKnown' /\ HelpersKnown' /\ FilesKnown'
    BY <1>2 DEF TakeSnapshot, ExporterMove
  <2> QED BY <2>1, <2>2, <2>3
<1>3. CASE SendChunk
  <2>1. SourceWatched'
    BY <1>3 DEF SendChunk, ExporterMove
  <2>2. SourceKnown'
    BY <1>3 DEF SendChunk, ExporterMove
  <2>3. StagerKnown' /\ HelpersKnown' /\ FilesKnown'
    BY <1>3 DEF SendChunk, ExporterMove
  <2> QED BY <2>1, <2>2, <2>3
<1>4. CASE VerifySource
  <2>1. SourceWatched'
    BY <1>4 DEF VerifySource, ExporterMove
  <2>2. SourceKnown'
    BY <1>4 DEF VerifySource, ExporterMove
  <2>3. StagerKnown' /\ HelpersKnown' /\ FilesKnown'
    BY <1>4 DEF VerifySource, ExporterMove
  <2> QED BY <2>1, <2>2, <2>3
<1>5. CASE ExportFails
  <2>1. SourceWatched'
    BY <1>5 DEF ExportFails, ExporterMove
  <2>2. SourceKnown'
    BY <1>5 DEF ExportFails, ExporterMove
  <2>3. StagerKnown' /\ HelpersKnown' /\ FilesKnown'
    BY <1>5 DEF ExportFails, ExporterMove
  <2> QED BY <2>1, <2>2, <2>3
<1> QED BY <1>1, <1>2, <1>3, <1>4, <1>5

\* What the caller does: only commit() and abort() start a control helper.
LEMMA CallerKeeps ==
    ASSUME Inv, Open \/ Ready \/ NotReady \/ Relay \/ RelayFails \/ RelayEnds \/ FinishSource \/ FinishDest \/ Commit \/ Published \/ PublicationFailed \/ PublicationLost \/ CancelCollects \/ CancelCloses \/ CancelTimesOut \/ Abort \/ AbortRefused \/ AbortAnswered \/ Interrupted \/ CallerDies
    PROVE  /\ SourceWatched' /\ SourceKnown' /\ StagerKnown'
           /\ HelpersKnown' /\ FilesKnown'
<1> USE TransferAssumption DEF Inv, TypeOK, SourceWatched, SourceKnown, StagerKnown, HelpersKnown, FilesKnown, Exporter, Caller, Stager, Control, FileSystem, Phase, Early, Late
<1>1. CASE Open
  <2>1. SourceKnown'
    BY <1>1 DEF Open
  <2>2. StagerKnown'
    BY <1>1 DEF Open
  <2>3. HelpersKnown'
    BY <1>1 DEF Open
  <2>4. SourceWatched' /\ FilesKnown'
    BY <1>1 DEF Open
  <2> QED BY <2>1, <2>2, <2>3, <2>4
<1>2. CASE Ready
  <2>1. SourceKnown'
    BY <1>2 DEF Ready, CallerMove
  <2>2. StagerKnown'
    BY <1>2 DEF Ready, CallerMove
  <2>3. HelpersKnown'
    BY <1>2 DEF Ready, CallerMove
  <2>4. SourceWatched' /\ FilesKnown'
    BY <1>2 DEF Ready, CallerMove
  <2> QED BY <2>1, <2>2, <2>3, <2>4
<1>3. CASE NotReady
  <2>1. SourceKnown'
    BY <1>3 DEF NotReady, CallerMove, StagerEnded
  <2>2. StagerKnown'
    BY <1>3 DEF NotReady, CallerMove, StagerEnded
  <2>3. HelpersKnown'
    BY <1>3 DEF NotReady, CallerMove, StagerEnded
  <2>4. SourceWatched' /\ FilesKnown'
    BY <1>3 DEF NotReady, CallerMove, StagerEnded
  <2> QED BY <2>1, <2>2, <2>3, <2>4
<1>4. CASE Relay
  <2>1. SourceKnown'
    BY <1>4 DEF Relay, CallerMove
  <2>2. StagerKnown'
    BY <1>4 DEF Relay, CallerMove
  <2>3. HelpersKnown'
    BY <1>4 DEF Relay, CallerMove
  <2>4. SourceWatched' /\ FilesKnown'
    BY <1>4 DEF Relay, CallerMove
  <2> QED BY <2>1, <2>2, <2>3, <2>4
<1>5. CASE RelayFails
  <2>1. SourceKnown'
    BY <1>5 DEF RelayFails, CallerMove, StagerEnded
  <2>2. StagerKnown'
    BY <1>5 DEF RelayFails, CallerMove, StagerEnded
  <2>3. HelpersKnown'
    BY <1>5 DEF RelayFails, CallerMove, StagerEnded
  <2>4. SourceWatched' /\ FilesKnown'
    BY <1>5 DEF RelayFails, CallerMove, StagerEnded
  <2> QED BY <2>1, <2>2, <2>3, <2>4
<1>6. CASE RelayEnds
  <2>1. SourceKnown'
    BY <1>6 DEF RelayEnds, CallerMove
  <2>2. StagerKnown'
    BY <1>6 DEF RelayEnds, CallerMove
  <2>3. HelpersKnown'
    BY <1>6 DEF RelayEnds, CallerMove
  <2>4. SourceWatched' /\ FilesKnown'
    BY <1>6 DEF RelayEnds, CallerMove
  <2> QED BY <2>1, <2>2, <2>3, <2>4
<1>7. CASE FinishSource
  <2>1. SourceKnown'
    BY <1>7 DEF FinishSource, CallerMove
  <2>2. StagerKnown'
    BY <1>7 DEF FinishSource, CallerMove
  <2>3. HelpersKnown'
    BY <1>7 DEF FinishSource, CallerMove
  <2>4. SourceWatched' /\ FilesKnown'
    BY <1>7 DEF FinishSource, CallerMove
  <2> QED BY <2>1, <2>2, <2>3, <2>4
<1>8. CASE FinishDest
  <2>1. caller' = [caller EXCEPT
              !.staging = Completion,
              !.pc = IF caller.sourceOk /\ Completion = "FINISHED" THEN "commit" ELSE "abort"]
        /\ UNCHANGED << version, exporter, stager, committer, cleaner, fs >>
        /\ caller.pc = "finishDest"
    BY <1>8 DEF FinishDest, CallerMove
  <2>2. SourceWatched' /\ SourceKnown' /\ FilesKnown'
    BY <2>1
  <2>3. StagerKnown'
    <3>1. /\ caller'.staging = Completion /\ caller'.input = "closed"
          /\ caller'.relayed = caller.relayed
      BY <2>1
    <3> QED BY <2>1, <3>1, CompletionKnown
  <2>4. HelpersKnown'
    <3>1. /\ caller'.pc \in {"commit", "abort"} /\ caller'.staging = Completion
          /\ caller'.pc = "commit" => caller.sourceOk /\ Completion = "FINISHED"
          /\ caller'.sourceOk = caller.sourceOk /\ caller'.cleaned = caller.cleaned
          /\ caller'.publication = caller.publication
      BY <2>1
    <3>2. caller.publication = "NOT_ATTEMPTED" /\ committer.pc = "none"
          /\ cleaner.pc = "none" /\ ~caller.cleaned
      BY <2>1
    <3> QED BY <2>1, <3>1, <3>2
  <2> QED BY <2>2, <2>3, <2>4
<1>9. CASE Commit
  <2>1. /\ caller.pc = "commit"
        /\ UNCHANGED << version, exporter, stager, cleaner, fs >>
    BY <1>9 DEF Commit
  <2>2. ASSUME caller' = [caller EXCEPT !.publication = "UNCONFIRMED", !.pc = "committing"],
               committer' = [committer EXCEPT !.pc = "load"]
        PROVE  SourceWatched' /\ SourceKnown' /\ StagerKnown' /\ HelpersKnown' /\ FilesKnown'
    <3>1. SourceWatched' /\ SourceKnown' /\ StagerKnown'
      BY <2>1, <2>2
    <3>2. HelpersKnown'
      BY <2>1, <2>2
    <3>3. FilesKnown'
      BY <2>1, <2>2
    <3> QED BY <3>1, <3>2, <3>3
  <2>3. ASSUME caller' = [caller EXCEPT !.publication = "UNCONFIRMED", !.pc = "abort"],
               UNCHANGED committer
        PROVE  SourceWatched' /\ SourceKnown' /\ StagerKnown' /\ HelpersKnown' /\ FilesKnown'
    <3>1. SourceWatched' /\ SourceKnown' /\ StagerKnown'
      BY <2>1, <2>3
    <3>2. HelpersKnown'
      BY <2>1, <2>3
    <3>3. FilesKnown'
      BY <2>1, <2>3
    <3> QED BY <3>1, <3>2, <3>3
  <2> QED BY <2>2, <2>3, <1>9 DEF Commit
<1>10. CASE Published
  <2>1. SourceKnown'
    BY <1>10 DEF Published, CallerMove
  <2>2. StagerKnown'
    BY <1>10 DEF Published, CallerMove
  <2>3. HelpersKnown'
    BY <1>10 DEF Published, CallerMove
  <2>4. SourceWatched' /\ FilesKnown'
    BY <1>10 DEF Published, CallerMove
  <2> QED BY <2>1, <2>2, <2>3, <2>4
<1>11. CASE PublicationFailed
  <2>1. SourceKnown'
    BY <1>11 DEF PublicationFailed, CallerMove
  <2>2. StagerKnown'
    BY <1>11 DEF PublicationFailed, CallerMove
  <2>3. HelpersKnown'
    BY <1>11 DEF PublicationFailed, CallerMove
  <2>4. SourceWatched' /\ FilesKnown'
    BY <1>11 DEF PublicationFailed, CallerMove
  <2> QED BY <2>1, <2>2, <2>3, <2>4
<1>12. CASE PublicationLost
  <2>1. SourceKnown'
    BY <1>12 DEF PublicationLost, CallerMove
  <2>2. StagerKnown'
    BY <1>12 DEF PublicationLost, CallerMove
  <2>3. HelpersKnown'
    BY <1>12 DEF PublicationLost, CallerMove
  <2>4. SourceWatched' /\ FilesKnown'
    BY <1>12 DEF PublicationLost, CallerMove
  <2> QED BY <2>1, <2>2, <2>3, <2>4
<1>13. CASE CancelCollects
  <2>1. caller' = [caller EXCEPT !.pc = "abort", !.staging = Completion]
        /\ UNCHANGED << version, exporter, stager, committer, cleaner, fs >>
        /\ caller.pc = "cancel" /\ caller.input = "closed"
    BY <1>13 DEF CancelCollects, CallerMove
  <2>2. SourceWatched' /\ SourceKnown' /\ FilesKnown'
    BY <2>1
  <2>3. StagerKnown'
    BY <2>1, CompletionKnown
  <2>4. HelpersKnown'
    BY <2>1, CompletionKnown
  <2> QED BY <2>2, <2>3, <2>4
<1>14. CASE CancelCloses
  <2>1. SourceKnown'
    BY <1>14 DEF CancelCloses, CallerMove
  <2>2. StagerKnown'
    BY <1>14 DEF CancelCloses, CallerMove
  <2>3. HelpersKnown'
    BY <1>14 DEF CancelCloses, CallerMove
  <2>4. SourceWatched' /\ FilesKnown'
    BY <1>14 DEF CancelCloses, CallerMove
  <2> QED BY <2>1, <2>2, <2>3, <2>4
<1>15. CASE CancelTimesOut
  <2>1. SourceKnown'
    BY <1>15 DEF CancelTimesOut, StagerEnded
  <2>2. StagerKnown'
    BY <1>15 DEF CancelTimesOut, StagerEnded
  <2>3. HelpersKnown'
    BY <1>15 DEF CancelTimesOut, StagerEnded
  <2>4. SourceWatched' /\ FilesKnown'
    BY <1>15 DEF CancelTimesOut, StagerEnded
  <2> QED BY <2>1, <2>2, <2>3, <2>4
<1>16. CASE Abort
  <2>1. SourceKnown'
    BY <1>16 DEF Abort, MayClean
  <2>2. StagerKnown'
    BY <1>16 DEF Abort, MayClean
  <2>3. HelpersKnown'
    BY <1>16 DEF Abort, MayClean
  <2>4. FilesKnown'
    BY <1>16 DEF Abort, MayClean
  <2>5. SourceWatched'
    BY <1>16 DEF Abort, MayClean
  <2> QED BY <2>1, <2>2, <2>3, <2>4, <2>5
<1>17. CASE AbortRefused
  <2>1. SourceKnown'
    BY <1>17 DEF AbortRefused, CallerMove, MayClean
  <2>2. StagerKnown'
    BY <1>17 DEF AbortRefused, CallerMove, MayClean
  <2>3. HelpersKnown'
    BY <1>17 DEF AbortRefused, CallerMove, MayClean
  <2>4. SourceWatched' /\ FilesKnown'
    BY <1>17 DEF AbortRefused, CallerMove, MayClean
  <2> QED BY <2>1, <2>2, <2>3, <2>4
<1>18. CASE AbortAnswered
  <2>1. /\ caller.pc = "aborting"
        /\ UNCHANGED << version, exporter, stager, committer, cleaner, fs >>
    BY <1>18 DEF AbortAnswered, CallerMove
  <2>2. ASSUME cleaner.answer = "ok",
               caller' = [caller EXCEPT !.pc = "raised", !.token = FALSE, !.cleaned = TRUE]
        PROVE  SourceWatched' /\ SourceKnown' /\ StagerKnown' /\ HelpersKnown' /\ FilesKnown'
    <3>1. SourceWatched' /\ SourceKnown' /\ StagerKnown' /\ FilesKnown'
      BY <2>1, <2>2
    <3>2. HelpersKnown'
      BY <2>1, <2>2
    <3> QED BY <3>1, <3>2
  <2>3. ASSUME caller' = [caller EXCEPT !.pc = "raised"]
        PROVE  SourceWatched' /\ SourceKnown' /\ StagerKnown' /\ HelpersKnown' /\ FilesKnown'
    <3>1. SourceWatched' /\ SourceKnown' /\ StagerKnown' /\ FilesKnown'
      BY <2>1, <2>3
    <3>2. HelpersKnown'
      BY <2>1, <2>3
    <3> QED BY <3>1, <3>2
  <2> QED BY <2>2, <2>3, <1>18 DEF AbortAnswered, CallerMove
<1>19. CASE Interrupted
  <2>1. SourceKnown'
    BY <1>19 DEF Interrupted
  <2>2. StagerKnown'
    BY <1>19 DEF Interrupted
  <2>3. HelpersKnown'
    BY <1>19 DEF Interrupted
  <2>4. SourceWatched' /\ FilesKnown'
    BY <1>19 DEF Interrupted
  <2> QED BY <2>1, <2>2, <2>3, <2>4
<1>20. CASE CallerDies
  <2>1. SourceKnown'
    BY <1>20 DEF CallerDies, CallerMove
  <2>2. StagerKnown'
    BY <1>20 DEF CallerDies, CallerMove
  <2>3. HelpersKnown'
    BY <1>20 DEF CallerDies, CallerMove
  <2>4. SourceWatched' /\ FilesKnown'
    BY <1>20 DEF CallerDies, CallerMove
  <2> QED BY <2>1, <2>2, <2>3, <2>4
<1> QED BY <1>1, <1>2, <1>3, <1>4, <1>5, <1>6, <1>7, <1>8, <1>9, <1>10, <1>11, <1>12, <1>13, <1>14, <1>15, <1>16, <1>17, <1>18, <1>19, <1>20

\* What the stager does before a control helper can be there.
LEMMA StagerKeeps ==
    ASSUME Inv, MakeStage \/ Announce \/ StartupFails \/ Receive \/ RecordStaged \/ ReportStaged \/ StagingFails \/ ReportStopped \/ StagerDies \/ StagerLinkBreaks
    PROVE  /\ SourceWatched' /\ SourceKnown' /\ StagerKnown'
           /\ HelpersKnown' /\ FilesKnown'
<1> USE TransferAssumption DEF Inv, TypeOK, SourceWatched, SourceKnown, StagerKnown, HelpersKnown, FilesKnown, Exporter, Caller, Stager, Control, FileSystem, Phase, Early, Late
<1>1. CASE MakeStage
  <2>1. StagerKnown'
    BY <1>1 DEF MakeStage
  <2>2. FilesKnown'
    BY <1>1 DEF MakeStage
  <2>3. SourceWatched' /\ SourceKnown' /\ HelpersKnown'
    BY <1>1 DEF MakeStage
  <2> QED BY <2>1, <2>2, <2>3
<1>2. CASE Announce
  <2>1. StagerKnown'
    BY <1>2 DEF Announce, Told
  <2>2. FilesKnown'
    BY <1>2 DEF Announce, Told
  <2>3. SourceWatched' /\ SourceKnown' /\ HelpersKnown'
    BY <1>2 DEF Announce, Told
  <2> QED BY <2>1, <2>2, <2>3
<1>3. CASE StartupFails
  <2>1. /\ stager.pc \in {"prepare", "announce"}
        /\ stager' = [stager EXCEPT !.pc = "failed"]
        /\ UNCHANGED << version, exporter, caller, committer, cleaner >>
    BY <1>3 DEF StartupFails
  <2>2. \E phase \in {fs.phase, "receiving", "none"}, stage \in BOOLEAN :
            fs' = [fs EXCEPT !.stage = stage, !.phase = phase]
    <3>1. PICK phase \in {fs.phase, "receiving"} :
              fs' \in {[fs EXCEPT !.stage = FALSE, !.phase = "none"], [fs EXCEPT !.phase = phase]}
      BY <1>3 DEF StartupFails
    <3>2. [fs EXCEPT !.phase = phase] = [fs EXCEPT !.stage = fs.stage, !.phase = phase]
      OBVIOUS
    <3>3. fs.stage \in BOOLEAN
      OBVIOUS
    <3>4. CASE fs' = [fs EXCEPT !.stage = FALSE, !.phase = "none"]
      BY <3>4
    <3>5. CASE fs' = [fs EXCEPT !.phase = phase]
      <4>1. fs' = [fs EXCEPT !.stage = fs.stage, !.phase = phase]
        BY <3>2, <3>5
      <4> QED BY <3>3, <4>1
    <3> QED BY <3>1, <3>4, <3>5
  <2>3. StagerKnown'
    BY <2>1
  <2>4. FilesKnown'
    BY <2>1, <2>2
  <2>5. SourceWatched' /\ SourceKnown' /\ HelpersKnown'
    BY <2>1
  <2> QED BY <2>3, <2>4, <2>5
<1>4. CASE Receive
  <2>1. StagerKnown'
    BY <1>4 DEF Receive
  <2>2. FilesKnown'
    BY <1>4 DEF Receive
  <2>3. SourceWatched' /\ SourceKnown' /\ HelpersKnown'
    BY <1>4 DEF Receive
  <2> QED BY <2>1, <2>2, <2>3
<1>5. CASE RecordStaged
  <2>1. StagerKnown'
    BY <1>5 DEF RecordStaged, InputEnds
  <2>2. FilesKnown'
    BY <1>5 DEF RecordStaged, InputEnds
  <2>3. SourceWatched' /\ SourceKnown' /\ HelpersKnown'
    BY <1>5 DEF RecordStaged, InputEnds
  <2> QED BY <2>1, <2>2, <2>3
<1>6. CASE ReportStaged
  <2>1. StagerKnown'
    BY <1>6 DEF ReportStaged, StagerMove, Told
  <2>2. FilesKnown'
    BY <1>6 DEF ReportStaged, StagerMove, Told
  <2>3. SourceWatched' /\ SourceKnown' /\ HelpersKnown'
    BY <1>6 DEF ReportStaged, StagerMove, Told
  <2> QED BY <2>1, <2>2, <2>3
<1>7. CASE StagingFails
  <2>1. StagerKnown'
    BY <1>7 DEF StagingFails, StagerMove
  <2>2. FilesKnown'
    BY <1>7 DEF StagingFails, StagerMove
  <2>3. SourceWatched' /\ SourceKnown' /\ HelpersKnown'
    BY <1>7 DEF StagingFails, StagerMove
  <2> QED BY <2>1, <2>2, <2>3
<1>8. CASE ReportStopped
  <2>1. StagerKnown'
    BY <1>8 DEF ReportStopped, Told
  <2>2. FilesKnown'
    BY <1>8 DEF ReportStopped, Told
  <2>3. SourceWatched' /\ SourceKnown' /\ HelpersKnown'
    BY <1>8 DEF ReportStopped, Told
  <2> QED BY <2>1, <2>2, <2>3
<1>9. CASE StagerDies
  <2>1. StagerKnown'
    BY <1>9 DEF StagerDies, StagerMove
  <2>2. FilesKnown'
    BY <1>9 DEF StagerDies, StagerMove
  <2>3. SourceWatched' /\ SourceKnown' /\ HelpersKnown'
    BY <1>9 DEF StagerDies, StagerMove
  <2> QED BY <2>1, <2>2, <2>3
<1>10. CASE StagerLinkBreaks
  <2>1. StagerKnown'
    BY <1>10 DEF StagerLinkBreaks, StagerMove
  <2>2. FilesKnown'
    BY <1>10 DEF StagerLinkBreaks, StagerMove
  <2>3. SourceWatched' /\ SourceKnown' /\ HelpersKnown'
    BY <1>10 DEF StagerLinkBreaks, StagerMove
  <2> QED BY <2>1, <2>2, <2>3
<1> QED BY <1>1, <1>2, <1>3, <1>4, <1>5, <1>6, <1>7, <1>8, <1>9, <1>10

\* What the helper of commit() does with the files.
LEMMA CommitterKeeps ==
    ASSUME Inv, CommitLoad \/ CommitIntent \/ CommitBackup \/ CommitPublish \/ CommitRollback \/ CommitNote \/ CommitRecord \/ CommitRemove \/ CommitFails \/ CommitterDies \/ CommitterLinkBreaks
    PROVE  /\ SourceWatched' /\ SourceKnown' /\ StagerKnown'
           /\ HelpersKnown' /\ FilesKnown'
<1> USE TransferAssumption DEF Inv, TypeOK, SourceWatched, SourceKnown, StagerKnown, HelpersKnown, FilesKnown, Exporter, Caller, Stager, Control, FileSystem, Phase, Early, Late
<1>1. CASE CommitLoad
  <2>1. HelpersKnown'
    BY <1>1 DEF CommitLoad, CommitterStep, TargetExists
  <2>2. FilesKnown'
    BY <1>1 DEF CommitLoad, CommitterStep, TargetExists
  <2>3. SourceWatched' /\ SourceKnown' /\ StagerKnown'
    BY <1>1 DEF CommitLoad, CommitterStep, TargetExists
  <2> QED BY <2>1, <2>2, <2>3
<1>2. CASE CommitIntent
  <2>1. HelpersKnown'
    BY <1>2 DEF CommitIntent, CommitterStep
  <2>2. FilesKnown'
    BY <1>2 DEF CommitIntent, CommitterStep
  <2>3. SourceWatched' /\ SourceKnown' /\ StagerKnown'
    BY <1>2 DEF CommitIntent, CommitterStep
  <2> QED BY <2>1, <2>2, <2>3
<1>3. CASE CommitBackup
  <2>1. HelpersKnown'
    BY <1>3 DEF CommitBackup, CommitterStep
  <2>2. FilesKnown'
    BY <1>3 DEF CommitBackup, CommitterStep
  <2>3. SourceWatched' /\ SourceKnown' /\ StagerKnown'
    BY <1>3 DEF CommitBackup, CommitterStep
  <2> QED BY <2>1, <2>2, <2>3
<1>4. CASE CommitPublish
  <2>1. HelpersKnown'
    BY <1>4 DEF CommitPublish, CommitterStep
  <2>2. FilesKnown'
    BY <1>4 DEF CommitPublish, CommitterStep
  <2>3. SourceWatched' /\ SourceKnown' /\ StagerKnown'
    BY <1>4 DEF CommitPublish, CommitterStep
  <2> QED BY <2>1, <2>2, <2>3
<1>5. CASE CommitRollback
  <2>1. /\ committer.pc = "rollback"
        /\ UNCHANGED << version, exporter, caller, stager, cleaner >>
        /\ \E phase \in {"rolled_back", "rollback_failed"} :
              committer' = [committer EXCEPT !.pc = "note", !.phase = phase]
        /\ \E old \in {fs.old, "target"} : fs' = [fs EXCEPT !.old = old]
    BY <1>5 DEF CommitRollback, CommitterStep
  <2>2. SourceWatched' /\ SourceKnown' /\ StagerKnown'
    BY <2>1
  <2>3. HelpersKnown'
    BY <2>1
  <2>4. FilesKnown'
    BY <2>1
  <2> QED BY <2>2, <2>3, <2>4
<1>6. CASE CommitNote
  <2>1. HelpersKnown'
    BY <1>6 DEF CommitNote, CommitterStep, Told
  <2>2. FilesKnown'
    BY <1>6 DEF CommitNote, CommitterStep, Told
  <2>3. SourceWatched' /\ SourceKnown' /\ StagerKnown'
    BY <1>6 DEF CommitNote, CommitterStep, Told
  <2> QED BY <2>1, <2>2, <2>3
<1>7. CASE CommitRecord
  <2>1. HelpersKnown'
    BY <1>7 DEF CommitRecord, CommitterStep
  <2>2. FilesKnown'
    BY <1>7 DEF CommitRecord, CommitterStep
  <2>3. SourceWatched' /\ SourceKnown' /\ StagerKnown'
    BY <1>7 DEF CommitRecord, CommitterStep
  <2> QED BY <2>1, <2>2, <2>3
<1>8. CASE CommitRemove
  <2>1. /\ committer.pc = "remove" /\ fs.payload = "target"
        /\ cleaner.pc # "remove" /\ cleaner.answer # "ok"
        /\ UNCHANGED << version, exporter, caller, stager, cleaner >>
    BY <1>8 DEF CommitRemove, CommitterStep
  <2>2. /\ \/ committer' = committer
           \/ committer' = [committer EXCEPT !.pc = "exited", !.answer = Told(committer, "ok")]
        /\ fs'.payload = "target" /\ fs'.phase \in {fs.phase, "none"}
    BY <1>8, RemovedFiles, <2>1 DEF CommitRemove, CommitterStep
  <2>3. SourceWatched' /\ SourceKnown' /\ StagerKnown'
    BY <2>1
  <2>4. /\ committer'.pc \in {"remove", "exited"}
        /\ committer'.answer # "none" => committer'.answer = "ok" /\ committer'.pc = "exited"
    <3>1. committer.answer = "none"
      BY <2>1
    <3>2. Told(committer, "ok") \in {"none", "ok"}
      BY <3>1 DEF Told
    <3>3. CASE committer' = committer
      BY <2>1, <3>1, <3>3
    <3>4. CASE committer' = [committer EXCEPT !.pc = "exited", !.answer = Told(committer, "ok")]
      BY <3>2, <3>4
    <3> QED BY <2>2, <3>3, <3>4
  <2>5. HelpersKnown'
    BY <2>1, <2>2, <2>4
  <2>6. FilesKnown'
    BY <2>1, <2>2, <2>4
  <2> QED BY <2>3, <2>5, <2>6
<1>9. CASE CommitFails
  <2>1. HelpersKnown'
    BY <1>9 DEF CommitFails, CommitterFails, CommitterStep, Told
  <2>2. FilesKnown'
    BY <1>9 DEF CommitFails, CommitterFails, CommitterStep, Told
  <2>3. SourceWatched' /\ SourceKnown' /\ StagerKnown'
    BY <1>9 DEF CommitFails, CommitterFails, CommitterStep, Told
  <2> QED BY <2>1, <2>2, <2>3
<1>10. CASE CommitterDies
  <2>1. HelpersKnown'
    BY <1>10 DEF CommitterDies, CommitterStep
  <2>2. FilesKnown'
    BY <1>10 DEF CommitterDies, CommitterStep
  <2>3. SourceWatched' /\ SourceKnown' /\ StagerKnown'
    BY <1>10 DEF CommitterDies, CommitterStep
  <2> QED BY <2>1, <2>2, <2>3
<1>11. CASE CommitterLinkBreaks
  <2>1. HelpersKnown'
    BY <1>11 DEF CommitterLinkBreaks, CommitterStep
  <2>2. FilesKnown'
    BY <1>11 DEF CommitterLinkBreaks, CommitterStep
  <2>3. SourceWatched' /\ SourceKnown' /\ StagerKnown'
    BY <1>11 DEF CommitterLinkBreaks, CommitterStep
  <2> QED BY <2>1, <2>2, <2>3
<1> QED BY <1>1, <1>2, <1>3, <1>4, <1>5, <1>6, <1>7, <1>8, <1>9, <1>10, <1>11

\* What the helper of abort() does with the files.
LEMMA CleanerKeeps ==
    ASSUME Inv, CleanLoad \/ CleanRemove \/ CleanerDies \/ CleanerLinkBreaks
    PROVE  /\ SourceWatched' /\ SourceKnown' /\ StagerKnown'
           /\ HelpersKnown' /\ FilesKnown'
<1> USE TransferAssumption DEF Inv, TypeOK, SourceWatched, SourceKnown, StagerKnown, HelpersKnown, FilesKnown, Exporter, Caller, Stager, Control, FileSystem, Phase, Early, Late
<1>1. CASE CleanLoad
  <2>1. /\ cleaner.pc = "load"
        /\ UNCHANGED << version, exporter, caller, stager, committer, fs >>
    BY <1>1 DEF CleanLoad, CleanerStep
  <2>2. ASSUME Disposable, cleaner' = [cleaner EXCEPT !.pc = "remove"]
        PROVE  HelpersKnown' /\ FilesKnown'
    BY <2>1, <2>2 DEF Disposable
  <2>3. ASSUME cleaner' = [cleaner EXCEPT !.pc = "exited", !.answer = Told(cleaner, "failed")]
        PROVE  HelpersKnown' /\ FilesKnown'
    BY <2>1, <2>3 DEF Told
  <2>4. SourceWatched' /\ SourceKnown' /\ StagerKnown'
    BY <2>1
  <2> QED BY <2>2, <2>3, <2>4, <1>1 DEF CleanLoad, CleanerStep
<1>2. CASE CleanRemove
  <2>1. /\ cleaner.pc = "remove"
        /\ UNCHANGED << version, exporter, caller, stager, committer >>
        /\ fs.payload # "target" /\ fs.old \notin {"replaced", "gone"}
        /\ committer.pc \notin {"record", "remove"} /\ committer.answer # "ok"
    BY <1>2 DEF CleanRemove, CleanerStep
  <2>2. /\ \E answer \in {"ok", "failed"} :
            cleaner' \in {cleaner, [cleaner EXCEPT !.pc = "exited", !.answer = Told(cleaner, answer)]}
        /\ fs'.old = fs.old /\ fs'.payload # "target"
    BY <1>2, RemovedFiles, <2>1 DEF CleanRemove, CleanerStep
  <2>3. SourceWatched' /\ SourceKnown' /\ StagerKnown'
    BY <2>1
  <2>4. HelpersKnown'
    <3>1. /\ cleaner'.pc \in {"remove", "exited"}
          /\ cleaner'.answer # "none" => cleaner'.pc = "exited"
          /\ caller.cleaned => cleaner'.answer = "ok"
      <4>1. cleaner.answer = "none" /\ ~caller.cleaned
        BY <2>1
      <4>2. CASE cleaner' = cleaner
        BY <2>1, <4>1, <4>2
      <4>3. ASSUME NEW answer \in {"ok", "failed"},
                   cleaner' = [cleaner EXCEPT !.pc = "exited", !.answer = Told(cleaner, answer)]
            PROVE  cleaner'.pc = "exited"
        BY <4>3
      <4> QED BY <2>2, <4>1, <4>2, <4>3
    <3> QED BY <2>1, <3>1
  <2>5. committer.pc \in {"none", "exited"}
    BY <2>1
  <2>6. FilesKnown'
    BY <2>1, <2>2, <2>5 DEF Told
  <2> QED BY <2>3, <2>4, <2>6
<1>3. CASE CleanerDies
  <2>1. HelpersKnown'
    BY <1>3 DEF CleanerDies, CleanerStep
  <2>2. FilesKnown'
    BY <1>3 DEF CleanerDies, CleanerStep
  <2>3. SourceWatched' /\ SourceKnown' /\ StagerKnown'
    BY <1>3 DEF CleanerDies, CleanerStep
  <2> QED BY <2>1, <2>2, <2>3
<1>4. CASE CleanerLinkBreaks
  <2>1. HelpersKnown'
    BY <1>4 DEF CleanerLinkBreaks, CleanerStep
  <2>2. FilesKnown'
    BY <1>4 DEF CleanerLinkBreaks, CleanerStep
  <2>3. SourceWatched' /\ SourceKnown' /\ StagerKnown'
    BY <1>4 DEF CleanerLinkBreaks, CleanerStep
  <2> QED BY <2>1, <2>2, <2>3
<1> QED BY <1>1, <1>2, <1>3, <1>4

-----------------------------------------------------------------------------
LEMMA InvInit == Init => Inv
<1> SUFFICES ASSUME Init PROVE Inv
  OBVIOUS
<1>1. TypeOK
  BY DEF Init, TypeOK, Exporter, Caller, Stager, Control, FileSystem, Phase
<1>2. SourceWatched /\ SourceKnown /\ StagerKnown
  BY DEF Init, SourceWatched, SourceKnown, StagerKnown
<1>3. HelpersKnown /\ FilesKnown
  BY DEF Init, HelpersKnown, FilesKnown
<1> QED BY <1>1, <1>2, <1>3 DEF Inv

LEMMA InvNext == Inv /\ [Next]_vars => Inv'
<1> SUFFICES ASSUME Inv, [Next]_vars PROVE Inv'
  OBVIOUS
<1>1. TypeOK'
  BY TypeKept DEF Inv
<1>2. CASE UNCHANGED vars
  BY <1>1, <1>2 DEF vars, Inv, SourceWatched, SourceKnown, StagerKnown, HelpersKnown, FilesKnown
<1>3. CASE Next
  BY <1>1, <1>3, SourceKeeps, CallerKeeps, StagerKeeps, CommitterKeeps, CleanerKeeps
     DEF Inv, Next, Exporting, Copying, Staging, Committing, Cleaning, Failing
<1> QED BY <1>2, <1>3

\* In every reachable state, for a source of any size.
THEOREM TransferInvariant == Spec => []Inv
BY InvInit, InvNext, PTL DEF Spec

\* Every variable keeps its type.
THEOREM TypeCorrect == Spec => []TypeOK
BY TransferInvariant, PTL DEF Inv

\* What is published is the whole source as it was at one moment: commit()
\* follows only two confirmed ends, of the exporter, which compared the
\* fingerprints, and of the stager, which had taken everything relayed.
THEOREM SnapshotPublished == Spec => []PublishedIsSnapshot
<1>1. Inv => PublishedIsSnapshot
  BY DEF Inv, PublishedIsSnapshot, SourceWatched, SourceKnown, StagerKnown,
         HelpersKnown, FilesKnown
<1> QED BY <1>1, TransferInvariant, PTL

\* No two helpers work in the staging directory at once: a control helper is
\* started only after proof that the one before it has ended.
THEOREM HelpersAlone == Spec => []OneWriter
<1>1. Inv => OneWriter
  BY DEF Inv, TypeOK, Caller, Stager, Control, OneWriter, StagerKnown, HelpersKnown
<1> QED BY <1>1, TransferInvariant, PTL
-----------------------------------------------------------------------------
(* The refinement of Replacement *)

\* What Promise puts in the place of dest and of report.
Dest == CASE fs.payload = "target" -> "after"
          [] fs.payload # "target" /\ fs.old = "gone" -> "lost"
          [] fs.payload # "target" /\ fs.old = "replaced" -> "moving"
          [] OTHER -> "before"

Report == IF caller.pc = "returned" THEN "published"
          ELSE IF caller.pc \notin {"raised", "dead"} THEN "none"
          ELSE IF caller.cleaned THEN "unchanged" ELSE "unsettled"

\* Nothing is lost, and each place of the files is one of the destination.
LEMMA DestValues ==
    ASSUME Inv
    PROVE  /\ Dest = "after" <=> fs.payload = "target"
           /\ Dest = "moving" <=> (fs.payload # "target" /\ fs.old = "replaced")
           /\ Dest = "before" <=> (fs.payload # "target" /\ fs.old # "replaced")
           /\ Dest \in {"before", "moving", "after"}
<1>1. fs.old = "gone" => fs.payload = "target"
  BY DEF Inv, FilesKnown
<1> QED BY <1>1 DEF Dest

\* The destination changes only while a helper of commit() works.
LEMMA DestStep ==
    ASSUME Inv, Inv', [Next]_vars
    PROVE  \/ Dest' = Dest
           \/ /\ committer.pc \notin {"none", "exited"} /\ UNCHANGED caller
              /\ \/ Dest = "before" /\ Dest' \in {"moving", "after"}
                 \/ Dest = "moving" /\ Dest' \in {"before", "after"}
<1> DEFINE Goal ==
           \/ Dest' = Dest
           \/ /\ committer.pc \notin {"none", "exited"} /\ UNCHANGED caller
              /\ \/ Dest = "before" /\ Dest' \in {"moving", "after"}
                 \/ Dest = "moving" /\ Dest' \in {"before", "after"}
<1>1. ASSUME UNCHANGED fs PROVE Goal
  BY <1>1 DEF Dest
<1>2. /\ Dest \in {"before", "moving", "after"}
      /\ Dest = "after" <=> fs.payload = "target"
      /\ Dest = "moving" <=> (fs.payload # "target" /\ fs.old = "replaced")
      /\ Dest = "before" <=> (fs.payload # "target" /\ fs.old # "replaced")
  BY DestValues
<1>3. /\ Dest' \in {"before", "moving", "after"}
      /\ Dest' = "after" <=> fs'.payload = "target"
      /\ Dest' = "moving" <=> (fs'.payload # "target" /\ fs'.old = "replaced")
      /\ Dest' = "before" <=> (fs'.payload # "target" /\ fs'.old # "replaced")
  <2>1. fs'.old = "gone" => fs'.payload = "target"
    BY DEF Inv, FilesKnown
  <2> QED BY <2>1 DEF Dest
<1>4. fs \in FileSystem
  BY DEF Inv, TypeOK
<1> HIDE DEF Goal
<1>5. ASSUME UNCHANGED vars \/ ChangeSource \/ TakeSnapshot \/ SendChunk \/ VerifySource \/ ExportFails
      PROVE  Goal
  BY <1>5, <1>1 DEF vars, ChangeSource, TakeSnapshot, SendChunk, VerifySource, ExportFails, ExporterMove
<1>6. ASSUME Copying \/ Interrupted \/ CallerDies
      PROVE  Goal
  BY <1>6, <1>1 DEF Copying, Open, Ready, NotReady, Relay, RelayFails, RelayEnds, FinishSource,
       FinishDest, Commit, Published, PublicationFailed, PublicationLost, CancelCloses,
       CancelCollects, CancelTimesOut, Abort, AbortRefused, AbortAnswered, Interrupted,
       CallerDies, CallerMove
<1>7. ASSUME Staging \/ StagingFails \/ StagerDies \/ StagerLinkBreaks
      PROVE  Goal
  <2>1. CASE UNCHANGED fs
    BY <2>1, <1>1
  <2>2. CASE fs' # fs
    <3>1. stager.pc \notin {"exited", "failed"}
      BY <1>7, <2>2 DEF Staging, MakeStage, Announce, StartupFails, Receive, RecordStaged,
           ReportStaged, ReportStopped, StagingFails, StagerDies, StagerLinkBreaks, StagerMove
    <3>2. committer.pc = "none" /\ fs.payload # "target"
      BY <3>1 DEF Inv, StagerKnown, HelpersKnown, FilesKnown
    <3>3. fs'.payload # "target" /\ fs'.old = fs.old
      BY <1>4, <1>7, <2>2, <3>2 DEF FileSystem, Staging, MakeStage, Announce, StartupFails, Receive,
           RecordStaged, ReportStaged, ReportStopped, StagingFails, StagerDies,
           StagerLinkBreaks, StagerMove
    <3> QED BY <1>2, <1>3, <3>2, <3>3 DEF Goal
  <2> QED BY <2>1, <2>2
<1>8. ASSUME Committing \/ CommitterDies \/ CommitterLinkBreaks
      PROVE  Goal
  <2>1. CASE UNCHANGED fs
    BY <2>1, <1>1
  <2>2. CASE fs' # fs
    <3>1. committer.pc \notin {"none", "exited"} /\ UNCHANGED caller
      BY <1>8, <2>2 DEF Committing, CommitLoad, CommitIntent, CommitBackup, CommitPublish,
           CommitRollback, CommitNote, CommitRecord, CommitRemove, CommitFails, CommitterFails,
           CommitterDies, CommitterLinkBreaks, CommitterStep
    <3>2. CASE CommitIntent \/ CommitNote \/ CommitRecord
      <4>1. fs'.payload = fs.payload /\ fs'.old = fs.old
        BY <1>4, <3>2 DEF FileSystem, CommitIntent, CommitNote, CommitRecord, CommitterStep
      <4> QED BY <1>2, <1>3, <4>1 DEF Goal
    <3>3. CASE CommitBackup
      <4>1. fs'.payload = fs.payload /\ fs'.old \in {fs.old, "replaced"}
        BY <1>4, <3>3 DEF FileSystem, CommitBackup, CommitterStep
      <4> QED BY <1>2, <1>3, <3>1, <4>1 DEF Goal
    <3>4. CASE CommitPublish
      <4>1. fs'.payload \in {fs.payload, "target"} /\ fs'.old = fs.old
        BY <1>4, <3>4 DEF FileSystem, CommitPublish, CommitterStep
      <4> QED BY <1>2, <1>3, <3>1, <4>1 DEF Goal
    <3>5. CASE CommitRollback
      <4>1. fs'.payload = fs.payload
        BY <1>4, <3>5 DEF FileSystem, CommitRollback, CommitterStep
      <4>2. fs'.old = fs.old \/ (fs.old = "replaced" /\ fs'.old = "target")
        BY <1>4, <3>5 DEF FileSystem, CommitRollback, CommitterStep
      <4> QED BY <1>2, <1>3, <3>1, <4>1, <4>2 DEF Goal
    <3>6. CASE CommitRemove
      <4>1. committer.pc = "remove" /\ fs.payload = "target"
        BY <3>6 DEF CommitRemove, Inv, FilesKnown
      <4>2. fs'.payload = "target"
        BY <1>4, <3>6, <4>1, RemovedFiles DEF CommitRemove, CommitterStep
      <4> QED BY <1>2, <1>3, <4>1, <4>2 DEF Goal
    <3> QED BY <1>8, <2>2, <3>2, <3>3, <3>4, <3>5, <3>6
          DEF Committing, CommitLoad, CommitFails, CommitterFails, CommitterDies,
              CommitterLinkBreaks, CommitterStep
  <2> QED BY <2>1, <2>2
<1>9. ASSUME Cleaning \/ CleanerDies \/ CleanerLinkBreaks
      PROVE  Goal
  <2>1. CASE UNCHANGED fs
    BY <2>1, <1>1
  <2>2. CASE fs' # fs
    <3>1. CleanRemove
      BY <1>9, <2>2 DEF Cleaning, CleanLoad, CleanerDies, CleanerLinkBreaks, CleanerStep
    <3>2. fs.payload # "target" /\ fs.old \notin {"replaced", "gone"}
      BY <3>1 DEF CleanRemove, Inv, FilesKnown
    <3>3. fs'.payload # "target" /\ fs'.old = fs.old
      BY <1>4, <3>1, <3>2, RemovedFiles DEF CleanRemove, CleanerStep
    <3> QED BY <1>2, <1>3, <3>2, <3>3 DEF Goal
  <2> QED BY <2>1, <2>2
<1>10. Goal
  BY <1>5, <1>6, <1>7, <1>8, <1>9 DEF Next, Exporting, Failing
<1> QED BY <1>10 DEF Goal

\* What the caller is told is true when it is told, and said once.
LEMMA ReportStep ==
    ASSUME Inv, [Next]_vars
    PROVE  \/ Report' = Report
           \/ /\ Report = "none" /\ UNCHANGED fs
              /\ \/ Report' = "published" /\ Dest = "after"
                 \/ Report' = "unchanged" /\ Dest = "before"
                 \/ Report' = "unsettled"
<1> DEFINE Goal ==
           \/ Report' = Report
           \/ /\ Report = "none" /\ UNCHANGED fs
              /\ \/ Report' = "published" /\ Dest = "after"
                 \/ Report' = "unchanged" /\ Dest = "before"
                 \/ Report' = "unsettled"
<1>1. ASSUME UNCHANGED caller PROVE Goal
  BY <1>1 DEF Report
<1>2. caller \in Caller
  BY DEF Inv, TypeOK
<1>3. caller.cleaned => caller.pc = "raised"
  BY DEF Inv, HelpersKnown
<1>4. ASSUME Published PROVE Goal
  <2>1. caller.pc = "committing" /\ caller'.pc = "returned" /\ UNCHANGED fs
    BY <1>2, <1>4 DEF Published, CallerMove, Caller
  <2>2. Dest = "after"
    BY <1>4, DestValues DEF Published, Inv, FilesKnown
  <2> QED BY <2>1, <2>2 DEF Report
<1>5. ASSUME AbortAnswered PROVE Goal
  <2>1. caller.pc = "aborting" /\ caller'.pc = "raised" /\ UNCHANGED fs
    BY <1>2, <1>5 DEF AbortAnswered, CallerMove, Caller
  <2>2. caller'.cleaned => cleaner.answer = "ok"
    BY <1>2, <1>3, <1>5, <2>1 DEF AbortAnswered, CallerMove, Caller
  <2>3. cleaner.answer = "ok" => Dest = "before"
    BY DestValues DEF Inv, FilesKnown
  <2> QED BY <2>1, <2>2, <2>3 DEF Report
<1>6. ASSUME UNCHANGED fs, caller.pc \notin {"returned", "raised", "dead"},
             caller'.cleaned = caller.cleaned, caller'.pc # "returned"
      PROVE  Goal
  BY <1>3, <1>6 DEF Report
<1> HIDE DEF Goal
<1>7. ASSUME Open \/ Ready \/ NotReady \/ Relay \/ RelayFails \/ RelayEnds \/ FinishSource
      PROVE  Goal
  BY <1>2, <1>6, <1>7 DEF Open, Ready, NotReady, Relay, RelayFails, RelayEnds, FinishSource,
       CallerMove, Caller
<1>8. ASSUME FinishDest \/ Commit \/ PublicationFailed \/ PublicationLost
      PROVE  Goal
  BY <1>2, <1>6, <1>8 DEF FinishDest, Commit, PublicationFailed, PublicationLost,
       CallerMove, Caller
<1>9. ASSUME \/ CancelCloses \/ CancelCollects \/ CancelTimesOut
             \/ Abort \/ AbortRefused \/ Interrupted \/ CallerDies
      PROVE  Goal
  BY <1>2, <1>6, <1>9 DEF CancelCloses, CancelCollects, CancelTimesOut,
       Abort, AbortRefused, Interrupted, CallerDies, CallerMove, Caller
<1>10. ASSUME UNCHANGED vars \/ ChangeSource \/ Exporting \/ ExportFails
       PROVE  Goal
  BY <1>1, <1>10 DEF vars, ChangeSource, Exporting, TakeSnapshot, SendChunk, VerifySource,
       ExportFails, ExporterMove
<1>11. ASSUME Staging \/ StagingFails \/ StagerDies \/ StagerLinkBreaks
       PROVE  Goal
  BY <1>1, <1>11 DEF Staging, MakeStage, Announce, StartupFails, Receive, RecordStaged,
       ReportStaged, ReportStopped, StagingFails, StagerDies, StagerLinkBreaks, StagerMove
<1>12. ASSUME Committing \/ CommitterDies \/ CommitterLinkBreaks
       PROVE  Goal
  BY <1>1, <1>12 DEF Committing, CommitLoad, CommitIntent, CommitBackup, CommitPublish,
       CommitRollback, CommitNote, CommitRecord, CommitRemove, CommitFails, CommitterFails,
       CommitterDies, CommitterLinkBreaks, CommitterStep
<1>13. ASSUME Cleaning \/ CleanerDies \/ CleanerLinkBreaks
       PROVE  Goal
  BY <1>1, <1>13 DEF Cleaning, CleanLoad, CleanRemove, CleanerDies, CleanerLinkBreaks,
       CleanerStep
<1>14. Goal
  BY <1>4, <1>5, <1>7, <1>8, <1>9, <1>10, <1>11, <1>12, <1>13 DEF Next, Copying, Failing
<1> QED BY <1>14 DEF Goal

\* While a helper of commit() works, nothing was reported as settled.
LEMMA NothingSettled ==
    ASSUME Inv, committer.pc \notin {"none", "exited"}
    PROVE  Report \in {"none", "unsettled"}
<1>1. caller.pc # "returned"
  BY DEF Inv, HelpersKnown
<1>2. ~caller.cleaned
  BY DEF Inv, TypeOK, Caller, HelpersKnown
<1> QED BY <1>1, <1>2 DEF Report

\* A copy implements Replacement: its steps move the destination as a whole, or
\* tell the caller what is so and stays so, or are not seen by the caller.
THEOREM CopyKeepsPromise == Spec => KeepsPromise
<1>1. Init => Promise!Init
  BY DEF Init, Promise!Init
<1>2. ASSUME Inv, Inv', [Next]_vars
      PROVE  [Promise!Next]_(Promise!vars)
  <2>1. CASE Dest' = Dest /\ Report' = Report
    BY <2>1 DEF Promise!vars, Dest, Report
  <2>2. CASE Dest' # Dest
    <3>1. /\ committer.pc \notin {"none", "exited"} /\ UNCHANGED caller
          /\ \/ Dest = "before" /\ Dest' \in {"moving", "after"}
             \/ Dest = "moving" /\ Dest' \in {"before", "after"}
      BY <1>2, <2>2, DestStep
    <3>2. Report' = Report /\ Report \in {"none", "unsettled"}
      BY <1>2, <3>1, NothingSettled DEF Report
    <3>3. Promise!Moves
      BY <3>1, <3>2 DEF Promise!Moves, Dest, Report
    <3> QED BY <3>3 DEF Promise!Next
  <2>3. CASE Dest' = Dest /\ Report' # Report
    <3>1. /\ Report = "none"
          /\ \/ Report' = "published" /\ Dest = "after"
             \/ Report' = "unchanged" /\ Dest = "before"
             \/ Report' = "unsettled"
      BY <1>2, <2>3, ReportStep
    <3>2. Promise!Reports
      BY <2>3, <3>1 DEF Promise!Reports, Dest, Report
    <3> QED BY <3>2 DEF Promise!Next
  <2> QED BY <2>1, <2>2, <2>3
<1> QED BY <1>1, <1>2, TransferInvariant, PTL DEF Spec, KeepsPromise, Promise!Spec
=============================================================================
