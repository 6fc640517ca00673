-------------------------- MODULE SubmissionProofs --------------------------
(***************************************************************************)
(* One job per idempotency key, retries that do not refuse each other, and *)
(* files that match the rows, for any number of submissions and requests;  *)
(* and, of Listing, that a reader who comes page by page misses nothing,   *)
(* for any number of items and any size of the pages and batches.          *)
(***************************************************************************)
EXTENDS Submission, Listing, FiniteSetTheorems, SequenceTheorems, TLAPS

Prepares(c) == request[c].keyed /\ request[c].prepares

\* Between the look-up of the key and the commit.
Inserting == {"admitting", "mkdir", "storing", "inserting"}

\* Under the preparation lock.
LockedPC == Inserting \cup
    {"begin", "checking", "preparing", "looking", "committed", "cleanup", "launching"}

InTransaction(c) ==
    \/ pc[c] \in Inserting \cup {"checking"}
    \/ pc[c] = "cleanup" /\ job[c] = "none"

Stored(c) == {"directory"} \cup IF request[c].payload THEN {"payload"} ELSE {}

\* Who is in a transaction is its only writer; who prepares, or has prepared, is
\* alone with the key's lock.
Exclusive ==
    \A c \in Submitters :
        /\ InTransaction(c) => writer = c
        /\ Prepares(c) /\ pc[c] \in LockedPC => lock = c

\* What a submitter's place says of its row and of its candidate.
Rows ==
    \A c \in Submitters :
        /\ job[c] # "none" => pc[c] \in {"committed", "cleanup", "launching", "done", "dead"}
        /\ pc[c] \in {"committed", "launching"} => job[c] # "none"
        /\ pc[c] \in {"preparing", "looking"} => request[c].prepares /\ ~prepared[c]
        /\ candidate[c] = "active" => pc[c] = "looking"
        /\ candidate[c] = "uncertain" => pc[c] = "dead" /\ c \in leftover /\ ~prepared[c]
        /\ candidate[c] # "none" => request[c].prepares
        /\ c \in leftover => pc[c] \in {"done", "dead"}

\* What it says of its files.
Files ==
    \A c \in Submitters :
        /\ c \in launched => pc[c] = "done"
        /\ pc[c] = "storing" => files[c] = {"directory"} /\ request[c].payload
        /\ pc[c] = "inserting" => files[c] = Stored(c)
        /\ job[c] = "unfinished" /\ (pc[c] \in {"committed", "launching"} \/ c \in launched) =>
                /\ "directory" \in files[c]
                /\ request[c].payload => "payload" \in files[c] \/ c \in ending
        /\ files[c] # {} /\ job[c] = "none" =>
                pc[c] \in {"storing", "inserting", "cleanup"} \/ c \in leftover
        /\ "owner" \in files[c] => job[c] # "none" /\ "directory" \in files[c]

\* Who was told of a job was told of one that has a supervisor, or an owner.lock
\* that keeps its directory from being removed.
Announced ==
    \A b, c \in Submitters :
        answer[b] = c => c \in launched \/ job[c] = "finished" \/ "owner" \in files[c]

\* What a look-up found stays true: of the key until the commit, of twins while
\* the request is prepared.
KeyFree ==
    \A b, c \in Submitters :
        /\ request[b].keyed /\ request[c].keyed /\ pc[c] \in Inserting => job[b] = "none"
        /\ Twins(b, c) /\ pc[c] \in {"preparing", "looking"} => job[b] = "none"

Inv == TypeOK /\ Exclusive /\ Rows /\ Files /\ Announced /\ KeyFree /\ Idempotent

LEMMA InitInv == Init => Inv
  <1> SUFFICES ASSUME Init PROVE Inv
    OBVIOUS
  <1>1. TypeOK
    BY DEF Init, TypeOK, PC, Answer, Refusal
  <1>2. Exclusive /\ Rows /\ Files /\ KeyFree
    BY DEF Init, Exclusive, Rows, Files, KeyFree, InTransaction, LockedPC, Inserting
  <1>3. Idempotent /\ Announced
    BY SubmissionAssumption DEF Init, Idempotent, Announced, Existing, Refusal
  <1> QED
    BY <1>1, <1>2, <1>3 DEF Inv

\* Types.
LEMMA TypeStep ==
    ASSUME TypeOK, [Next]_vars
    PROVE  TypeOK'
  <1> USE SubmissionAssumption DEF TypeOK, PC, Path, Answer, Refusal, Goes, Ends, local, database, history
  <1>1. ASSUME NEW d \in Submitters, Call(d) PROVE TypeOK'
    BY <1>1 DEF Call, Lost, Visited
  <1>2. ASSUME NEW d \in Submitters, TakeLock(d) PROVE TypeOK'
    BY <1>2 DEF TakeLock
  <1>3. ASSUME NEW d \in Submitters, LockTimesOut(d) PROVE TypeOK'
    BY <1>3 DEF LockTimesOut
  <1>4. ASSUME NEW d \in Submitters, Begin(d) PROVE TypeOK'
    BY <1>4 DEF Begin
  <1>5. ASSUME NEW d \in Submitters, Replay(d) PROVE TypeOK'
    BY <1>5 DEF Replay, Existing, Found, Lost, Visited
  <1>6. ASSUME NEW d \in Submitters, Check(d) PROVE TypeOK'
    BY <1>6 DEF Check
  <1>7. ASSUME NEW d \in Submitters, Prepare(d) PROVE TypeOK'
    BY <1>7 DEF Prepare, Claimants, Told, Lost, Visited
  <1>8. ASSUME NEW d \in Submitters, PrepareBroadly(d) PROVE TypeOK'
    BY <1>8 DEF PrepareBroadly
  <1>9. ASSUME NEW d \in Submitters, Prepared(d) PROVE TypeOK'
    BY <1>9 DEF Prepared
  <1>10. ASSUME NEW d \in Submitters, PreparationFails(d) PROVE TypeOK'
    BY <1>10 DEF PreparationFails
  <1>11. ASSUME NEW d \in Submitters, Admit(d) PROVE TypeOK'
    BY <1>11 DEF Admit, Claimants, Told
  <1>12. ASSUME NEW d \in Submitters, MakeDirectory(d) PROVE TypeOK'
    BY <1>12 DEF MakeDirectory
  <1>13. ASSUME NEW d \in Submitters, Store(d) PROVE TypeOK'
    BY <1>13 DEF Store
  <1>14. ASSUME NEW d \in Submitters, Commit(d) PROVE TypeOK'
    BY <1>14 DEF Commit, Existing
  <1>15. ASSUME NEW d \in Submitters, CommitFails(d) PROVE TypeOK'
    BY <1>15 DEF CommitFails
  <1>16. ASSUME NEW d \in Submitters, Cleanup(d) PROVE TypeOK'
    BY <1>16 DEF Cleanup, Cleaned
  <1>17. ASSUME NEW d \in Submitters, Proceed(d) PROVE TypeOK'
    BY <1>17 DEF Proceed
  <1>18. ASSUME NEW d \in Submitters, Launch(d) PROVE TypeOK'
    BY <1>18 DEF Launch
  <1>19. ASSUME NEW d \in Submitters, LaunchFails(d) PROVE TypeOK'
    BY <1>19 DEF LaunchFails, Finishes, Settles, Unlinks
  <1>20. ASSUME NEW d \in Submitters, Interrupted(d) PROVE TypeOK'
    BY <1>20 DEF Interrupted
  <1>21. ASSUME NEW d \in Submitters, Fails(d) PROVE TypeOK'
    BY <1>21 DEF Fails
  <1>22. ASSUME NEW d \in Submitters, Dies(d) PROVE TypeOK'
    BY <1>22 DEF Dies
  <1>23. ASSUME NEW d \in Submitters, Look(d) PROVE TypeOK'
    BY <1>23 DEF Look, Visited
  <1>24. ASSUME NEW d \in Submitters, JobEnds(d) PROVE TypeOK'
    BY <1>24 DEF JobEnds, Finishes, Settles, Unlinks
  <1>25. ASSUME NEW d \in Submitters, ForceRelease(d) PROVE TypeOK'
    BY <1>25 DEF ForceRelease
  <1>26. CASE UNCHANGED vars
    BY <1>26 DEF vars
  <1> QED
    BY <1>1, <1>2, <1>3, <1>4, <1>5, <1>6, <1>7, <1>8, <1>9, <1>10, <1>11, <1>12, <1>13, <1>14, <1>15, <1>16, <1>17, <1>18, <1>19, <1>20, <1>21, <1>22, <1>23, <1>24, <1>25, <1>26 DEF Next, Submission

\* Nobody enters a transaction, or the lock, beside another.
LEMMA ExclusiveStep ==
    ASSUME TypeOK, Exclusive, Rows, [Next]_vars
    PROVE  Exclusive'
  <1> USE SubmissionAssumption DEF TypeOK, Exclusive, Rows, InTransaction, Prepares, LockedPC, Inserting, PC, Goes, Ends, local, database, history
  <1>1. ASSUME NEW d \in Submitters, Call(d) PROVE Exclusive'
    BY <1>1 DEF Call, Lost, Visited
  <1>2. ASSUME NEW d \in Submitters, TakeLock(d) PROVE Exclusive'
    BY <1>2 DEF TakeLock
  <1>3. ASSUME NEW d \in Submitters, LockTimesOut(d) PROVE Exclusive'
    BY <1>3 DEF LockTimesOut
  <1>4. ASSUME NEW d \in Submitters, Begin(d) PROVE Exclusive'
    BY <1>4 DEF Begin
  <1>5. ASSUME NEW d \in Submitters, Replay(d) PROVE Exclusive'
    BY <1>5 DEF Replay, Existing, Found, Lost, Visited
  <1>6. ASSUME NEW d \in Submitters, Check(d) PROVE Exclusive'
    BY <1>6 DEF Check
  <1>7. ASSUME NEW d \in Submitters, Prepare(d) PROVE Exclusive'
    BY <1>7 DEF Prepare, Claimants, Told, Lost, Visited
  <1>8. ASSUME NEW d \in Submitters, PrepareBroadly(d) PROVE Exclusive'
    BY <1>8 DEF PrepareBroadly
  <1>9. ASSUME NEW d \in Submitters, Prepared(d) PROVE Exclusive'
    BY <1>9 DEF Prepared
  <1>10. ASSUME NEW d \in Submitters, PreparationFails(d) PROVE Exclusive'
    BY <1>10 DEF PreparationFails
  <1>11. ASSUME NEW d \in Submitters, Admit(d) PROVE Exclusive'
    BY <1>11 DEF Admit, Claimants, Told
  <1>12. ASSUME NEW d \in Submitters, MakeDirectory(d) PROVE Exclusive'
    BY <1>12 DEF MakeDirectory
  <1>13. ASSUME NEW d \in Submitters, Store(d) PROVE Exclusive'
    BY <1>13 DEF Store
  <1>14. ASSUME NEW d \in Submitters, Commit(d) PROVE Exclusive'
    BY <1>14 DEF Commit, Existing
  <1>15. ASSUME NEW d \in Submitters, CommitFails(d) PROVE Exclusive'
    BY <1>15 DEF CommitFails
  <1>16. ASSUME NEW d \in Submitters, Cleanup(d) PROVE Exclusive'
    BY <1>16 DEF Cleanup, Cleaned
  <1>17. ASSUME NEW d \in Submitters, Proceed(d) PROVE Exclusive'
    BY <1>17 DEF Proceed
  <1>18. ASSUME NEW d \in Submitters, Launch(d) PROVE Exclusive'
    BY <1>18 DEF Launch
  <1>19. ASSUME NEW d \in Submitters, LaunchFails(d) PROVE Exclusive'
    BY <1>19 DEF LaunchFails, Finishes, Settles, Unlinks
  <1>20. ASSUME NEW d \in Submitters, Interrupted(d) PROVE Exclusive'
    BY <1>20 DEF Interrupted
  <1>21. ASSUME NEW d \in Submitters, Fails(d) PROVE Exclusive'
    BY <1>21 DEF Fails
  <1>22. ASSUME NEW d \in Submitters, Dies(d) PROVE Exclusive'
    BY <1>22 DEF Dies
  <1>23. ASSUME NEW d \in Submitters, Look(d) PROVE Exclusive'
    BY <1>23 DEF Look, Visited
  <1>24. ASSUME NEW d \in Submitters, JobEnds(d) PROVE Exclusive'
    BY <1>24 DEF JobEnds, Finishes, Settles, Unlinks
  <1>25. ASSUME NEW d \in Submitters, ForceRelease(d) PROVE Exclusive'
    BY <1>25 DEF ForceRelease
  <1>26. CASE UNCHANGED vars
    BY <1>26 DEF vars
  <1> QED
    BY <1>1, <1>2, <1>3, <1>4, <1>5, <1>6, <1>7, <1>8, <1>9, <1>10, <1>11, <1>12, <1>13, <1>14, <1>15, <1>16, <1>17, <1>18, <1>19, <1>20, <1>21, <1>22, <1>23, <1>24, <1>25, <1>26 DEF Next, Submission

\* Rows and candidates are where their submitters left them.
LEMMA RowsStep ==
    ASSUME TypeOK, Rows, [Next]_vars
    PROVE  Rows'
  <1> USE SubmissionAssumption DEF TypeOK, Rows, PC, Goes, Ends, local, database, history
  <1>1. ASSUME NEW d \in Submitters, Call(d) PROVE Rows'
    BY <1>1 DEF Call, Lost, Visited
  <1>2. ASSUME NEW d \in Submitters, TakeLock(d) PROVE Rows'
    BY <1>2 DEF TakeLock
  <1>3. ASSUME NEW d \in Submitters, LockTimesOut(d) PROVE Rows'
    BY <1>3 DEF LockTimesOut
  <1>4. ASSUME NEW d \in Submitters, Begin(d) PROVE Rows'
    BY <1>4 DEF Begin
  <1>5. ASSUME NEW d \in Submitters, Replay(d) PROVE Rows'
    BY <1>5 DEF Replay, Existing, Found, Lost, Visited
  <1>6. ASSUME NEW d \in Submitters, Check(d) PROVE Rows'
    BY <1>6 DEF Check
  <1>7. ASSUME NEW d \in Submitters, Prepare(d) PROVE Rows'
    BY <1>7 DEF Prepare, Claimants, Told, Lost, Visited
  <1>8. ASSUME NEW d \in Submitters, PrepareBroadly(d) PROVE Rows'
    BY <1>8 DEF PrepareBroadly
  <1>9. ASSUME NEW d \in Submitters, Prepared(d) PROVE Rows'
    BY <1>9 DEF Prepared
  <1>10. ASSUME NEW d \in Submitters, PreparationFails(d) PROVE Rows'
    BY <1>10 DEF PreparationFails
  <1>11. ASSUME NEW d \in Submitters, Admit(d) PROVE Rows'
    BY <1>11 DEF Admit, Claimants, Told
  <1>12. ASSUME NEW d \in Submitters, MakeDirectory(d) PROVE Rows'
    BY <1>12 DEF MakeDirectory
  <1>13. ASSUME NEW d \in Submitters, Store(d) PROVE Rows'
    BY <1>13 DEF Store
  <1>14. ASSUME NEW d \in Submitters, Commit(d) PROVE Rows'
    BY <1>14 DEF Commit, Existing
  <1>15. ASSUME NEW d \in Submitters, CommitFails(d) PROVE Rows'
    BY <1>15 DEF CommitFails
  <1>16. ASSUME NEW d \in Submitters, Cleanup(d) PROVE Rows'
    BY <1>16 DEF Cleanup, Cleaned
  <1>17. ASSUME NEW d \in Submitters, Proceed(d) PROVE Rows'
    BY <1>17 DEF Proceed
  <1>18. ASSUME NEW d \in Submitters, Launch(d) PROVE Rows'
    BY <1>18 DEF Launch
  <1>19. ASSUME NEW d \in Submitters, LaunchFails(d) PROVE Rows'
    BY <1>19 DEF LaunchFails, Finishes, Settles, Unlinks
  <1>20. ASSUME NEW d \in Submitters, Interrupted(d) PROVE Rows'
    BY <1>20 DEF Interrupted
  <1>21. ASSUME NEW d \in Submitters, Fails(d) PROVE Rows'
    BY <1>21 DEF Fails
  <1>22. ASSUME NEW d \in Submitters, Dies(d) PROVE Rows'
    BY <1>22 DEF Dies
  <1>23. ASSUME NEW d \in Submitters, Look(d) PROVE Rows'
    BY <1>23 DEF Look, Visited
  <1>24. ASSUME NEW d \in Submitters, JobEnds(d) PROVE Rows'
    BY <1>24 DEF JobEnds, Finishes, Settles, Unlinks
  <1>25. ASSUME NEW d \in Submitters, ForceRelease(d) PROVE Rows'
    BY <1>25 DEF ForceRelease
  <1>26. CASE UNCHANGED vars
    BY <1>26 DEF vars
  <1> QED
    BY <1>1, <1>2, <1>3, <1>4, <1>5, <1>6, <1>7, <1>8, <1>9, <1>10, <1>11, <1>12, <1>13, <1>14, <1>15, <1>16, <1>17, <1>18, <1>19, <1>20, <1>21, <1>22, <1>23, <1>24, <1>25, <1>26 DEF Next, Submission

\* Files are stored before the row, and removed only without a supervisor.
LEMMA FilesStep ==
    ASSUME TypeOK, Rows, Files, [Next]_vars
    PROVE  Files'
  <1> USE SubmissionAssumption DEF TypeOK, Rows, Files, Stored, PC, Path, Goes, Ends, local, database, history
  <1>1. ASSUME NEW d \in Submitters, Call(d) PROVE Files'
    BY <1>1 DEF Call, Lost, Visited
  <1>2. ASSUME NEW d \in Submitters, TakeLock(d) PROVE Files'
    BY <1>2 DEF TakeLock
  <1>3. ASSUME NEW d \in Submitters, LockTimesOut(d) PROVE Files'
    BY <1>3 DEF LockTimesOut
  <1>4. ASSUME NEW d \in Submitters, Begin(d) PROVE Files'
    BY <1>4 DEF Begin
  <1>5. ASSUME NEW d \in Submitters, Replay(d) PROVE Files'
    <2>1. Found \in Submitters
      BY <1>5 DEF Replay, Existing, Found
    <2>2. files' = files \/ (Found \notin Lost /\ files' = Visited({Found}))
      BY <1>5 DEF Replay
    <2>3. /\ pc' \in [Submitters -> PC] /\ pc' = [pc EXCEPT ![d] = "done"] /\ pc[d] = "checking"
          /\ UNCHANGED << request, job, launched, leftover, ending >>
      BY <1>5 DEF Replay
    <2>4. \A c \in Submitters :
            /\ files'[c] \in {files[c], files[c] \cup {"owner"}}
            /\ files'[c] # files[c] => job[c] = "unfinished" /\ "directory" \in files[c]
      <3> TAKE c \in Submitters
      <3>1. CASE files' = files
        BY <3>1
      <3>2. CASE files' = Visited({Found}) /\ c = Found /\ job[c] = "unfinished"
        <4>1. files'[c] = files[c] \cup {"owner"}
          BY <3>2 DEF Visited
        <4>2. "directory" \in files[c]
          BY <1>5, <3>2, <4>1 DEF Replay, Lost
        <4> QED
          BY <3>2, <4>1, <4>2
      <3>3. CASE files' = Visited({Found}) /\ ~(c = Found /\ job[c] = "unfinished")
        <4>1. files'[c] = files[c] \cup {}
          BY <3>3 DEF Visited
        <4> QED
          BY <4>1
      <3> QED
        BY <2>2, <3>1, <3>2, <3>3
    <2> QED
      BY <2>3, <2>4
  <1>6. ASSUME NEW d \in Submitters, Check(d) PROVE Files'
    BY <1>6 DEF Check
  <1>7. ASSUME NEW d \in Submitters, Prepare(d) PROVE Files'
    BY <1>7 DEF Prepare, Claimants, Told, Lost, Visited
  <1>8. ASSUME NEW d \in Submitters, PrepareBroadly(d) PROVE Files'
    BY <1>8 DEF PrepareBroadly
  <1>9. ASSUME NEW d \in Submitters, Prepared(d) PROVE Files'
    BY <1>9 DEF Prepared
  <1>10. ASSUME NEW d \in Submitters, PreparationFails(d) PROVE Files'
    BY <1>10 DEF PreparationFails
  <1>11. ASSUME NEW d \in Submitters, Admit(d) PROVE Files'
    BY <1>11 DEF Admit, Claimants, Told
  <1>12. ASSUME NEW d \in Submitters, MakeDirectory(d) PROVE Files'
    BY <1>12 DEF MakeDirectory
  <1>13. ASSUME NEW d \in Submitters, Store(d) PROVE Files'
    BY <1>13 DEF Store
  <1>14. ASSUME NEW d \in Submitters, Commit(d) PROVE Files'
    BY <1>14 DEF Commit, Existing
  <1>15. ASSUME NEW d \in Submitters, CommitFails(d) PROVE Files'
    BY <1>15 DEF CommitFails
  <1>16. ASSUME NEW d \in Submitters, Cleanup(d) PROVE Files'
    BY <1>16 DEF Cleanup, Cleaned
  <1>17. ASSUME NEW d \in Submitters, Proceed(d) PROVE Files'
    BY <1>17 DEF Proceed
  <1>18. ASSUME NEW d \in Submitters, Launch(d) PROVE Files'
    BY <1>18 DEF Launch
  <1>19. ASSUME NEW d \in Submitters, LaunchFails(d) PROVE Files'
    BY <1>19 DEF LaunchFails, Finishes, Settles, Unlinks
  <1>20. ASSUME NEW d \in Submitters, Interrupted(d) PROVE Files'
    BY <1>20 DEF Interrupted
  <1>21. ASSUME NEW d \in Submitters, Fails(d) PROVE Files'
    BY <1>21 DEF Fails
  <1>22. ASSUME NEW d \in Submitters, Dies(d) PROVE Files'
    BY <1>22 DEF Dies
  <1>23. ASSUME NEW d \in Submitters, Look(d) PROVE Files'
    BY <1>23 DEF Look, Visited
  <1>24. ASSUME NEW d \in Submitters, JobEnds(d) PROVE Files'
    BY <1>24 DEF JobEnds, Finishes, Settles, Unlinks
  <1>25. ASSUME NEW d \in Submitters, ForceRelease(d) PROVE Files'
    BY <1>25 DEF ForceRelease
  <1>26. CASE UNCHANGED vars
    BY <1>26 DEF vars
  <1> QED
    BY <1>1, <1>2, <1>3, <1>4, <1>5, <1>6, <1>7, <1>8, <1>9, <1>10, <1>11, <1>12, <1>13, <1>14, <1>15, <1>16, <1>17, <1>18, <1>19, <1>20, <1>21, <1>22, <1>23, <1>24, <1>25, <1>26 DEF Next, Submission

\* An owner.lock stays, and comes with every answer to a retry.
LEMMA AnnouncedStep ==
    ASSUME TypeOK, Rows, Files, Announced, [Next]_vars
    PROVE  Announced'
  <1> USE SubmissionAssumption DEF TypeOK, Rows, Files, Announced, PC, Path, Answer, Refusal, Goes, Ends, local, database, history
  <1>1. ASSUME NEW d \in Submitters, Call(d) PROVE Announced'
    BY <1>1 DEF Call, Lost, Visited
  <1>2. ASSUME NEW d \in Submitters, TakeLock(d) PROVE Announced'
    BY <1>2 DEF TakeLock
  <1>3. ASSUME NEW d \in Submitters, LockTimesOut(d) PROVE Announced'
    BY <1>3 DEF LockTimesOut
  <1>4. ASSUME NEW d \in Submitters, Begin(d) PROVE Announced'
    BY <1>4 DEF Begin
  <1>5. ASSUME NEW d \in Submitters, Replay(d) PROVE Announced'
    <2> SUFFICES ASSUME NEW b \in Submitters, NEW c \in Submitters, answer'[b] = c
                 PROVE  (c \in launched \/ job[c] = "finished" \/ "owner" \in files[c])'
      OBVIOUS
    <2>1. UNCHANGED << job, launched >> /\ files[c] \subseteq files'[c]
      BY <1>5 DEF Replay, Visited
    <2>2. CASE answer[b] = c
      BY <2>1, <2>2
    <2>3. CASE answer[b] # c
      <3>1. Found \in Submitters /\ job[Found] # "none"
        BY <1>5 DEF Replay, Existing, Found
      <3>2. c = Found /\ files' = Visited({Found})
        BY <1>5, <2>3 DEF Replay
      <3> QED
        BY <2>1, <3>1, <3>2 DEF Visited
    <2> QED
      BY <2>2, <2>3
  <1>6. ASSUME NEW d \in Submitters, Check(d) PROVE Announced'
    BY <1>6 DEF Check
  <1>7. ASSUME NEW d \in Submitters, Prepare(d) PROVE Announced'
    BY <1>7 DEF Prepare, Claimants, Told, Lost, Visited
  <1>8. ASSUME NEW d \in Submitters, PrepareBroadly(d) PROVE Announced'
    BY <1>8 DEF PrepareBroadly
  <1>9. ASSUME NEW d \in Submitters, Prepared(d) PROVE Announced'
    BY <1>9 DEF Prepared
  <1>10. ASSUME NEW d \in Submitters, PreparationFails(d) PROVE Announced'
    BY <1>10 DEF PreparationFails
  <1>11. ASSUME NEW d \in Submitters, Admit(d) PROVE Announced'
    BY <1>11 DEF Admit, Claimants, Told
  <1>12. ASSUME NEW d \in Submitters, MakeDirectory(d) PROVE Announced'
    BY <1>12 DEF MakeDirectory
  <1>13. ASSUME NEW d \in Submitters, Store(d) PROVE Announced'
    BY <1>13 DEF Store
  <1>14. ASSUME NEW d \in Submitters, Commit(d) PROVE Announced'
    BY <1>14 DEF Commit, Existing
  <1>15. ASSUME NEW d \in Submitters, CommitFails(d) PROVE Announced'
    BY <1>15 DEF CommitFails
  <1>16. ASSUME NEW d \in Submitters, Cleanup(d) PROVE Announced'
    BY <1>16 DEF Cleanup, Cleaned
  <1>17. ASSUME NEW d \in Submitters, Proceed(d) PROVE Announced'
    BY <1>17 DEF Proceed
  <1>18. ASSUME NEW d \in Submitters, Launch(d) PROVE Announced'
    BY <1>18 DEF Launch
  <1>19. ASSUME NEW d \in Submitters, LaunchFails(d) PROVE Announced'
    BY <1>19 DEF LaunchFails, Finishes, Settles, Unlinks
  <1>20. ASSUME NEW d \in Submitters, Interrupted(d) PROVE Announced'
    BY <1>20 DEF Interrupted
  <1>21. ASSUME NEW d \in Submitters, Fails(d) PROVE Announced'
    BY <1>21 DEF Fails
  <1>22. ASSUME NEW d \in Submitters, Dies(d) PROVE Announced'
    BY <1>22 DEF Dies
  <1>23. ASSUME NEW d \in Submitters, Look(d) PROVE Announced'
    BY <1>23 DEF Look, Visited
  <1>24. ASSUME NEW d \in Submitters, JobEnds(d) PROVE Announced'
    BY <1>24 DEF JobEnds, Finishes, Settles, Unlinks
  <1>25. ASSUME NEW d \in Submitters, ForceRelease(d) PROVE Announced'
    BY <1>25 DEF ForceRelease
  <1>26. CASE UNCHANGED vars
    BY <1>26 DEF vars
  <1> QED
    BY <1>1, <1>2, <1>3, <1>4, <1>5, <1>6, <1>7, <1>8, <1>9, <1>10, <1>11, <1>12, <1>13, <1>14, <1>15, <1>16, <1>17, <1>18, <1>19, <1>20, <1>21, <1>22, <1>23, <1>24, <1>25, <1>26 DEF Next, Submission

\* Who inserts is the only writer, who prepares the only one of its twins.
LEMMA KeyFreeStep ==
    ASSUME TypeOK, Exclusive, Rows, KeyFree, [Next]_vars
    PROVE  KeyFree'
  <1> USE SubmissionAssumption DEF TypeOK, Exclusive, Rows, KeyFree, Existing, Twins, InTransaction, Prepares, LockedPC, Inserting, PC, Goes, Ends, local, database, history
  <1>1. ASSUME NEW d \in Submitters, Call(d) PROVE KeyFree'
    BY <1>1 DEF Call, Lost, Visited
  <1>2. ASSUME NEW d \in Submitters, TakeLock(d) PROVE KeyFree'
    BY <1>2 DEF TakeLock
  <1>3. ASSUME NEW d \in Submitters, LockTimesOut(d) PROVE KeyFree'
    BY <1>3 DEF LockTimesOut
  <1>4. ASSUME NEW d \in Submitters, Begin(d) PROVE KeyFree'
    BY <1>4 DEF Begin
  <1>5. ASSUME NEW d \in Submitters, Replay(d) PROVE KeyFree'
    BY <1>5 DEF Replay, Existing, Found, Lost, Visited
  <1>6. ASSUME NEW d \in Submitters, Check(d) PROVE KeyFree'
    BY <1>6 DEF Check
  <1>7. ASSUME NEW d \in Submitters, Prepare(d) PROVE KeyFree'
    BY <1>7 DEF Prepare, Claimants, Told, Lost, Visited
  <1>8. ASSUME NEW d \in Submitters, PrepareBroadly(d) PROVE KeyFree'
    BY <1>8 DEF PrepareBroadly
  <1>9. ASSUME NEW d \in Submitters, Prepared(d) PROVE KeyFree'
    BY <1>9 DEF Prepared
  <1>10. ASSUME NEW d \in Submitters, PreparationFails(d) PROVE KeyFree'
    BY <1>10 DEF PreparationFails
  <1>11. ASSUME NEW d \in Submitters, Admit(d) PROVE KeyFree'
    BY <1>11 DEF Admit, Claimants, Told
  <1>12. ASSUME NEW d \in Submitters, MakeDirectory(d) PROVE KeyFree'
    BY <1>12 DEF MakeDirectory
  <1>13. ASSUME NEW d \in Submitters, Store(d) PROVE KeyFree'
    BY <1>13 DEF Store
  <1>14. ASSUME NEW d \in Submitters, Commit(d) PROVE KeyFree'
    BY <1>14 DEF Commit, Existing
  <1>15. ASSUME NEW d \in Submitters, CommitFails(d) PROVE KeyFree'
    BY <1>15 DEF CommitFails
  <1>16. ASSUME NEW d \in Submitters, Cleanup(d) PROVE KeyFree'
    BY <1>16 DEF Cleanup, Cleaned
  <1>17. ASSUME NEW d \in Submitters, Proceed(d) PROVE KeyFree'
    BY <1>17 DEF Proceed
  <1>18. ASSUME NEW d \in Submitters, Launch(d) PROVE KeyFree'
    BY <1>18 DEF Launch
  <1>19. ASSUME NEW d \in Submitters, LaunchFails(d) PROVE KeyFree'
    BY <1>19 DEF LaunchFails, Finishes, Settles, Unlinks
  <1>20. ASSUME NEW d \in Submitters, Interrupted(d) PROVE KeyFree'
    BY <1>20 DEF Interrupted
  <1>21. ASSUME NEW d \in Submitters, Fails(d) PROVE KeyFree'
    BY <1>21 DEF Fails
  <1>22. ASSUME NEW d \in Submitters, Dies(d) PROVE KeyFree'
    BY <1>22 DEF Dies
  <1>23. ASSUME NEW d \in Submitters, Look(d) PROVE KeyFree'
    BY <1>23 DEF Look, Visited
  <1>24. ASSUME NEW d \in Submitters, JobEnds(d) PROVE KeyFree'
    BY <1>24 DEF JobEnds, Finishes, Settles, Unlinks
  <1>25. ASSUME NEW d \in Submitters, ForceRelease(d) PROVE KeyFree'
    BY <1>25 DEF ForceRelease
  <1>26. CASE UNCHANGED vars
    BY <1>26 DEF vars
  <1> QED
    BY <1>1, <1>2, <1>3, <1>4, <1>5, <1>6, <1>7, <1>8, <1>9, <1>10, <1>11, <1>12, <1>13, <1>14, <1>15, <1>16, <1>17, <1>18, <1>19, <1>20, <1>21, <1>22, <1>23, <1>24, <1>25, <1>26 DEF Next, Submission

\* Answers.
LEMMA IdempotentStep ==
    ASSUME Inv, [Next]_vars
    PROVE  Idempotent'
  <1> USE SubmissionAssumption DEF Inv, TypeOK, Exclusive, Rows, KeyFree, Idempotent, Existing, Twins, InTransaction, Prepares, LockedPC, Inserting, PC, Answer, Refusal, Goes, Ends, local, database, history
  <1>1. ASSUME NEW d \in Submitters, Call(d) PROVE Idempotent'
    BY <1>1 DEF Call, Lost, Visited
  <1>2. ASSUME NEW d \in Submitters, TakeLock(d) PROVE Idempotent'
    BY <1>2 DEF TakeLock
  <1>3. ASSUME NEW d \in Submitters, LockTimesOut(d) PROVE Idempotent'
    BY <1>3 DEF LockTimesOut
  <1>4. ASSUME NEW d \in Submitters, Begin(d) PROVE Idempotent'
    BY <1>4 DEF Begin
  <1>5. ASSUME NEW d \in Submitters, Replay(d) PROVE Idempotent'
    BY <1>5 DEF Replay, Existing, Found, Lost, Visited
  <1>6. ASSUME NEW d \in Submitters, Check(d) PROVE Idempotent'
    BY <1>6 DEF Check
  <1>7. ASSUME NEW d \in Submitters, Prepare(d) PROVE Idempotent'
    BY <1>7 DEF Prepare, Claimants, Told, Lost, Visited
  <1>8. ASSUME NEW d \in Submitters, PrepareBroadly(d) PROVE Idempotent'
    BY <1>8 DEF PrepareBroadly
  <1>9. ASSUME NEW d \in Submitters, Prepared(d) PROVE Idempotent'
    BY <1>9 DEF Prepared
  <1>10. ASSUME NEW d \in Submitters, PreparationFails(d) PROVE Idempotent'
    BY <1>10 DEF PreparationFails
  <1>11. ASSUME NEW d \in Submitters, Admit(d) PROVE Idempotent'
    BY <1>11 DEF Admit, Claimants, Told
  <1>12. ASSUME NEW d \in Submitters, MakeDirectory(d) PROVE Idempotent'
    BY <1>12 DEF MakeDirectory
  <1>13. ASSUME NEW d \in Submitters, Store(d) PROVE Idempotent'
    BY <1>13 DEF Store
  <1>14. ASSUME NEW d \in Submitters, Commit(d) PROVE Idempotent'
    BY <1>14 DEF Commit, Existing
  <1>15. ASSUME NEW d \in Submitters, CommitFails(d) PROVE Idempotent'
    BY <1>15 DEF CommitFails
  <1>16. ASSUME NEW d \in Submitters, Cleanup(d) PROVE Idempotent'
    BY <1>16 DEF Cleanup, Cleaned
  <1>17. ASSUME NEW d \in Submitters, Proceed(d) PROVE Idempotent'
    BY <1>17 DEF Proceed
  <1>18. ASSUME NEW d \in Submitters, Launch(d) PROVE Idempotent'
    BY <1>18 DEF Launch
  <1>19. ASSUME NEW d \in Submitters, LaunchFails(d) PROVE Idempotent'
    BY <1>19 DEF LaunchFails, Finishes, Settles, Unlinks
  <1>20. ASSUME NEW d \in Submitters, Interrupted(d) PROVE Idempotent'
    BY <1>20 DEF Interrupted
  <1>21. ASSUME NEW d \in Submitters, Fails(d) PROVE Idempotent'
    BY <1>21 DEF Fails
  <1>22. ASSUME NEW d \in Submitters, Dies(d) PROVE Idempotent'
    BY <1>22 DEF Dies
  <1>23. ASSUME NEW d \in Submitters, Look(d) PROVE Idempotent'
    BY <1>23 DEF Look, Visited
  <1>24. ASSUME NEW d \in Submitters, JobEnds(d) PROVE Idempotent'
    BY <1>24 DEF JobEnds, Finishes, Settles, Unlinks
  <1>25. ASSUME NEW d \in Submitters, ForceRelease(d) PROVE Idempotent'
    BY <1>25 DEF ForceRelease
  <1>26. CASE UNCHANGED vars
    BY <1>26 DEF vars
  <1> QED
    BY <1>1, <1>2, <1>3, <1>4, <1>5, <1>6, <1>7, <1>8, <1>9, <1>10, <1>11, <1>12, <1>13, <1>14, <1>15, <1>16, <1>17, <1>18, <1>19, <1>20, <1>21, <1>22, <1>23, <1>24, <1>25, <1>26 DEF Next, Submission

LEMMA InvStep == Inv /\ [Next]_vars => Inv'
  BY TypeStep, ExclusiveStep, RowsStep, FilesStep, AnnouncedStep, KeyFreeStep, IdempotentStep DEF Inv

\* The invariant holds for every number of submissions and every set of requests.
THEOREM InvHolds == Spec => []Inv
  BY InitInv, InvStep, PTL DEF Spec

\* There is one job under a key, answers name it, and retries do not refuse each
\* other.
THEOREM RetriesAreIdempotent == Spec => []Idempotent
  <1>1. Inv => Idempotent
    BY DEF Inv
  <1> QED
    BY <1>1, InvHolds, PTL

\* No supervisor is started without the payload, no file is left without a row, and
\* nobody is told of a job that cannot be ended.
THEOREM FilesMatchRows == Spec => []FilesAccounted
  <1>1. Inv => FilesAccounted
    BY DEF Inv, Files, Announced, FilesAccounted, Lost
  <1> QED
    BY <1>1, InvHolds, PTL
-----------------------------------------------------------------------------
(* Listing *)

Skims == kind \in {"jobs", "locks"}

Increasing(s) == \A i, j \in DOMAIN s : i < j => s[i] < s[j]

\* Which listing is where, and what the steps of a call leave behind.
Phases ==
    /\ reader.pc \in {"fetch", "refresh"} => Skims
    /\ reader.pc \in {"content", "size"} => kind = "log"
    /\ reader.pc = "scan" => kind # "log"
    /\ reader.pc = "refresh" =>
            kind = "jobs" /\ reader.batch # << >> /\ Len(reader.page) < reader.limit
    /\ reader.batch # << >> => Skims /\ reader.pc \in {"scan", "refresh"}
    /\ reader.pc \in {"fetch", "scan", "refresh", "content", "size"} => reader.limit > 0
    /\ reader.pc = "idle" => reader.cursor = 0 /\ reader.got = << >> /\ steady = {}
    /\ steady \subseteq There

\* A log grows at its end, and not after a verdict other than lost.
Written ==
    /\ kind = "log" =>
            /\ \A i \in Items : item[i] \in {"new", "there"}
            /\ \A i \in There, k \in Items : k < i => k \in There
    /\ log.status = "ended" => ~log.writes
    /\ reader.ended => log.status # "unfinished"

\* What is behind the cursor was returned, in order, if it was there all along.
Behind ==
    kind \in {"jobs", "locks", "objects"} /\ reader.pc # "done" =>
        /\ Increasing(reader.got)
        /\ \A i \in ToSet(reader.got) : i <= reader.cursor
        /\ \A i \in steady : i <= reader.cursor => i \in ToSet(reader.got)

\* What lies between the cursor and the row looked at last is on the page, and
\* what lies behind this row in the batch, or behind a full batch.
Covers(r) ==
    /\ r.cursor <= r.after
    /\ Increasing(r.page) /\ Increasing(r.batch)
    /\ \A i \in ToSet(r.page) : r.cursor < i /\ i <= r.after
    /\ \A i \in ToSet(r.batch) : r.after < i
    /\ \A i \in steady : r.cursor < i /\ i <= r.after => i \in ToSet(r.page)
    /\ r.pc # "fetch" =>
        \A i \in steady : r.after < i /\ i \notin ToSet(r.batch) =>
            r.full /\ \A k \in ToSet(r.batch) : k < i

Ahead == Skims /\ reader.pc \in {"fetch", "scan", "refresh"} => Covers(reader)

\* The cursor counts the entries of a directory where nothing moved.
Entries ==
    kind = "directory" /\ reader.pc # "idle" /\ ~moved =>
        /\ steady = There
        /\ reader.pc # "done" => /\ reader.cursor <= Cardinality(There)
                                 /\ reader.got = SubSeq(Sorted(There), 1, reader.cursor)
        /\ reader.pc = "done" => reader.got = Sorted(There)

\* The cursor counts the bytes of a log.
Bytes ==
    kind = "log" =>
        /\ reader.pc # "done" =>
            /\ IsInjective(reader.got) /\ ToSet(reader.got) = 1..reader.cursor
            /\ 1..reader.cursor \subseteq There
        /\ reader.pc = "size" =>
            /\ IsInjective(reader.page)
            /\ ToSet(reader.page) = reader.cursor + 1..reader.cursor + Len(reader.page)
            /\ ToSet(reader.page) \subseteq There
        /\ reader.pc = "done" => reader.ended

ListingInv ==
    ListingTypeOK /\ Phases /\ Written /\ Behind /\ Ahead /\ Entries /\ Bytes /\ NothingMissed

\* The places of the members of a set are the numbers up to its size, each once.
LEMMA Places ==
    ASSUME NEW S \in SUBSET Nat, IsFiniteSet(S)
    PROVE  /\ Cardinality(S) \in Nat
           /\ \A i \in S : Place(S, i) \in 1..Cardinality(S)
           /\ \A i, j \in S : i < j => Place(S, i) < Place(S, j)
           /\ \A n \in 1..Cardinality(S) : \E i \in S : Place(S, i) = n
<1> DEFINE Below(i) == {k \in S : k <= i}
<1>1. Cardinality(S) \in Nat BY FS_CardinalityType
<1>2. ASSUME NEW i \in S
      PROVE  /\ Place(S, i) = Cardinality(Below(i)) /\ IsFiniteSet(Below(i))
             /\ Cardinality(Below(i)) \in 1..Cardinality(S)
    <2>1. Below(i) \in SUBSET S /\ Place(S, i) = Cardinality(Below(i)) BY DEF Place
    <2> HIDE DEF Below
    <2>2. IsFiniteSet(Below(i)) /\ Cardinality(Below(i)) <= Cardinality(S) BY <2>1, FS_Subset
    <2>3. Cardinality(Below(i)) \in Nat BY <2>2, FS_CardinalityType
    <2>4. Below(i) # {} BY DEF Below
    <2>5. Cardinality(Below(i)) # 0 BY <2>2, <2>4, FS_EmptySet
    <2> QED BY <1>1, <2>1, <2>2, <2>3, <2>5
<1>3. ASSUME NEW i \in S, NEW j \in S, i < j PROVE Place(S, i) < Place(S, j)
    <2>1. Below(i) \in SUBSET Below(j) /\ Below(i) # Below(j)
        <3>1. i \in Nat /\ j \in Nat OBVIOUS
        <3>2. \A k \in Below(i) : k \in Below(j) BY <1>3, <3>1
        <3>3. j \in Below(j) /\ j \notin Below(i) BY <1>3, <3>1
        <3> QED BY <3>2, <3>3
    <2> HIDE DEF Below
    <2>2. IsFiniteSet(Below(j)) /\ Place(S, j) = Cardinality(Below(j)) BY <1>2
    <2>3. Place(S, i) = Cardinality(Below(i)) /\ Cardinality(Below(i)) \in Nat
        BY <1>1, <1>2
    <2>4. Cardinality(Below(j)) \in Nat BY <1>1, <1>2
    <2>5. Cardinality(Below(i)) <= Cardinality(Below(j))
          /\ Cardinality(Below(i)) # Cardinality(Below(j)) BY <2>1, <2>2, FS_Subset
    <2> QED BY <2>2, <2>3, <2>4, <2>5
<1> DEFINE T == 1..Cardinality(S)
           f == [i \in S |-> Place(S, i)]
<1>4. f \in [S -> T]
    <2>1. \A i \in S : Place(S, i) \in T BY <1>2
    <2> QED BY <2>1
<1>5. \A i, j \in S : f[i] = f[j] => i = j
    <2> SUFFICES ASSUME NEW i \in S, NEW j \in S, Place(S, i) = Place(S, j) PROVE i = j
        OBVIOUS
    <2>1. i \in Nat /\ j \in Nat OBVIOUS
    <2>2. Place(S, i) \in 1..Cardinality(S) BY <1>2
    <2>3. ~ Place(S, i) < Place(S, i) BY <1>1, <2>2
    <2>4. ~ i < j /\ ~ j < i BY <1>3, <2>3
    <2> QED BY <2>1, <2>4
<1>6. f \in Injection(S, T) BY <1>4, <1>5 DEF Injection, IsInjective
<1>7. IsFiniteSet(T) /\ Cardinality(T) = Cardinality(S) BY <1>1, FS_Interval
<1>8. f \in Surjection(S, T)
    <2> HIDE DEF f, T
    <2> QED BY <1>6, <1>7, FS_Injection
<1>9. \A n \in T : \E i \in S : f[i] = n
    <2> HIDE DEF f, T
    <2> QED BY <1>8 DEF Surjection
<1> QED BY <1>1, <1>2, <1>3, <1>9

\* The sorted sequence of a finite set is increasing and has its members.
LEMMA SortedSet ==
    ASSUME NEW S \in SUBSET Nat, IsFiniteSet(S)
    PROVE  /\ Sorted(S) \in Seq(S)
           /\ Len(Sorted(S)) = Cardinality(S)
           /\ Increasing(Sorted(S))
           /\ ToSet(Sorted(S)) = S
           /\ \A n \in 1..Cardinality(S) : Place(S, Sorted(S)[n]) = n
<1> DEFINE c == Cardinality(S)
           s == Sorted(S)
<1>1. /\ c \in Nat
      /\ \A i \in S : Place(S, i) \in 1..c
      /\ \A i, j \in S : i < j => Place(S, i) < Place(S, j)
      /\ \A n \in 1..c : \E i \in S : Place(S, i) = n
    BY Places
<1>2. ASSUME NEW n \in 1..c PROVE s[n] \in S /\ Place(S, s[n]) = n
    BY <1>1 DEF Sorted
<1>3. s = [n \in 1..c |-> s[n]] BY DEF Sorted
<1>4. DOMAIN s = 1..c BY DEF Sorted
<1> HIDE DEF c, s
<1>5. s \in [1..c -> S] BY <1>2, <1>3
<1>6. s \in Seq(S) /\ Len(s) = c BY <1>1, <1>5, SeqDef
<1>7. ASSUME NEW i \in 1..c, NEW j \in 1..c, i < j PROVE s[i] < s[j]
    <2>1. s[i] \in Nat /\ s[j] \in Nat BY <1>2
    <2>2. s[i] # s[j] BY <1>2, <1>7
    <2>3. ~ s[j] < s[i]
        <3> SUFFICES ASSUME s[j] < s[i] PROVE FALSE OBVIOUS
        <3>1. Place(S, s[j]) < Place(S, s[i]) BY <1>1, <1>2
        <3> QED BY <1>1, <1>2, <1>7, <3>1
    <2> QED BY <2>1, <2>2, <2>3
<1>8. Increasing(s) BY <1>4, <1>7 DEF Increasing
<1>9. ASSUME NEW i \in S PROVE i \in ToSet(s)
    <2>1. PICK n \in 1..c : Place(S, i) = n BY <1>1
    <2>2. s[n] \in S /\ Place(S, s[n]) = Place(S, i) BY <1>2, <2>1
    <2>3. i \in Nat /\ s[n] \in Nat BY <2>2
    <2>4. ~ n < n BY <1>1
    <2>5. ~ s[n] < i /\ ~ i < s[n] BY <1>1, <2>1, <2>2, <2>4
    <2>6. s[n] = i BY <2>3, <2>5
    <2> QED BY <1>4, <2>6 DEF ToSet
<1>10. ToSet(s) \subseteq S BY <1>2, <1>4 DEF ToSet
<1> QED BY <1>2, <1>6, <1>8, <1>9, <1>10 DEF c, s

\* What is at the front of an increasing sequence, and behind it.
LEMMA HeadOfIncreasing ==
    ASSUME NEW s \in Seq(Nat), s # << >>, Increasing(s)
    PROVE  /\ Head(s) \in ToSet(s) /\ Head(s) \in Nat
           /\ Tail(s) \in Seq(Nat) /\ Increasing(Tail(s))
           /\ ToSet(s) = ToSet(Tail(s)) \cup {Head(s)}
           /\ \A i \in ToSet(Tail(s)) : Head(s) < i
<1> DEFINE t == Tail(s)
           n == Len(s)
<1>1. n \in Nat \ {0} /\ DOMAIN s = 1..n /\ s \in [1..n -> Nat] BY EmptySeq, LenProperties
<1>2. t \in Seq(Nat) /\ Len(t) = n - 1 /\ \A i \in 1..Len(t) : t[i] = s[i + 1]
    BY HeadTailProperties
<1>3. DOMAIN t = 1..n - 1 BY <1>2, LenProperties
<1>4. Head(s) = s[1] OBVIOUS
<1> HIDE DEF t, n
<1>5. \A i \in 1..n - 1 : t[i] = s[i + 1] /\ i + 1 \in 1..n BY <1>1, <1>2
<1>6. Increasing(t) BY <1>1, <1>3, <1>5 DEF Increasing
<1>7. \A i \in 1..n - 1 : s[1] < t[i] BY <1>1, <1>5 DEF Increasing
<1>8. \A i \in 1..n : i = 1 \/ (i - 1 \in 1..n - 1 /\ s[i] = t[i - 1])
    <2> TAKE i \in 1..n
    <2>1. i = 1 \/ (i - 1 \in 1..n - 1 /\ (i - 1) + 1 = i) BY <1>1
    <2> QED BY <1>5, <2>1
<1>9. ToSet(s) = ToSet(t) \cup {s[1]}
    <2>1. ASSUME NEW x \in ToSet(s) PROVE x \in ToSet(t) \/ x = s[1]
        <3>1. PICK i \in 1..n : x = s[i] BY <1>1 DEF ToSet
        <3>2. CASE i = 1 BY <3>1, <3>2
        <3>3. CASE i - 1 \in 1..n - 1 /\ s[i] = t[i - 1] BY <1>3, <3>1, <3>3 DEF ToSet
        <3> QED BY <1>8, <3>2, <3>3
    <2>2. \A x \in ToSet(t) : x \in ToSet(s) BY <1>1, <1>3, <1>5 DEF ToSet
    <2>3. s[1] \in ToSet(s) BY <1>1 DEF ToSet
    <2> QED BY <2>1, <2>2, <2>3
<1>10. \A x \in ToSet(t) : s[1] < x BY <1>3, <1>7 DEF ToSet
<1>11. s[1] \in Nat /\ s[1] \in ToSet(s) BY <1>1 DEF ToSet
<1> QED BY <1>2, <1>4, <1>6, <1>9, <1>10, <1>11 DEF t

\* The last of an increasing sequence is the greatest.
LEMMA LastOfIncreasing ==
    ASSUME NEW s \in Seq(Nat), s # << >>, Increasing(s)
    PROVE  Last(s) \in ToSet(s) /\ \A i \in ToSet(s) : i <= Last(s)
<1> DEFINE n == Len(s)
<1>1. n \in Nat \ {0} /\ DOMAIN s = 1..n /\ s \in [1..n -> Nat] BY EmptySeq, LenProperties
<1>2. Last(s) = s[n] BY DEF Last
<1> HIDE DEF n
<1>3. \A i \in 1..n : s[i] <= s[n]
    <2> TAKE i \in 1..n
    <2>1. i < n \/ i = n BY <1>1
    <2>2. s[i] \in Nat /\ s[n] \in Nat /\ n \in 1..n BY <1>1
    <2> QED BY <1>1, <2>1, <2>2 DEF Increasing
<1> QED BY <1>1, <1>2, <1>3 DEF ToSet

\* A sequence put behind another.
LEMMA Joined ==
    ASSUME NEW S, NEW s \in Seq(S), NEW t \in Seq(S)
    PROVE  /\ s \o t \in Seq(S)
           /\ ToSet(s \o t) = ToSet(s) \cup ToSet(t)
           /\ IsInjective(s) /\ IsInjective(t) /\ ToSet(s) \cap ToSet(t) = {} =>
                IsInjective(s \o t)
<1> DEFINE m == Len(s)
           n == Len(t)
           r == s \o t
<1>1. /\ m \in Nat /\ DOMAIN s = 1..m
      /\ n \in Nat /\ DOMAIN t = 1..n BY LenProperties
<1>2. /\ r \in Seq(S) /\ Len(r) = m + n
      /\ \A i \in 1..m + n : r[i] = IF i <= m THEN s[i] ELSE t[i - m] BY ConcatProperties
<1>3. DOMAIN r = 1..m + n BY <1>2, LenProperties
<1> HIDE DEF m, n, r
<1>4. /\ \A i \in 1..m : i \in 1..m + n /\ r[i] = s[i]
      /\ \A i \in 1..n : m + i \in 1..m + n /\ r[m + i] = t[i]
      /\ \A i \in 1..m + n : \/ i \in 1..m /\ r[i] = s[i]
                             \/ i - m \in 1..n /\ r[i] = t[i - m] /\ ~ i <= m
    BY <1>1, <1>2
<1>5. ToSet(r) = ToSet(s) \cup ToSet(t)
    <2>1. ASSUME NEW x \in ToSet(r) PROVE x \in ToSet(s) \/ x \in ToSet(t)
        <3>1. PICK i \in 1..m + n : x = r[i] BY <1>3 DEF ToSet
        <3>2. CASE i \in 1..m /\ r[i] = s[i] BY <1>1, <3>1, <3>2 DEF ToSet
        <3>3. CASE i - m \in 1..n /\ r[i] = t[i - m] BY <1>1, <3>1, <3>3 DEF ToSet
        <3> QED BY <1>4, <3>2, <3>3
    <2>2. \A x \in ToSet(s) : x \in ToSet(r) BY <1>1, <1>3, <1>4 DEF ToSet
    <2>3. \A x \in ToSet(t) : x \in ToSet(r) BY <1>1, <1>3, <1>4 DEF ToSet
    <2> QED BY <2>1, <2>2, <2>3
<1>6. ASSUME IsInjective(s), IsInjective(t), ToSet(s) \cap ToSet(t) = {},
             NEW i \in 1..m + n, NEW j \in 1..m + n, r[i] = r[j]
      PROVE  i = j
    <2>1. \A k \in 1..m : s[k] \in ToSet(s) BY <1>1 DEF ToSet
    <2>2. \A k \in 1..n : t[k] \in ToSet(t) BY <1>1 DEF ToSet
    <2>3. \/ i \in 1..m /\ r[i] = s[i] /\ r[i] \in ToSet(s)
          \/ i - m \in 1..n /\ r[i] = t[i - m] /\ r[i] \in ToSet(t) BY <1>4, <2>1, <2>2
    <2>4. \/ j \in 1..m /\ r[j] = s[j] /\ r[j] \in ToSet(s)
          \/ j - m \in 1..n /\ r[j] = t[j - m] /\ r[j] \in ToSet(t) BY <1>4, <2>1, <2>2
    <2>5. \/ i \in 1..m /\ j \in 1..m /\ s[i] = s[j]
          \/ i - m \in 1..n /\ j - m \in 1..n /\ t[i - m] = t[j - m]
        BY <1>6, <2>3, <2>4
    <2>6. CASE i \in 1..m /\ j \in 1..m /\ s[i] = s[j] BY <1>1, <1>6, <2>6 DEF IsInjective
    <2>7. CASE i - m \in 1..n /\ j - m \in 1..n /\ t[i - m] = t[j - m]
        <3>1. i - m = j - m BY <1>1, <1>6, <2>7 DEF IsInjective
        <3> QED BY <1>1, <3>1
    <2> QED BY <2>5, <2>6, <2>7
<1>7. IsInjective(s) /\ IsInjective(t) /\ ToSet(s) \cap ToSet(t) = {} => IsInjective(r)
    BY <1>3, <1>6 DEF IsInjective
<1> QED BY <1>2, <1>5, <1>7 DEF r

\* Increasing sequences, one above the other.
LEMMA IncreasingJoined ==
    ASSUME NEW s \in Seq(Nat), NEW t \in Seq(Nat), Increasing(s), Increasing(t),
           \A i \in ToSet(s), j \in ToSet(t) : i < j
    PROVE  Increasing(s \o t)
<1> DEFINE m == Len(s)
           n == Len(t)
           r == s \o t
<1>1. /\ m \in Nat /\ DOMAIN s = 1..m
      /\ n \in Nat /\ DOMAIN t = 1..n BY LenProperties
<1>2. /\ r \in Seq(Nat) /\ Len(r) = m + n
      /\ \A i \in 1..m + n : r[i] = IF i <= m THEN s[i] ELSE t[i - m] BY ConcatProperties
<1>3. DOMAIN r = 1..m + n BY <1>2, LenProperties
<1> HIDE DEF m, n, r
<1>4. ASSUME NEW i \in 1..m + n, NEW j \in 1..m + n, i < j PROVE r[i] < r[j]
    <2>1. CASE j <= m
        <3>1. i \in 1..m /\ j \in 1..m /\ r[i] = s[i] /\ r[j] = s[j] BY <1>1, <1>2, <1>4, <2>1
        <3> QED BY <1>1, <1>4, <3>1 DEF Increasing
    <2>2. CASE i <= m /\ ~ j <= m
        <3>1. i \in 1..m /\ j - m \in 1..n /\ r[i] = s[i] /\ r[j] = t[j - m]
            BY <1>1, <1>2, <1>4, <2>2
        <3>2. r[i] \in ToSet(s) /\ r[j] \in ToSet(t) BY <1>1, <3>1 DEF ToSet
        <3> QED BY <3>2
    <2>3. CASE ~ i <= m
        <3>1. /\ i - m \in 1..n /\ j - m \in 1..n /\ i - m < j - m
              /\ r[i] = t[i - m] /\ r[j] = t[j - m]
            BY <1>1, <1>2, <1>4, <2>3
        <3> QED BY <1>1, <3>1 DEF Increasing
    <2> QED BY <1>1, <2>1, <2>2, <2>3
<1> QED BY <1>3, <1>4 DEF Increasing, r

\* One more item, above those of an increasing sequence.
LEMMA IncreasingAppended ==
    ASSUME NEW S \in SUBSET Nat, NEW s \in Seq(S), NEW e \in S, Increasing(s),
           \A i \in ToSet(s) : i < e
    PROVE  /\ Append(s, e) \in Seq(S) /\ Increasing(Append(s, e))
           /\ ToSet(Append(s, e)) = ToSet(s) \cup {e}
<1> DEFINE t == << e >>
<1>1. t \in Seq(S) /\ Len(t) = 1 /\ t[1] = e OBVIOUS
<1>2. Append(s, e) = s \o t BY AppendIsConcat
<1>3. DOMAIN t = 1..1 OBVIOUS
<1> HIDE DEF t
<1>4. ToSet(t) = {e} BY <1>1, <1>3 DEF ToSet
<1>5. Increasing(t) BY <1>3 DEF Increasing
<1>6. s \in Seq(Nat) /\ t \in Seq(Nat) BY <1>1, SeqMonotonic
<1>7. Increasing(s \o t) BY <1>4, <1>5, <1>6, IncreasingJoined
<1> QED BY <1>1, <1>2, <1>4, <1>7, Joined

\* An increasing sequence has everything once.
LEMMA IncreasingOnce ==
    ASSUME NEW s \in Seq(Nat), Increasing(s)
    PROVE  IsInjective(s)
<1>1. Len(s) \in Nat /\ DOMAIN s = 1..Len(s) /\ s \in [1..Len(s) -> Nat] BY LenProperties
<1>2. ASSUME NEW i \in DOMAIN s, NEW j \in DOMAIN s, s[i] = s[j] PROVE i = j
    <2>1. s[i] \in Nat /\ i \in Nat /\ j \in Nat BY <1>1
    <2>2. ~ i < j /\ ~ j < i BY <1>2, <2>1 DEF Increasing
    <2> QED BY <2>1, <2>2
<1> QED BY <1>2 DEF IsInjective

\* The empty sequence.
LEMMA NoItems == /\ ToSet(<< >>) = {} /\ Increasing(<< >>) /\ IsInjective(<< >>)
                 /\ \A S : << >> \in Seq(S)
<1>1. DOMAIN << >> = {} OBVIOUS
<1> QED BY <1>1 DEF ToSet, Increasing, IsInjective

\* The beginning of a sequence.
LEMMA Beginning ==
    ASSUME NEW S, NEW s \in Seq(S), NEW k \in Nat
    PROVE  /\ FirstOf(s, k) \in Seq(S)
           /\ Len(FirstOf(s, k)) = IF Len(s) < k THEN Len(s) ELSE k
           /\ \A i \in 1..Len(FirstOf(s, k)) : i \in 1..Len(s) /\ FirstOf(s, k)[i] = s[i]
           /\ FirstOf(s, k) = SubSeq(s, 1, Len(FirstOf(s, k)))
<1>1. Len(s) \in Nat BY LenProperties
<1>2. PICK m \in 0..Len(s) : m = IF Len(s) < k THEN Len(s) ELSE k BY <1>1
<1>3. FirstOf(s, k) = SubSeq(s, 1, m) BY <1>2 DEF FirstOf
<1>4. \A i \in 1..m : i \in 1..Len(s) /\ s[i] \in S BY <1>1, ElementOfSeq
<1>5. m \in Int /\ 1 \in Int BY <1>1
<1>6. /\ SubSeq(s, 1, m) \in Seq(S)
      /\ Len(SubSeq(s, 1, m)) = IF 1 <= m THEN m - 1 + 1 ELSE 0
      /\ \A i \in 1..m - 1 + 1 : SubSeq(s, 1, m)[i] = s[1 + i - 1]
    BY <1>4, <1>5, SubSeqProperties
<1>7. Len(SubSeq(s, 1, m)) = m BY <1>1, <1>6
<1>8. \A i \in 1..m : SubSeq(s, 1, m)[i] = s[i] BY <1>1, <1>6
<1> QED BY <1>2, <1>3, <1>4, <1>6, <1>7, <1>8

\* What is not among the first of a set is above them, and they are as many as asked for.
LEMMA FirstOfSet ==
    ASSUME NEW S \in SUBSET Nat, IsFiniteSet(S), NEW k \in Nat \ {0}
    PROVE  LET s == Sorted(S)
               p == FirstOf(s, k)
           IN  /\ p \in Seq(S) /\ p \in Seq(Nat) /\ Increasing(p)
               /\ Len(p) \in Nat /\ Len(s) \in Nat
               /\ \A i \in S : i \notin ToSet(p) =>
                    /\ Len(p) = k /\ Len(p) < Len(s)
                    /\ \A j \in ToSet(p) : j < i
               /\ Len(p) < Len(s) => Len(p) = k
<1> DEFINE s == Sorted(S)
           p == FirstOf(s, k)
<1>1. s \in Seq(S) /\ Increasing(s) /\ ToSet(s) = S BY SortedSet
<1>2. Len(s) \in Nat /\ DOMAIN s = 1..Len(s) /\ s \in [1..Len(s) -> S] BY <1>1, LenProperties
<1> HIDE DEF s
<1>3. /\ p \in Seq(S)
      /\ Len(p) = IF Len(s) < k THEN Len(s) ELSE k
      /\ \A i \in 1..Len(p) : i \in 1..Len(s) /\ p[i] = s[i] BY <1>1, Beginning
<1> HIDE DEF p
<1>4. Len(p) \in Nat /\ DOMAIN p = 1..Len(p) BY <1>3, LenProperties
<1>5. Len(p) < Len(s) => Len(p) = k
    <2>1. CASE Len(s) < k
        <3>1. Len(p) = Len(s) BY <1>3, <2>1
        <3>2. Len(s) \in Nat BY <1>2
        <3>3. ~ Len(p) < Len(s) BY <3>1, <3>2
        <3> QED BY <3>3
    <2>2. CASE ~ Len(s) < k BY <1>2, <1>3, <2>2
    <2> QED BY <2>1, <2>2
<1>6. Increasing(p) BY <1>1, <1>2, <1>3, <1>4 DEF Increasing
<1>7. p \in Seq(Nat) BY <1>3, SeqMonotonic
<1>8. ASSUME NEW i \in S, i \notin ToSet(p)
      PROVE  /\ Len(p) = k /\ Len(p) < Len(s)
             /\ \A j \in ToSet(p) : j < i
    <2>1. PICK n \in 1..Len(s) : i = s[n] BY <1>1, <1>2 DEF ToSet
    <2>2. n \notin 1..Len(p) BY <1>3, <1>4, <1>8, <2>1 DEF ToSet
    <2>3. Len(p) < n BY <1>2, <1>4, <2>2
    <2>4. \A m \in 1..Len(p) : p[m] < i
        BY <1>1, <1>2, <1>3, <1>4, <2>1, <2>3 DEF Increasing
    <2>5. \A j \in ToSet(p) : j < i BY <1>4, <2>4 DEF ToSet
    <2>6. Len(p) < Len(s) BY <1>2, <1>4, <2>3
    <2> QED BY <1>5, <2>5, <2>6
<1> QED BY <1>2, <1>3, <1>4, <1>6, <1>5, <1>7, <1>8 DEF s, p

\* What is in order is not empty if it has a length.
LEMMA NotEmpty ==
    ASSUME NEW S, NEW s \in Seq(S)
    PROVE  (s = << >> <=> Len(s) = 0) /\ Len(s) \in Nat /\ (s = << >> <=> ToSet(s) = {})
<1>1. s = << >> <=> Len(s) = 0 BY EmptySeq
<1>2. Len(s) \in Nat /\ DOMAIN s = 1..Len(s) BY LenProperties
<1>3. CASE Len(s) = 0 BY <1>1, <1>2, <1>3, NoItems
<1>4. CASE Len(s) # 0
    <2>1. 1 \in DOMAIN s BY <1>2, <1>4
    <2>2. s[1] \in ToSet(s) BY <2>1 DEF ToSet
    <2> QED BY <1>1, <1>2, <1>4, <2>2
<1> QED BY <1>3, <1>4

\* In an interval, the place of a number is its distance.
LEMMA PlaceInInterval ==
    ASSUME NEW a \in Nat, NEW b \in Nat, NEW i \in a + 1..b
    PROVE  Place(a + 1..b, i) = i - a
<1>1. {k \in a + 1..b : k <= i} = a + 1..i OBVIOUS
<1>2. a + 1 \in Int /\ i \in Int OBVIOUS
<1>3. Cardinality(a + 1..i) = IF a + 1 > i THEN 0 ELSE i - (a + 1) + 1 BY <1>2, FS_Interval
<1>4. Cardinality(a + 1..i) = i - a BY <1>3
<1> QED BY <1>1, <1>4 DEF Place

\* The first numbers of an interval.
LEMMA FirstOfInterval ==
    ASSUME NEW a \in Nat, NEW b \in Nat, NEW k \in Nat \ {0}
    PROVE  LET p == FirstOf(Sorted(a + 1..b), k)
           IN  /\ p \in Seq(a + 1..b) /\ IsInjective(p) /\ Len(p) \in Nat
               /\ ToSet(p) = a + 1..a + Len(p)
               /\ a + Len(p) <= b \/ Len(p) = 0
<1> DEFINE S == a + 1..b
           s == Sorted(S)
           p == FirstOf(s, k)
<1>1. a + 1 \in Int /\ b \in Int OBVIOUS
<1>2. S \in SUBSET Nat OBVIOUS
<1>3. IsFiniteSet(S) BY <1>1, FS_Interval
<1>4. \A i \in S : Place(S, i) = i - a BY PlaceInInterval
<1>5. S \subseteq Int /\ \A i \in S : a < i /\ i <= b OBVIOUS
<1> HIDE DEF S
<1>6. /\ s \in Seq(S) /\ Len(s) = Cardinality(S)
      /\ \A n \in 1..Cardinality(S) : Place(S, s[n]) = n BY <1>2, <1>3, SortedSet
<1>7. Len(s) \in Nat BY <1>6, LenProperties
<1>8. ASSUME NEW n \in 1..Len(s) PROVE s[n] = a + n /\ a + n \in S
    <2>1. s[n] \in S BY <1>6, ElementOfSeq
    <2>2. s[n] - a = n BY <1>4, <1>6, <2>1
    <2>3. s[n] \in Int BY <1>5, <2>1
    <2>4. s[n] = a + n BY <1>7, <2>2, <2>3
    <2> QED BY <2>1, <2>4
<1>9. p \in Seq(S) /\ Increasing(p) /\ p \in Seq(Nat) /\ Len(p) \in Nat
    BY <1>2, <1>3, FirstOfSet
<1>10. IsInjective(p) BY <1>9, IncreasingOnce
<1> HIDE DEF s
<1>11. \A i \in 1..Len(p) : i \in 1..Len(s) /\ p[i] = s[i] BY <1>6, Beginning
<1> HIDE DEF p
<1>12. DOMAIN p = 1..Len(p) BY <1>9, LenProperties
<1>13. \A i \in 1..Len(p) : p[i] = a + i /\ a + i \in S BY <1>8, <1>11
<1>14. \A x \in ToSet(p) : x \in a + 1..a + Len(p)
    <2> TAKE x \in ToSet(p)
    <2>1. PICK i \in 1..Len(p) : x = p[i] BY <1>12 DEF ToSet
    <2> QED BY <1>9, <1>13, <2>1
<1>15. \A x \in a + 1..a + Len(p) : x \in ToSet(p)
    <2> TAKE x \in a + 1..a + Len(p)
    <2>1. x - a \in 1..Len(p) /\ a + (x - a) = x BY <1>9
    <2>2. p[x - a] = x BY <1>13, <2>1
    <2> QED BY <1>12, <2>1, <2>2 DEF ToSet
<1>16. a + Len(p) <= b \/ Len(p) = 0
    <2>1. CASE Len(p) # 0
        <3>1. Len(p) \in 1..Len(p) BY <1>9, <2>1
        <3> QED BY <1>5, <1>13, <3>1
    <2> QED BY <2>1
<1> QED BY <1>9, <1>10, <1>14, <1>15, <1>16 DEF S, s, p

\* A page of a sorted sequence goes on where the pages before it end.
LEMMA NextOfSequence ==
    ASSUME NEW S, NEW s \in Seq(S), NEW c \in 0..Len(s), NEW k \in Nat
    PROVE  LET p == FirstOf(SubSeq(s, c + 1, Len(s)), k)
           IN  /\ p \in Seq(S) /\ c + Len(p) \in 0..Len(s)
               /\ SubSeq(s, 1, c) \o p = SubSeq(s, 1, c + Len(p))
<1> DEFINE n == Len(s)
           t == SubSeq(s, c + 1, n)
           p == FirstOf(t, k)
<1>1. n \in Nat /\ c \in Nat /\ c <= n BY LenProperties
<1>2. c + 1 \in Int /\ n \in Int BY <1>1
<1>3. \A i \in c + 1..n : s[i] \in S BY <1>1, ElementOfSeq
<1>4. t \in Seq(S) /\ Len(t) = IF c + 1 <= n THEN n - (c + 1) + 1 ELSE 0
    BY <1>2, <1>3, SubSeqProperties
<1>5. Len(t) = n - c BY <1>1, <1>4
<1> HIDE DEF t
<1>6. p \in Seq(S) /\ p = SubSeq(t, 1, Len(p)) /\ Len(p) = IF Len(t) < k THEN Len(t) ELSE k
    BY <1>4, Beginning
<1>7. Len(p) \in Nat BY <1>6, LenProperties
<1> HIDE DEF p
<1>8. Len(p) <= n - c BY <1>5, <1>6, <1>7, <1>1
<1>9. c + Len(p) \in 0..n BY <1>1, <1>7, <1>8
<1>10. CASE Len(p) = 0
    <2>1. p = << >> BY <1>6, <1>10, EmptySeq
    <2>2. \A i \in 1..c : s[i] \in S BY <1>1, ElementOfSeq
    <2>3. 1 \in Int /\ c \in Int BY <1>1
    <2>4. SubSeq(s, 1, c) \in Seq(S) BY <2>2, <2>3, SubSeqProperties
    <2>5. SubSeq(s, 1, c) \o p = SubSeq(s, 1, c) BY <2>1, <2>4, ConcatEmptySeq
    <2> QED BY <1>1, <1>6, <1>9, <1>10, <2>5 DEF p, t, n
<1>11. CASE Len(p) # 0
    <2> DEFINE m == c + Len(p)
    <2>1. c + 1 \in 1..n /\ n \in 1..n /\ 1 \in 1..n - (c + 1) + 1 /\ Len(p) \in 1..n - (c + 1) + 1
        BY <1>1, <1>7, <1>8, <1>11
    <2>2. SubSeq(SubSeq(s, c + 1, n), 1, Len(p)) = SubSeq(s, (c + 1) + 1 - 1, (c + 1) + Len(p) - 1)
        BY <2>1, SubSeqOfSubSeq
    <2>3. (c + 1) + 1 - 1 = c + 1 /\ (c + 1) + Len(p) - 1 = m BY <1>1, <1>7
    <2>4. p = SubSeq(s, c + 1, m) BY <1>6, <2>2, <2>3 DEF t
    <2>5. 1 \in 1..n + 1 /\ c \in 1 - 1..n /\ m \in c..n BY <1>1, <1>7, <1>8
    <2> HIDE DEF m
    <2>6. SubSeq(s, 1, c) \o SubSeq(s, c + 1, m) = SubSeq(s, 1, m)
        BY <2>5, ConcatAdjacentSubSeq
    <2> QED BY <1>6, <1>9, <2>4, <2>6 DEF m, p, t, n
<1> QED BY <1>10, <1>11

\* Sets of items are finite sets of numbers.
LEMMA ItemsAreNumbers ==
    /\ Items \subseteq Nat \ {0} /\ IsFiniteSet(Items)
    /\ \A S \in SUBSET Items : S \in SUBSET Nat /\ IsFiniteSet(S)
<1>1. IsFiniteSet(Items) BY ListingAssumption
<1>2. Cardinality(Items) \in Nat BY <1>1, FS_CardinalityType
<1>3. Items \subseteq Nat \ {0}
    <2>1. PICK n \in Nat : n = Cardinality(Items) BY <1>2
    <2>2. Items = 1..n BY <2>1, ListingAssumption
    <2> QED BY <2>2
<1>4. \A S \in SUBSET Items : IsFiniteSet(S) BY <1>1, FS_Subset
<1> QED BY <1>1, <1>3, <1>4

\* What a sequence of items holds.
LEMMA Returns == \A s \in Seq(Items) : ToSet(s) \subseteq Items
<1> TAKE s \in Seq(Items)
<1>1. DOMAIN s = 1..Len(s) BY LenProperties
<1>2. \A n \in DOMAIN s : s[n] \in Items BY <1>1, ElementOfSeq
<1> QED BY <1>2 DEF ToSet

\* What the locals of a reader are.
LEMMA ReaderTypes ==
    ASSUME NEW r \in Reader
    PROVE  /\ r.pc \in {"idle", "ask", "fetch", "scan", "refresh", "content", "size", "done"}
           /\ r.cursor \in Nat /\ r.after \in Nat
           /\ r.limit \in Nat
           /\ r.batch \in Seq(Items) /\ r.batch \in Seq(Nat)
           /\ r.page \in Seq(Items) /\ r.page \in Seq(Nat)
           /\ r.got \in Seq(Items) /\ r.got \in Seq(Nat) /\ ToSet(r.got) \subseteq Items
           /\ ToSet(r.page) \subseteq Items /\ ToSet(r.batch) \subseteq Items
<1>1. MaxLimit \in Nat BY ListingAssumption
<1>2. r.limit \in 0..MaxLimit BY DEF Reader
<1>3. r.batch \in Seq(Items) /\ r.page \in Seq(Items) /\ r.got \in Seq(Items) BY DEF Reader
<1>4. Items \subseteq Nat BY ItemsAreNumbers
<1>5. r.batch \in Seq(Nat) /\ r.page \in Seq(Nat) /\ r.got \in Seq(Nat)
    BY <1>3, <1>4, SeqMonotonic
<1> QED BY <1>1, <1>2, <1>3, <1>5, Returns DEF Reader

LEMMA ListingInitInv == ListingInit => ListingInv
<1> SUFFICES ASSUME ListingInit PROVE ListingInv OBVIOUS
<1>1. << >> \in Seq(Items) BY NoItems
<1>2. 0 \in 0..MaxLimit BY ListingAssumption
<1>3. ListingTypeOK
    <2>1. reader \in Reader BY <1>1, <1>2 DEF ListingInit, Reader
    <2>2. item \in [Items -> Row]
        <3>1. PICK s : s = IF kind = "log" THEN {"new"} ELSE Row \ {"gone"} OBVIOUS
        <3>2. s \subseteq Row BY <3>1 DEF Row
        <3> QED BY <3>1, <3>2 DEF ListingInit
    <2> QED BY <2>1, <2>2 DEF ListingInit, ListingTypeOK, Log
<1>4. Phases BY DEF ListingInit, Phases
<1>5. Written
    <2>1. kind = "log" => \A i \in Items : item[i] = "new" BY DEF ListingInit
    <2> QED BY <2>1 DEF ListingInit, Written, There
<1>6. Behind BY NoItems DEF ListingInit, Behind
<1>7. Ahead BY DEF ListingInit, Ahead
<1>8. Entries BY DEF ListingInit, Entries
<1>9. Bytes
    <2>1. 1..0 = {} OBVIOUS
    <2> QED BY <2>1, NoItems DEF ListingInit, Bytes
<1>10. NothingMissed BY DEF ListingInit, NothingMissed
<1> QED BY <1>3, <1>4, <1>5, <1>6, <1>7, <1>8, <1>9, <1>10 DEF ListingInv

\* An item that comes or goes is nothing the reader counts on, nor a byte taken back.
LEMMA BecomeStep ==
    ASSUME ListingInv, NEW i \in Items, NEW next \in Row, Become(i, next),
           kind = "log" => /\ item[i] = "new" /\ next = "there" /\ log.writes
                           /\ \A k \in Items : k < i => item[k] = "there"
    PROVE  ListingInv'
<1> USE DEF ListingInv
<1>1. /\ item' = [item EXCEPT ![i] = next] /\ steady' = steady \ {i} /\ moved' = TRUE
      /\ kind' = kind /\ log' = log /\ reader' = reader BY DEF Become
<1>2. item \in [Items -> Row] BY DEF ListingTypeOK
<1>3. \A k \in Items : k # i => item'[k] = item[k] BY <1>1, <1>2
<1>4. item'[i] = next BY <1>1, <1>2
<1>5. \A k \in There : k # i => k \in There' BY <1>3 DEF There
<1>6. kind = "log" => There \subseteq There' BY <1>4, <1>5 DEF There
<1>7. ListingTypeOK' BY <1>1 DEF ListingTypeOK
<1>8. Phases'
    <2>1. steady' \subseteq There' BY <1>1, <1>5 DEF Phases
    <2>2. reader.pc = "idle" => steady' = {} BY <1>1 DEF Phases
    <2> QED BY <1>1, <2>1, <2>2 DEF Phases, Skims
<1>9. Written'
    <2>1. ASSUME kind = "log" PROVE \A k \in Items : item'[k] \in {"new", "there"}
        BY <1>3, <1>4, <2>1 DEF Written
    <2>2. ASSUME kind = "log", NEW k \in There', NEW j \in Items, j < k PROVE j \in There'
        <3>1. CASE k = i
            <4>1. item[j] = "there" BY <2>2, <3>1
            <4> QED BY <1>6, <2>2, <4>1 DEF There
        <3>2. CASE k # i
            <4>1. k \in There BY <1>3, <2>2, <3>2 DEF There
            <4>2. j \in There BY <2>2, <4>1 DEF Written
            <4> QED BY <1>6, <2>2, <4>2
        <3> QED BY <3>1, <3>2
    <2> QED BY <1>1, <2>1, <2>2 DEF Written
<1>10. Behind' BY <1>1 DEF Behind
<1>11. Ahead'
    <2> SUFFICES ASSUME Skims, reader.pc \in {"fetch", "scan", "refresh"} PROVE Covers(reader)'
        BY <1>1 DEF Ahead, Skims
    <2>1. Covers(reader) BY DEF Ahead
    <2> QED BY <1>1, <2>1 DEF Covers
<1>12. Entries' BY <1>1 DEF Entries
<1>13. Bytes' BY <1>1, <1>6 DEF Bytes
<1>14. NothingMissed'
    <2>1. kind = "log" => log.status # "ended" BY DEF Written
    <2> QED BY <1>1, <2>1 DEF NothingMissed, Returned
<1> QED BY <1>7, <1>8, <1>9, <1>10, <1>11, <1>12, <1>13, <1>14

\* What the others do while the reader reads.
LEMMA OthersStep ==
    ASSUME ListingInv, NEW i \in Items, Appear(i) \/ Vanish(i) \/ Authority(i) \/ WriteLog(i)
    PROVE  ListingInv'
<1>1. CASE Appear(i)
    <2>1. PICK next \in {"there", "hidden"} : Become(i, next) BY <1>1 DEF Appear
    <2> QED BY <1>1, <2>1, BecomeStep DEF Appear, Row
<1>2. CASE Vanish(i) BY <1>2, BecomeStep DEF Vanish, Row
<1>3. CASE Authority(i)
    <2>1. PICK next \in {"there", "hidden"} : Become(i, next) BY <1>3 DEF Authority
    <2> QED BY <1>3, <2>1, BecomeStep DEF Authority, Row
<1>4. CASE WriteLog(i) BY <1>4, BecomeStep DEF WriteLog, Row
<1> QED BY <1>1, <1>2, <1>3, <1>4

\* A verdict, and the end of a writer.
LEMMA LogStep ==
    ASSUME ListingInv, WriterEnds \/ LogEnds
    PROVE  ListingInv'
<1> USE DEF ListingInv
<1>1. PICK next : LogMove(next) /\ \/ log.writes /\ next = [log EXCEPT !.writes = FALSE]
                                   \/ /\ log.status = "unfinished" /\ ~log.writes
                                      /\ next = [log EXCEPT !.status = "ended"]
                                   \/ /\ log.status = "unfinished"
                                      /\ next = [log EXCEPT !.status = "lost"]
    BY DEF WriterEnds, LogEnds
<1>2. /\ log' = next /\ kind = "log" /\ item' = item /\ kind' = kind /\ reader' = reader
      /\ steady' = steady /\ moved' = moved BY <1>1 DEF LogMove
<1>3. log \in Log BY DEF ListingTypeOK
<1>4. \/ next.writes = FALSE /\ next.status = log.status
      \/ log.status = "unfinished" /\ next.writes = FALSE /\ next.status = "ended" /\ ~log.writes
      \/ log.status = "unfinished" /\ next.writes = log.writes /\ next.status = "lost"
    BY <1>1, <1>3 DEF Log
<1>5. next \in Log BY <1>1, <1>3 DEF Log
<1>6. ListingTypeOK' BY <1>2, <1>5 DEF ListingTypeOK
<1>7. Phases' BY <1>2 DEF Phases, There, Skims
<1>8. Written' BY <1>2, <1>4 DEF Written, There
<1>9. Behind' /\ Ahead' BY <1>2 DEF Behind, Ahead, Skims
<1>10. Entries' BY <1>2 DEF Entries
<1>11. Bytes' BY <1>2 DEF Bytes, There
<1>12. NothingMissed'
    <2>1. reader.pc = "done" => log.status # "unfinished" BY <1>2 DEF Bytes, Written
    <2> QED BY <1>2, <1>4, <2>1 DEF NothingMissed, Returned, There
<1> QED BY <1>6, <1>7, <1>8, <1>9, <1>10, <1>11, <1>12

\* A page of jobs, locks or objects takes the reader up to its cursor.
LEMMA PageStep ==
    ASSUME ListingInv, kind \in {"jobs", "locks", "objects"}, reader.pc \notin {"idle", "done"},
           NEW page \in Seq(Items), NEW cursor \in Nat, Page(page, cursor),
           Increasing(page), reader.cursor <= cursor,
           \A i \in ToSet(page) : reader.cursor < i /\ i <= cursor,
           \A i \in steady : reader.cursor < i /\ i <= cursor => i \in ToSet(page)
    PROVE  ListingInv'
<1> USE DEF ListingInv
<1> DEFINE got == reader.got \o page
<1>1. /\ reader' = [reader EXCEPT !.pc = "ask", !.got = got, !.cursor = cursor,
                                  !.page = << >>, !.batch = << >>]
      /\ kind' = kind /\ item' = item /\ log' = log /\ steady' = steady /\ moved' = moved
    BY DEF Page, ReaderMove
<1>2. reader \in Reader BY DEF ListingTypeOK
<1>3. reader.got \in Seq(Items) /\ reader.got \in Seq(Nat) /\ reader.cursor \in Nat
    BY <1>2, ReaderTypes
<1>4. page \in Seq(Nat) BY ItemsAreNumbers, SeqMonotonic
<1>5. got \in Seq(Items) /\ ToSet(got) = ToSet(reader.got) \cup ToSet(page) BY <1>3, Joined
<1>6. /\ Increasing(reader.got)
      /\ \A i \in ToSet(reader.got) : i <= reader.cursor
      /\ \A i \in steady : i <= reader.cursor => i \in ToSet(reader.got) BY DEF Behind
<1>7. \A S \in SUBSET Items : S \in SUBSET Nat BY ItemsAreNumbers
<1>8. ToSet(reader.got) \subseteq Nat /\ ToSet(page) \subseteq Nat /\ steady \subseteq Nat
    <2>1. ToSet(reader.got) \subseteq Items BY <1>2, ReaderTypes
    <2>2. ToSet(page) \subseteq Items BY Returns
    <2> QED BY <1>7, <2>1, <2>2 DEF ListingTypeOK
<1>9. Increasing(got)
    <2>1. \A i \in ToSet(reader.got), j \in ToSet(page) : i < j BY <1>3, <1>6, <1>8
    <2> QED BY <1>3, <1>4, <1>6, <2>1, IncreasingJoined
<1> HIDE DEF got
<1>10. /\ reader'.pc = "ask" /\ reader'.got = got /\ reader'.cursor = cursor
       /\ reader'.ended = reader.ended BY <1>1, <1>2 DEF Reader
<1>11. << >> \in Seq(Items) BY NoItems
<1>12. reader' \in Reader BY <1>1, <1>2, <1>5, <1>11 DEF Reader
<1>13. ListingTypeOK' BY <1>1, <1>12 DEF ListingTypeOK
<1>14. Phases' BY <1>1, <1>10 DEF Phases, There
<1>15. Written' BY <1>1, <1>10 DEF Written, There
<1>16. Behind'
    <2>1. \A i \in ToSet(got) : i <= cursor BY <1>3, <1>5, <1>6, <1>8
    <2>2. \A i \in steady : i <= cursor => i \in ToSet(got) BY <1>3, <1>5, <1>6, <1>8
    <2> QED BY <1>1, <1>9, <1>10, <2>1, <2>2 DEF Behind
<1>17. Ahead' /\ Entries' /\ Bytes' /\ NothingMissed'
    BY <1>1, <1>10 DEF Ahead, Entries, Bytes, NothingMissed
<1> QED BY <1>13, <1>14, <1>15, <1>16, <1>17

\* The last page has everything that is still ahead of the reader.
LEMMA LastPageStep ==
    ASSUME ListingInv, kind \in {"jobs", "locks", "objects"}, reader.pc \notin {"idle", "done"},
           NEW page \in Seq(Items), LastPage(page), Increasing(page),
           \A i \in ToSet(page) : reader.cursor < i,
           \A i \in steady : reader.cursor < i => i \in ToSet(page)
    PROVE  ListingInv'
<1> USE DEF ListingInv
<1> DEFINE got == reader.got \o page
<1>1. /\ reader' = [reader EXCEPT !.pc = "done", !.got = got, !.page = << >>, !.batch = << >>]
      /\ kind' = kind /\ item' = item /\ log' = log /\ steady' = steady /\ moved' = moved
    BY DEF LastPage, ReaderMove
<1>2. reader \in Reader BY DEF ListingTypeOK
<1>3. reader.got \in Seq(Items) /\ reader.got \in Seq(Nat) /\ reader.cursor \in Nat
    BY <1>2, ReaderTypes
<1>4. page \in Seq(Nat) BY ItemsAreNumbers, SeqMonotonic
<1>5. got \in Seq(Items) /\ ToSet(got) = ToSet(reader.got) \cup ToSet(page) BY <1>3, Joined
<1>6. /\ Increasing(reader.got)
      /\ \A i \in ToSet(reader.got) : i <= reader.cursor
      /\ \A i \in steady : i <= reader.cursor => i \in ToSet(reader.got) BY DEF Behind
<1>7. \A S \in SUBSET Items : S \in SUBSET Nat BY ItemsAreNumbers
<1>8. ToSet(reader.got) \subseteq Nat /\ ToSet(page) \subseteq Nat /\ steady \subseteq Nat
    <2>1. ToSet(reader.got) \subseteq Items BY <1>2, ReaderTypes
    <2>2. ToSet(page) \subseteq Items BY Returns
    <2> QED BY <1>7, <2>1, <2>2 DEF ListingTypeOK
<1>9. IsInjective(got)
    <2>1. \A i \in ToSet(reader.got), j \in ToSet(page) : i < j BY <1>3, <1>6, <1>8
    <2>2. Increasing(got) BY <1>3, <1>4, <1>6, <2>1, IncreasingJoined
    <2>3. got \in Seq(Nat) BY <1>3, <1>4, Joined
    <2> QED BY <2>2, <2>3, IncreasingOnce
<1> HIDE DEF got
<1>10. reader'.pc = "done" /\ reader'.got = got /\ reader'.ended = reader.ended
    BY <1>1, <1>2 DEF Reader
<1>11. << >> \in Seq(Items) BY NoItems
<1>12. reader' \in Reader BY <1>1, <1>2, <1>5, <1>11 DEF Reader
<1>13. ListingTypeOK' BY <1>1, <1>12 DEF ListingTypeOK
<1>14. Phases' BY <1>1, <1>10 DEF Phases, There
<1>15. Written' BY <1>1, <1>10 DEF Written, There
<1>16. Behind' /\ Ahead' /\ Entries' /\ Bytes' BY <1>1, <1>10 DEF Behind, Ahead, Entries, Bytes
<1>17. NothingMissed'
    <2>1. steady \subseteq ToSet(got) BY <1>3, <1>5, <1>6, <1>8
    <2> QED BY <1>1, <1>9, <1>10, <2>1 DEF NothingMissed, Returned
<1> QED BY <1>13, <1>14, <1>15, <1>16, <1>17

\* A step from row to row that still covers what it passes.
LEMMA SkimStep ==
    ASSUME ListingInv, Skims, reader.pc \notin {"idle", "done"},
           NEW r \in Reader, ReaderMove(r), Covers(r),
           r.pc \in {"fetch", "scan", "refresh"}, r.limit > 0,
           r.pc = "fetch" => r.batch = << >>,
           r.pc = "refresh" => kind = "jobs" /\ r.batch # << >> /\ Len(r.page) < r.limit,
           r.cursor = reader.cursor, r.got = reader.got,
           r.ended => log.status # "unfinished"
    PROVE  ListingInv'
<1> USE DEF ListingInv
<1>1. /\ reader' = r
      /\ kind' = kind /\ item' = item /\ log' = log /\ steady' = steady /\ moved' = moved
    BY DEF ReaderMove
<1>2. ListingTypeOK' BY <1>1 DEF ListingTypeOK
<1>3. Phases' BY <1>1 DEF Phases, There, Skims
<1>4. Written' BY <1>1 DEF Written, There
<1>5. Behind' BY <1>1 DEF Behind
<1>6. Ahead' BY <1>1 DEF Ahead, Covers
<1>7. Entries' /\ Bytes' /\ NothingMissed' BY <1>1 DEF Entries, Bytes, NothingMissed, Skims
<1> QED BY <1>2, <1>3, <1>4, <1>5, <1>6, <1>7

\* The first call.
LEMMA FirstCallStep ==
    ASSUME ListingInv, FirstCall
    PROVE  ListingInv'
<1> USE DEF ListingInv
<1>1. /\ reader.pc = "idle" /\ reader' = [reader EXCEPT !.pc = "ask"]
      /\ steady' = There /\ moved' = FALSE
      /\ kind' = kind /\ item' = item /\ log' = log BY DEF FirstCall
<1>2. reader \in Reader BY DEF ListingTypeOK
<1>3. /\ reader'.pc = "ask" /\ reader'.got = reader.got /\ reader'.cursor = reader.cursor
      /\ reader'.ended = reader.ended /\ reader'.batch = reader.batch BY <1>1, <1>2 DEF Reader
<1>4. reader' \in Reader BY <1>1, <1>2 DEF Reader
<1>5. There' = There /\ There \subseteq Items BY <1>1 DEF There
<1>6. reader.cursor = 0 /\ reader.got = << >> /\ reader.batch = << >> BY <1>1 DEF Phases
<1>7. ListingTypeOK' BY <1>1, <1>4, <1>5 DEF ListingTypeOK
<1>8. Phases' BY <1>1, <1>3, <1>5, <1>6 DEF Phases
<1>9. Written' BY <1>1, <1>3, <1>5 DEF Written
<1>10. Behind'
    <2>1. \A i \in There : ~ i <= 0 BY <1>5, ItemsAreNumbers
    <2> QED BY <1>1, <1>3, <1>6, <2>1, NoItems DEF Behind
<1>11. Entries'
    <2>1. SubSeq(Sorted(There), 1, 0) = << >> BY SubSeqEmpty
    <2>2. IsFiniteSet(There) BY <1>5, ItemsAreNumbers
    <2>3. Cardinality(There) \in Nat BY <2>2, FS_CardinalityType
    <2>4. 0 <= Cardinality(There) BY <2>3
    <2> QED BY <1>1, <1>3, <1>5, <1>6, <2>1, <2>4 DEF Entries
<1>12. Bytes' BY <1>1, <1>3, <1>5, <1>6 DEF Bytes
<1>13. Ahead' /\ NothingMissed' BY <1>3 DEF Ahead, NothingMissed
<1> QED BY <1>7, <1>8, <1>9, <1>10, <1>11, <1>12, <1>13

\* One more page is asked for.
LEMMA AskStep ==
    ASSUME ListingInv, Ask
    PROVE  ListingInv'
<1> USE DEF ListingInv
<1>1. PICK limit \in 1..MaxLimit :
        ReaderMove([reader EXCEPT !.limit = limit, !.after = reader.cursor, !.page = << >>,
            !.pc = IF kind \in {"jobs", "locks"} THEN "fetch"
                   ELSE IF kind = "log" THEN "content" ELSE "scan",
            !.ended = log.status # "unfinished"])
    BY DEF Ask
<1>2. PICK place : place = IF kind \in {"jobs", "locks"} THEN "fetch"
                           ELSE IF kind = "log" THEN "content" ELSE "scan" OBVIOUS
<1>3. PICK ended \in BOOLEAN : ended = (log.status # "unfinished") OBVIOUS
<1>4. PICK r : r = [reader EXCEPT !.limit = limit, !.after = reader.cursor, !.page = << >>,
                                  !.pc = place, !.ended = ended] OBVIOUS
<1>5. ReaderMove(r) BY <1>1, <1>2, <1>3, <1>4
<1>6. reader \in Reader /\ reader.pc = "ask" BY DEF ListingTypeOK, Ask
<1>7. reader.batch = << >> /\ reader.cursor \in Nat BY <1>6, ReaderTypes DEF Phases
<1>8. MaxLimit \in Nat BY ListingAssumption
<1>9. limit \in 0..MaxLimit /\ limit > 0 BY <1>8
<1>10. /\ r.pc = place /\ r.limit = limit /\ r.after = reader.cursor /\ r.page = << >>
       /\ r.cursor = reader.cursor /\ r.batch = << >> /\ r.got = reader.got /\ r.ended = ended
    BY <1>4, <1>6, <1>7 DEF Reader
<1>11. place \in {"fetch", "content", "scan"} BY <1>2
<1>12. << >> \in Seq(Items) BY NoItems
<1>13. r \in Reader BY <1>4, <1>6, <1>9, <1>11, <1>12 DEF Reader
<1>14. CASE Skims
    <2>1. r.pc = "fetch" BY <1>2, <1>10, <1>14 DEF Skims
    <2>2. Covers(r)
        <3>1. \A i \in steady : ~ (reader.cursor < i /\ i <= reader.cursor)
            <4>1. steady \subseteq Nat BY ItemsAreNumbers DEF ListingTypeOK
            <4> QED BY <1>7, <4>1
        <3>2. reader.cursor <= reader.cursor BY <1>7
        <3> QED BY <1>10, <2>1, <3>1, <3>2, NoItems DEF Covers
    <2>3. r.limit > 0 BY <1>9, <1>10
    <2> QED BY <1>3, <1>5, <1>6, <1>10, <1>13, <1>14, <2>1, <2>2, <2>3, SkimStep
<1>15. CASE ~Skims
    <2>1. /\ reader' = r /\ There' = There /\ Skims' = Skims
          /\ kind' = kind /\ item' = item /\ log' = log /\ steady' = steady /\ moved' = moved
        BY <1>5 DEF ReaderMove, There, Skims
    <2>2. r.pc = IF kind = "log" THEN "content" ELSE "scan" BY <1>2, <1>10, <1>15 DEF Skims
    <2>3. ListingTypeOK' BY <1>13, <2>1 DEF ListingTypeOK
    <2>4. Phases'
        <3>1. r.limit > 0 BY <1>9, <1>10
        <3>2. reader'.batch = << >> BY <1>10, <2>1
        <3>3. steady \subseteq There BY DEF Phases
        <3> QED BY <2>1, <2>2, <3>1, <3>2, <3>3 DEF Phases
    <2>5. Written' BY <1>3, <1>10, <2>1 DEF Written
    <2>6. Behind' BY <1>6, <1>10, <2>1, <2>2 DEF Behind
    <2>7. Ahead' /\ NothingMissed' BY <1>15, <2>1, <2>2 DEF Ahead, NothingMissed
    <2>8. Entries' BY <1>6, <1>10, <2>1, <2>2 DEF Entries
    <2>9. Bytes' BY <1>6, <1>10, <2>1, <2>2 DEF Bytes
    <2> QED BY <2>3, <2>4, <2>5, <2>6, <2>7, <2>8, <2>9
<1> QED BY <1>14, <1>15

\* A batch begins behind the row looked at last, and leaves no row out.
LEMMA FetchStep ==
    ASSUME ListingInv, Fetch
    PROVE  ListingInv'
<1> USE DEF ListingInv
<1> DEFINE V == {i \in Items : item[i] \in {"there", "hidden"} /\ i > reader.after}
           rows == FirstOf(Sorted(V), Batch)
<1>1. reader.pc = "fetch" /\ Skims BY DEF Fetch, Phases
<1>2. PICK full \in BOOLEAN : full = (Len(rows) = Batch) OBVIOUS
<1>3. PICK r : r = [reader EXCEPT !.pc = "scan", !.batch = rows, !.full = full] OBVIOUS
<1>4. ReaderMove(r) BY <1>2, <1>3 DEF Fetch
<1>5. reader \in Reader BY DEF ListingTypeOK
<1>6. reader.after \in Nat /\ ToSet(reader.page) \subseteq Items BY <1>5, ReaderTypes
<1>7. V \in SUBSET Items /\ \A i \in V : reader.after < i
    <2>1. \A i \in Items : i > reader.after => reader.after < i BY <1>6, ItemsAreNumbers
    <2> QED BY <2>1
<1>8. \A i \in steady : reader.after < i => i \in V
    <2>1. \A i \in steady : i \in Items /\ item[i] = "there" BY DEF Phases, There
    <2>2. \A i \in Items : reader.after < i => i > reader.after BY <1>6, ItemsAreNumbers
    <2> QED BY <2>1, <2>2
<1> HIDE DEF V
<1>9. V \in SUBSET Nat /\ IsFiniteSet(V) BY <1>7, ItemsAreNumbers
<1>10. Batch \in Nat \ {0} BY ListingAssumption
<1>11. /\ rows \in Seq(V) /\ Increasing(rows)
       /\ \A i \in V : i \notin ToSet(rows) => /\ Len(rows) = Batch
                                               /\ \A j \in ToSet(rows) : j < i
    BY <1>9, <1>10, FirstOfSet
<1> HIDE DEF rows
<1>12. rows \in Seq(Items) BY <1>7, <1>11, SeqMonotonic
<1>13. ToSet(rows) \subseteq V
    <2>1. DOMAIN rows = 1..Len(rows) BY <1>11, LenProperties
    <2>2. \A n \in DOMAIN rows : rows[n] \in V BY <1>11, <2>1, ElementOfSeq
    <2> QED BY <2>2 DEF ToSet
<1>14. r \in Reader BY <1>3, <1>5, <1>12 DEF Reader
<1>15. /\ r.pc = "scan" /\ r.batch = rows /\ r.full = full /\ r.page = reader.page
       /\ r.cursor = reader.cursor /\ r.after = reader.after /\ r.got = reader.got
       /\ r.limit = reader.limit /\ r.ended = reader.ended BY <1>3, <1>5 DEF Reader
<1>16. Covers(r)
    <2>1. Covers(reader) BY <1>1 DEF Ahead
    <2>2. \A i \in ToSet(rows) : reader.after < i BY <1>7, <1>13
    <2>3. \A i \in steady : reader.after < i /\ i \notin ToSet(rows) =>
            full /\ \A k \in ToSet(rows) : k < i BY <1>2, <1>8, <1>11
    <2> QED BY <1>11, <1>15, <2>1, <2>2, <2>3 DEF Covers
<1>17. r.limit > 0 /\ (r.ended => log.status # "unfinished") BY <1>1, <1>15 DEF Phases, Written
<1> QED BY <1>1, <1>4, <1>14, <1>15, <1>16, <1>17, SkimStep

\* A batch is through, and the next one asked for, or the listing is.
LEMMA BatchEndsStep ==
    ASSUME ListingInv, BatchEnds
    PROVE  ListingInv'
<1> USE DEF ListingInv
<1>1. reader.pc = "scan" /\ Skims /\ reader.batch = << >> BY DEF BatchEnds, Skims
<1>2. reader \in Reader BY DEF ListingTypeOK
<1>3. Covers(reader) BY <1>1 DEF Ahead
<1>4. reader.limit > 0 /\ (reader.ended => log.status # "unfinished")
    BY <1>1 DEF Phases, Written
<1>5. CASE reader.full
    <2>1. PICK r : r = [reader EXCEPT !.pc = "fetch"] OBVIOUS
    <2>2. ReaderMove(r) BY <1>5, <2>1 DEF BatchEnds
    <2>3. /\ r.pc = "fetch" /\ r.batch = reader.batch /\ r.page = reader.page
          /\ r.cursor = reader.cursor /\ r.after = reader.after /\ r.got = reader.got
          /\ r.limit = reader.limit /\ r.ended = reader.ended BY <1>2, <2>1 DEF Reader
    <2>4. r \in Reader BY <1>2, <2>1 DEF Reader
    <2>5. Covers(r) BY <1>3, <2>3 DEF Covers
    <2> QED BY <1>1, <1>4, <2>2, <2>3, <2>4, <2>5, SkimStep
<1>6. CASE ~reader.full
    <2>1. LastPage(reader.page) BY <1>6 DEF BatchEnds
    <2>2. /\ reader.page \in Seq(Items) /\ reader.cursor \in Nat /\ reader.after \in Nat
          BY <1>2, ReaderTypes
    <2>3. steady \subseteq Nat BY ItemsAreNumbers DEF ListingTypeOK
    <2>4. \A i \in steady : ~ reader.after < i BY <1>1, <1>3, <1>6, NoItems DEF Covers
    <2>5. \A i \in steady : reader.cursor < i => i \in ToSet(reader.page)
        <3>1. \A i \in steady : i <= reader.after BY <2>2, <2>3, <2>4
        <3> QED BY <1>3, <3>1 DEF Covers
    <2>6. kind \in {"jobs", "locks", "objects"} BY <1>1 DEF Skims
    <2>7. Increasing(reader.page) /\ \A i \in ToSet(reader.page) : reader.cursor < i
        BY <1>3 DEF Covers
    <2> QED BY <1>1, <2>1, <2>2, <2>5, <2>6, <2>7, LastPageStep
<1> QED BY <1>5, <1>6

\* A row that the reader passes is on the page, or nothing that was there all along.
LEMMA RowPassed ==
    ASSUME ListingInv, Skims, reader.pc \in {"scan", "refresh"}, reader.batch # << >>, NEW page,
           \/ page = reader.page /\ Row1 \notin steady
           \/ page = Append(reader.page, Row1)
    PROVE  /\ Row1 \in Items /\ Row1 \in Nat /\ reader.cursor <= Row1 /\ reader.cursor < Row1
           /\ Tail(reader.batch) \in Seq(Items) /\ Increasing(Tail(reader.batch))
           /\ page \in Seq(Items) /\ Increasing(page)
           /\ \A i \in ToSet(page) : reader.cursor < i /\ i <= Row1
           /\ \A i \in ToSet(Tail(reader.batch)) : Row1 < i
           /\ \A i \in steady : reader.cursor < i /\ i <= Row1 => i \in ToSet(page)
           /\ \A i \in steady : Row1 < i /\ i \notin ToSet(Tail(reader.batch)) =>
                reader.full /\ \A k \in ToSet(Tail(reader.batch)) : k < i
<1> USE DEF ListingInv
<1> DEFINE b == reader.batch
           t == Tail(b)
           x == Row1
<1>1. reader \in Reader /\ Covers(reader) BY DEF ListingTypeOK, Ahead
<1>2. /\ b \in Seq(Items) /\ b \in Seq(Nat) /\ reader.page \in Seq(Items)
      /\ reader.cursor \in Nat /\ reader.after \in Nat
      /\ ToSet(b) \subseteq Items /\ ToSet(reader.page) \subseteq Items BY <1>1, ReaderTypes
<1>3. /\ x \in ToSet(b) /\ x \in Nat /\ Increasing(t) /\ ToSet(b) = ToSet(t) \cup {x}
      /\ \A i \in ToSet(t) : x < i
    BY <1>1, <1>2, HeadOfIncreasing DEF Covers, Row1
<1>4. x \in Items /\ t \in Seq(Items) BY <1>2, <1>3, HeadTailProperties
<1>5. steady \subseteq Nat /\ ToSet(b) \subseteq Nat /\ ToSet(reader.page) \subseteq Nat
    BY <1>2, ItemsAreNumbers DEF ListingTypeOK
<1> HIDE DEF b, t, x
<1>6. reader.after < x /\ reader.cursor < x /\ reader.cursor <= x
    <2>1. reader.after < x BY <1>1, <1>3 DEF Covers, b
    <2> QED BY <1>1, <1>2, <1>3, <2>1 DEF Covers
<1>7. /\ page \in Seq(Items) /\ Increasing(page)
      /\ \/ ToSet(page) = ToSet(reader.page) /\ x \notin steady
         \/ ToSet(page) = ToSet(reader.page) \cup {x}
    <2>1. CASE page = reader.page /\ Row1 \notin steady BY <1>1, <1>2, <2>1 DEF Covers, x
    <2>2. CASE page = Append(reader.page, Row1)
        <3>1. \A i \in ToSet(reader.page) : i < x BY <1>1, <1>2, <1>3, <1>5, <1>6 DEF Covers
        <3>2. Items \in SUBSET Nat /\ Increasing(reader.page)
            BY <1>1, ItemsAreNumbers DEF Covers
        <3> QED BY <1>2, <1>4, <2>2, <3>1, <3>2, IncreasingAppended DEF x
    <2> QED BY <2>1, <2>2
<1>8. \A i \in ToSet(page) : reader.cursor < i /\ i <= x
    <2>1. \A i \in ToSet(reader.page) : reader.cursor < i /\ i <= x
        BY <1>1, <1>2, <1>3, <1>5, <1>6 DEF Covers
    <2>2. x <= x BY <1>3
    <2> QED BY <1>6, <1>7, <2>1, <2>2
<1>9. ASSUME NEW i \in steady, reader.cursor < i, i <= x PROVE i \in ToSet(page)
    <2>1. CASE i <= reader.after BY <1>1, <1>7, <1>9, <2>1 DEF Covers
    <2>2. CASE i = x BY <1>7, <2>2
    <2>3. CASE ~ i <= reader.after /\ i # x
        <3>1. reader.after < i /\ ~ x < i BY <1>2, <1>3, <1>5, <1>9, <2>3
        <3>2. i \notin ToSet(b) BY <1>3, <1>9, <1>5, <2>3
        <3>3. \A k \in ToSet(b) : k < i BY <1>1, <3>1, <3>2 DEF Covers, b
        <3> QED BY <1>3, <3>1, <3>3
    <2> QED BY <2>1, <2>2, <2>3
<1>10. ASSUME NEW i \in steady, x < i, i \notin ToSet(t)
       PROVE  reader.full /\ \A k \in ToSet(t) : k < i
    <2>1. i \notin ToSet(b) BY <1>3, <1>10
    <2>2. reader.after < i BY <1>2, <1>3, <1>5, <1>6, <1>10
    <2>3. reader.full /\ \A k \in ToSet(b) : k < i BY <1>1, <2>1, <2>2 DEF Covers, b
    <2> QED BY <1>3, <2>3
<1> QED BY <1>3, <1>4, <1>6, <1>7, <1>8, <1>9, <1>10 DEF b, t, x

\* ... and what is left covers the rest.
LEMMA RowStep ==
    ASSUME ListingInv, Skims, reader.pc \in {"scan", "refresh"}, reader.batch # << >>, NEW page,
           \/ page = reader.page /\ Row1 \notin steady
           \/ page = Append(reader.page, Row1),
           ReaderMove([Skimmed EXCEPT !.pc = "scan", !.page = page])
    PROVE  ListingInv'
<1> USE DEF ListingInv
<1>1. reader \in Reader /\ Covers(reader) BY DEF ListingTypeOK, Ahead
<1>2. /\ Row1 \in Items /\ Row1 \in Nat /\ reader.cursor <= Row1 /\ reader.cursor < Row1
      /\ Tail(reader.batch) \in Seq(Items) /\ Increasing(Tail(reader.batch))
      /\ page \in Seq(Items) /\ Increasing(page)
      /\ \A i \in ToSet(page) : reader.cursor < i /\ i <= Row1
      /\ \A i \in ToSet(Tail(reader.batch)) : Row1 < i
      /\ \A i \in steady : reader.cursor < i /\ i <= Row1 => i \in ToSet(page)
      /\ \A i \in steady : Row1 < i /\ i \notin ToSet(Tail(reader.batch)) =>
            reader.full /\ \A k \in ToSet(Tail(reader.batch)) : k < i
    BY RowPassed
<1>3. PICK r : r = [reader EXCEPT !.after = Row1, !.batch = Tail(reader.batch), !.pc = "scan",
                                  !.page = page] OBVIOUS
<1>4. ReaderMove(r) BY <1>1, <1>3 DEF Skimmed, Reader
<1>5. /\ r.pc = "scan" /\ r.batch = Tail(reader.batch) /\ r.page = page /\ r.after = Row1
      /\ r.cursor = reader.cursor /\ r.got = reader.got /\ r.full = reader.full
      /\ r.limit = reader.limit /\ r.ended = reader.ended BY <1>1, <1>3 DEF Reader
<1>6. r \in Reader BY <1>1, <1>2, <1>3 DEF Reader
<1>7. Covers(r) BY <1>2, <1>5 DEF Covers
<1>8. r.limit > 0 /\ (r.ended => log.status # "unfinished") BY <1>5 DEF Phases, Written
<1> QED BY <1>4, <1>5, <1>6, <1>7, <1>8, SkimStep

\* A row the reader may not see, or no more.
LEMMA SkipStep ==
    ASSUME ListingInv, Skip
    PROVE  ListingInv'
<1>1. reader.pc = "scan" /\ reader.batch # << >> /\ item[Row1] # "there" /\ ReaderMove(Skimmed)
    BY DEF Skip
<1>2. reader \in Reader /\ Skims BY <1>1 DEF ListingInv, ListingTypeOK, Phases
<1>3. Skimmed = [Skimmed EXCEPT !.pc = "scan", !.page = reader.page]
    BY <1>1, <1>2 DEF Skimmed, Reader
<1>4. Row1 \notin steady BY <1>1 DEF ListingInv, Phases, There
<1>5. ReaderMove([Skimmed EXCEPT !.pc = "scan", !.page = reader.page]) BY <1>1, <1>3
<1> QED BY <1>1, <1>2, <1>4, <1>5, RowStep

\* One more visible row than fits on a page of jobs.
LEMMA JobsFullStep ==
    ASSUME ListingInv, JobsFull
    PROVE  ListingInv'
<1> USE DEF ListingInv
<1>1. /\ kind = "jobs" /\ reader.pc = "scan" /\ Len(reader.page) = reader.limit
      /\ Page(reader.page, Last(reader.page)) BY DEF JobsFull, JobToken
<1>2. reader \in Reader /\ Covers(reader) /\ reader.limit > 0
    BY <1>1 DEF ListingTypeOK, Ahead, Skims, Phases
<1>3. /\ reader.page \in Seq(Items) /\ reader.page \in Seq(Nat) /\ ToSet(reader.page) \subseteq Items
      /\ reader.limit \in Nat /\ reader.cursor \in Nat /\ reader.after \in Nat
    BY <1>2, ReaderTypes
<1>4. PICK last : last = Last(reader.page) OBVIOUS
<1>5. reader.page # << >> BY <1>1, <1>2, <1>3, NotEmpty
<1>6. last \in ToSet(reader.page) /\ \A i \in ToSet(reader.page) : i <= last
    BY <1>2, <1>3, <1>4, <1>5, LastOfIncreasing DEF Covers
<1>7. reader.cursor < last /\ last <= reader.after BY <1>2, <1>6 DEF Covers
<1>8. Items \subseteq Nat /\ steady \subseteq Nat BY ItemsAreNumbers DEF ListingTypeOK
<1>9. last \in Nat BY <1>3, <1>6, <1>8
<1>10. reader.cursor <= last BY <1>3, <1>7, <1>9
<1>11. \A i \in ToSet(reader.page) : reader.cursor < i /\ i <= last BY <1>2, <1>6 DEF Covers
<1>12. \A i \in steady : reader.cursor < i /\ i <= last => i \in ToSet(reader.page)
    <2>1. \A i \in steady : i <= last => i <= reader.after BY <1>3, <1>7, <1>8, <1>9
    <2> QED BY <1>2, <2>1 DEF Covers
<1>13. Increasing(reader.page) BY <1>2 DEF Covers
<1>14. Page(reader.page, last) BY <1>1, <1>4
<1> QED BY <1>1, <1>3, <1>9, <1>10, <1>11, <1>12, <1>13, <1>14, PageStep

\* A job is put on the page, or is to be reconciled first.
LEMMA ListJobStep ==
    ASSUME ListingInv, ListJob
    PROVE  ListingInv'
<1> USE DEF ListingInv
<1>1. /\ kind = "jobs" /\ Skims /\ reader.pc = "scan" /\ reader.batch # << >>
      /\ Len(reader.page) < reader.limit BY DEF ListJob, Skims
<1>2. reader \in Reader /\ Covers(reader) BY <1>1 DEF ListingTypeOK, Ahead
<1>3. CASE ReaderMove([Skimmed EXCEPT !.page = Append(@, Row1)])
    <2>1. PICK page : page = Append(reader.page, Row1) OBVIOUS
    <2>2. [Skimmed EXCEPT !.page = Append(@, Row1)] = [Skimmed EXCEPT !.pc = "scan", !.page = page]
        BY <1>1, <1>2, <2>1 DEF Skimmed, Reader
    <2>3. ReaderMove([Skimmed EXCEPT !.pc = "scan", !.page = page]) BY <1>3, <2>2
    <2> QED BY <1>1, <2>1, <2>3, RowStep
<1>4. CASE ReaderMove([reader EXCEPT !.pc = "refresh"])
    <2>1. PICK r : r = [reader EXCEPT !.pc = "refresh"] OBVIOUS
    <2>2. /\ r.pc = "refresh" /\ r.batch = reader.batch /\ r.page = reader.page
          /\ r.cursor = reader.cursor /\ r.after = reader.after /\ r.got = reader.got
          /\ r.full = reader.full /\ r.limit = reader.limit /\ r.ended = reader.ended
        BY <1>2, <2>1 DEF Reader
    <2>3. r \in Reader BY <1>2, <2>1 DEF Reader
    <2>4. Covers(r) BY <1>1, <1>2, <2>2 DEF Covers
    <2>5. r.limit > 0 /\ (r.ended => log.status # "unfinished") BY <1>1, <2>2 DEF Phases, Written
    <2> QED BY <1>1, <1>4, <2>1, <2>2, <2>3, <2>4, <2>5, SkimStep
<1> QED BY <1>3, <1>4 DEF ListJob

\* A reconciled job is listed; or its check fails the call, whose page nobody gets.
LEMMA RefreshStep ==
    ASSUME ListingInv, Refresh
    PROVE  ListingInv'
<1> USE DEF ListingInv
<1>1. /\ kind = "jobs" /\ Skims /\ reader.pc = "refresh" /\ reader.batch # << >>
    BY DEF Refresh, Skims, Phases
<1>2. reader \in Reader BY DEF ListingTypeOK
<1>3. CASE ReaderMove([Skimmed EXCEPT !.pc = "scan", !.page = Append(@, Row1)])
    <2>1. PICK page : page = Append(reader.page, Row1) OBVIOUS
    <2>2. [Skimmed EXCEPT !.pc = "scan", !.page = Append(@, Row1)]
            = [Skimmed EXCEPT !.pc = "scan", !.page = page]
        BY <1>1, <1>2, <2>1 DEF Skimmed, Reader
    <2>3. ReaderMove([Skimmed EXCEPT !.pc = "scan", !.page = page]) BY <1>3, <2>2
    <2> QED BY <1>1, <2>1, <2>3, RowStep
<1>4. CASE Page(<< >>, reader.cursor)
    <2>1. reader.cursor \in Nat BY <1>2, ReaderTypes
    <2>2. steady \subseteq Nat BY ItemsAreNumbers DEF ListingTypeOK
    <2>3. \A i \in steady : ~ (reader.cursor < i /\ i <= reader.cursor) BY <2>1, <2>2
    <2>4. << >> \in Seq(Items) BY NoItems
    <2>5. reader.cursor <= reader.cursor BY <2>1
    <2> QED BY <1>1, <1>4, <2>1, <2>3, <2>4, <2>5, NoItems, PageStep
<1> QED BY <1>3, <1>4 DEF Refresh

\* A lock is put on the page, which is returned when it is full.
LEMMA ListLockStep ==
    ASSUME ListingInv, ListLock
    PROVE  ListingInv'
<1> USE DEF ListingInv
<1>1. /\ kind = "locks" /\ Skims /\ reader.pc = "scan" /\ reader.batch # << >>
    BY DEF ListLock, Skims
<1>2. reader \in Reader BY DEF ListingTypeOK
<1>3. PICK page : page = Append(reader.page, Row1) OBVIOUS
<1>4. CASE Page(Append(reader.page, Row1), Row1)
    <2>1. /\ Row1 \in Nat /\ reader.cursor <= Row1
          /\ page \in Seq(Items) /\ Increasing(page)
          /\ \A i \in ToSet(page) : reader.cursor < i /\ i <= Row1
          /\ \A i \in steady : reader.cursor < i /\ i <= Row1 => i \in ToSet(page)
        BY <1>1, <1>3, RowPassed
    <2>2. PICK cursor : cursor = Row1 OBVIOUS
    <2> QED BY <1>1, <1>3, <1>4, <2>1, <2>2, PageStep
<1>5. CASE ReaderMove([Skimmed EXCEPT !.page = Append(@, Row1)])
    <2>1. [Skimmed EXCEPT !.page = Append(@, Row1)] = [Skimmed EXCEPT !.pc = "scan", !.page = page]
        BY <1>1, <1>2, <1>3 DEF Skimmed, Reader
    <2>2. ReaderMove([Skimmed EXCEPT !.pc = "scan", !.page = page]) BY <1>5, <2>1
    <2> QED BY <1>1, <1>3, <2>2, RowStep
<1> QED BY <1>4, <1>5 DEF ListLock

\* A bucket is resumed behind the last key returned.
LEMMA ListObjectsStep ==
    ASSUME ListingInv, ListObjects
    PROVE  ListingInv'
<1> USE DEF ListingInv
<1> DEFINE V == {i \in There : i > reader.cursor}
           rest == Sorted(V)
           page == FirstOf(rest, reader.limit)
<1>1. kind = "objects" /\ reader.pc = "scan" BY DEF ListObjects
<1>2. \/ Len(rest) > Len(page) /\ Page(page, Last(page))
      \/ ~ Len(rest) > Len(page) /\ LastPage(page) BY DEF ListObjects
<1>3. reader \in Reader BY DEF ListingTypeOK
<1>4. reader.cursor \in Nat /\ reader.limit \in Nat \ {0}
    <2>1. reader.limit \in Nat /\ reader.cursor \in Nat BY <1>3, ReaderTypes
    <2>2. reader.limit > 0 BY <1>1 DEF Phases
    <2> QED BY <2>1, <2>2
<1>5. V \in SUBSET Items /\ \A i \in V : reader.cursor < i
    <2>1. \A i \in Items : i > reader.cursor => reader.cursor < i BY <1>4, ItemsAreNumbers
    <2> QED BY <2>1 DEF There
<1>6. \A i \in steady : reader.cursor < i => i \in V
    <2>1. \A i \in Items : reader.cursor < i => i > reader.cursor BY <1>4, ItemsAreNumbers
    <2> QED BY <2>1 DEF Phases, ListingTypeOK
<1> HIDE DEF V
<1>7. V \in SUBSET Nat /\ IsFiniteSet(V) BY <1>5, ItemsAreNumbers
<1>8. /\ page \in Seq(V) /\ page \in Seq(Nat) /\ Increasing(page)
      /\ Len(page) \in Nat /\ Len(rest) \in Nat
      /\ \A i \in V : i \notin ToSet(page) => /\ Len(page) < Len(rest)
                                              /\ \A j \in ToSet(page) : j < i
      /\ Len(page) < Len(rest) => Len(page) = reader.limit
    BY <1>4, <1>7, FirstOfSet
<1> HIDE DEF page, rest
<1>9. page \in Seq(Items) BY <1>5, <1>8, SeqMonotonic
<1>10. ToSet(page) \subseteq V
    <2>1. DOMAIN page = 1..Len(page) BY <1>8, LenProperties
    <2>2. \A n \in DOMAIN page : page[n] \in V BY <1>8, <2>1, ElementOfSeq
    <2> QED BY <2>2 DEF ToSet
<1>11. CASE Len(rest) > Len(page) /\ Page(page, Last(page))
    <2>1. Len(page) # 0 BY <1>4, <1>8, <1>11
    <2>2. page # << >> BY <1>8, <2>1, NotEmpty
    <2>3. PICK last : last = Last(page) OBVIOUS
    <2>4. last \in ToSet(page) /\ \A i \in ToSet(page) : i <= last
        BY <1>8, <2>2, <2>3, LastOfIncreasing
    <2>5. last \in Nat /\ reader.cursor < last BY <1>5, <1>7, <1>10, <2>4
    <2>6. reader.cursor <= last BY <1>4, <2>5
    <2>7. \A i \in steady : reader.cursor < i /\ i <= last => i \in ToSet(page)
        <3>1. steady \subseteq Nat BY ItemsAreNumbers DEF ListingTypeOK
        <3>2. \A i \in steady : i <= last => ~ last < i BY <2>5, <3>1
        <3> QED BY <1>6, <1>8, <2>4, <3>2
    <2>8. \A i \in ToSet(page) : reader.cursor < i /\ i <= last BY <1>5, <1>10, <2>4
    <2>9. Page(page, last) BY <1>11, <2>3
    <2> QED BY <1>1, <1>8, <1>9, <2>5, <2>6, <2>7, <2>8, <2>9, PageStep
<1>12. CASE ~ Len(rest) > Len(page) /\ LastPage(page)
    <2>1. ~ Len(page) < Len(rest) BY <1>8, <1>12
    <2>2. \A i \in steady : reader.cursor < i => i \in ToSet(page) BY <1>6, <1>8, <2>1
    <2>3. \A i \in ToSet(page) : reader.cursor < i BY <1>5, <1>10
    <2> QED BY <1>1, <1>8, <1>9, <1>12, <2>2, <2>3, LastPageStep
<1> QED BY <1>2, <1>11, <1>12

\* A directory where nothing moved is cut where the page before ended.
LEMMA ListDirectoryStep ==
    ASSUME ListingInv, ListDirectory
    PROVE  ListingInv'
<1> USE DEF ListingInv
<1> DEFINE all == Sorted(There)
           page == FirstOf(SubSeq(all, reader.cursor + 1, Len(all)), reader.limit)
           next == reader.cursor + Len(page)
           got == reader.got \o page
<1>1. kind = "directory" /\ reader.pc = "scan" BY DEF ListDirectory
<1>2. reader \in Reader BY DEF ListingTypeOK
<1>3. /\ reader.cursor \in Nat /\ reader.limit \in Nat /\ reader.got \in Seq(Items)
    BY <1>2, ReaderTypes
<1>4. There \in SUBSET Items BY DEF There
<1>5. There \in SUBSET Nat /\ IsFiniteSet(There) BY <1>4, ItemsAreNumbers
<1>6. all \in Seq(There) /\ Len(all) = Cardinality(There) /\ Increasing(all) /\ ToSet(all) = There
    BY <1>5, SortedSet
<1>7. \/ next < Len(all) /\ Page(page, next)
      \/ ~ next < Len(all) /\ LastPage(page) BY DEF ListDirectory
<1> HIDE DEF all
<1>8. all \in Seq(Items) /\ all \in Seq(Nat) /\ Len(all) \in Nat
    BY <1>4, <1>5, <1>6, SeqMonotonic, LenProperties
<1>9. page \in Seq(Items) /\ Len(page) \in Nat
    <2> DEFINE m == reader.cursor + 1
    <2>1. \A i \in m..Len(all) : i \in 1..Len(all) BY <1>3, <1>8
    <2>2. \A i \in m..Len(all) : all[i] \in Items BY <1>8, <2>1, ElementOfSeq
    <2>3. m \in Int /\ Len(all) \in Int BY <1>3, <1>8
    <2> HIDE DEF m
    <2>4. SubSeq(all, m, Len(all)) \in Seq(Items) BY <2>2, <2>3, SubSeqProperties
    <2>5. FirstOf(SubSeq(all, m, Len(all)), reader.limit) \in Seq(Items)
        BY <1>3, <2>4, Beginning
    <2> QED BY <2>5, LenProperties DEF m
<1>10. ASSUME ~moved
       PROVE  /\ steady = There
              /\ next \in 0..Len(all) /\ got = SubSeq(all, 1, next)
    <2>1. /\ steady = There /\ reader.cursor <= Cardinality(There)
          /\ reader.got = SubSeq(all, 1, reader.cursor) BY <1>1, <1>10 DEF Entries, all
    <2>2. reader.cursor \in 0..Len(all) BY <1>3, <1>6, <1>8, <2>1
    <2> QED BY <1>3, <1>8, <2>1, <2>2, NextOfSequence
<1>11. next \in Nat BY <1>3, <1>9
<1>12. got \in Seq(Items) BY <1>3, <1>9, Joined
<1> HIDE DEF page
<1>13. PICK r : r = IF next < Len(all)
                    THEN [reader EXCEPT !.pc = "ask", !.got = got, !.cursor = next,
                                        !.page = << >>, !.batch = << >>]
                    ELSE [reader EXCEPT !.pc = "done", !.got = got,
                                        !.page = << >>, !.batch = << >>] OBVIOUS
<1>14. ReaderMove(r) BY <1>7, <1>13 DEF Page, LastPage
<1> HIDE DEF got, next
<1>15. /\ next < Len(all) => r.pc = "ask" /\ r.cursor = next
       /\ ~ next < Len(all) => r.pc = "done"
       /\ r.got = got /\ r.batch = << >> /\ r.ended = reader.ended
    BY <1>2, <1>13 DEF Reader
<1>16. << >> \in Seq(Items) BY NoItems
<1>17. r \in Reader
    <2>1. CASE next < Len(all) BY <1>2, <1>11, <1>12, <1>13, <1>16, <2>1 DEF Reader
    <2>2. CASE ~ next < Len(all) BY <1>2, <1>12, <1>13, <1>16, <2>2 DEF Reader
    <2> QED BY <2>1, <2>2
<1>18. /\ reader' = r /\ There' = There /\ kind' = kind /\ log' = log
       /\ steady' = steady /\ moved' = moved /\ item' = item BY <1>14 DEF ReaderMove, There
<1>19. ListingTypeOK' BY <1>17, <1>18 DEF ListingTypeOK
<1>20. r.pc \in {"ask", "done"} BY <1>15
<1>21. Phases' BY <1>15, <1>18, <1>20 DEF Phases
<1>22. Written' BY <1>15, <1>18 DEF Written
<1>23. Behind' /\ Ahead' /\ Bytes' BY <1>1, <1>18 DEF Behind, Ahead, Bytes, Skims
<1>24. ASSUME ~moved, r.pc = "done" PROVE r.got = all
    <2>1. next = Len(all) BY <1>8, <1>10, <1>15, <1>24
    <2> QED BY <1>8, <1>10, <1>15, <1>24, <2>1, SubSeqFull
<1>25. Entries'
    <2> SUFFICES ASSUME ~moved
                 PROVE  /\ steady = There
                        /\ r.pc # "done" => /\ r.cursor <= Cardinality(There)
                                            /\ r.got = SubSeq(all, 1, r.cursor)
                        /\ r.pc = "done" => r.got = all
        BY <1>18 DEF Entries, all
    <2>1. r.pc # "done" => next < Len(all) BY <1>15
    <2>2. next < Len(all) => next <= Cardinality(There) BY <1>6, <1>8, <1>11
    <2> QED BY <1>10, <1>15, <1>24, <2>1, <2>2
<1>26. NothingMissed'
    <2> SUFFICES ASSUME ~moved, r.pc = "done"
                 PROVE  steady \subseteq ToSet(r.got) /\ IsInjective(r.got)
        BY <1>1, <1>18 DEF NothingMissed, Returned
    <2>1. r.got = all BY <1>24
    <2> QED BY <1>6, <1>8, <1>10, <2>1, IncreasingOnce
<1> QED BY <1>19, <1>21, <1>22, <1>23, <1>25, <1>26

\* What is in a log are its first bytes.
LEMMA LogIsPrefix ==
    ASSUME ListingInv, kind = "log"
    PROVE  Cardinality(There) \in Nat /\ There = 1..Cardinality(There)
<1> DEFINE c == Cardinality(There)
<1>1. There \in SUBSET Items BY DEF There
<1>2. There \in SUBSET Nat /\ IsFiniteSet(There) /\ Items \subseteq Nat \ {0}
    BY <1>1, ItemsAreNumbers
<1>3. /\ c \in Nat
      /\ \A i \in There : Place(There, i) \in 1..c
      /\ \A n \in 1..c : \E i \in There : Place(There, i) = n BY <1>2, Places
<1>4. ASSUME NEW i \in There PROVE Place(There, i) = i
    <2>1. i \in Nat \ {0} /\ i \in Items BY <1>1, <1>2
    <2>2. \A k \in 1..i : k \in There
        <3>1. PICK n \in Nat : Items = 1..n
            <4>1. Cardinality(Items) \in Nat BY ItemsAreNumbers, FS_CardinalityType
            <4> QED BY <4>1, ListingAssumption
        <3>2. \A k \in 1..i : k \in Items /\ (k < i \/ k = i) BY <2>1, <3>1
        <3> QED BY <3>2 DEF ListingInv, Written
    <2>3. {k \in There : k <= i} = 1..i
        <3>1. \A k \in There : k \in Nat \ {0} BY <1>1, <1>2
        <3>2. \A k \in There : k <= i => k \in 1..i BY <2>1, <3>1
        <3>3. \A k \in 1..i : k <= i BY <2>1
        <3> QED BY <2>2, <3>2, <3>3
    <2>4. 1 \in Int /\ i \in Int /\ ~ 1 > i BY <2>1
    <2>5. Cardinality(1..i) = IF 1 > i THEN 0 ELSE i - 1 + 1 BY <2>4, FS_Interval
    <2>6. Cardinality(1..i) = i BY <2>1, <2>4, <2>5
    <2> QED BY <2>3, <2>6 DEF Place
<1>5. \A i \in There : i \in 1..c BY <1>3, <1>4
<1>6. \A n \in 1..c : n \in There BY <1>3, <1>4
<1> QED BY <1>3, <1>5, <1>6

\* The content that is read begins where the content before it ended.
LEMMA ReadContentStep ==
    ASSUME ListingInv, ReadContent
    PROVE  ListingInv'
<1> USE DEF ListingInv
<1> DEFINE V == {i \in There : i > reader.cursor}
           page == FirstOf(Sorted(V), reader.limit)
<1>1. kind = "log" /\ reader.pc = "content" BY DEF ReadContent
<1>2. PICK r : r = [reader EXCEPT !.pc = "size", !.page = page] OBVIOUS
<1>3. ReaderMove(r) BY <1>2 DEF ReadContent
<1>4. reader \in Reader BY DEF ListingTypeOK
<1>5. reader.cursor \in Nat /\ reader.limit \in Nat \ {0}
    <2>1. reader.limit \in Nat /\ reader.cursor \in Nat BY <1>4, ReaderTypes
    <2>2. reader.limit > 0 BY <1>1 DEF Phases
    <2> QED BY <2>1, <2>2
<1>6. PICK n \in Nat : n = Cardinality(There) /\ There = 1..n BY <1>1, LogIsPrefix
<1>7. V = reader.cursor + 1..n
    <2>1. \A i : i \in V <=> i \in 1..n /\ i > reader.cursor BY <1>6
    <2>2. \A i : i \in reader.cursor + 1..n <=> i \in 1..n /\ i > reader.cursor BY <1>5, <1>6
    <2> QED BY <2>1, <2>2
<1>8. V \subseteq There /\ There \subseteq Items BY DEF There
<1> HIDE DEF V
<1>9. /\ page \in Seq(V) /\ IsInjective(page) /\ Len(page) \in Nat
      /\ ToSet(page) = reader.cursor + 1..reader.cursor + Len(page)
    <2>1. PICK c \in Nat, k \in Nat \ {0} : c = reader.cursor /\ k = reader.limit BY <1>5
    <2> DEFINE I == c + 1..n
               p == FirstOf(Sorted(I), k)
    <2>2. p \in Seq(I) /\ IsInjective(p) /\ Len(p) \in Nat /\ ToSet(p) = c + 1..c + Len(p)
        BY FirstOfInterval
    <2>3. V = I BY <1>7, <2>1
    <2> HIDE DEF I
    <2>4. page = p BY <2>1, <2>3
    <2> HIDE DEF p, page
    <2> QED BY <2>1, <2>2, <2>3, <2>4
<1> HIDE DEF page
<1>10. page \in Seq(Items) BY <1>9, <1>8, SeqMonotonic
<1>11. ToSet(page) \subseteq There
    <2>1. DOMAIN page = 1..Len(page) BY <1>9, LenProperties
    <2>2. \A m \in DOMAIN page : page[m] \in V BY <1>9, <2>1, ElementOfSeq
    <2> QED BY <1>8, <2>2 DEF ToSet
<1>12. /\ r.pc = "size" /\ r.page = page /\ r.cursor = reader.cursor /\ r.got = reader.got
       /\ r.limit = reader.limit /\ r.ended = reader.ended /\ r.batch = reader.batch
    BY <1>2, <1>4 DEF Reader
<1>13. r \in Reader BY <1>2, <1>4, <1>10 DEF Reader
<1>14. /\ reader' = r /\ There' = There /\ kind' = kind /\ log' = log
       /\ steady' = steady /\ moved' = moved /\ item' = item BY <1>3 DEF ReaderMove, There
<1>15. ListingTypeOK' BY <1>13, <1>14 DEF ListingTypeOK
<1>16. Phases'
    <2>1. reader.batch = << >> /\ reader.limit > 0 /\ steady \subseteq There BY <1>1 DEF Phases
    <2> QED BY <1>1, <1>12, <1>14, <2>1 DEF Phases
<1>17. Written' BY <1>12, <1>14 DEF Written
<1>18. Behind' /\ Ahead' /\ Entries' BY <1>1, <1>14 DEF Behind, Ahead, Entries, Skims
<1>19. Bytes' BY <1>1, <1>9, <1>11, <1>12, <1>14 DEF Bytes
<1>20. NothingMissed' BY <1>12, <1>14 DEF NothingMissed
<1> QED BY <1>15, <1>16, <1>17, <1>18, <1>19, <1>20

\* The size is looked at after the content, and the status before it.
LEMMA ReadSizeStep ==
    ASSUME ListingInv, ReadSize
    PROVE  ListingInv'
<1> USE DEF ListingInv
<1> DEFINE page == reader.page
           next == reader.cursor + Len(page)
           got == reader.got \o page
           last == reader.ended /\ next >= Cardinality(There)
<1>1. kind = "log" /\ reader.pc = "size" BY DEF ReadSize
<1>2. IF last THEN LastPage(page) ELSE Page(page, next) BY DEF ReadSize
<1>3. reader \in Reader BY DEF ListingTypeOK
<1>4. /\ reader.cursor \in Nat /\ reader.got \in Seq(Items) /\ page \in Seq(Items)
      /\ Len(page) \in Nat BY <1>3, ReaderTypes, LenProperties
<1>5. PICK n \in Nat : n = Cardinality(There) /\ There = 1..n BY <1>1, LogIsPrefix
<1>6. /\ IsInjective(reader.got) /\ ToSet(reader.got) = 1..reader.cursor
      /\ 1..reader.cursor \subseteq There
      /\ IsInjective(page) /\ ToSet(page) = reader.cursor + 1..next
      /\ ToSet(page) \subseteq There BY <1>1 DEF Bytes
<1>7. next \in Nat BY <1>4
<1>8. got \in Seq(Items) /\ IsInjective(got) /\ ToSet(got) = 1..next /\ 1..next \subseteq There
    <2>1. ToSet(reader.got) \cap ToSet(page) = {} BY <1>4, <1>6
    <2>2. ToSet(reader.got) \cup ToSet(page) = 1..next BY <1>4, <1>6
    <2>3. got \in Seq(Items) /\ ToSet(got) = ToSet(reader.got) \cup ToSet(page) /\ IsInjective(got)
        BY <1>4, <1>6, <2>1, Joined
    <2> QED BY <1>6, <2>2, <2>3
<1> HIDE DEF got, next
<1>9. PICK r : r = IF last
                   THEN [reader EXCEPT !.pc = "done", !.got = got, !.page = << >>, !.batch = << >>]
                   ELSE [reader EXCEPT !.pc = "ask", !.got = got, !.cursor = next,
                                       !.page = << >>, !.batch = << >>] OBVIOUS
<1>10. ReaderMove(r) BY <1>2, <1>9 DEF Page, LastPage, got
<1> HIDE DEF page, last
<1>11. /\ last => r.pc = "done"
       /\ ~last => r.pc = "ask" /\ r.cursor = next
       /\ r.got = got /\ r.batch = << >> /\ r.ended = reader.ended
    BY <1>3, <1>9 DEF Reader
<1>12. << >> \in Seq(Items) BY NoItems
<1>13. r \in Reader
    <2>1. CASE last BY <1>3, <1>8, <1>9, <1>12, <2>1 DEF Reader
    <2>2. CASE ~last BY <1>3, <1>7, <1>8, <1>9, <1>12, <2>2 DEF Reader
    <2> QED BY <2>1, <2>2
<1>14. /\ reader' = r /\ There' = There /\ kind' = kind /\ log' = log
       /\ steady' = steady /\ moved' = moved /\ item' = item BY <1>10 DEF ReaderMove, There
<1>15. r.pc \in {"ask", "done"} BY <1>11
<1>16. ListingTypeOK' BY <1>13, <1>14 DEF ListingTypeOK
<1>17. Phases'
    <2>1. steady \subseteq There BY DEF Phases
    <2> QED BY <1>11, <1>14, <1>15, <2>1 DEF Phases
<1>18. Written' BY <1>11, <1>14 DEF Written
<1>19. Behind' /\ Ahead' /\ Entries' BY <1>1, <1>14 DEF Behind, Ahead, Entries, Skims
<1>20. Bytes'
    <2>1. r.pc = "done" => r.ended BY <1>11 DEF last
    <2>2. r.pc # "done" => r.cursor = next BY <1>11
    <2> QED BY <1>8, <1>11, <1>14, <1>15, <2>1, <2>2 DEF Bytes
<1>21. NothingMissed'
    <2>1. ASSUME last PROVE There \subseteq ToSet(got)
        <3>1. next >= n BY <1>5, <2>1 DEF last
        <3>2. 1..n \subseteq 1..next BY <1>5, <1>7, <3>1
        <3> QED BY <1>5, <1>8, <3>2
    <2>2. steady \subseteq There BY DEF Phases
    <2> QED BY <1>8, <1>11, <1>14, <2>1, <2>2 DEF NothingMissed, Returned
<1> QED BY <1>16, <1>17, <1>18, <1>19, <1>20, <1>21

LEMMA ListingInvStep == ListingInv /\ [ListingNext]_listing => ListingInv'
<1> SUFFICES ASSUME ListingInv, [ListingNext]_listing PROVE ListingInv' OBVIOUS
<1>1. CASE Reading
    BY <1>1, FirstCallStep, AskStep, FetchStep, BatchEndsStep, SkipStep, JobsFullStep, ListJobStep,
       RefreshStep, ListLockStep, ListObjectsStep, ListDirectoryStep, ReadContentStep,
       ReadSizeStep DEF Reading
<1>2. CASE \E i \in Items : Appear(i) \/ Vanish(i) \/ Authority(i) \/ WriteLog(i)
    BY <1>2, OthersStep
<1>3. CASE WriterEnds \/ LogEnds BY <1>3, LogStep
<1>4. CASE UNCHANGED listing
    BY <1>4 DEF listing, ListingInv, ListingTypeOK, Phases, Written, Behind, Ahead, Covers, Entries,
                Bytes, NothingMissed, Returned, There, Skims
<1> QED BY <1>1, <1>2, <1>3, <1>4 DEF ListingNext

\* A listing keeps its types, and its cursor stands for what was returned.
THEOREM ListingInvHolds == ListingSpec => []ListingInv
<1>1. ListingInit => ListingInv BY ListingInitInv
<1>2. ListingInv /\ [ListingNext]_listing => ListingInv' BY ListingInvStep
<1> QED BY <1>1, <1>2, PTL DEF ListingSpec

\* A reader who was told that there is no more has had, once each, everything that
\* was there for it all along, however many items there are, whatever the size of
\* the pages and of the batches, and whatever came and went between two of them
\* (jobs.py list() and read_log(), list_locks() and list_data()).
THEOREM NothingIsMissed == ListingSpec => []NothingMissed
<1>1. ListingInv => NothingMissed BY DEF ListingInv
<1> QED BY <1>1, ListingInvHolds, PTL
=============================================================================
