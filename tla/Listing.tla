------------------------------- MODULE Listing -------------------------------
(***************************************************************************)
(* What a reader gets who comes page by page while the rest goes on: the   *)
(* jobs of jobs.py list(), the locks of application.py list_locks(), a     *)
(* directory and a bucket through list_data(), and the log of a job        *)
(* through read_log().                                                     *)
(*                                                                         *)
(* Jobs and locks are resumed behind a row, and skim the rows in batches   *)
(* for those the reader may see; a bucket is resumed behind a key, which   *)
(* is the store's doing; a directory is read anew and resumed behind so    *)
(* many entries; a log is resumed behind so many bytes.  Items are numbers *)
(* in the order of the listing.  The bytes of a log are appended in order, *)
(* by processes whose end JobsProofs ties to the job's verdict.            *)
(***************************************************************************)
EXTENDS Naturals, Sequences, FiniteSets, SequencesExt

CONSTANTS
    Kinds,     \* what may be listed: "jobs", "locks", "objects", "directory", "log"
    Items,     \* what there may ever be, by its place in the order
    MaxLimit,  \* items a page may hold
    Batch      \* rows fetched at a time

ASSUME ListingAssumption ==
    /\ Kinds \subseteq {"jobs", "locks", "objects", "directory", "log"}
    /\ IsFiniteSet(Items) /\ Items = 1..Cardinality(Items)
    /\ {MaxLimit, Batch} \subseteq Nat \ {0}

VARIABLES
    kind,    \* never changes
    item,    \* what became of each item
    log,     \* the job a log belongs to, and who writes it
    reader,  \* the locals of the call and of whoever repeats it
    steady,  \* items there, and visible, since the first page was asked for
    moved    \* items came or went since

listing == << kind, item, log, reader, steady, moved >>

Row == {"new", "there", "hidden", "gone"}

\* writes: a process that may still write to the log.
Log == [status : {"unfinished", "ended", "lost"}, writes : BOOLEAN]

\* cursor: where the next page resumes; after: the last row looked at; full:
\* the batch was as long as it can be; ended: the status was read as terminal;
\* got: the pages so far, the current one apart.
Reader == [pc     : {"idle", "ask", "fetch", "scan", "refresh", "content", "size", "done"},
           cursor : Nat,
           limit  : 0..MaxLimit,
           after  : Nat,
           batch  : Seq(Items),
           full   : BOOLEAN,
           ended  : BOOLEAN,
           page   : Seq(Items),
           got    : Seq(Items)]

There == {i \in Items : item[i] = "there"}

\* Where an item stands in a set of them, and the set in this order.
Place(S, i) == Cardinality({k \in S : k <= i})

Sorted(S) == [n \in 1..Cardinality(S) |-> CHOOSE i \in S : Place(S, i) = n]

FirstOf(s, n) == SubSeq(s, 1, IF Len(s) < n THEN Len(s) ELSE n)
-----------------------------------------------------------------------------
ListingInit ==
    /\ kind \in Kinds
    /\ item \in [Items -> IF kind = "log" THEN {"new"} ELSE Row \ {"gone"}]
    /\ kind \in {"objects", "directory"} => \A i \in Items : item[i] # "hidden"
    /\ log = [status |-> "unfinished", writes |-> TRUE]
    /\ reader = [pc |-> "idle", cursor |-> 0, limit |-> 0, after |-> 0, batch |-> << >>,
                 full |-> FALSE, ended |-> FALSE, page |-> << >>, got |-> << >>]
    /\ steady = {}
    /\ moved = FALSE
-----------------------------------------------------------------------------
(* What goes on meanwhile *)

Become(i, next) ==
    /\ item' = [item EXCEPT ![i] = next]
    /\ steady' = steady \ {i}
    /\ moved' = TRUE
    /\ UNCHANGED << kind, log, reader >>

\* A job or a lock, by somebody the reader may see or not; a file; an object.
Appear(i) ==
    /\ kind # "log" /\ item[i] = "new"
    /\ \E next \in {"there"} \cup (IF kind \in {"jobs", "locks"} THEN {"hidden"} ELSE {}) :
        Become(i, next)

\* A lock is released, a file is deleted.
Vanish(i) ==
    /\ kind \in {"locks", "objects", "directory"} /\ item[i] \in {"there", "hidden"}
    /\ Become(i, "gone")

\* The configuration, or a scope, changes what the reader may see.
Authority(i) ==
    /\ kind \in {"jobs", "locks"} /\ item[i] \in {"there", "hidden"}
    /\ Become(i, IF item[i] = "there" THEN "hidden" ELSE "there")

\* The next byte of the log.
WriteLog(i) ==
    /\ kind = "log" /\ log.writes
    /\ item[i] = "new" /\ \A k \in Items : k < i => item[k] = "there"
    /\ Become(i, "there")

LogMove(next) ==
    /\ kind = "log"
    /\ log' = next
    /\ UNCHANGED << kind, item, reader, steady, moved >>

WriterEnds == log.writes /\ LogMove([log EXCEPT !.writes = FALSE])

\* A verdict other than lost is given when nothing of the job runs any more.
LogEnds ==
    /\ log.status = "unfinished"
    /\ \/ ~log.writes /\ LogMove([log EXCEPT !.status = "ended"])
       \/ LogMove([log EXCEPT !.status = "lost"])
-----------------------------------------------------------------------------
(* The calls *)

ReaderMove(next) ==
    /\ reader' = next
    /\ UNCHANGED << kind, item, log, steady, moved >>

FirstCall ==
    /\ reader.pc = "idle"
    /\ reader' = [reader EXCEPT !.pc = "ask"]
    /\ steady' = There
    /\ moved' = FALSE
    /\ UNCHANGED << kind, item, log >>

\* One more page, of a size that may change between calls.
Ask ==
    /\ reader.pc = "ask"
    /\ \E limit \in 1..MaxLimit :
        ReaderMove([reader EXCEPT !.limit = limit, !.after = reader.cursor, !.page = << >>,
            !.pc = IF kind \in {"jobs", "locks"} THEN "fetch"
                   ELSE IF kind = "log" THEN "content" ELSE "scan",
            !.ended = log.status # "unfinished"])

\* The page is returned, with a cursor or as the last one.
Page(page, cursor) ==
    ReaderMove([reader EXCEPT !.pc = "ask", !.got = @ \o page, !.cursor = cursor,
                              !.page = << >>, !.batch = << >>])

LastPage(page) ==
    ReaderMove([reader EXCEPT !.pc = "done", !.got = @ \o page, !.page = << >>, !.batch = << >>])

\* SELECT ... WHERE key > after ORDER BY key LIMIT batch.
Fetch ==
    /\ reader.pc = "fetch"
    /\ LET rows == FirstOf(Sorted({i \in Items : item[i] \in {"there", "hidden"}
                                                    /\ i > reader.after}), Batch)
       IN  ReaderMove([reader EXCEPT !.pc = "scan", !.batch = rows, !.full = Len(rows) = Batch])

\* A batch that was not full was the last one.
BatchEnds ==
    /\ reader.pc = "scan" /\ kind \in {"jobs", "locks"} /\ reader.batch = << >>
    /\ IF reader.full
       THEN ReaderMove([reader EXCEPT !.pc = "fetch"])
       ELSE LastPage(reader.page)

\* The next row, whose authorization is looked up now.
Row1 == Head(reader.batch)

Skimmed == [reader EXCEPT !.after = Row1, !.batch = Tail(@)]

Skip ==
    /\ reader.pc = "scan" /\ reader.batch # << >> /\ item[Row1] # "there"
    /\ ReaderMove(Skimmed)

\* Mutant of JobToken: the row that showed that there is more.
JobTokenSkimmed == Row1

\* The cursor of a page of jobs: the last job on it.
JobToken == Last(reader.page)

\* jobs: one more visible row than fits is proof of another page.
JobsFull ==
    /\ kind = "jobs" /\ reader.pc = "scan" /\ reader.batch # << >>
    /\ item[Row1] = "there" /\ Len(reader.page) = reader.limit
    /\ Page(reader.page, JobToken)

\* An unfinished job is reconciled first, under a check of its own.
ListJob ==
    /\ kind = "jobs" /\ reader.pc = "scan" /\ reader.batch # << >>
    /\ item[Row1] = "there" /\ Len(reader.page) < reader.limit
    /\ \/ ReaderMove([Skimmed EXCEPT !.page = Append(@, Row1)])
       \/ ReaderMove([reader EXCEPT !.pc = "refresh"])

\* The check fails, and with it the call, which is repeated.
Refresh ==
    /\ reader.pc = "refresh"
    /\ \/ ReaderMove([Skimmed EXCEPT !.pc = "scan", !.page = Append(@, Row1)])
       \/ item[Row1] # "there" /\ Page(<< >>, reader.cursor)

\* locks: a full page is returned, whether or not there is more.
ListLock ==
    /\ kind = "locks" /\ reader.pc = "scan" /\ reader.batch # << >> /\ item[Row1] = "there"
    /\ IF Len(reader.page) + 1 = reader.limit
       THEN Page(Append(reader.page, Row1), Row1)
       ELSE ReaderMove([Skimmed EXCEPT !.page = Append(@, Row1)])

\* list_objects_v2(), as list_objects() uses it.
ListObjects ==
    /\ kind = "objects" /\ reader.pc = "scan"
    /\ LET rest == Sorted({i \in There : i > reader.cursor})
           page == FirstOf(rest, reader.limit)
       IN  IF Len(rest) > Len(page) THEN Page(page, Last(page)) ELSE LastPage(page)

\* The whole directory is listed, and cut at an offset.
ListDirectory ==
    /\ kind = "directory" /\ reader.pc = "scan"
    /\ LET all == Sorted(There)
           page == FirstOf(SubSeq(all, reader.cursor + 1, Len(all)), reader.limit)
           next == reader.cursor + Len(page)
       IN  IF next < Len(all) THEN Page(page, next) ELSE LastPage(page)

\* read_log(): the status has been read, now the content ...
ReadContent ==
    /\ kind = "log" /\ reader.pc = "content"
    /\ ReaderMove([reader EXCEPT !.pc = "size",
            !.page = FirstOf(Sorted({i \in There : i > reader.cursor}), reader.limit)])

\* ... and the size.  The reader goes on until the page is the complete one.
ReadSize ==
    /\ kind = "log" /\ reader.pc = "size"
    /\ LET next == reader.cursor + Len(reader.page)
       IN  IF reader.ended /\ next >= Cardinality(There)
           THEN LastPage(reader.page)
           ELSE Page(reader.page, next)
-----------------------------------------------------------------------------
Reading ==
    \/ FirstCall \/ Ask \/ Fetch \/ BatchEnds \/ Skip \/ JobsFull \/ ListJob \/ Refresh \/ ListLock
    \/ ListObjects \/ ListDirectory \/ ReadContent \/ ReadSize

ListingNext ==
    \/ Reading
    \/ \E i \in Items : Appear(i) \/ Vanish(i) \/ Authority(i) \/ WriteLog(i)
    \/ WriterEnds \/ LogEnds

ListingSpec == ListingInit /\ [][ListingNext]_listing
-----------------------------------------------------------------------------
ListingTypeOK ==
    /\ kind \in Kinds
    /\ item \in [Items -> Row]
    /\ log \in Log
    /\ reader \in Reader
    /\ steady \subseteq Items
    /\ moved \in BOOLEAN

Returned == ToSet(reader.got)

\* A reader who was told that there is no more has had, once each, everything
\* that was there all along for it to see, whatever came and went around it;
\* of a directory, if nothing did; and of a log, unless the job was lost,
\* everything that will ever be in it (the cursors, read_log's order of looks).
NothingMissed ==
    reader.pc = "done" =>
        /\ kind # "directory" \/ ~moved => steady \subseteq Returned /\ IsInjective(reader.got)
        /\ kind = "log" /\ log.status = "ended" => There \subseteq Returned
=============================================================================
