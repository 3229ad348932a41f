----------------------------- MODULE VectorIndex -----------------------------
(***************************************************************************)
(* The Qdrant index that follows the rows of one dataset.                  *)
(*                                                                         *)
(* A write commits in PostgreSQL; only then (transaction.on_commit) does   *)
(* the request append a task to the Redis queue of Django-Q.  Workers take *)
(* tasks in the order of the queue, read the row or the dataset, call the  *)
(* embeddings service, and only then write to Qdrant: what they write is   *)
(* what they read before that call.  Every exception on the way is logged  *)
(* and swallowed.  Searches only read the points: see RowReads.            *)
(*                                                                         *)
(* The text of a row's cells is one value; what the document takes from    *)
(* the dataset besides archived_at (its headers and their descriptions)    *)
(* is one label.  Row ids grow with row numbers and are never reused.      *)
(* Definitions whose comments begin "Fault" replace the next one without   *)
(* that word when properties are put to the test.                          *)
(***************************************************************************)
EXTENDS Naturals, Sequences, FiniteSets

CONSTANTS
    Values,     \* texts of a row's cells
    Labels,     \* headers and descriptions, as the document shows them
    Requests,   \* processes that serve writes
    Workers,    \* processes of the Django-Q cluster
    None,       \* no task, no point, no row
    MaxRows,    \* bound: ids handed out
    MaxTasks,   \* bound: tasks pending, queued or running
    BatchSize   \* rows per backfill batch

ASSUME VectorAssumption ==
    /\ MaxRows \in Nat /\ MaxTasks \in Nat \ {0}
    /\ BatchSize \in Nat \ {0}
    /\ IsFiniteSet(Requests) /\ IsFiniteSet(Workers)

VARIABLES
    rows,       \* live rows: row id -> text
    lastId,     \* the last id handed out
    dataset,    \* the dataset's row, or None once it is deleted
    pending,    \* what each request enqueues in its on_commit callback
    queue,      \* the Redis list
    workers,    \* the task of each worker and what it has read for it
    points,     \* Qdrant: row id -> document, or None
    lost,       \* ghost: rows whose last change no task has carried over
    raced       \* ghost: rows on which two tasks ran at once

vars == <<rows, lastId, dataset, pending, queue, workers, points, lost, raced>>
database == <<rows, lastId, dataset>>

RowIds == 1 .. MaxRows
Live == DOMAIN rows

Datasets == [archived: BOOLEAN, labels: Labels]
Documents == [text: Values, archived: BOOLEAN, labels: Labels]
Tasks == [kind: {"index", "delete", "reindex"}, rows: SUBSET RowIds]
Copies == UNION {[R -> Documents] : R \in SUBSET RowIds}

ASSUME NoneAssumption == None \notin Datasets \cup Documents \cup Tasks

TypeOK ==
    /\ rows \in UNION {[R -> Values] : R \in SUBSET RowIds}
    /\ lastId \in 0 .. MaxRows
    /\ dataset \in Datasets \cup {None}
    /\ pending \in [Requests -> Tasks \cup {None}]
    /\ queue \in Seq(Tasks) /\ Len(queue) <= MaxTasks
    /\ workers \in [Workers -> [task: Tasks \cup {None},
                                dataset: Datasets \cup {None},
                                copy: Copies]]
    /\ points \in [RowIds -> Documents \cup {None}]
    /\ lost \subseteq RowIds
    /\ raced \subseteq RowIds

(* build_dataset_row_search_document: the text and payload of one row *)
Document(text, d) ==
    [text |-> text, archived |-> d.archived, labels |-> d.labels]

Idle == [task |-> None, dataset |-> None, copy |-> <<>>]

(* A reindex or backfill is about every row, the other tasks about theirs. *)
Index(r) == [kind |-> "index", rows |-> {r}]
Delete(R) == [kind |-> "delete", rows |-> R]
Reindex == [kind |-> "reindex", rows |-> RowIds]

Busy == {w \in Workers : workers[w].task # None}
Waiting == {q \in Requests : pending[q] # None}
Outstanding == Cardinality(Busy) + Cardinality(Waiting) + Len(queue)

(* The dataset was created by a request q with its first rows; when there  *)
(* are any, q is about to enqueue their backfill.                          *)
Init ==
    /\ lastId \in 0 .. MaxRows
    /\ rows \in [1 .. lastId -> Values]
    /\ dataset \in {[archived |-> FALSE, labels |-> l] : l \in Labels}
    /\ \E creator \in Requests :
         pending = [q \in Requests |->
                      IF q = creator /\ lastId > 0 THEN Reindex ELSE None]
    /\ queue = <<>>
    /\ workers = [w \in Workers |-> Idle]
    /\ points = [r \in RowIds |-> None]
    /\ lost = {} /\ raced = {}

-----------------------------------------------------------------------------
(* Writes.  Each is one transaction; `task` is what its on_commit callback *)
(* will enqueue.                                                           *)

Active == dataset # None /\ (dataset # None => ~dataset.archived)

OnCommit(q, task) ==
    /\ pending[q] = None
    /\ Outstanding < MaxTasks
    /\ pending' = [pending EXCEPT ![q] = task]
    /\ UNCHANGED <<queue, workers, points, lost, raced>>

CreateRow(q, text) ==
    /\ Active /\ lastId < MaxRows
    /\ lastId' = lastId + 1
    /\ rows' = [r \in Live \cup {lastId + 1} |->
                  IF r = lastId + 1 THEN text ELSE rows[r]]
    /\ UNCHANGED dataset
    /\ OnCommit(q, Index(lastId + 1))

PatchRow(q, r, text) ==
    /\ Active
    /\ rows' = [rows EXCEPT ![r] = text]
    /\ UNCHANGED <<lastId, dataset>>
    /\ OnCommit(q, Index(r))

(* One row by delete_dataset_row, several by delete_dataset_rows. *)
DeleteRows(q, R) ==
    /\ Active /\ R # {}
    /\ rows' = [r \in Live \ R |-> rows[r]]
    /\ UNCHANGED <<lastId, dataset>>
    /\ OnCommit(q, Delete(R))

(* Columns added, dropped, renamed or retyped, and the cells with them: the *)
(* label stands for both, and a reindex is enqueued.                        *)
ChangeColumns(q, l) ==
    /\ Active
    /\ dataset' = [dataset EXCEPT !.labels = l]
    /\ UNCHANGED <<rows, lastId>>
    /\ OnCommit(q, Reindex)

(* Fault: archiving enqueues no reindex.                                   *)
ArchiveSilently(q) ==
    /\ Active /\ pending[q] = None
    /\ dataset' = [dataset EXCEPT !.archived = TRUE]
    /\ UNCHANGED <<rows, lastId, pending, queue, workers, points, lost, raced>>

Archive(q) ==
    /\ Active
    /\ dataset' = [dataset EXCEPT !.archived = TRUE]
    /\ UNCHANGED <<rows, lastId>>
    /\ OnCommit(q, Reindex)

Restore(q) ==
    /\ dataset # None /\ ~Active
    /\ dataset' = [dataset EXCEPT !.archived = FALSE]
    /\ UNCHANGED <<rows, lastId>>
    /\ OnCommit(q, Reindex)

(* Three writes that change documents and enqueue nothing. *)
Unannounced(R) ==
    /\ lost' = lost \cup R
    /\ UNCHANGED <<pending, queue, workers, points, raced>>

AttachAsset(r, text) ==
    /\ Active
    /\ rows' = [rows EXCEPT ![r] = text]
    /\ UNCHANGED <<lastId, dataset>>
    /\ Unannounced({r})

ReorderColumns(l) ==
    /\ Active
    /\ dataset' = [dataset EXCEPT !.labels = l]
    /\ UNCHANGED <<rows, lastId>>
    /\ Unannounced(Live)

DeleteDataset ==
    /\ dataset # None
    /\ dataset' = None /\ rows' = <<>>
    /\ UNCHANGED lastId
    /\ Unannounced(RowIds)

(* Fault: the callback can run again.                                      *)
EnqueueTwice(q) ==
    /\ pending[q] # None
    /\ queue' = Append(queue, pending[q])
    /\ UNCHANGED <<database, pending, workers, points, lost, raced>>

(* The callback appends the task ... *)
Enqueue(q) ==
    /\ pending[q] # None
    /\ queue' = Append(queue, pending[q])
    /\ pending' = [pending EXCEPT ![q] = None]
    /\ UNCHANGED <<database, workers, points, lost, raced>>

(* ... or Redis refuses it and the exception is swallowed, or the process  *)
(* dies between the commit and the callback.                               *)
LoseTask(q) ==
    /\ pending[q] # None
    /\ lost' = lost \cup pending[q].rows
    /\ pending' = [pending EXCEPT ![q] = None]
    /\ UNCHANGED <<database, queue, workers, points, raced>>

-----------------------------------------------------------------------------
(* Workers.                                                                *)

(* An index task reads its row and dataset in one query and does nothing   *)
(* when the row is gone; the others look for their dataset first.          *)
Needed(task) ==
    IF task.kind = "index" THEN task.rows \subseteq Live ELSE dataset # None

ReadForIndex(task) ==
    [r \in task.rows \cap Live |-> Document(rows[r], dataset)]

(* A task that starts alone makes good what was lost or raced before it.   *)
MadeGood(task) ==
    IF Busy # {} THEN {}
    ELSE IF task.kind = "delete" THEN task.rows ELSE task.rows \cap Live

Overlapped(task) ==
    task.rows \cap UNION {workers[w].task.rows : w \in Busy}

Start(w) ==
    /\ w \notin Busy /\ queue # <<>>
    /\ queue' = Tail(queue)
    /\ LET task == Head(queue) IN
         /\ Needed(task)
         /\ workers' = [workers EXCEPT ![w] =
              [task |-> task,
               dataset |-> IF task.kind = "reindex" THEN dataset ELSE None,
               copy |-> IF task.kind = "index" THEN ReadForIndex(task) ELSE <<>>]]
         /\ lost' = lost \ MadeGood(task)
         /\ raced' = (raced \ MadeGood(task)) \cup Overlapped(task)
    /\ UNCHANGED <<database, pending, points>>

(* Fault: a task whose row is gone is put back.                            *)
PutBack(w) ==
    /\ w \notin Busy /\ queue # <<>>
    /\ ~Needed(Head(queue))
    /\ queue' = Append(Tail(queue), Head(queue))
    /\ UNCHANGED <<database, pending, workers, points, lost, raced>>

Skip(w) ==
    /\ w \notin Busy /\ queue # <<>>
    /\ ~Needed(Head(queue))
    /\ queue' = Tail(queue)
    /\ UNCHANGED <<database, pending, workers, points, lost, raced>>

(* backfill_dataset_vectors: the rows come from a query of their own, after *)
(* the dataset's.                                                           *)
ReadRows(w) ==
    /\ w \in Busy
    /\ workers[w].task.kind = "reindex" /\ workers[w].copy = <<>>
    /\ workers' = [workers EXCEPT ![w] =
         IF Live = {} THEN Idle
         ELSE [task |-> @.task,
               dataset |-> None,
               copy |-> [r \in Live |-> Document(rows[r], @.dataset)]]]
    /\ UNCHANGED <<database, pending, queue, points, lost, raced>>

(* The next rows by row number, at most BatchSize of them. *)
Batch(copy) ==
    {r \in DOMAIN copy : Cardinality({p \in DOMAIN copy : p < r}) < BatchSize}

AfterBatch(worker) ==
    LET left == DOMAIN worker.copy \ Batch(worker.copy) IN
    IF left = {} THEN Idle
    ELSE [worker EXCEPT !.copy = [r \in left |-> worker.copy[r]]]

(* Embed, then upsert: the documents written are the ones read earlier. *)
Upsert(w) ==
    /\ w \in Busy /\ workers[w].copy # <<>>
    /\ LET copy == workers[w].copy IN
       points' = [r \in RowIds |->
                    IF r \in Batch(copy) THEN copy[r] ELSE points[r]]
    /\ workers' = [workers EXCEPT ![w] = AfterBatch(@)]
    /\ UNCHANGED <<database, pending, queue, lost, raced>>

(* The embeddings service or Qdrant refuses a batch: the task goes on with *)
(* the next one.                                                           *)
FailBatch(w) ==
    /\ w \in Busy /\ workers[w].copy # <<>>
    /\ lost' = lost \cup Batch(workers[w].copy)
    /\ workers' = [workers EXCEPT ![w] = AfterBatch(@)]
    /\ UNCHANGED <<database, pending, queue, points, raced>>

(* Fault: the filter names the dataset and no rows.                        *)
DropAllPoints(w) ==
    /\ w \in Busy /\ workers[w].task.kind = "delete"
    /\ points' = [r \in RowIds |-> None]
    /\ workers' = [workers EXCEPT ![w] = Idle]
    /\ UNCHANGED <<database, pending, queue, lost, raced>>

DropPoints(w) ==
    /\ w \in Busy /\ workers[w].task.kind = "delete"
    /\ points' = [r \in RowIds |->
                    IF r \in workers[w].task.rows THEN None ELSE points[r]]
    /\ workers' = [workers EXCEPT ![w] = Idle]
    /\ UNCHANGED <<database, pending, queue, lost, raced>>

(* The task raises and the exception is logged, the worker is killed at    *)
(* its timeout, or it dies: Redis keeps no copy of a task once taken.      *)
FailTask(w) ==
    /\ w \in Busy
    /\ lost' = lost \cup workers[w].task.rows
    /\ workers' = [workers EXCEPT ![w] = Idle]
    /\ UNCHANGED <<database, pending, queue, points, raced>>

-----------------------------------------------------------------------------
Commit ==
    \E q \in Requests :
        \/ \E text \in Values : CreateRow(q, text)
        \/ \E r \in Live, text \in Values : PatchRow(q, r, text)
        \/ \E R \in SUBSET Live : DeleteRows(q, R)
        \/ \E l \in Labels : ChangeColumns(q, l)
        \/ Archive(q)
        \/ Restore(q)

Silent ==
    \/ \E r \in Live, text \in Values : AttachAsset(r, text)
    \/ \E l \in Labels : ReorderColumns(l)
    \/ DeleteDataset

Callback(q) == Enqueue(q) \/ LoseTask(q)

Work(w) ==
    Start(w) \/ Skip(w) \/ ReadRows(w) \/ Upsert(w) \/ FailBatch(w)
    \/ DropPoints(w) \/ FailTask(w)

Next ==
    \/ Commit
    \/ Silent
    \/ \E q \in Requests : Callback(q)
    \/ \E w \in Workers : Work(w)

(* A callback runs as soon as its transaction has committed, and the        *)
(* cluster keeps its workers running and kills a task at its timeout: both  *)
(* make progress, in one way or another.                                    *)
Fairness ==
    /\ \A q \in Requests : WF_vars(Callback(q))
    /\ \A w \in Workers : WF_vars(Work(w))

Spec == Init /\ [][Next]_vars
FairSpec == Spec /\ Fairness

-----------------------------------------------------------------------------
(* Properties.                                                             *)

Settled == Busy = {} /\ Waiting = {} /\ queue = <<>>

Current(r) == IF r \in Live THEN Document(rows[r], dataset) ELSE None

(* Once no task is left, Qdrant holds exactly the current document of every *)
(* row that is neither lost nor raced: tasks read the row when they run, so *)
(* commits, callbacks and tasks may come in any order, and a lone reindex   *)
(* repairs every live row whatever happened before (vector_tasks.py,        *)
(* tasks.py; README.md: "a rebuildable retrieval index").                   *)
IndexFresh ==
    Settled => \A r \in RowIds \ (lost \cup raced) : points[r] = Current(r)

(* Even when tasks race, no live row is missing from Qdrant unless a task   *)
(* for it was lost: a task that deletes points only names rows that are     *)
(* gone for good, so a race leaves stale points and never too few.          *)
LiveRowsIndexed ==
    Settled => \A r \in Live \ lost : points[r] # None

(* When writes cease, the callbacks and the workers get through what is     *)
(* left: no task blocks the queue, whatever rows are gone when it runs.     *)
WorkersCatchUp == <>[][~(Commit \/ Silent)]_vars => <>[]Settled
=============================================================================
