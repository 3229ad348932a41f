---------------------------- MODULE DatasetRows -----------------------------
(***************************************************************************)
(* The row operations of the dataset API (apps/api/row_mutations.py and    *)
(* the wrappers at the end of apps/api/services.py) as the transactions    *)
(* they are: each takes the dataset's row lock (SELECT ... FOR UPDATE),    *)
(* then reads, writes and counts in statements of their own at isolation   *)
(* level READ COMMITTED, and commits.  A statement sees what is committed  *)
(* and what its own transaction wrote.  Operations that touch nothing but  *)
(* the locked dataset row (archive, restore, public preview, permanent     *)
(* deletion) are single steps that need the lock to be free.               *)
(*                                                                         *)
(* A row has two columns: the index column ("key") and another ("cell").   *)
(* Column types, assets and relationships are the subject of other         *)
(* modules; here any of their validations may refuse a request (Abort).    *)
(*                                                                         *)
(* The definitions whose comments begin "Fault" replace the one after them *)
(* (before the next one without that word) when the properties are put to  *)
(* the test.                                                               *)
(***************************************************************************)
EXTENDS Naturals, FiniteSets, Sequences

CONSTANTS
    Datasets,      \* the datasets of one profile
    Generated,     \* those with a generated index (Dataset.index_generated)
    Requests,      \* the threads that serve requests
    Cells,         \* the strings a cell of the index column can hold
    Texts,         \* the strings a cell of the other column can hold
    Blank,         \* the empty string
    Strip,         \* str.strip, on Cells
    Str,           \* str(row_number), on RowNumbers
    Unset,         \* a patch that does not name a column
    None,          \* Python's None
    MaxRowId,      \* bound: how many rows are ever inserted
    MaxInitialRows,\* bound: rows in a request that creates a dataset
    MaxEntries,    \* bound: history entries of a dataset
    MaxDatasets    \* bound: datasets ever created

RowIds == 1..MaxRowId
RowNumbers == 1..MaxRowId

ASSUME BoundsAssumption ==
    /\ MaxRowId \in Nat /\ MaxInitialRows \in Nat /\ MaxEntries \in Nat
    /\ MaxDatasets \in Nat
ASSUME StringsAssumption ==
    /\ Blank \in Cells /\ Unset \notin Cells \cup Texts
    /\ Strip \in [Cells -> Cells] /\ Strip[Blank] = Blank
    /\ Generated # {} =>
         /\ Str \in [RowNumbers -> Cells]
         /\ \A n \in RowNumbers : Strip[Str[n]] = Str[n] /\ Str[n] # Blank
         /\ \A m, n \in RowNumbers : Str[m] = Str[n] => m = n

Row == [id : RowIds, number : RowNumbers, index : Cells, key : Cells, cell : Texts]
Change == [field : {"key", "cell"}, before : Cells \cup Texts, after : Cells \cup Texts]

(* A DatasetMutation: number is the row number, or the row_count with      *)
(* which the dataset was created; changes are the field_changes.           *)
Entry == [type : {"dataset_created", "created", "updated", "deleted"},
          row : RowIds \cup {None}, number : Nat, changes : SUBSET Change]

ASSUME IdentitiesAssumption ==
    /\ None \notin Datasets \cup Requests \cup Nat \cup BOOLEAN \cup Row
    /\ Generated \subseteq Datasets

VARIABLES
    status,        \* absent, active, archived_at set, or deleted
    public,        \* Dataset.public_enabled
    rows,          \* the committed DatasetRow records of each dataset
    rowCount,      \* Dataset.row_count
    history,       \* the committed DatasetMutation records about its rows
    nextId,        \* the id sequence of DatasetRow; a rollback burns its ids
    holder,        \* who has the dataset row locked FOR UPDATE
    tx             \* what each request's open transaction read and wrote

vars == <<status, public, rows, rowCount, history, nextId, holder, tx>>
datasetVars == <<status, public, rows, rowCount, history>>

Table == INSTANCE KeyedTable

(* puts: row versions inserted or updated; gone: ids deleted; count: the   *)
(* row_count to save, None when the operation saves none.                  *)
Transaction ==
    [stage : {"idle", "locked", "numbered", "fetched", "written", "counted"},
     dataset : Datasets \cup {None}, number : Nat, row : Row \cup {None},
     puts : SUBSET Row, gone : SUBSET RowIds, count : Nat \cup {None},
     entries : Seq(Entry)]

Opened(d) ==
    [stage |-> "locked", dataset |-> d, number |-> 0, row |-> None,
     puts |-> {}, gone |-> {}, count |-> None, entries |-> <<>>]

Idle ==
    [stage |-> "idle", dataset |-> None, number |-> 0, row |-> None,
     puts |-> {}, gone |-> {}, count |-> None, entries |-> <<>>]

(* The rows a statement of transaction t sees when S is committed: its own *)
(* writes over S.  Also what S becomes when t commits.                     *)
Applied(t, S) ==
    {r \in S : r.id \notin t.gone /\ \A w \in t.puts : w.id # r.id} \cup t.puts

(* unique_dataset_row_number and unique_dataset_index_value.               *)
UniqueConstraintsHold(S) ==
    \A r, s \in S : r # s => r.number # s.number /\ r.index # s.index

(* Fault: rows are numbered by their count.                                *)
RowNumberByCount(n, S) == n = Cardinality(S) + 1

(* _next_row_number: one more than the last row number, 1 without rows.    *)
IsNextRowNumber(n, S) ==
    /\ \A r \in S : r.number < n
    /\ n = 1 \/ \E r \in S : r.number = n - 1

(* _required_create_index_value with _create_row_data: the cell that goes  *)
(* into the index column of row number n.                                  *)
CreatedKey(d, n, key) == IF d \in Generated THEN Str[n] ELSE key

Taken(index, S) == \E r \in S : r.index = index

(* Fault: before and after are swapped.                                    *)
FieldChangesSwapped(old, new) ==
    {[field |-> f, before |-> new[f], after |-> old[f]] :
        f \in {g \in {"key", "cell"} : old[g] # new[g]}}

(* _row_field_changes *)
FieldChanges(old, new) ==
    {[field |-> f, before |-> old[f], after |-> new[f]] :
        f \in {g \in {"key", "cell"} : old[g] # new[g]}}

(* Fault: index_value is not updated with the key.                         *)
PatchedIndexKept(old, key, cell) ==
    [old EXCEPT !.key = IF key = Unset THEN @ ELSE key,
                !.cell = IF cell = Unset THEN @ ELSE cell]

(* {**row.data, **row_patch}, and the index_value that goes with it.       *)
Patched(old, key, cell) ==
    [old EXCEPT !.key = IF key = Unset THEN @ ELSE key,
                !.cell = IF cell = Unset THEN @ ELSE cell,
                !.index = IF key = Unset THEN @ ELSE Strip[key]]

(* Fault: a generated index can be rewritten.                              *)
PatchAllowedUnmanaged(d, old, new, S) ==
    new.index # Blank /\ ~Taken(new.index, {r \in S : r.id # old.id})

(* The refusals of _apply_index_patch, for a patch of the index column.    *)
PatchAllowed(d, old, new, S) ==
    /\ d \in Generated => new.index = old.index
    /\ new.index # Blank
    /\ ~Taken(new.index, {r \in S : r.id # old.id})

Init ==
    /\ status = [d \in Datasets |-> "absent"]
    /\ public = [d \in Datasets |-> FALSE]
    /\ rows = [d \in Datasets |-> {}]
    /\ rowCount = [d \in Datasets |-> 0]
    /\ history = [d \in Datasets |-> <<>>]
    /\ nextId = 1
    /\ holder = [d \in Datasets |-> None]
    /\ tx = [p \in Requests |-> Idle]

-----------------------------------------------------------------------------
(* Row transactions.                                                       *)

(* Fault: the dataset is read without FOR UPDATE.                          *)
LockNotTaken(p, d) ==
    /\ tx[p].stage = "idle"
    /\ status[d] = "active"
    /\ Len(history[d]) < MaxEntries
    /\ tx' = [tx EXCEPT ![p] = Opened(d)]
    /\ UNCHANGED <<datasetVars, nextId, holder>>

(* get_active_profile_dataset_for_update: waits for the row lock, then     *)
(* sees the dataset as the previous holder left it; 404 and 409 change     *)
(* nothing.                                                                *)
Lock(p, d) ==
    /\ tx[p].stage = "idle"
    /\ status[d] = "active"
    /\ holder[d] = None
    /\ Len(history[d]) < MaxEntries
    /\ holder' = [holder EXCEPT ![d] = p]
    /\ tx' = [tx EXCEPT ![p] = Opened(d)]
    /\ UNCHANGED <<datasetVars, nextId>>

(* create_dataset_row: read the last row number ...                        *)
FetchNumber(p) ==
    /\ tx[p].stage = "locked"
    /\ \E n \in RowNumbers :
        /\ IsNextRowNumber(n, rows[tx[p].dataset])
        /\ tx' = [tx EXCEPT ![p] = [@ EXCEPT !.stage = "numbered", !.number = n]]
    /\ UNCHANGED <<datasetVars, nextId, holder>>

(* ... then refuse a blank or taken index value and insert the row.        *)
InsertRow(p) ==
    LET d == tx[p].dataset
        n == tx[p].number
    IN  /\ tx[p].stage = "numbered"
        /\ nextId <= MaxRowId
        /\ \E key \in Cells, cell \in Texts :
            LET stored == CreatedKey(d, n, key)
                row == [id |-> nextId, number |-> n, index |-> Strip[stored],
                        key |-> stored, cell |-> cell]
            IN  /\ Strip[stored] # Blank
                /\ ~Taken(Strip[stored], rows[d])
                /\ tx' = [tx EXCEPT ![p] =
                     [@ EXCEPT
                        !.stage = "written",
                        !.puts = {row},
                        !.entries = <<[type |-> "created", row |-> nextId,
                                       number |-> n, changes |-> {}]>>]]
        /\ nextId' = nextId + 1
        /\ UNCHANGED <<datasetVars, holder>>

(* patch_profile_dataset_row and ..._by_index: load the row asked for ...  *)
FetchRow(p) ==
    /\ tx[p].stage = "locked"
    /\ \E r \in rows[tx[p].dataset] :
        tx' = [tx EXCEPT ![p] = [@ EXCEPT !.stage = "fetched", !.row = r]]
    /\ UNCHANGED <<datasetVars, nextId, holder>>

(* ... and patch_dataset_row with _apply_index_patch: merge the patch into *)
(* the loaded data and save data and index_value.                          *)
UpdateRow(p) ==
    LET d == tx[p].dataset
        old == tx[p].row
    IN  /\ tx[p].stage = "fetched"
        /\ \E key \in Cells \cup {Unset}, cell \in Texts \cup {Unset} :
            LET new == Patched(old, key, cell)
            IN  /\ key # Unset => PatchAllowed(d, old, new, rows[d])
                /\ tx' = [tx EXCEPT ![p] =
                     [@ EXCEPT
                        !.stage = "counted",
                        !.puts = {new},
                        !.entries = <<[type |-> "updated", row |-> old.id,
                                       number |-> old.number,
                                       changes |-> FieldChanges(old, new)]>>]]
        /\ UNCHANGED <<datasetVars, nextId, holder>>

(* delete_dataset_row and delete_dataset_rows: every row asked for must be *)
(* there; one history entry for each, in the order of the request.         *)
DeleteRows(p) ==
    /\ tx[p].stage = "locked"
    /\ \E k \in 1..MaxRowId : \E victims \in [1..k -> rows[tx[p].dataset]] :
        /\ \A i, j \in 1..k : victims[i].id = victims[j].id => i = j
        /\ tx' = [tx EXCEPT ![p] =
             [@ EXCEPT
                !.stage = "written",
                !.gone = {victims[i].id : i \in 1..k},
                !.entries = [i \in 1..k |->
                               [type |-> "deleted", row |-> victims[i].id,
                                number |-> victims[i].number, changes |-> {}]]]]
    /\ UNCHANGED <<datasetVars, nextId, holder>>

(* dataset.row_count = dataset.rows.count()                                *)
CountRows(p) ==
    /\ tx[p].stage = "written"
    /\ tx' = [tx EXCEPT ![p] =
         [@ EXCEPT
            !.stage = "counted",
            !.count = Cardinality(Applied(tx[p], rows[tx[p].dataset]))]]
    /\ UNCHANGED <<datasetVars, nextId, holder>>

(* The end of transaction.atomic(): everything the transaction wrote, or   *)
(* an IntegrityError and nothing of it (Abort) when a unique constraint    *)
(* does not hold.                                                          *)
Commit(p) ==
    LET d == tx[p].dataset
        after == Applied(tx[p], rows[d])
    IN  /\ tx[p].stage = "counted"
        /\ UniqueConstraintsHold(after)
        /\ rows' = [rows EXCEPT ![d] = after]
        /\ rowCount' = [rowCount EXCEPT
                          ![d] = IF tx[p].count = None THEN @ ELSE tx[p].count]
        /\ history' = [history EXCEPT ![d] = @ \o tx[p].entries]
        /\ holder' = [holder EXCEPT ![d] = None]
        /\ tx' = [tx EXCEPT ![p] = Idle]
        /\ UNCHANGED <<status, public, nextId>>

(* A validation that fails, a constraint that fires, a worker that dies:   *)
(* the transaction is rolled back at whatever statement it had reached.    *)
Abort(p) ==
    /\ tx[p].stage # "idle"
    /\ holder' = [holder EXCEPT ![tx[p].dataset] = None]
    /\ tx' = [tx EXCEPT ![p] = Idle]
    /\ UNCHANGED <<datasetVars, nextId>>

-----------------------------------------------------------------------------
(* Operations on the dataset itself.                                       *)

(* create_profile_dataset: rows numbered from 1 in the order given, each   *)
(* with a nonblank index value of its own, row_count their number.         *)
CreateDataset(d) ==
    /\ status[d] = "absent"
    /\ Cardinality({e \in Datasets : status[e] # "absent"}) < MaxDatasets
    /\ \E k \in 0..MaxInitialRows :
        /\ nextId + k <= MaxRowId + 1
        /\ \E keys \in [1..k -> Cells], cells \in [1..k -> Texts] :
            LET index(i) == Strip[CreatedKey(d, i, keys[i])]
            IN  /\ \A i \in 1..k : index(i) # Blank
                /\ \A i, j \in 1..k : index(i) = index(j) => i = j
                /\ rows' = [rows EXCEPT ![d] =
                     {[id |-> nextId + i - 1, number |-> i, index |-> index(i),
                       key |-> CreatedKey(d, i, keys[i]), cell |-> cells[i]] :
                        i \in 1..k}]
        /\ rowCount' = [rowCount EXCEPT ![d] = k]
        /\ history' = [history EXCEPT
             ![d] = <<[type |-> "dataset_created", row |-> None, number |-> k,
                       changes |-> {}]>>]
        /\ nextId' = nextId + k
    /\ status' = [status EXCEPT ![d] = "active"]
    /\ UNCHANGED <<public, holder, tx>>

(* Fault: archiving does not wait for the row lock.                        *)
ArchiveDatasetUnlocked(d) ==
    /\ status[d] \in {"active", "archived"}
    /\ status' = [status EXCEPT ![d] = "archived"]
    /\ public' = [public EXCEPT ![d] = FALSE]
    /\ UNCHANGED <<rows, rowCount, history, nextId, holder, tx>>

(* archive_profile_dataset                                                 *)
ArchiveDataset(d) ==
    /\ status[d] \in {"active", "archived"}
    /\ holder[d] = None
    /\ status' = [status EXCEPT ![d] = "archived"]
    /\ public' = [public EXCEPT ![d] = FALSE]
    /\ UNCHANGED <<rows, rowCount, history, nextId, holder, tx>>

(* restore_profile_dataset: public_enabled stays off.                      *)
RestoreDataset(d) ==
    /\ status[d] = "archived"
    /\ holder[d] = None
    /\ status' = [status EXCEPT ![d] = "active"]
    /\ UNCHANGED <<public, rows, rowCount, history, nextId, holder, tx>>

(* update_profile_dataset_public_preview: 409 on an archived dataset; a    *)
(* request that does not say keeps the setting.                            *)
UpdatePublicPreview(d) ==
    /\ status[d] = "active"
    /\ holder[d] = None
    /\ \E enabled \in BOOLEAN \cup {None} :
        public' = [public EXCEPT ![d] = IF enabled = None THEN @ ELSE enabled]
    /\ UNCHANGED <<status, rows, rowCount, history, nextId, holder, tx>>

(* dataset_delete in the dashboard: dataset.delete() takes no lock first,  *)
(* but its DELETE of the dataset row waits for the holder and cascades to  *)
(* rows and history.                                                       *)
DeleteDataset(d) ==
    /\ status[d] \in {"active", "archived"}
    /\ holder[d] = None
    /\ status' = [status EXCEPT ![d] = "deleted"]
    /\ public' = [public EXCEPT ![d] = FALSE]
    /\ rows' = [rows EXCEPT ![d] = {}]
    /\ rowCount' = [rowCount EXCEPT ![d] = 0]
    /\ history' = [history EXCEPT ![d] = <<>>]
    /\ UNCHANGED <<nextId, holder, tx>>

RowStep(p) ==
    \/ FetchNumber(p) \/ InsertRow(p)
    \/ FetchRow(p) \/ UpdateRow(p)
    \/ DeleteRows(p) \/ CountRows(p)
    \/ Commit(p) \/ Abort(p)

DatasetStep(d) ==
    \/ CreateDataset(d) \/ ArchiveDataset(d) \/ RestoreDataset(d)
    \/ UpdatePublicPreview(d) \/ DeleteDataset(d)

Next ==
    \/ \E p \in Requests, d \in Datasets : Lock(p, d)
    \/ \E p \in Requests : RowStep(p)
    \/ \E d \in Datasets : DatasetStep(d)

Spec == Init /\ [][Next]_vars

-----------------------------------------------------------------------------
(* Properties.                                                             *)

(* Every variable, the open transactions included, has its type.           *)
TypeOK ==
    /\ status \in [Datasets -> {"absent", "active", "archived", "deleted"}]
    /\ public \in [Datasets -> BOOLEAN]
    /\ rows \in [Datasets -> SUBSET Row]
    /\ rowCount \in [Datasets -> Nat]
    /\ history \in [Datasets -> Seq(Entry)]
    /\ nextId \in 1..(MaxRowId + 1)
    /\ holder \in [Datasets -> Requests \cup {None}]
    /\ tx \in [Requests -> Transaction]

(* The stored row_count is the number of rows, although it is written from *)
(* a count that an earlier statement took.                                 *)
RowCountExact == \A d \in Datasets : rowCount[d] = Cardinality(rows[d])

(* When a transaction reaches its commit no unique constraint of           *)
(* DatasetRow fires: the checks the code makes by reading are enough, and  *)
(* no request ends in an IntegrityError nobody catches.                    *)
NoIntegrityError ==
    \A p \in Requests :
        tx[p].stage = "counted" =>
            UniqueConstraintsHold(Applied(tx[p], rows[tx[p].dataset]))

(* index_value, the column lookups use, is never blank, is the stripped    *)
(* cell of the index column, and is str(row_number) when generated.        *)
IndexFaithful ==
    \A d \in Datasets : \A r \in rows[d] :
        /\ r.index = Strip[r.key] /\ r.index # Blank
        /\ d \in Generated => r.index = Str[r.number]

Edits(d, id, f) ==
    {i \in DOMAIN history[d] :
        history[d][i].row = id /\ \E c \in history[d][i].changes : c.field = f}

ChangeAt(d, i, f) == CHOOSE c \in history[d][i].changes : c.field = f

(* The change history is an account of the rows: a row's first entry, if   *)
(* any, is not preceded by its deletion; each recorded "before" is the     *)
(* previous "after" of that field; the last "after" is what the row holds; *)
(* and the row_count at creation plus rows created minus rows deleted is   *)
(* the row_count now.                                                      *)
HistoryExplainsRows ==
    \A d \in Datasets :
        LET H == history[d]
            Count(type) == Cardinality({i \in DOMAIN H : H[i].type = type})
        IN  /\ \A i, j \in DOMAIN H :
                 i < j /\ H[i].row = H[j].row =>
                     H[i].type # "deleted" /\ H[j].type # "created"
            /\ \A f \in {"key", "cell"}, id \in RowIds :
                 \A i \in Edits(d, id, f) :
                    LET later == {j \in Edits(d, id, f) : j > i}
                    IN  \/ \E j \in later :
                            /\ \A k \in later : j <= k
                            /\ ChangeAt(d, i, f).after = ChangeAt(d, j, f).before
                        \/ /\ later = {}
                           /\ \A r \in rows[d] :
                                r.id = id => r[f] = ChangeAt(d, i, f).after
            /\ H # <<>> =>
                 rowCount[d] + Count("deleted") = H[1].number + Count("created")

(* An archived dataset is frozen: no transaction that was under way when   *)
(* it was archived changes its rows, its count or its history afterwards.  *)
ArchivedStaysFrozen ==
    [][\A d \in Datasets :
          status[d] = "archived" /\ status'[d] # "deleted" =>
              /\ rows'[d] = rows[d] /\ rowCount'[d] = rowCount[d]
              /\ history'[d] = history[d]]_vars

(* Only an active dataset is on the public web: archiving takes it off,    *)
(* restoring does not put it back.                                         *)
PublicOnlyWhenActive == \A d \in Datasets : public[d] => status[d] = "active"

(* The transactions implement the one-step operations of KeyedTable.       *)
ImplementsTable == Table!Spec
=============================================================================
