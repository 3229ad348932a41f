------------------------------- MODULE Assets -------------------------------
(***************************************************************************)
(* The files of dataset assets (apps/datasets/models.py, the attach        *)
(* service of apps/api/services.py): a row of DatasetAsset per row and     *)
(* column names an original and perhaps a thumbnail in an object store the *)
(* database knows nothing of.  Files are saved before the transaction that *)
(* names them commits, and deleted by its on_commit callbacks after it; a  *)
(* failing deletion is recorded for a retry command.  Requests crash, the  *)
(* store fails, and so does the task queue that a callback writes to.      *)
(*                                                                         *)
(* A request that attaches holds the dataset's lock from its first step to *)
(* its commit, so the other operations are one step and wait for it.  The  *)
(* name of a file holds the key of its asset, and no key is used twice.    *)
(***************************************************************************)
EXTENDS Naturals, Sequences, FiniteSets

CONSTANTS
    Rows,            \* the rows the dataset can have
    Columns,         \* the names its columns can have
    Keys,            \* asset keys, each used at most once
    Clients,         \* requests served at the same time
    Blank, Space,    \* cells: the empty string, white space
    Nothing,         \* no asset; no slot
    Named,           \* the parts the asset of each key will name
    Limit,           \* --limit of the retry command
    Width            \* bound: columns the dataset has at a time

Parts == {"original", "thumbnail"}
Files == Keys \X Parts
Slots == Rows \X Columns

ASSUME AssetsAssumption ==
    /\ Limit \in Nat \ {0} /\ Width \in Nat \ {0}
    /\ Named \in [Keys -> {{"original"}, Parts}]
    /\ Blank \notin Keys /\ Space \notin Keys
    /\ Nothing \notin Keys \cup Slots

VARIABLES
    type,            \* of each column: "asset", "text" or "none"
    present,         \* the rows there are
    cell,            \* DatasetRow.data
    asset,           \* the DatasetAsset of each row and column
    used,            \* the keys given to assets so far
    stored,          \* the files in the object store
    outbox,          \* DatasetAssetFileDeletion with no deleted_at, by age
    request,         \* what each client's request is doing
    forgotten,       \* ghost: files a crash or an unclear failure forgot
    undone           \* ghost: assets whose files were cleaned after a commit

assetsVars == <<type, present, cell, asset, used, stored, outbox, request, forgotten, undone>>
tables == <<type, present, cell, asset>>

AtRest == [phase |-> "idle", slot |-> Nothing, key |-> Nothing, todo |-> {}, saved |-> {}]

FilesOf(k) == {k} \X Named[k]
Attached == {s \in Slots : asset[s] # Nothing}
Owned == UNION {FilesOf(asset[s]) : s \in Attached}
Pending == {outbox[n] : n \in DOMAIN outbox}

(* get_active_profile_dataset_for_update                                   *)
Unlocked == \A c \in Clients : request[c].phase # "saving"

AssetsInit ==
    /\ type \in [Columns -> {"asset", "none"}]
    /\ Cardinality({col \in Columns : type[col] = "asset"}) \in 1 .. Width
    /\ present = {}
    /\ cell = [s \in Slots |-> Blank]
    /\ asset = [s \in Slots |-> Nothing]
    /\ used = {}
    /\ stored = {}
    /\ outbox = <<>>
    /\ request = [c \in Clients |-> AtRest]
    /\ forgotten = {}
    /\ undone = {}

-----------------------------------------------------------------------------
Committed(key, saved, todo) ==
    IF saved \cup todo = {} THEN AtRest
    ELSE [phase |-> "committed", slot |-> Nothing, key |-> key, todo |-> todo, saved |-> saved]

Cleanup(files) ==
    IF files = {} THEN AtRest
    ELSE [phase |-> "cleanup", slot |-> Nothing, key |-> Nothing, todo |-> files, saved |-> {}]

(* What follows the deletion of assets: the post_delete signal of each     *)
(* registers the deletion of its files for after the commit.               *)
After(c, slots, key, saved) ==
    request' = [request EXCEPT ![c] =
        Committed(key, saved, UNION {FilesOf(asset[s]) : s \in slots \cap Attached})]

(* Fault: the signal deletes the files of the asset that goes at once.     *)
BeginAttachDeletes(c, s, k) ==
    /\ request[c].phase = "idle" /\ Unlocked
    /\ s[1] \in present /\ type[s[2]] = "asset"
    /\ k \notin used
    /\ used' = used \cup {k}
    /\ request' = [request EXCEPT ![c] =
         [phase |-> "saving", slot |-> s, key |-> k, todo |-> FilesOf(k), saved |-> {}]]
    /\ stored' = stored \ (IF s \in Attached THEN FilesOf(asset[s]) ELSE {})
    /\ UNCHANGED <<tables, outbox, forgotten, undone>>

(* _attach_prepared_dataset_asset, up to the files.                        *)
BeginAttach(c, s, k) ==
    /\ request[c].phase = "idle" /\ Unlocked
    /\ s[1] \in present /\ type[s[2]] = "asset"
    /\ k \notin used
    /\ used' = used \cup {k}
    /\ request' = [request EXCEPT ![c] =
         [phase |-> "saving", slot |-> s, key |-> k, todo |-> FilesOf(k), saved |-> {}]]
    /\ UNCHANGED <<tables, stored, outbox, forgotten, undone>>

NextFile(todo) ==
    CHOOSE f \in todo : f[2] = "original" \/ \A g \in todo : g[2] # "original"

SaveFile(c) ==
    /\ request[c].phase = "saving" /\ request[c].todo # {}
    /\ LET f == NextFile(request[c].todo)
       IN  /\ stored' = stored \cup {f}
           /\ request' = [request EXCEPT ![c] =
                [phase |-> "saving", slot |-> @.slot, key |-> @.key,
                 todo |-> @.todo \ {f}, saved |-> @.saved \cup {f}]]
    /\ UNCHANGED <<tables, used, outbox, forgotten, undone>>

(* The store raises, with or without having written the file: the          *)
(* transaction is rolled back and only the files saved before are cleaned. *)
SaveFails(c) ==
    /\ request[c].phase = "saving" /\ request[c].todo # {}
    /\ LET f == NextFile(request[c].todo)
       IN  \/ UNCHANGED <<stored, forgotten>>
           \/ stored' = stored \cup {f} /\ forgotten' = forgotten \cup {f}
    /\ request' = [request EXCEPT ![c] = Cleanup(request[c].saved)]
    /\ UNCHANGED <<tables, used, outbox, undone>>

(* The commit: the previous asset goes, the new one and its cell stay.     *)
CommitAttach(c) ==
    /\ request[c].phase = "saving" /\ request[c].todo = {}
    /\ asset' = [asset EXCEPT ![request[c].slot] = request[c].key]
    /\ cell' = [cell EXCEPT ![request[c].slot] = request[c].key]
    /\ After(c, {request[c].slot}, request[c].key, request[c].saved)
    /\ UNCHANGED <<type, present, used, stored, outbox, forgotten, undone>>

-----------------------------------------------------------------------------
(* The other operations, each a transaction of one step.                   *)
Edit(c) == request[c].phase = "idle" /\ Unlocked

(* Image and audio columns must be blank in a new row.                     *)
AddRow(c, r) ==
    /\ Edit(c) /\ r \notin present
    /\ present' = present \cup {r}
    /\ cell' = [s \in Slots |-> IF s[1] = r THEN Blank ELSE cell[s]]
    /\ UNCHANGED <<type, asset, used, stored, outbox, request, forgotten, undone>>

(* patch_dataset_row: an asset column takes no reference and no text; the  *)
(* empty string deletes the asset, white space passes and does not.        *)
PatchCell(c, s, v) ==
    LET cleared == IF type[s[2]] = "asset" /\ v = Blank THEN {s} ELSE {}
    IN  /\ Edit(c) /\ s[1] \in present /\ type[s[2]] # "none" /\ v # cell[s]
        /\ type[s[2]] = "asset" => v \notin Keys
        /\ cell' = [cell EXCEPT ![s] = v]
        /\ asset' = [t \in Slots |-> IF t \in cleared THEN Nothing ELSE asset[t]]
        /\ After(c, cleared, Nothing, {})
        /\ UNCHANGED <<type, present, used, stored, outbox, forgotten, undone>>

(* Deletions cascade in Django, so each asset sends its signal.            *)
Remove(c, slots) ==
    /\ asset' = [s \in Slots |-> IF s \in slots THEN Nothing ELSE asset[s]]
    /\ cell' = [s \in Slots |-> IF s \in slots THEN Blank ELSE cell[s]]
    /\ After(c, slots, Nothing, {})
    /\ UNCHANGED <<used, stored, outbox, forgotten, undone>>

DeleteRow(c, r) ==
    /\ Edit(c) /\ r \in present
    /\ present' = present \ {r}
    /\ Remove(c, {r} \X Columns)
    /\ UNCHANGED type

DropColumn(c, col) ==
    /\ Edit(c) /\ type[col] # "none"
    /\ type' = [type EXCEPT ![col] = "none"]
    /\ Remove(c, Rows \X {col})
    /\ UNCHANGED present

AddColumn(c, col, t) ==
    /\ Edit(c) /\ type[col] = "none" /\ t # "none"
    /\ Cardinality({other \in Columns : type[other] # "none"}) < Width
    /\ type' = [type EXCEPT ![col] = t]
    /\ UNCHANGED <<present, cell, asset, used, stored, outbox, request, forgotten, undone>>

(* Fault: the assets keep the old column name.                             *)
RenameColumnOfRows(c, old, new) ==
    LET from(s) == IF s[2] = new THEN <<s[1], old>> ELSE <<s[1], new>>
    IN  /\ Edit(c) /\ type[old] # "none" /\ type[new] = "none"
        /\ type' = [type EXCEPT ![new] = type[old], ![old] = "none"]
        /\ cell' = [s \in Slots |-> IF s[2] \in {old, new} THEN cell[from(s)] ELSE cell[s]]
        /\ UNCHANGED <<present, asset, used, stored, outbox, request, forgotten, undone>>

RenameColumn(c, old, new) ==
    LET from(s) == IF s[2] = new THEN <<s[1], old>> ELSE <<s[1], new>>
        moved(f) == [s \in Slots |-> IF s[2] \in {old, new} THEN f[from(s)] ELSE f[s]]
    IN  /\ Edit(c) /\ type[old] # "none" /\ type[new] = "none"
        /\ type' = [type EXCEPT ![new] = type[old], ![old] = "none"]
        /\ cell' = moved(cell)
        /\ asset' = moved(asset)
        /\ UNCHANGED <<present, used, stored, outbox, request, forgotten, undone>>

(* _validate_existing_image_values, _validate_existing_audio_values        *)
CellFits(s) == cell[s] \in {Blank, Space} \/ cell[s] = asset[s]

(* Fault: the cells that are there are not looked at.                      *)
RetypeColumnUnchecked(c, col, t) ==
    /\ Edit(c) /\ type[col] # "none" /\ t \notin {"none", type[col]}
    /\ type' = [type EXCEPT ![col] = t]
    /\ UNCHANGED <<present, cell, asset, used, stored, outbox, request, forgotten, undone>>

(* A column that stops being one of assets keeps them, out of sight.       *)
RetypeColumn(c, col, t) ==
    /\ Edit(c) /\ type[col] # "none" /\ t \notin {"none", type[col]}
    /\ t = "asset" => \A r \in present : CellFits(<<r, col>>)
    /\ type' = [type EXCEPT ![col] = t]
    /\ UNCHANGED <<present, cell, asset, used, stored, outbox, request, forgotten, undone>>

-----------------------------------------------------------------------------
(* After the commit, or after the rollback: files are deleted one by one;  *)
(* a failure is recorded and the next one is tried.                        *)

Finished(c, f) ==
    LET rest == request[c].todo \ {f}
    IN  request' = [request EXCEPT ![c] =
            IF @.phase = "cleanup" THEN Cleanup(rest) ELSE Committed(@.key, @.saved, rest)]

DeleteFile(c, f) ==
    /\ request[c].phase \in {"committed", "cleanup"} /\ f \in request[c].todo
    /\ stored' = stored \ {f}
    /\ Finished(c, f)
    /\ UNCHANGED <<tables, used, outbox, forgotten, undone>>

(* Fault: the first file that cannot be deleted ends the loop.             *)
DeleteFailsAndStops(c, f) ==
    /\ request[c].phase \in {"committed", "cleanup"} /\ f \in request[c].todo
    /\ outbox' = IF f \in Pending THEN outbox ELSE Append(outbox, f)
    /\ request' = [request EXCEPT ![c] = AtRest]
    /\ stored' \in {stored, stored \ {f}}
    /\ UNCHANGED <<tables, used, forgotten, undone>>

(* record_dataset_asset_file_deletion_failure                              *)
DeleteFails(c, f) ==
    /\ request[c].phase \in {"committed", "cleanup"} /\ f \in request[c].todo
    /\ outbox' = IF f \in Pending THEN outbox ELSE Append(outbox, f)
    /\ stored' \in {stored, stored \ {f}}
    /\ Finished(c, f)
    /\ UNCHANGED <<tables, used, forgotten, undone>>

(* The last callback puts the analytics event on the queue; what becomes   *)
(* of it matters to an attach only.                                        *)
TrackMutation(c) ==
    /\ request[c].phase = "committed" /\ request[c].todo = {}
    /\ request' = [request EXCEPT ![c] = AtRest]
    /\ UNCHANGED <<tables, used, stored, outbox, forgotten, undone>>

(* The queue is down: the exception leaves the atomic block of a committed *)
(* transaction, and an attach takes it for a failure and cleans its files. *)
EnqueueFails(c) ==
    /\ request[c].phase = "committed" /\ request[c].todo = {}
    /\ request' = [request EXCEPT ![c] = Cleanup(request[c].saved)]
    /\ undone' = undone \cup {request[c].key}
    /\ UNCHANGED <<tables, used, stored, outbox, forgotten>>

(* The process dies: an open transaction is rolled back, and what it meant *)
(* to delete is known to nobody.                                           *)
Crash(c) ==
    /\ request[c].phase # "idle"
    /\ forgotten' = forgotten \cup (stored \cap (IF request[c].phase = "saving"
                                      THEN request[c].saved ELSE request[c].todo))
    /\ request' = [request EXCEPT ![c] = AtRest]
    /\ UNCHANGED <<tables, used, stored, outbox, undone>>

(* Fault: the slice of the pending deletions starts one late.              *)
DueButFirst(n) == n \in 2 .. Limit

(* The oldest deletions, as many as the limit lets through.                *)
Due(n) == n \in 1 .. Limit

(* retry_dataset_asset_file_deletions, when the store answers; when it     *)
(* does not, only a counter changes.                                       *)
RetryDeletion(f) ==
    \E n \in DOMAIN outbox :
      /\ Due(n) /\ outbox[n] = f
      /\ stored' = stored \ {f}
      /\ outbox' = SubSeq(outbox, 1, n - 1) \o SubSeq(outbox, n + 1, Len(outbox))
      /\ UNCHANGED <<tables, used, request, forgotten, undone>>

-----------------------------------------------------------------------------
Operation(c) ==
    \/ \E s \in Slots, k \in Keys : BeginAttach(c, s, k)
    \/ \E r \in Rows : AddRow(c, r) \/ DeleteRow(c, r)
    \/ \E s \in Slots, v \in Keys \cup {Blank, Space} : PatchCell(c, s, v)
    \/ \E col \in Columns : DropColumn(c, col)
    \/ \E col \in Columns, t \in {"asset", "text"} : AddColumn(c, col, t)
    \/ \E old, new \in Columns : RenameColumn(c, old, new)
    \/ \E col \in Columns, t \in {"asset", "text"} : RetypeColumn(c, col, t)

Proceed(c) ==
    \/ SaveFile(c) \/ SaveFails(c) \/ CommitAttach(c)
    \/ \E f \in Files : DeleteFile(c, f) \/ DeleteFails(c, f)
    \/ TrackMutation(c) \/ EnqueueFails(c)

AssetsNext ==
    \/ \E c \in Clients : Operation(c) \/ Proceed(c) \/ Crash(c)
    \/ \E f \in Files : RetryDeletion(f)

(* A request that has begun goes on, and the retry command is run until    *)
(* the store has answered for every file it is due to delete.              *)
FairRequests ==
    /\ \A c \in Clients : WF_assetsVars(Proceed(c))
    /\ \A f \in Files : WF_assetsVars(RetryDeletion(f))

AssetsSpec == AssetsInit /\ [][AssetsNext]_assetsVars /\ FairRequests

-----------------------------------------------------------------------------
(* One row of data, one asset and its parts per row and column; requests   *)
(* hold only files of their own asset, or of assets that are gone.         *)
RequestOK(q) ==
    /\ q.phase \in {"idle", "saving", "committed", "cleanup"}
    /\ q.slot \in Slots \cup {Nothing} /\ q.key \in Keys \cup {Nothing}
    /\ q.todo \subseteq Files /\ q.saved \subseteq Files
    /\ q.phase = "saving" =>
         /\ q.slot \in Slots /\ q.key \in Keys
         /\ q.slot[1] \in present /\ type[q.slot[2]] = "asset"
         /\ q.todo \cup q.saved = FilesOf(q.key)

AssetsTypeOK ==
    /\ type \in [Columns -> {"asset", "text", "none"}]
    /\ present \subseteq Rows
    /\ cell \in [Slots -> Keys \cup {Blank, Space}]
    /\ asset \in [Slots -> Keys \cup {Nothing}]
    /\ used \subseteq Keys
    /\ stored \subseteq Files
    /\ outbox \in Seq(Files)
    /\ DOMAIN request = Clients /\ \A c \in Clients : RequestOK(request[c])
    /\ forgotten \subseteq Files /\ undone \subseteq Keys
    /\ \A s \in Attached : s[1] \in present /\ type[s[2]] # "none"

(* The reference in a cell of an asset column is that of the asset of its  *)
(* row and column, through renames, retypes and patches in between.        *)
RefsResolve ==
    \A s \in Slots : s[1] \in present /\ type[s[2]] = "asset" => CellFits(s)

(* Every stored file is named by an asset, waits in the outbox, or is in   *)
(* the hands of a request; but for crashes and unclear failures, none is   *)
(* forgotten (delete_dataset_asset_files and the cleanup of an attach).    *)
InHand == UNION {request[c].todo \cup request[c].saved : c \in Clients}
FilesAccountedFor == stored \subseteq Owned \cup Pending \cup InHand \cup forgotten

(* An asset's files are there, or its attach failed after its commit.      *)
AssetsKeepFiles ==
    \A s \in Attached : FilesOf(asset[s]) \subseteq stored \/ asset[s] \in undone

(* A file that no asset names is deleted in the end, however often the     *)
(* store failed, unless a crash or an unclear failure forgot it.           *)
OrphansGo ==
    \A f \in Files : (f \in stored \ Owned) ~> (f \notin stored \/ f \in Owned \cup forgotten)

(* An attach leaves an asset with its files or, when it fails, no asset:   *)
(* of a failed attach the tests expect that no asset of the dataset is     *)
(* there (test_dataset_assets.py 293).                                     *)
AssetsHaveFiles == \A s \in Attached : FilesOf(asset[s]) \subseteq stored
=============================================================================
