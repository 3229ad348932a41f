--------------------------- MODULE Relationships ----------------------------
(***************************************************************************)
(* A relationship between a column of one dataset, the source, and the     *)
(* index of another, the target (apps/api/services.py, from                *)
(* _relationship_cell_value on).  A transaction locks only the dataset it  *)
(* writes; what it validates on the other side it reads without a lock, at *)
(* READ COMMITTED, one statement after the other.  So writing a reference, *)
(* enabling enforcement and deleting or renaming the referenced row are    *)
(* checks and writes that other transactions can come between.             *)
(*                                                                         *)
(* Two ghosts say when that happened: overlapped, that transactions on the *)
(* two datasets were ever open together; settled, which references were in *)
(* place when the open target transaction began and have stayed as they    *)
(* were.  The definitions whose comments begin "Fault" replace the one     *)
(* after them when the properties are put to the test.                     *)
(***************************************************************************)
EXTENDS Naturals, FiniteSets

CONSTANTS
    Requests,      \* the threads that serve requests
    SourceRows,    \* rows the source dataset can have
    Keys,          \* index values the target dataset can have
    Cells,         \* what the source column can hold, the keys included
    Writable,      \* the cells a row write may put in a column of its type
    AssetRefs,     \* the cells attaching an image or audio asset puts there
    Blank,         \* the empty string
    Strip,         \* str.strip on Cells: whitespace of every kind
    Trim,          \* SQL's TRIM on Cells: spaces only
    None           \* no row, no request

ASSUME CellsAssumption ==
    /\ Keys \subseteq Cells \ {Blank} /\ Blank \in Cells
    /\ Writable \subseteq Cells /\ AssetRefs \subseteq Cells
    /\ Strip \in [Cells -> Cells] /\ Trim \in [Cells -> Cells]
    /\ \A k \in Keys \cup {Blank} : Strip[k] = k /\ Trim[k] = k
    /\ None \notin Cells \cup Requests \cup SourceRows

VARIABLES
    refs,          \* the source column of each source row, None without row
    targets,       \* the index values of the target rows
    archived,      \* which of the two datasets are archived
    relation,      \* none, lax, or enforced (enforce_integrity)
    holder,        \* who has each dataset row locked FOR UPDATE
    tx,            \* what each request's open transaction is about to write
    overlapped,    \* ghost
    settled        \* ghost

vars == <<refs, targets, archived, relation, holder, tx, overlapped, settled>>
stored == <<refs, targets, archived, relation>>

Sides == {"source", "target"}
Other(side) == IF side = "source" THEN "target" ELSE "source"

(* row and value: the source cell to write, None to delete the row.        *)
(* relation: what the relationship becomes.  gone and to: the target       *)
(* indexes to delete, or the one to rename; unchecked and enforced: the    *)
(* progress of the check that they are not referenced.                     *)
Transaction ==
    [stage : {"idle", "locked", "related", "selected", "incoming", "ready"},
     side : Sides,
     row : SourceRows \cup {None}, value : Cells \cup {None},
     relation : {"kept", "none", "lax", "enforced"},
     gone : SUBSET Keys, to : Keys \cup {None},
     unchecked : SUBSET Keys, enforced : BOOLEAN]

Opened(side) ==
    [stage |-> "locked", side |-> side, row |-> None, value |-> None,
     relation |-> "kept", gone |-> {}, to |-> None,
     unchecked |-> {}, enforced |-> FALSE]

Idle ==
    [stage |-> "idle", side |-> "source", row |-> None, value |-> None,
     relation |-> "kept", gone |-> {}, to |-> None,
     unchecked |-> {}, enforced |-> FALSE]

Present == {s \in SourceRows : refs[s] # None}

(* _relationship_cell_value is blank: nothing to resolve.                  *)
IsBlank(cell) == cell = None \/ Strip[cell] = Blank

Resolves(cell) == IsBlank(cell) \/ Strip[cell] \in targets

At(p, side, stage) == tx[p].side = side /\ tx[p].stage = stage

Init ==
    /\ refs = [s \in SourceRows |-> None]
    /\ targets = {}
    /\ archived = {}
    /\ relation = "none"
    /\ holder = [side \in Sides |-> None]
    /\ tx = [p \in Requests |-> Idle]
    /\ overlapped = FALSE
    /\ settled = {}

(* get_active_profile_dataset_for_update                                   *)
Lock(p, side) ==
    /\ tx[p].stage = "idle"
    /\ holder[side] = None
    /\ side \notin archived
    /\ holder' = [holder EXCEPT ![side] = p]
    /\ tx' = [tx EXCEPT ![p] = Opened(side)]
    /\ overlapped' = (overlapped \/ holder[Other(side)] # None)
    /\ settled' = IF side = "target"
                  THEN {s \in Present : relation = "enforced" /\
                            ~IsBlank(refs[s]) /\ Strip[refs[s]] \in targets}
                  ELSE settled
    /\ UNCHANGED stored

-----------------------------------------------------------------------------
(* Transactions on the source dataset.                                     *)

(* Create or patch a row: _validate_relationship_row_data reads the        *)
(* enforced relationships and whether their target is archived ...         *)
WriteRow(p) ==
    /\ At(p, "source", "locked")
    /\ \E s \in SourceRows, cell \in Writable :
        /\ relation = "enforced" /\ ~IsBlank(cell) => "target" \notin archived
        /\ tx' = [tx EXCEPT
             ![p] = [@ EXCEPT !.stage = "related", !.row = s, !.value = cell]]
    /\ UNCHANGED <<stored, holder, overlapped, settled>>

(* Fault: only the row's other columns are validated.                      *)
ValidateReferenceUnread(p) ==
    /\ At(p, "source", "related")
    /\ tx' = [tx EXCEPT ![p] = [@ EXCEPT !.stage = "ready"]]
    /\ UNCHANGED <<stored, holder, overlapped, settled>>

(* ... and then looks the stripped value up among the target's indexes.    *)
ValidateReference(p) ==
    /\ At(p, "source", "related")
    /\ relation = "enforced" => Resolves(tx[p].value)
    /\ tx' = [tx EXCEPT ![p] = [@ EXCEPT !.stage = "ready"]]
    /\ UNCHANGED <<stored, holder, overlapped, settled>>

DeleteSourceRow(p) ==
    /\ At(p, "source", "locked")
    /\ \E s \in Present :
        tx' = [tx EXCEPT ![p] = [@ EXCEPT !.stage = "ready", !.row = s]]
    /\ UNCHANGED <<stored, holder, overlapped, settled>>

(* _attach_prepared_dataset_asset puts the asset's reference in the cell;  *)
(* it validates the column and the file, not the relationships.            *)
AttachAsset(p) ==
    /\ At(p, "source", "locked")
    /\ \E s \in Present, cell \in AssetRefs :
        tx' = [tx EXCEPT
          ![p] = [@ EXCEPT !.stage = "ready", !.row = s, !.value = cell]]
    /\ UNCHANGED <<stored, holder, overlapped, settled>>

(* create_profile_dataset_relationship: no value of the column, trimmed by *)
(* the database, is without a target row.                                  *)
CreateRelationship(p) ==
    /\ At(p, "source", "locked")
    /\ relation = "none"
    /\ "target" \notin archived
    /\ \E kind \in {"lax", "enforced"} :
        /\ kind = "enforced" =>
             \A s \in Present : Trim[refs[s]] \in targets \cup {Blank}
        /\ tx' = [tx EXCEPT
             ![p] = [@ EXCEPT !.stage = "ready", !.relation = kind]]
    /\ UNCHANGED <<stored, holder, overlapped, settled>>

(* delete_profile_dataset_relationship                                     *)
DeleteRelationship(p) ==
    /\ At(p, "source", "locked")
    /\ relation # "none"
    /\ tx' = [tx EXCEPT ![p] = [@ EXCEPT !.stage = "ready", !.relation = "none"]]
    /\ UNCHANGED <<stored, holder, overlapped, settled>>

CommitSource(p) ==
    LET t == tx[p]
    IN  /\ At(p, "source", "ready")
        /\ refs' = IF t.row = None THEN refs ELSE [refs EXCEPT ![t.row] = t.value]
        /\ relation' = IF t.relation = "kept" THEN relation ELSE t.relation
        /\ settled' = IF t.relation = "kept" THEN settled \ {t.row} ELSE {}
        /\ holder' = [holder EXCEPT !["source"] = None]
        /\ tx' = [tx EXCEPT ![p] = Idle]
        /\ UNCHANGED <<targets, archived, overlapped>>

-----------------------------------------------------------------------------
(* Transactions on the target dataset.                                     *)

InsertTarget(p) ==
    /\ At(p, "target", "locked")
    /\ \E k \in Keys \ targets :
        tx' = [tx EXCEPT ![p] = [@ EXCEPT !.stage = "ready", !.to = k]]
    /\ UNCHANGED <<stored, holder, overlapped, settled>>

(* The rows to delete, or the row whose index is to become another.        *)
SelectTargets(p) ==
    /\ At(p, "target", "locked")
    /\ \E gone \in SUBSET targets, to \in (Keys \ targets) \cup {None} :
        /\ gone # {} /\ (to # None => Cardinality(gone) = 1)
        /\ tx' = [tx EXCEPT
             ![p] = [@ EXCEPT !.stage = "selected", !.gone = gone, !.to = to,
                              !.unchecked = gone]]
    /\ UNCHANGED <<stored, holder, overlapped, settled>>

(* _raise_if_target_row_is_referenced, for one row after the other: read   *)
(* the enforced relationships ...                                          *)
ReadIncoming(p) ==
    /\ At(p, "target", "selected")
    /\ tx[p].unchecked # {}
    /\ tx' = [tx EXCEPT
         ![p] = [@ EXCEPT !.stage = "incoming",
                          !.enforced = (relation = "enforced")]]
    /\ UNCHANGED <<stored, holder, overlapped, settled>>

(* Fault: the row's new index is looked for instead of its old one.        *)
CheckReferencedByNewIndex(p) ==
    /\ At(p, "target", "incoming")
    /\ \E k \in tx[p].unchecked :
        /\ tx[p].enforced => \A s \in Present : Trim[refs[s]] # tx[p].to
        /\ tx' = [tx EXCEPT
             ![p] = [@ EXCEPT !.stage = "selected", !.unchecked = tx[p].unchecked \ {k}]]
    /\ UNCHANGED <<stored, holder, overlapped, settled>>

(* ... and then look for a source row that holds the index.                *)
CheckReferenced(p) ==
    /\ At(p, "target", "incoming")
    /\ \E k \in tx[p].unchecked :
        /\ tx[p].enforced => \A s \in Present : Trim[refs[s]] # k
        /\ tx' = [tx EXCEPT
             ![p] = [@ EXCEPT !.stage = "selected", !.unchecked = tx[p].unchecked \ {k}]]
    /\ UNCHANGED <<stored, holder, overlapped, settled>>

CommitTarget(p) ==
    /\ \/ At(p, "target", "ready")
       \/ At(p, "target", "selected") /\ tx[p].unchecked = {}
    /\ targets' = (targets \ tx[p].gone) \cup ({tx[p].to} \ {None})
    /\ holder' = [holder EXCEPT !["target"] = None]
    /\ tx' = [tx EXCEPT ![p] = Idle]
    /\ settled' = {}
    /\ UNCHANGED <<refs, archived, relation, overlapped>>

-----------------------------------------------------------------------------
(* A refusal, an error or a lost worker: nothing is written.               *)
Abort(p) ==
    /\ tx[p].stage # "idle"
    /\ holder' = [holder EXCEPT ![tx[p].side] = None]
    /\ tx' = [tx EXCEPT ![p] = Idle]
    /\ settled' = IF tx[p].side = "target" THEN {} ELSE settled
    /\ UNCHANGED <<stored, overlapped>>

(* archive_profile_dataset and restore_profile_dataset: references to and  *)
(* from an archived dataset stay as they are.                              *)
Archive(side) ==
    /\ holder[side] = None
    /\ archived' = archived \cup {side}
    /\ UNCHANGED <<refs, targets, relation, holder, tx, overlapped, settled>>

Restore(side) ==
    /\ side \in archived
    /\ archived' = archived \ {side}
    /\ UNCHANGED <<refs, targets, relation, holder, tx, overlapped, settled>>

SourceStep(p) ==
    \/ WriteRow(p) \/ ValidateReference(p) \/ DeleteSourceRow(p)
    \/ AttachAsset(p) \/ CreateRelationship(p) \/ DeleteRelationship(p)
    \/ CommitSource(p)

TargetStep(p) ==
    \/ InsertTarget(p) \/ SelectTargets(p) \/ ReadIncoming(p)
    \/ CheckReferenced(p) \/ CommitTarget(p)

Next ==
    \/ \E p \in Requests, side \in Sides : Lock(p, side)
    \/ \E p \in Requests : SourceStep(p) \/ TargetStep(p) \/ Abort(p)
    \/ \E side \in Sides : Archive(side) \/ Restore(side)

Spec == Init /\ [][Next]_vars

-----------------------------------------------------------------------------
(* Every variable, the open transactions included, has its type.           *)
TypeOK ==
    /\ refs \in [SourceRows -> Cells \cup {None}]
    /\ targets \in SUBSET Keys
    /\ archived \in SUBSET Sides
    /\ relation \in {"none", "lax", "enforced"}
    /\ holder \in [Sides -> Requests \cup {None}]
    /\ tx \in [Requests -> Transaction]
    /\ overlapped \in BOOLEAN
    /\ settled \in SUBSET SourceRows

(* blog/referential-integrity-ai-agents.md:168-173 and dataset-api.md:467: *)
(* under an enforced relationship every nonblank source value is the index *)
(* of a target row.                                                        *)
NoDanglingReference ==
    relation = "enforced" => \A s \in SourceRows : Resolves(refs[s])

(* str.strip and SQL's TRIM agree on what the column can hold.             *)
TrimsAgree == \A cell \in Cells : Strip[cell] = Trim[cell]

(* As long as no transaction on the source is ever open together with one  *)
(* on the target, the only cells that dangle under an enforced relation    *)
(* are those an asset was attached to: each check is enough on its own.    *)
IntegrityWithoutOverlap ==
    TrimsAgree /\ ~overlapped /\ relation = "enforced" =>
        \A s \in SourceRows : refs[s] \in AssetRefs \/ Resolves(refs[s])

(* However transactions overlap, one that deletes or renames target rows   *)
(* never takes away the target of a reference that was in place when it    *)
(* began and that nobody rewrote meanwhile.                                *)
SettledReferencesSurvive ==
    [][TrimsAgree /\ targets' # targets =>
          \A s \in settled : Strip[refs[s]] \in targets']_vars
=============================================================================
