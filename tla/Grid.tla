-------------------------------- MODULE Grid --------------------------------
(***************************************************************************)
(* What a dataset promises of its cells, whatever happens to its schema: a *)
(* column is itself, not its name.  A cell changes only when its row is    *)
(* written or its column is added or dropped; renaming, reordering and     *)
(* retyping columns leave every cell alone, and a column that is added     *)
(* again under an old name starts from the default, in every row.          *)
(***************************************************************************)
CONSTANTS
    Ids,           \* column identities, each used at most once
    Rows,          \* row identities
    Cells,         \* what a cell can hold
    None           \* no such row; nobody

VARIABLES
    columns,       \* the identities of the columns there are
    spent,         \* the identities used so far
    cells,         \* by row and column; None without row
    writer         \* the row the last change wrote, None for a schema change

vars == <<columns, spent, cells, writer>>

Init ==
    /\ spent \in SUBSET Ids
    /\ columns \in SUBSET spent
    /\ cells = [r \in Rows |-> None]
    /\ writer = None

AddColumn(i) ==
    /\ i \notin spent
    /\ columns' = columns \cup {i}
    /\ spent' = spent \cup {i}
    /\ \E v \in Cells :
        cells' = [r \in Rows |->
                    IF cells[r] = None THEN None
                    ELSE [j \in columns' |-> IF j = i THEN v ELSE cells[r][j]]]
    /\ writer' = None

DropColumn(i) ==
    /\ columns' = columns \ {i}
    /\ cells' = [r \in Rows |->
                   IF cells[r] = None THEN None
                   ELSE [j \in columns' |-> cells[r][j]]]
    /\ writer' = None
    /\ UNCHANGED spent

Reshape ==
    /\ writer' = None
    /\ UNCHANGED <<columns, spent, cells>>

CreateRow(r) ==
    /\ cells[r] = None
    /\ \E row \in [columns -> Cells] : cells' = [cells EXCEPT ![r] = row]
    /\ writer' = r
    /\ UNCHANGED <<columns, spent>>

PatchRow(r) ==
    /\ cells[r] # None
    /\ \E i \in columns, v \in Cells : cells' = [cells EXCEPT ![r][i] = v]
    /\ writer' = r
    /\ UNCHANGED <<columns, spent>>

DeleteRow(r) ==
    /\ cells' = [cells EXCEPT ![r] = None]
    /\ writer' = r
    /\ UNCHANGED <<columns, spent>>

Next ==
    \/ \E i \in Ids : AddColumn(i) \/ DropColumn(i)
    \/ Reshape
    \/ \E r \in Rows : CreateRow(r) \/ PatchRow(r) \/ DeleteRow(r)

Spec == Init /\ [][Next]_vars
=============================================================================
