----------------------------- MODULE KeyedTable -----------------------------
(***************************************************************************)
(* What the row API promises of a dataset, with no transaction in sight:   *)
(* a table of rows that one operation at a time inserts into, replaces a   *)
(* row of or removes rows from.  DatasetRows, the model of the code, is    *)
(* shown to implement it.                                                  *)
(***************************************************************************)
EXTENDS Naturals, FiniteSets

CONSTANTS
    Datasets,     \* the datasets of one profile
    Generated,    \* those whose index column Rowset generates (rowset_id)
    Row           \* every row there can be: records with id, number, index

VARIABLES
    status,       \* status[d]: absent, active, archived or deleted
    public,       \* public[d]: the public preview is enabled
    rows,         \* rows[d]: the set of rows of d
    rowCount      \* rowCount[d]: the stored row count

tableVars == <<status, public, rows, rowCount>>

(* No two rows of S share an id, a row number or an index value.           *)
KeysDistinct(S) ==
    \A r, s \in S :
        (r.id = s.id \/ r.number = s.number \/ r.index = s.index) => r = s

Init ==
    /\ status = [d \in Datasets |-> "absent"]
    /\ public = [d \in Datasets |-> FALSE]
    /\ rows = [d \in Datasets |-> {}]
    /\ rowCount = [d \in Datasets |-> 0]

Create(d) ==
    /\ status[d] = "absent"
    /\ status' = [status EXCEPT ![d] = "active"]
    /\ \E S \in SUBSET Row :
        /\ KeysDistinct(S)
        /\ rows' = [rows EXCEPT ![d] = S]
        /\ rowCount' = [rowCount EXCEPT ![d] = Cardinality(S)]
    /\ UNCHANGED public

(* A new row goes last and takes an index value no row has.                *)
Insert(d) ==
    /\ status[d] = "active"
    /\ \E r \in Row :
        /\ \A s \in rows[d] :
            s.id # r.id /\ s.number < r.number /\ s.index # r.index
        /\ rows' = [rows EXCEPT ![d] = @ \cup {r}]
    /\ rowCount' = [rowCount EXCEPT ![d] = @ + 1]
    /\ UNCHANGED <<status, public>>

(* A row keeps its id and number; a generated index is not rewritten.      *)
Replace(d) ==
    /\ status[d] = "active"
    /\ \E old \in rows[d], new \in Row :
        /\ new.id = old.id /\ new.number = old.number
        /\ d \in Generated => new.index = old.index
        /\ \A s \in rows[d] \ {old} : s.index # new.index
        /\ rows' = [rows EXCEPT ![d] = (@ \ {old}) \cup {new}]
    /\ UNCHANGED <<status, public, rowCount>>

Remove(d) ==
    /\ status[d] = "active"
    /\ \E gone \in SUBSET rows[d] :
        /\ gone # {}
        /\ rows' = [rows EXCEPT ![d] = @ \ gone]
        /\ rowCount' = [rowCount EXCEPT ![d] = @ - Cardinality(gone)]
    /\ UNCHANGED <<status, public>>

(* Archiving keeps the rows and takes the dataset off the public web;      *)
(* restoring does not put it back there.                                   *)
Archive(d) ==
    /\ status[d] \in {"active", "archived"}
    /\ status' = [status EXCEPT ![d] = "archived"]
    /\ public' = [public EXCEPT ![d] = FALSE]
    /\ UNCHANGED <<rows, rowCount>>

Restore(d) ==
    /\ status[d] = "archived"
    /\ status' = [status EXCEPT ![d] = "active"]
    /\ UNCHANGED <<public, rows, rowCount>>

SetPublic(d) ==
    /\ status[d] = "active"
    /\ \E enabled \in BOOLEAN : public' = [public EXCEPT ![d] = enabled]
    /\ UNCHANGED <<status, rows, rowCount>>

Drop(d) ==
    /\ status[d] \in {"active", "archived"}
    /\ status' = [status EXCEPT ![d] = "deleted"]
    /\ public' = [public EXCEPT ![d] = FALSE]
    /\ rows' = [rows EXCEPT ![d] = {}]
    /\ rowCount' = [rowCount EXCEPT ![d] = 0]

Next ==
    \E d \in Datasets :
        \/ Create(d) \/ Insert(d) \/ Replace(d) \/ Remove(d)
        \/ Archive(d) \/ Restore(d) \/ SetPublic(d) \/ Drop(d)

Spec == Init /\ [][Next]_tableVars
=============================================================================
