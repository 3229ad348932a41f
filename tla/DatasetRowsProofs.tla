------------------------- MODULE DatasetRowsProofs --------------------------
(***************************************************************************)
(* Proofs about DatasetRows, for every number of datasets, requests, rows  *)
(* and strings.  The inductive invariant IInv says of every open           *)
(* transaction that it holds the lock of an active dataset and how what it *)
(* read and wrote relates to the rows that are committed now: that is what *)
(* the lock buys, and what RowCountExact alone cannot carry from step to   *)
(* step.  HInv adds, in the last part, what the history has told so far    *)
(* and what each open transaction is about to add to it.                   *)
(***************************************************************************)
EXTENDS DatasetRows, TLAPS, FiniteSetTheorems, SequenceTheorems

(* The row is the one its cells say it is.                                 *)
RowFaithful(d, r) ==
    /\ r.index = Strip[r.key] /\ r.index # Blank
    /\ d \in Generated => r.index = Str[r.number]

(* What transaction t wrote, over the committed rows S: one new row, after *)
(* all the others ...                                                      *)
Inserting(t, S, w) ==
    /\ t.puts = {w} /\ t.gone = {} /\ w \in Row
    /\ \A s \in S : s.id # w.id /\ s.number < w.number /\ s.index # w.index
    /\ RowFaithful(t.dataset, w)

(* ... or no longer some of them ...                                       *)
Removing(t, S) ==
    /\ t.puts = {} /\ t.gone # {}
    /\ \A i \in t.gone : \E r \in S : r.id = i

(* ... or a new version of one of them.                                    *)
Replacing(t, S, old, w) ==
    /\ t.puts = {w} /\ t.gone = {} /\ w \in Row /\ old \in S
    /\ w.id = old.id /\ w.number = old.number
    /\ t.dataset \in Generated => w.index = old.index
    /\ \A s \in S : s.id # w.id => s.index # w.index
    /\ RowFaithful(t.dataset, w)

TableOK(d) ==
    /\ IsFiniteSet(rows[d])
    /\ Table!KeysDistinct(rows[d])
    /\ \A r \in rows[d] : r.id < nextId /\ RowFaithful(d, r)
    /\ rowCount[d] = Cardinality(rows[d])
    /\ public[d] => status[d] = "active"
    /\ status[d] = "absent" => rows[d] = {} /\ ~public[d]

TxOK(p) ==
    LET t == tx[p]
        S == rows[t.dataset]
    IN  t.stage # "idle" =>
            /\ t.dataset \in Datasets
            /\ holder[t.dataset] = p
            /\ status[t.dataset] = "active"
            /\ t.stage \in {"locked", "numbered", "fetched"} =>
                 t.puts = {} /\ t.gone = {} /\ t.count = None
            /\ t.stage = "numbered" =>
                 t.number \in RowNumbers /\ IsNextRowNumber(t.number, S)
            /\ t.stage = "fetched" => t.row \in S
            /\ t.stage = "written" =>
                 \/ \E w \in Row : Inserting(t, S, w) /\ w.id < nextId
                 \/ Removing(t, S)
            /\ t.stage = "counted" =>
                 \/ /\ t.count = Cardinality(Applied(t, S))
                    /\ \/ \E w \in Row : Inserting(t, S, w) /\ w.id < nextId
                       \/ Removing(t, S)
                 \/ /\ t.count = None
                    /\ \E old, w \in Row : Replacing(t, S, old, w)

IInv ==
    /\ TypeOK
    /\ \A d \in Datasets : TableOK(d)
    /\ \A p \in Requests : TxOK(p)

-----------------------------------------------------------------------------
(* What a commit makes of a table, for each kind of transaction.           *)

LEMMA InsertApplied ==
    ASSUME NEW t, NEW S, NEW w, Inserting(t, S, w)
    PROVE  Applied(t, S) = S \cup {w}
  BY DEF Inserting, Applied

LEMMA RemoveApplied ==
    ASSUME NEW t, NEW S, Removing(t, S)
    PROVE  Applied(t, S) = S \ {r \in S : r.id \in t.gone}
  BY DEF Removing, Applied

LEMMA ReplaceApplied ==
    ASSUME NEW t, NEW S, NEW old, NEW w, Replacing(t, S, old, w),
           Table!KeysDistinct(S)
    PROVE  Applied(t, S) = (S \ {old}) \cup {w}
  BY DEF Replacing, Applied, Table!KeysDistinct

(* Each keeps a table with distinct keys and faithful rows such a table.   *)
LEMMA InsertKeeps ==
    ASSUME NEW t, NEW S \in SUBSET Row, NEW w, Inserting(t, S, w),
           IsFiniteSet(S), Table!KeysDistinct(S)
    PROVE  /\ Applied(t, S) \in SUBSET Row
           /\ IsFiniteSet(Applied(t, S))
           /\ Table!KeysDistinct(Applied(t, S))
           /\ Cardinality(Applied(t, S)) = Cardinality(S) + 1
  <1>1. Applied(t, S) = S \cup {w}
    BY InsertApplied
  <1>2. w \notin S
    BY DEF Inserting
  <1>3. IsFiniteSet(S \cup {w}) /\ Cardinality(S \cup {w}) = Cardinality(S) + 1
    BY <1>2, FS_AddElement
  <1>4. Table!KeysDistinct(S \cup {w})
    BY DEF Inserting, Table!KeysDistinct, Row, RowNumbers
  <1> QED
    BY <1>1, <1>3, <1>4 DEF Inserting

LEMMA RemoveKeeps ==
    ASSUME NEW t, NEW S \in SUBSET Row, Removing(t, S),
           IsFiniteSet(S), Table!KeysDistinct(S)
    PROVE  /\ Applied(t, S) \in SUBSET S
           /\ IsFiniteSet(Applied(t, S))
           /\ Table!KeysDistinct(Applied(t, S))
  <1>1. Applied(t, S) \in SUBSET S
    BY RemoveApplied
  <1> QED
    BY <1>1, FS_Subset DEF Table!KeysDistinct

LEMMA ReplaceKeeps ==
    ASSUME NEW t, NEW S \in SUBSET Row, NEW old, NEW w, Replacing(t, S, old, w),
           IsFiniteSet(S), Table!KeysDistinct(S)
    PROVE  /\ Applied(t, S) \in SUBSET Row
           /\ IsFiniteSet(Applied(t, S))
           /\ Table!KeysDistinct(Applied(t, S))
           /\ Cardinality(Applied(t, S)) = Cardinality(S)
  <1>1. Applied(t, S) = (S \ {old}) \cup {w}
    BY ReplaceApplied
  <1>2. old \in S /\ w \notin S \ {old}
    BY DEF Replacing, Table!KeysDistinct
  <1>3. IsFiniteSet(S \ {old}) /\ Cardinality(S \ {old}) = Cardinality(S) - 1
    BY <1>2, FS_RemoveElement
  <1>4. /\ IsFiniteSet((S \ {old}) \cup {w})
        /\ Cardinality((S \ {old}) \cup {w}) = Cardinality(S \ {old}) + 1
    BY <1>2, <1>3, FS_AddElement
  <1>5. Table!KeysDistinct((S \ {old}) \cup {w})
    BY DEF Replacing, Table!KeysDistinct
  <1>6. Cardinality(S) \in Nat
    BY FS_CardinalityType
  <1> QED
    BY <1>1, <1>3, <1>4, <1>5, <1>6 DEF Replacing

-----------------------------------------------------------------------------
(* IInv is inductive.                                                      *)

LEMMA InitIInv == Init => IInv
  <1> SUFFICES ASSUME Init PROVE IInv
    OBVIOUS
  <1> USE BoundsAssumption
  <1>1. TypeOK
    BY EmptySeq DEF Init, TypeOK, Transaction, Idle
  <1>2. \A d \in Datasets : TableOK(d)
    BY FS_EmptySet DEF Init, TableOK, Table!KeysDistinct
  <1>3. \A p \in Requests : TxOK(p)
    BY DEF Init, TxOK, Idle
  <1> QED
    BY <1>1, <1>2, <1>3 DEF IInv

(* A transaction whose record, lock and table a step leaves alone is as    *)
(* good after it as before.                                                *)
LEMMA TxFrame ==
    ASSUME TypeOK, NEW q \in Requests, TxOK(q), tx'[q] = tx[q],
           tx[q].stage # "idle" =>
               LET d == tx[q].dataset
               IN  /\ rows'[d] = rows[d] /\ holder'[d] = holder[d]
                   /\ status'[d] = status[d],
           nextId \in Nat, nextId' \in Nat, nextId <= nextId'
    PROVE  TxOK(q)'
  BY DEF TxOK, TypeOK, Row, RowIds

(* While p holds the lock of its dataset every other open transaction is   *)
(* on a dataset of its own.                                                *)
LEMMA OthersElsewhere ==
    ASSUME IInv, NEW p \in Requests, NEW q \in Requests, p # q,
           tx[p].stage # "idle", tx[q].stage # "idle"
    PROVE  tx[q].dataset # tx[p].dataset
  BY DEF IInv, TxOK

LEMMA LockIInv ==
    ASSUME IInv, NEW p \in Requests, NEW d \in Datasets, Lock(p, d)
    PROVE  IInv'
  <1> USE DEF Lock, datasetVars, Opened
  <1>2. TypeOK'
    BY IdentitiesAssumption DEF IInv, TypeOK, Transaction
  <1>3. \A e \in Datasets : TableOK(e)'
    BY DEF IInv, TableOK
  <1>4. ASSUME NEW q \in Requests PROVE TxOK(q)'
    <2>1. CASE q = p
      BY <2>1 DEF IInv, TypeOK, TxOK
    <2>2. CASE q # p
      <3>1. tx[q].stage # "idle" => tx[q].dataset # d
        BY IdentitiesAssumption DEF IInv, TxOK
      <3> QED
        BY <2>2, <3>1, TxFrame, BoundsAssumption DEF IInv, TypeOK
    <2> QED
      BY <2>1, <2>2
  <1> QED
    BY <1>2, <1>3, <1>4 DEF IInv

(* A statement of p inside its transaction: what is committed, and the     *)
(* locks, stay as they are, and t is what p's record becomes.              *)
LEMMA StatementIInv ==
    ASSUME IInv, NEW p \in Requests, NEW t \in Transaction,
           UNCHANGED <<datasetVars, holder>>, tx' = [tx EXCEPT ![p] = t],
           nextId' \in 1..(MaxRowId + 1), nextId' >= nextId, TxOK(p)'
    PROVE  IInv'
  <1> USE DEF datasetVars
  <1>1. nextId \in Nat /\ nextId' \in Nat
    BY BoundsAssumption DEF IInv, TypeOK
  <1>2. TypeOK'
    BY DEF IInv, TypeOK
  <1>3. \A d \in Datasets : TableOK(d)'
    BY <1>1 DEF IInv, TableOK, TypeOK, Row, RowIds
  <1>4. \A q \in Requests : TxOK(q)'
    BY <1>1, TxFrame DEF IInv, TypeOK
  <1> QED
    BY <1>2, <1>3, <1>4 DEF IInv

(* What IInv says of the transaction a statement of p finds.               *)
LEMMA OpenTransaction ==
    ASSUME IInv, NEW p \in Requests, tx[p].stage # "idle"
    PROVE  /\ tx[p] \in Transaction /\ TxOK(p)
           /\ tx[p].dataset \in Datasets /\ TableOK(tx[p].dataset)
           /\ rows[tx[p].dataset] \in SUBSET Row
           /\ nextId \in 1..(MaxRowId + 1) /\ nextId >= nextId
           /\ MaxRowId \in Nat
  BY BoundsAssumption DEF IInv, TypeOK, TxOK

LEMMA FetchNumberIInv ==
    ASSUME IInv, NEW p \in Requests, FetchNumber(p)
    PROVE  IInv'
  <1>1. PICK n \in RowNumbers :
          /\ IsNextRowNumber(n, rows[tx[p].dataset])
          /\ tx' = [tx EXCEPT ![p] = [@ EXCEPT !.stage = "numbered", !.number = n]]
    BY DEF FetchNumber
  <1> DEFINE t == [tx[p] EXCEPT !.stage = "numbered", !.number = n]
  <1>2. t \in Transaction
    <2>1. n \in Nat
      BY BoundsAssumption DEF RowNumbers
    <2>2. tx[p] \in Transaction
      BY OpenTransaction DEF FetchNumber
    <2> QED
      BY <2>1, <2>2 DEF Transaction
  <1>3. TxOK(p)'
    BY <1>1, OpenTransaction DEF FetchNumber, datasetVars, TxOK, Transaction, IInv, TypeOK
  <1> QED
    BY <1>1, <1>2, <1>3, StatementIInv, OpenTransaction DEF FetchNumber

LEMMA InsertRowIInv ==
    ASSUME IInv, NEW p \in Requests, InsertRow(p)
    PROVE  IInv'
  <1> DEFINE d == tx[p].dataset
             n == tx[p].number
             stored(key) == CreatedKey(d, n, key)
             row(key, cell) == [id |-> nextId, number |-> n,
                                index |-> Strip[stored(key)],
                                key |-> stored(key), cell |-> cell]
             entry == [type |-> "created", row |-> nextId, number |-> n,
                       changes |-> {}]
             after(w) == [tx[p] EXCEPT !.stage = "written", !.puts = {w},
                                       !.entries = <<entry>>]
  <1>1. PICK key \in Cells, cell \in Texts :
          /\ Strip[stored(key)] # Blank
          /\ ~Taken(Strip[stored(key)], rows[d])
          /\ tx' = [tx EXCEPT ![p] = after(row(key, cell))]
    BY DEF InsertRow
  <1> DEFINE w == row(key, cell)
             t == after(w)
  <1>2. /\ tx[p] \in Transaction /\ tx[p].stage = "numbered"
        /\ nextId \in RowIds /\ d \in Datasets /\ n \in RowNumbers
        /\ UNCHANGED <<datasetVars, holder>> /\ nextId' = nextId + 1
    BY OpenTransaction, BoundsAssumption DEF InsertRow, TxOK, RowIds
  <1>3. /\ IsNextRowNumber(n, rows[d])
        /\ \A s \in rows[d] : s \in Row /\ s.id < nextId
        /\ tx[p].gone = {}
    BY <1>2, OpenTransaction DEF TxOK, TableOK
  <1>4. /\ stored(key) \in Cells /\ Strip[stored(key)] \in Cells
        /\ d \in Generated => Strip[stored(key)] = Str[n]
    BY <1>2, StringsAssumption DEF CreatedKey
  <1> HIDE DEF row, stored
  <1>5. /\ w.id = nextId /\ w.number = n /\ w.index = Strip[stored(key)]
        /\ w.key = stored(key) /\ w \in Row
    BY <1>2, <1>4 DEF row, Row
  <1>6. RowFaithful(d, w)
    BY <1>1, <1>4, <1>5 DEF RowFaithful
  <1>7. t \in Transaction
    <2>1. entry \in Entry
      BY <1>2, BoundsAssumption DEF Entry, RowIds, RowNumbers
    <2>2. <<entry>> \in Seq(Entry)
      BY <2>1
    <2> QED
      BY <1>2, <1>5, <2>2 DEF Transaction
  <1>8. Inserting(t, rows[d], w)
    BY <1>1, <1>2, <1>3, <1>5, <1>6 DEF Inserting, IsNextRowNumber, Taken, Row, RowIds,
       Transaction
  <1> HIDE DEF w
  <1>9. tx'[p] = t
    BY <1>1 DEF IInv, TypeOK, w
  <1>10. TxOK(p)'
    <2>1. /\ t.dataset = d /\ t.stage = "written" /\ w.id < nextId'
      BY <1>2, <1>5, BoundsAssumption DEF Transaction, RowIds
    <2>2. holder[d] = p /\ status[d] = "active"
      BY <1>2 DEF IInv, TxOK
    <2> HIDE DEF t
    <2> QED
      BY <1>2, <1>5, <1>8, <1>9, <2>1, <2>2 DEF TxOK, datasetVars
  <1>11. tx' = [tx EXCEPT ![p] = t]
    BY <1>1 DEF w
  <1>12. nextId' \in 1..(MaxRowId + 1) /\ nextId' >= nextId
    BY <1>2, BoundsAssumption DEF RowIds
  <1> HIDE DEF t
  <1> QED
    BY <1>2, <1>7, <1>10, <1>11, <1>12, StatementIInv

LEMMA FetchRowIInv ==
    ASSUME IInv, NEW p \in Requests, FetchRow(p)
    PROVE  IInv'
  <1>1. PICK r \in rows[tx[p].dataset] :
          tx' = [tx EXCEPT ![p] = [@ EXCEPT !.stage = "fetched", !.row = r]]
    BY DEF FetchRow
  <1> DEFINE t == [tx[p] EXCEPT !.stage = "fetched", !.row = r]
  <1>2. r \in Row /\ tx[p] \in Transaction
    BY OpenTransaction DEF FetchRow
  <1>3. t \in Transaction
    BY <1>2 DEF Transaction
  <1>4. TxOK(p)'
    BY <1>1, OpenTransaction DEF FetchRow, datasetVars, TxOK, Transaction, IInv, TypeOK
  <1> QED
    BY <1>1, <1>3, <1>4, StatementIInv, OpenTransaction DEF FetchRow

(* A patch of row old of table S, as UpdateRow checks it.                  *)
LEMMA PatchedRow ==
    ASSUME NEW d \in Datasets, NEW S \in SUBSET Row, NEW old \in S,
           Table!KeysDistinct(S), RowFaithful(d, old),
           NEW key \in Cells \cup {Unset}, NEW cell \in Texts \cup {Unset},
           key # Unset => PatchAllowed(d, old, Patched(old, key, cell), S)
    PROVE  LET w == Patched(old, key, cell)
           IN  /\ w \in Row /\ w.id = old.id /\ w.number = old.number
               /\ d \in Generated => w.index = old.index
               /\ \A s \in S : s.id # w.id => s.index # w.index
               /\ RowFaithful(d, w)
  <1> DEFINE w == Patched(old, key, cell)
  <1>1. old \in Row /\ Strip \in [Cells -> Cells]
    BY StringsAssumption
  <1>2. /\ w.id = old.id /\ w.number = old.number
        /\ w.key = IF key = Unset THEN old.key ELSE key
        /\ w.cell = IF cell = Unset THEN old.cell ELSE cell
        /\ w.index = IF key = Unset THEN old.index ELSE Strip[key]
        /\ w \in Row
    BY <1>1 DEF Patched, Row
  <1> HIDE DEF w
  <1>3. CASE key = Unset
    BY <1>2, <1>3 DEF w, RowFaithful, Table!KeysDistinct
  <1>4. CASE key # Unset
    BY <1>2, <1>4 DEF w, PatchAllowed, Taken, RowFaithful
  <1> QED
    BY <1>3, <1>4

LEMMA UpdateRowIInv ==
    ASSUME IInv, NEW p \in Requests, UpdateRow(p)
    PROVE  IInv'
  <1> DEFINE d == tx[p].dataset
             old == tx[p].row
             entry(w) == [type |-> "updated", row |-> old.id, number |-> old.number,
                          changes |-> FieldChanges(old, w)]
             after(w) == [tx[p] EXCEPT !.stage = "counted", !.puts = {w},
                                       !.entries = <<entry(w)>>]
  <1>1. PICK key \in Cells \cup {Unset}, cell \in Texts \cup {Unset} :
          /\ key # Unset => PatchAllowed(d, old, Patched(old, key, cell), rows[d])
          /\ tx' = [tx EXCEPT ![p] = after(Patched(old, key, cell))]
    BY DEF UpdateRow
  <1> DEFINE w == Patched(old, key, cell)
             t == after(w)
  <1>2. /\ tx[p] \in Transaction /\ tx[p].stage = "fetched"
        /\ d \in Datasets /\ old \in rows[d] /\ rows[d] \in SUBSET Row
        /\ tx[p].gone = {} /\ tx[p].count = None
        /\ Table!KeysDistinct(rows[d]) /\ RowFaithful(d, old)
        /\ UNCHANGED <<datasetVars, holder, nextId>>
    BY OpenTransaction DEF UpdateRow, TxOK, TableOK
  <1>3. /\ w \in Row /\ w.id = old.id /\ w.number = old.number
        /\ d \in Generated => w.index = old.index
        /\ \A s \in rows[d] : s.id # w.id => s.index # w.index
        /\ RowFaithful(d, w)
    BY <1>1, <1>2, PatchedRow
  <1>4. tx' = [tx EXCEPT ![p] = t]
    BY <1>1
  <1> HIDE DEF w
  <1>5. t \in Transaction
    <2>1. FieldChanges(old, w) \in SUBSET Change
      BY <1>2, <1>3 DEF FieldChanges, Change, Row
    <2>2. entry(w) \in Entry
      BY <1>2, <1>3, <2>1, BoundsAssumption DEF Entry, Row, RowNumbers
    <2>3. <<entry(w)>> \in Seq(Entry)
      BY <2>2
    <2> QED
      BY <1>2, <1>3, <2>3 DEF Transaction
  <1>6. /\ t.dataset = d /\ t.stage = "counted" /\ t.puts = {w} /\ t.gone = {}
        /\ t.count = None
    BY <1>2 DEF Transaction
  <1>7. tx'[p] = t
    BY <1>4 DEF IInv, TypeOK
  <1>8. TxOK(p)'
    <2>1. holder[d] = p /\ status[d] = "active"
      BY <1>2 DEF IInv, TxOK
    <2> HIDE DEF t
    <2>2. Replacing(t, rows[d], old, w)
      BY <1>2, <1>3, <1>6 DEF Replacing
    <2>3. old \in Row
      BY <1>2
    <2> QED
      BY <1>2, <1>3, <1>6, <1>7, <2>1, <2>2, <2>3 DEF TxOK, datasetVars
  <1>9. nextId' \in 1..(MaxRowId + 1) /\ nextId' >= nextId
    BY <1>2, BoundsAssumption DEF IInv, TypeOK
  <1> HIDE DEF t
  <1> QED
    BY <1>2, <1>4, <1>5, <1>8, <1>9, StatementIInv

LEMMA DeleteRowsIInv ==
    ASSUME IInv, NEW p \in Requests, DeleteRows(p)
    PROVE  IInv'
  <1> DEFINE d == tx[p].dataset
             gone(k, v) == {v[i].id : i \in 1..k}
             entries(k, v) == [i \in 1..k |-> [type |-> "deleted", row |-> v[i].id,
                                                number |-> v[i].number,
                                                changes |-> {}]]
             after(k, v) == [tx[p] EXCEPT !.stage = "written", !.gone = gone(k, v),
                                          !.entries = entries(k, v)]
  <1>1. PICK k \in 1..MaxRowId : \E v \in [1..k -> rows[d]] :
          tx' = [tx EXCEPT ![p] = after(k, v)]
    BY DEF DeleteRows
  <1>2. PICK v \in [1..k -> rows[d]] : tx' = [tx EXCEPT ![p] = after(k, v)]
    BY <1>1
  <1> DEFINE t == after(k, v)
  <1>3. /\ tx[p] \in Transaction /\ tx[p].stage = "locked"
        /\ d \in Datasets /\ rows[d] \in SUBSET Row /\ tx[p].puts = {}
        /\ UNCHANGED <<datasetVars, holder, nextId>>
    BY OpenTransaction DEF DeleteRows, TxOK
  <1>4. gone(k, v) \in SUBSET RowIds /\ gone(k, v) # {}
    <2>1. 1 \in 1..k
      BY BoundsAssumption
    <2> QED
      BY <1>3, <2>1 DEF Row
  <1>5. entries(k, v) \in Seq(Entry)
    <2>1. \A i \in 1..k : entries(k, v)[i] \in Entry
      BY <1>3, BoundsAssumption DEF Entry, Row, RowNumbers
    <2>2. k \in Nat
      BY BoundsAssumption
    <2> QED
      BY <2>1, <2>2, SeqDef
  <1>6. t \in Transaction
    BY <1>3, <1>4, <1>5 DEF Transaction
  <1>7. tx'[p] = t
    BY <1>2 DEF IInv, TypeOK
  <1>8. TxOK(p)'
    <2>1. holder[d] = p /\ status[d] = "active"
      BY <1>3 DEF IInv, TxOK
    <2>2. /\ t.dataset = d /\ t.stage = "written" /\ t.puts = {}
          /\ t.gone = gone(k, v)
      BY <1>3 DEF Transaction
    <2>3. \A i \in gone(k, v) : \E r \in rows[d] : r.id = i
      OBVIOUS
    <2> HIDE DEF t, gone
    <2>4. Removing(t, rows[d])
      BY <1>4, <2>2, <2>3 DEF Removing
    <2> QED
      BY <1>3, <1>7, <2>1, <2>2, <2>4 DEF TxOK, datasetVars
  <1>9. nextId' \in 1..(MaxRowId + 1) /\ nextId' >= nextId
    BY <1>3, BoundsAssumption DEF IInv, TypeOK
  <1> HIDE DEF t
  <1> QED
    BY <1>2, <1>3, <1>6, <1>8, <1>9, StatementIInv DEF t

LEMMA CountRowsIInv ==
    ASSUME IInv, NEW p \in Requests, CountRows(p)
    PROVE  IInv'
  <1> DEFINE d == tx[p].dataset
             c == Cardinality(Applied(tx[p], rows[d]))
             t == [tx[p] EXCEPT !.stage = "counted", !.count = c]
  <1>1. /\ tx[p] \in Transaction /\ tx[p].stage = "written"
        /\ d \in Datasets /\ rows[d] \in SUBSET Row
        /\ IsFiniteSet(rows[d]) /\ Table!KeysDistinct(rows[d])
        /\ UNCHANGED <<datasetVars, holder, nextId>>
        /\ holder[d] = p /\ status[d] = "active"
        /\ \/ \E w \in Row : Inserting(tx[p], rows[d], w) /\ w.id < nextId
           \/ Removing(tx[p], rows[d])
    BY OpenTransaction DEF CountRows, TxOK, TableOK
  <1>2. c \in Nat
    BY <1>1, InsertKeeps, RemoveKeeps, FS_CardinalityType
  <1>3. tx' = [tx EXCEPT ![p] = t]
    BY DEF CountRows
  <1> HIDE DEF c
  <1>4. /\ t \in Transaction /\ t.dataset = d /\ t.stage = "counted"
        /\ t.count = c /\ t.puts = tx[p].puts /\ t.gone = tx[p].gone
    BY <1>1, <1>2 DEF Transaction
  <1>5. tx'[p] = t
    BY <1>3 DEF IInv, TypeOK
  <1> HIDE DEF t
  <1>6. /\ \/ \E w \in Row : Inserting(t, rows[d], w) /\ w.id < nextId
           \/ Removing(t, rows[d])
        /\ Applied(t, rows[d]) = Applied(tx[p], rows[d])
    BY <1>1, <1>4 DEF Inserting, Removing, Applied
  <1>7. TxOK(p)'
    BY <1>1, <1>4, <1>5, <1>6 DEF TxOK, datasetVars, c
  <1>8. nextId' \in 1..(MaxRowId + 1) /\ nextId' >= nextId
    BY <1>1, BoundsAssumption DEF IInv, TypeOK
  <1> QED
    BY <1>1, <1>3, <1>4, <1>7, <1>8, StatementIInv

(* What p would commit is a table in order, with its size as row count.    *)
LEMMA CommittedTable ==
    ASSUME IInv, NEW p \in Requests, tx[p].stage = "counted"
    PROVE  LET d == tx[p].dataset
               after == Applied(tx[p], rows[d])
               count == tx[p].count
           IN  /\ after \in SUBSET Row /\ IsFiniteSet(after)
               /\ Table!KeysDistinct(after)
               /\ \A r \in after : r.id < nextId /\ RowFaithful(d, r)
               /\ (IF count = None THEN rowCount[d] ELSE count) = Cardinality(after)
               /\ Cardinality(after) \in Nat
  <1> DEFINE d == tx[p].dataset
             S == rows[d]
             t == tx[p]
             after == Applied(t, S)
  <1>1. /\ t \in Transaction /\ d \in Datasets /\ S \in SUBSET Row
        /\ IsFiniteSet(S) /\ Table!KeysDistinct(S)
        /\ \A r \in S : r.id < nextId /\ RowFaithful(d, r)
        /\ rowCount[d] = Cardinality(S)
    BY OpenTransaction DEF TableOK
  <1>2. \/ /\ t.count = Cardinality(after)
           /\ \/ \E w \in Row : Inserting(t, S, w) /\ w.id < nextId
              \/ Removing(t, S)
        \/ t.count = None /\ \E old, w \in Row : Replacing(t, S, old, w)
    BY OpenTransaction DEF TxOK
  <1>3. t.dataset = d
    OBVIOUS
  <1> HIDE DEF d, S, t, after
  <1>4. ASSUME NEW w \in Row, Inserting(t, S, w), w.id < nextId
        PROVE  /\ after \in SUBSET Row /\ IsFiniteSet(after)
               /\ Table!KeysDistinct(after)
               /\ \A r \in after : r.id < nextId /\ RowFaithful(d, r)
    BY <1>1, <1>3, <1>4, InsertKeeps, InsertApplied DEF after, Inserting
  <1>5. ASSUME Removing(t, S)
        PROVE  /\ after \in SUBSET Row /\ IsFiniteSet(after)
               /\ Table!KeysDistinct(after)
               /\ \A r \in after : r.id < nextId /\ RowFaithful(d, r)
    BY <1>1, <1>5, RemoveKeeps DEF after
  <1>6. ASSUME NEW old \in Row, NEW w \in Row, Replacing(t, S, old, w)
        PROVE  /\ after \in SUBSET Row /\ IsFiniteSet(after)
               /\ Table!KeysDistinct(after)
               /\ \A r \in after : r.id < nextId /\ RowFaithful(d, r)
               /\ Cardinality(after) = Cardinality(S)
    BY <1>1, <1>3, <1>6, ReplaceKeeps, ReplaceApplied DEF after, Replacing
  <1>7. /\ after \in SUBSET Row /\ IsFiniteSet(after)
        /\ Table!KeysDistinct(after)
        /\ \A r \in after : r.id < nextId /\ RowFaithful(d, r)
    BY <1>2, <1>4, <1>5, <1>6
  <1>8. Cardinality(after) \in Nat
    BY <1>7, FS_CardinalityType
  <1>9. (IF t.count = None THEN rowCount[d] ELSE t.count) = Cardinality(after)
    BY <1>1, <1>2, <1>6, <1>8, IdentitiesAssumption
  <1> QED
    BY <1>7, <1>8, <1>9 DEF d, S, t, after

(* p leaves its transaction: whoever else has one open holds another lock. *)
LEMMA ClosedTransaction ==
    ASSUME IInv, NEW p \in Requests, tx[p].stage # "idle",
           tx' = [tx EXCEPT ![p] = Idle], nextId' = nextId,
           \A e \in Datasets : e # tx[p].dataset =>
               /\ rows'[e] = rows[e] /\ holder'[e] = holder[e]
               /\ status'[e] = status[e]
    PROVE  \A q \in Requests : TxOK(q)'
  <1> SUFFICES ASSUME NEW q \in Requests PROVE TxOK(q)'
    OBVIOUS
  <1>1. CASE q = p
    BY <1>1 DEF IInv, TypeOK, TxOK, Idle
  <1>2. CASE q # p
    <2>1. /\ TypeOK /\ TxOK(q) /\ tx'[q] = tx[q]
          /\ nextId \in Nat /\ nextId' \in Nat /\ nextId <= nextId'
      BY <1>2, BoundsAssumption DEF IInv, TypeOK
    <2>2. tx[q].stage # "idle" =>
            tx[q].dataset \in Datasets /\ tx[q].dataset # tx[p].dataset
      BY <1>2, OthersElsewhere DEF IInv, TxOK
    <2> QED
      BY <2>1, <2>2, TxFrame
  <1> QED
    BY <1>1, <1>2

LEMMA IdleType == Idle \in Transaction
  BY EmptySeq DEF Idle, Transaction

LEMMA CommitIInv ==
    ASSUME IInv, NEW p \in Requests, Commit(p)
    PROVE  IInv'
  <1> DEFINE d == tx[p].dataset
             after == Applied(tx[p], rows[d])
             count == IF tx[p].count = None THEN rowCount[d] ELSE tx[p].count
  <1>1. /\ tx[p] \in Transaction /\ tx[p].stage = "counted" /\ d \in Datasets
        /\ status[d] = "active" /\ TableOK(d)
    BY OpenTransaction DEF Commit, TxOK
  <1>2. /\ after \in SUBSET Row /\ IsFiniteSet(after)
        /\ Table!KeysDistinct(after)
        /\ \A r \in after : r.id < nextId /\ RowFaithful(d, r)
        /\ count = Cardinality(after) /\ count \in Nat
    BY <1>1, CommittedTable
  <1>3. /\ rows' = [rows EXCEPT ![d] = after]
        /\ rowCount' = [rowCount EXCEPT ![d] = count]
        /\ history' = [history EXCEPT ![d] = @ \o tx[p].entries]
        /\ holder' = [holder EXCEPT ![d] = None]
        /\ tx' = [tx EXCEPT ![p] = Idle]
        /\ UNCHANGED <<status, public, nextId>>
    BY DEF Commit
  <1>4. history[d] \o tx[p].entries \in Seq(Entry)
    BY <1>1, ConcatProperties DEF IInv, TypeOK, Transaction
  <1> HIDE DEF after, count
  <1>5. TypeOK'
    BY <1>1, <1>2, <1>3, <1>4, IdleType DEF IInv, TypeOK
  <1>6. \A e \in Datasets : TableOK(e)'
    BY <1>1, <1>2, <1>3 DEF IInv, TypeOK, TableOK
  <1>7. \A q \in Requests : TxOK(q)'
    BY <1>1, <1>3, ClosedTransaction DEF IInv, TypeOK
  <1> QED
    BY <1>5, <1>6, <1>7 DEF IInv

LEMMA AbortIInv ==
    ASSUME IInv, NEW p \in Requests, Abort(p)
    PROVE  IInv'
  <1> USE DEF Abort, datasetVars
  <1>1. tx[p].dataset \in Datasets
    BY OpenTransaction
  <1>2. TypeOK'
    BY <1>1, IdleType DEF IInv, TypeOK
  <1>3. \A d \in Datasets : TableOK(d)'
    BY DEF IInv, TableOK
  <1>4. \A q \in Requests : TxOK(q)'
    BY <1>1, ClosedTransaction DEF IInv, TypeOK
  <1> QED
    BY <1>2, <1>3, <1>4 DEF IInv

-----------------------------------------------------------------------------
(* Steps of a dataset on which no transaction is open.                     *)

LEMMA UntouchedTransactions ==
    ASSUME IInv, NEW d \in Datasets, holder[d] = None \/ status[d] # "active",
           UNCHANGED <<holder, tx>>,
           nextId' \in Nat, nextId <= nextId',
           \A e \in Datasets : e # d => rows'[e] = rows[e] /\ status'[e] = status[e]
    PROVE  \A q \in Requests : TxOK(q)'
  <1> SUFFICES ASSUME NEW q \in Requests PROVE TxOK(q)'
    OBVIOUS
  <1>1. tx[q].stage # "idle" => tx[q].dataset \in Datasets /\ tx[q].dataset # d
    BY IdentitiesAssumption DEF IInv, TxOK
  <1>2. TypeOK /\ TxOK(q) /\ nextId \in Nat
    BY BoundsAssumption DEF IInv, TypeOK
  <1> QED
    BY <1>1, <1>2, TxFrame

(* The rows a request numbers 1..k are k rows.                             *)
LEMMA NumberedRows ==
    ASSUME NEW k \in Nat, NEW S, NEW f \in [1..k -> S],
           \A s \in S : \E i \in 1..k : s = f[i],
           \A i, j \in 1..k : f[i] = f[j] => i = j
    PROVE  IsFiniteSet(S) /\ Cardinality(S) = k
  <1>1. IsFiniteSet(1..k) /\ Cardinality(1..k) = k
    BY FS_Interval
  <1>2. f \in Surjection(1..k, S) /\ f \in Injection(1..k, S)
    BY DEF Surjection, Injection, IsInjective
  <1> QED
    BY <1>1, <1>2, FS_Surjection

LEMMA CreateDatasetIInv ==
    ASSUME IInv, NEW d \in Datasets, CreateDataset(d)
    PROVE  IInv'
  <1> DEFINE index(keys, i) == Strip[CreatedKey(d, i, keys[i])]
             row(keys, cells, i) ==
               [id |-> nextId + i - 1, number |-> i, index |-> index(keys, i),
                key |-> CreatedKey(d, i, keys[i]), cell |-> cells[i]]
  <1>1. PICK k \in 0..MaxInitialRows :
          /\ nextId + k <= MaxRowId + 1
          /\ \E keys \in [1..k -> Cells], cells \in [1..k -> Texts] :
               /\ \A i \in 1..k : index(keys, i) # Blank
               /\ \A i, j \in 1..k : index(keys, i) = index(keys, j) => i = j
               /\ rows' = [rows EXCEPT ![d] = {row(keys, cells, i) : i \in 1..k}]
          /\ rowCount' = [rowCount EXCEPT ![d] = k]
          /\ history' = [history EXCEPT
               ![d] = <<[type |-> "dataset_created", row |-> None, number |-> k,
                         changes |-> {}]>>]
          /\ nextId' = nextId + k
    BY DEF CreateDataset
  <1>2. PICK keys \in [1..k -> Cells], cells \in [1..k -> Texts] :
          /\ \A i \in 1..k : index(keys, i) # Blank
          /\ \A i, j \in 1..k : index(keys, i) = index(keys, j) => i = j
          /\ rows' = [rows EXCEPT ![d] = {row(keys, cells, i) : i \in 1..k}]
    BY <1>1
  <1> DEFINE f == [i \in 1..k |-> row(keys, cells, i)]
             S == {row(keys, cells, i) : i \in 1..k}
  <1>3. /\ status[d] = "absent" /\ status' = [status EXCEPT ![d] = "active"]
        /\ UNCHANGED <<public, holder, tx>> /\ TableOK(d)
    BY DEF CreateDataset, IInv
  <1>4. k \in Nat /\ nextId \in Nat /\ nextId >= 1 /\ MaxRowId \in Nat
    BY BoundsAssumption DEF IInv, TypeOK
  <1>5. \A i \in 1..k :
          /\ i \in RowNumbers /\ nextId + i - 1 \in RowIds
          /\ CreatedKey(d, i, keys[i]) \in Cells /\ index(keys, i) \in Cells
          /\ d \in Generated => index(keys, i) = Str[i]
    <2> TAKE i \in 1..k
    <2>1. i \in RowNumbers /\ nextId + i - 1 \in RowIds
      BY <1>1, <1>4 DEF RowNumbers, RowIds
    <2> QED
      BY <2>1, StringsAssumption DEF CreatedKey
  <1>6. \A i \in 1..k :
          LET r == f[i]
          IN  /\ r \in Row /\ r.id = nextId + i - 1 /\ r.number = i
              /\ r.index = index(keys, i)
              /\ r.id < nextId' /\ RowFaithful(d, r)
    <2> TAKE i \in 1..k
    <2>1. nextId + i - 1 < nextId'
      BY <1>1, <1>4
    <2> QED
      BY <1>2, <1>5, <2>1 DEF Row, RowFaithful
  <1>7. f \in [1..k -> S] /\ \A s \in S : \E i \in 1..k : s = f[i]
    OBVIOUS
  <1>8. /\ rows' = [rows EXCEPT ![d] = S]
        /\ \A i, j \in 1..k : index(keys, i) = index(keys, j) => i = j
    BY <1>2
  <1> HIDE DEF f, S, index, row
  <1>a. /\ S \in SUBSET Row
        /\ \A r \in S : r.id < nextId' /\ RowFaithful(d, r)
    BY <1>6, <1>7
  <1>b. \A i, j \in 1..k :
          (f[i].id = f[j].id \/ f[i].number = f[j].number
             \/ f[i].index = f[j].index) => i = j
    BY <1>4, <1>6, <1>8
  <1>c. Table!KeysDistinct(S)
    BY <1>7, <1>b DEF Table!KeysDistinct
  <1>9. IsFiniteSet(S) /\ Cardinality(S) = k
    <2>1. \A i, j \in 1..k : f[i] = f[j] => i = j
      BY <1>b
    <2> QED
      BY <1>4, <1>7, <2>1, NumberedRows
  <1>10. nextId' \in 1..(MaxRowId + 1) /\ nextId <= nextId'
    BY <1>1, <1>4
  <1>11. TypeOK'
    <2> DEFINE e == [type |-> "dataset_created", row |-> None, number |-> k,
                     changes |-> {}]
    <2>1. e \in Entry
      BY <1>4 DEF Entry
    <2>2. <<e>> \in Seq(Entry)
      BY <2>1
    <2>3. history' = [history EXCEPT ![d] = <<e>>]
      BY <1>1
    <2> HIDE DEF e
    <2> QED
      BY <1>1, <1>3, <1>4, <1>8, <1>a, <1>10, <2>2, <2>3 DEF IInv, TypeOK
  <1>12. \A e \in Datasets : TableOK(e)'
    <2> TAKE e \in Datasets
    <2>1. CASE e = d
      BY <1>1, <1>3, <1>8, <1>a, <1>c, <1>9, <2>1 DEF IInv, TypeOK, TableOK
    <2>2. CASE e # d
      <3>1. /\ rows'[e] = rows[e] /\ rowCount'[e] = rowCount[e]
            /\ status'[e] = status[e] /\ public'[e] = public[e] /\ TableOK(e)
            /\ \A r \in rows[e] : r.id \in Nat
        BY <1>1, <1>3, <1>8, <1>4, <2>2 DEF IInv, TypeOK, Row, RowIds
      <3> QED
        BY <1>4, <1>10, <3>1 DEF TableOK
    <2> QED
      BY <2>1, <2>2
  <1>13. \A q \in Requests : TxOK(q)'
    <2>1. \A e \in Datasets : e # d => rows'[e] = rows[e] /\ status'[e] = status[e]
      BY <1>3, <1>8 DEF IInv, TypeOK
    <2>2. nextId' \in Nat /\ nextId <= nextId'
      BY <1>4, <1>10
    <2>3. status[d] # "active"
      BY <1>3
    <2> QED
      BY <1>3, <2>1, <2>2, <2>3, UntouchedTransactions
  <1> QED
    BY <1>11, <1>12, <1>13 DEF IInv

LEMMA ArchiveDatasetIInv ==
    ASSUME IInv, NEW d \in Datasets, ArchiveDataset(d)
    PROVE  IInv'
  <1> USE DEF ArchiveDataset
  <1>1. TypeOK'
    BY DEF IInv, TypeOK
  <1>2. \A e \in Datasets : TableOK(e)'
    BY DEF IInv, TypeOK, TableOK
  <1>3. \A q \in Requests : TxOK(q)'
    BY UntouchedTransactions, BoundsAssumption DEF IInv, TypeOK
  <1> QED
    BY <1>1, <1>2, <1>3 DEF IInv

LEMMA RestoreDatasetIInv ==
    ASSUME IInv, NEW d \in Datasets, RestoreDataset(d)
    PROVE  IInv'
  <1> USE DEF RestoreDataset
  <1>1. TypeOK'
    BY DEF IInv, TypeOK
  <1>2. \A e \in Datasets : TableOK(e)'
    BY DEF IInv, TypeOK, TableOK
  <1>3. \A q \in Requests : TxOK(q)'
    BY UntouchedTransactions, BoundsAssumption DEF IInv, TypeOK
  <1> QED
    BY <1>1, <1>2, <1>3 DEF IInv

LEMMA UpdatePublicPreviewIInv ==
    ASSUME IInv, NEW d \in Datasets, UpdatePublicPreview(d)
    PROVE  IInv'
  <1>1. PICK enabled \in BOOLEAN \cup {None} :
          public' = [public EXCEPT ![d] = IF enabled = None THEN @ ELSE enabled]
    BY DEF UpdatePublicPreview
  <1> USE DEF UpdatePublicPreview
  <1>2. public' \in [Datasets -> BOOLEAN]
    BY <1>1 DEF IInv, TypeOK
  <1>3. TypeOK'
    BY <1>2 DEF IInv, TypeOK
  <1>4. \A e \in Datasets : TableOK(e)'
    BY <1>1 DEF IInv, TypeOK, TableOK
  <1>5. \A q \in Requests : TxOK(q)'
    BY UntouchedTransactions, BoundsAssumption DEF IInv, TypeOK
  <1> QED
    BY <1>3, <1>4, <1>5 DEF IInv

LEMMA DeleteDatasetIInv ==
    ASSUME IInv, NEW d \in Datasets, DeleteDataset(d)
    PROVE  IInv'
  <1> USE DEF DeleteDataset
  <1>1. TypeOK'
    BY EmptySeq DEF IInv, TypeOK
  <1>2. \A e \in Datasets : TableOK(e)'
    BY FS_EmptySet DEF IInv, TypeOK, TableOK, Table!KeysDistinct
  <1>3. \A q \in Requests : TxOK(q)'
    BY UntouchedTransactions, BoundsAssumption DEF IInv, TypeOK
  <1> QED
    BY <1>1, <1>2, <1>3 DEF IInv

LEMMA NextIInv ==
    ASSUME IInv, [Next]_vars
    PROVE  IInv'
  <1>1. CASE UNCHANGED vars
    BY <1>1 DEF IInv, TypeOK, TableOK, TxOK, vars, datasetVars
  <1>2. ASSUME NEW p \in Requests, RowStep(p) PROVE IInv'
    BY <1>2, FetchNumberIInv, InsertRowIInv, FetchRowIInv, UpdateRowIInv,
       DeleteRowsIInv, CountRowsIInv, CommitIInv, AbortIInv DEF RowStep
  <1>3. ASSUME NEW d \in Datasets, DatasetStep(d) PROVE IInv'
    BY <1>3, CreateDatasetIInv, ArchiveDatasetIInv, RestoreDatasetIInv,
       UpdatePublicPreviewIInv, DeleteDatasetIInv DEF DatasetStep
  <1> QED
    BY <1>1, <1>2, <1>3, LockIInv DEF Next

LEMMA Invariance == Spec => []IInv
  BY InitIInv, NextIInv, PTL DEF Spec

-----------------------------------------------------------------------------
(* Every variable and every open transaction keeps its type.               *)
THEOREM TypeCorrect == Spec => []TypeOK
  <1>1. IInv => TypeOK
    BY DEF IInv
  <1> QED
    BY <1>1, Invariance, PTL

(* The stored row_count is the number of rows, whatever the interleaving   *)
(* of row requests, dataset operations and rollbacks.                      *)
THEOREM RowCountCorrect == Spec => []RowCountExact
  <1>1. IInv => RowCountExact
    BY DEF IInv, TableOK, RowCountExact
  <1> QED
    BY <1>1, Invariance, PTL

(* No unique constraint of DatasetRow fires when a row transaction ends.   *)
THEOREM ConstraintsNeverFire == Spec => []NoIntegrityError
  <1>1. ASSUME IInv, NEW p \in Requests, tx[p].stage = "counted"
        PROVE  UniqueConstraintsHold(Applied(tx[p], rows[tx[p].dataset]))
    BY <1>1, CommittedTable DEF UniqueConstraintsHold, Table!KeysDistinct
  <1>2. IInv => NoIntegrityError
    BY <1>1 DEF NoIntegrityError
  <1> QED
    BY <1>2, Invariance, PTL

(* index_value is the stripped index cell of its row, never blank, and the *)
(* row number when Rowset generates it.                                    *)
THEOREM IndexAlwaysFaithful == Spec => []IndexFaithful
  <1>1. IInv => IndexFaithful
    BY DEF IInv, TableOK, RowFaithful, IndexFaithful
  <1> QED
    BY <1>1, Invariance, PTL

(* Nothing but an active dataset is public.                                *)
THEOREM OnlyActiveIsPublic == Spec => []PublicOnlyWhenActive
  <1>1. IInv => PublicOnlyWhenActive
    BY DEF IInv, TableOK, PublicOnlyWhenActive
  <1> QED
    BY <1>1, Invariance, PTL

(* Once a dataset is archived no transaction, open or new, changes its     *)
(* rows, its count or its history.                                         *)
THEOREM ArchivedIsFrozen == Spec => ArchivedStaysFrozen
  <1> DEFINE Frozen(d) ==
        status[d] = "archived" /\ status'[d] # "deleted" =>
            /\ rows'[d] = rows[d] /\ rowCount'[d] = rowCount[d]
            /\ history'[d] = history[d]
  <1>1. ASSUME IInv, Next, NEW d \in Datasets PROVE Frozen(d)
    <2> USE DEF datasetVars
    <2>1. ASSUME NEW p \in Requests, Commit(p) PROVE Frozen(d)
      <3>1. status[tx[p].dataset] = "active"
        BY <1>1, <2>1, OpenTransaction DEF Commit, TxOK
      <3> QED
        BY <1>1, <2>1, <3>1 DEF Commit, IInv, TypeOK
    <2>2. ASSUME NEW p \in Requests, RowStep(p) PROVE Frozen(d)
      BY <2>1, <2>2 DEF RowStep, FetchNumber, InsertRow, FetchRow, UpdateRow,
         DeleteRows, CountRows, Abort
    <2>3. ASSUME NEW e \in Datasets, DatasetStep(e) PROVE Frozen(d)
      BY <1>1, <2>3 DEF IInv, TypeOK, DatasetStep, CreateDataset, ArchiveDataset,
         RestoreDataset, UpdatePublicPreview, DeleteDataset
    <2> QED
      BY <1>1, <2>2, <2>3 DEF Next, Lock
  <1>2. IInv /\ [Next]_vars => [\A d \in Datasets : Frozen(d)]_vars
    BY <1>1
  <1> QED
    BY <1>2, Invariance, PTL DEF Spec, ArchivedStaysFrozen

-----------------------------------------------------------------------------
(* KeyedTable counts as this module does.                                  *)
LEMMA SameCardinality == \A S : Table!Cardinality(S) = Cardinality(S)
  BY DEF Cardinality, Table!Cardinality

(* The commit of a row transaction is one operation of KeyedTable.         *)
LEMMA CommitImplements ==
    ASSUME IInv, NEW p \in Requests, Commit(p)
    PROVE  LET d == tx[p].dataset
           IN  Table!Insert(d) \/ Table!Replace(d) \/ Table!Remove(d)
  <1> DEFINE d == tx[p].dataset
             S == rows[d]
             t == tx[p]
             after == Applied(t, S)
  <1>1. /\ d \in Datasets /\ S \in SUBSET Row /\ status[d] = "active"
        /\ IsFiniteSet(S) /\ Table!KeysDistinct(S)
        /\ rowCount[d] = Cardinality(S) /\ Cardinality(S) \in Nat
    BY OpenTransaction, FS_CardinalityType DEF Commit, TableOK, TxOK
  <1>2. \/ /\ t.count = Cardinality(after)
           /\ \/ \E w \in Row : Inserting(t, S, w) /\ w.id < nextId
              \/ Removing(t, S)
        \/ t.count = None /\ \E old, w \in Row : Replacing(t, S, old, w)
    BY OpenTransaction DEF TxOK, Commit
  <1>3. Cardinality(after) \in Nat
    BY CommittedTable DEF Commit
  <1>4. /\ rows' = [rows EXCEPT ![d] = after]
        /\ rowCount' = [rowCount EXCEPT ![d] = IF t.count = None THEN @ ELSE t.count]
        /\ UNCHANGED <<status, public>>
        /\ rowCount \in [Datasets -> Nat] /\ t.dataset = d
    BY DEF Commit, IInv, TypeOK
  <1> HIDE DEF d, t, after
  <1>5. ASSUME NEW w \in Row, Inserting(t, S, w), t.count = Cardinality(after)
        PROVE  Table!Insert(d)
    <2>1. after = S \cup {w} /\ Cardinality(after) = Cardinality(S) + 1
      BY <1>1, <1>5, InsertApplied, InsertKeeps DEF after
    <2>2. rowCount' = [rowCount EXCEPT ![d] = @ + 1]
      BY <1>1, <1>3, <1>4, <1>5, <2>1, IdentitiesAssumption
    <2> QED
      BY <1>1, <1>4, <1>5, <2>1, <2>2 DEF Table!Insert, Inserting
  <1>6. ASSUME Removing(t, S), t.count = Cardinality(after)
        PROVE  Table!Remove(d)
    <2> DEFINE gone == {r \in S : r.id \in t.gone}
    <2>1. after = S \ gone /\ gone # {} /\ gone \in SUBSET S
      BY <1>6, RemoveApplied DEF after, Removing
    <2> HIDE DEF gone
    <2>2. Cardinality(after) = Cardinality(S) - Cardinality(gone)
      <3>1. S \cap gone = gone
        BY <2>1
      <3>2. Cardinality(S \ gone) = Cardinality(S) - Cardinality(S \cap gone)
        BY <1>1, FS_Difference
      <3> QED
        BY <2>1, <3>1, <3>2
    <2>3. rowCount' = [rowCount EXCEPT ![d] = @ - Cardinality(gone)]
      BY <1>1, <1>3, <1>4, <1>6, <2>2, IdentitiesAssumption
    <2>4. rows' = [rows EXCEPT ![d] = @ \ gone]
      BY <1>4, <2>1
    <2> QED
      BY <1>1, <1>4, <2>1, <2>3, <2>4, SameCardinality DEF Table!Remove
  <1>7. ASSUME NEW old \in Row, NEW w \in Row, Replacing(t, S, old, w),
               t.count = None
        PROVE  Table!Replace(d)
    <2>1. after = (S \ {old}) \cup {w} /\ old \in S
      BY <1>1, <1>7, ReplaceApplied DEF after, Replacing
    <2>2. \A s \in S \ {old} : s.index # w.index
      BY <1>1, <1>7 DEF Replacing, Table!KeysDistinct
    <2>3. rowCount' = rowCount
      BY <1>4, <1>7
    <2> QED
      BY <1>1, <1>4, <1>7, <2>1, <2>2, <2>3 DEF Table!Replace, Replacing
  <1> QED
    BY <1>2, <1>5, <1>6, <1>7 DEF d

(* The transactions of the row API, interleaved in any way, implement the  *)
(* one-step table of KeyedTable.                                           *)
THEOREM RowsImplementTable == Spec => ImplementsTable
  <1>1. Init => Table!Init
    BY DEF Init, Table!Init
  <1>2. ASSUME IInv, NEW p \in Requests, RowStep(p)
        PROVE  Table!Next \/ UNCHANGED Table!tableVars
    <2>1. CASE Commit(p)
      <3>1. tx[p].dataset \in Datasets
        BY <1>2, <2>1, OpenTransaction DEF Commit
      <3> QED
        BY <1>2, <2>1, <3>1, CommitImplements DEF Table!Next
    <2>2. CASE ~Commit(p)
      BY <1>2, <2>2 DEF RowStep, FetchNumber, InsertRow, FetchRow, UpdateRow,
         DeleteRows, CountRows, Abort, Table!tableVars, datasetVars
    <2> QED
      BY <2>1, <2>2
  <1>3. ASSUME IInv, NEW d \in Datasets, DatasetStep(d)
        PROVE  Table!Next
    <2>1. CASE CreateDataset(d)
      <3>1. TableOK(d)'
        BY <1>3, <2>1, CreateDatasetIInv DEF IInv
      <3>2. TypeOK /\ TypeOK'
        BY <1>3, <2>1, CreateDatasetIInv DEF IInv
      <3>3. PICK k, S :
              /\ rows' = [rows EXCEPT ![d] = S]
              /\ rowCount' = [rowCount EXCEPT ![d] = k]
        BY <2>1 DEF CreateDataset
      <3>4. S = rows'[d] /\ k = rowCount'[d]
        BY <3>2, <3>3 DEF TypeOK
      <3>5. S \in SUBSET Row /\ Table!KeysDistinct(S) /\ k = Cardinality(S)
        BY <3>1, <3>2, <3>4 DEF TypeOK, TableOK
      <3> QED
        BY <2>1, <3>3, <3>5, SameCardinality
        DEF CreateDataset, Table!Create, Table!Next
    <2>2. CASE ArchiveDataset(d)
      BY <2>2 DEF ArchiveDataset, Table!Archive, Table!Next
    <2>3. CASE RestoreDataset(d)
      BY <2>3 DEF RestoreDataset, Table!Restore, Table!Next
    <2>4. CASE UpdatePublicPreview(d)
      <3>1. \E on \in BOOLEAN : public' = [public EXCEPT ![d] = on]
        BY <1>3, <2>4 DEF UpdatePublicPreview, IInv, TypeOK
      <3> QED
        BY <2>4, <3>1 DEF UpdatePublicPreview, Table!SetPublic, Table!Next
    <2>5. CASE DeleteDataset(d)
      BY <2>5 DEF DeleteDataset, Table!Drop, Table!Next
    <2> QED
      BY <1>3, <2>1, <2>2, <2>3, <2>4, <2>5 DEF DatasetStep
  <1>4. IInv /\ [Next]_vars => [Table!Next]_(Table!tableVars)
    <2> SUFFICES ASSUME IInv, [Next]_vars
                 PROVE  Table!Next \/ UNCHANGED Table!tableVars
      OBVIOUS
    <2>1. CASE UNCHANGED vars
      BY <2>1 DEF vars, Table!tableVars
    <2>2. ASSUME NEW p \in Requests, NEW d \in Datasets, Lock(p, d)
          PROVE  UNCHANGED Table!tableVars
      BY <2>2 DEF Lock, datasetVars, Table!tableVars
    <2> QED
      BY <1>2, <1>3, <2>1, <2>2 DEF Next
  <1> QED
    BY <1>1, <1>4, Invariance, PTL DEF Spec, ImplementsTable, Table!Spec

-----------------------------------------------------------------------------
(* The history.  What HistoryExplainsRows says of the entries H of a       *)
(* dataset with rows S and row count n, part by part.                      *)
EditsIn(H, id, f) ==
    {i \in DOMAIN H : H[i].row = id /\ \E c \in H[i].changes : c.field = f}
ChangeIn(H, i, f) == CHOOSE c \in H[i].changes : c.field = f
CountIn(H, type) == Cardinality({i \in DOMAIN H : H[i].type = type})

LivesOnce(H) ==
    \A i, j \in DOMAIN H :
        i < j /\ H[i].row = H[j].row => H[i].type # "deleted" /\ H[j].type # "created"
ChainedAt(H, S, id, f, i) ==
    LET later == {j \in EditsIn(H, id, f) : j > i}
    IN  \/ \E j \in later :
            /\ \A k \in later : j <= k
            /\ ChangeIn(H, i, f).after = ChangeIn(H, j, f).before
        \/ /\ later = {}
           /\ \A r \in S : r.id = id => r[f] = ChangeIn(H, i, f).after
Chained(H, S) ==
    \A f \in {"key", "cell"}, id \in RowIds : \A i \in EditsIn(H, id, f) :
        ChainedAt(H, S, id, f, i)
Balanced(H, n) ==
    H # <<>> => n + CountIn(H, "deleted") = H[1].number + CountIn(H, "created")

(* Beside that, a dataset that there is has its first entry, ids in the    *)
(* history are used, and rows deleted in it are gone.                      *)
Told(H, S, next) ==
    /\ \A i \in DOMAIN H : H[i].row \in RowIds => H[i].row < next
    /\ \A i \in DOMAIN H : H[i].type = "deleted" => \A r \in S : r.id # H[i].row
Account(H, S, next) ==
    /\ H # <<>> /\ LivesOnce(H) /\ Chained(H, S) /\ Balanced(H, Cardinality(S))
    /\ Told(H, S, next)
HistoryOK(d) ==
    IF status[d] \in {"active", "archived"} THEN Account(history[d], rows[d], nextId)
    ELSE history[d] = <<>>

(* What transaction t is to add to the history H of rows S: the first      *)
(* entry about a new row ...                                               *)
TellsInsert(t, S, H, w) ==
    /\ Inserting(t, S, w)
    /\ \E e \in Entry : /\ t.entries = <<e>>
                        /\ e.type = "created" /\ e.row = w.id /\ e.changes = {}
    /\ \A i \in DOMAIN H : H[i].row # w.id

(* ... or one entry for each of k rows that go ...                         *)
TellsRemove(t, S, k, v) ==
    /\ \A i, j \in 1..k : v[i].id = v[j].id => i = j
    /\ t.puts = {} /\ t.gone = {v[i].id : i \in 1..k}
    /\ Len(t.entries) = k
    /\ \A i \in 1..k : /\ t.entries[i].type = "deleted"
                       /\ t.entries[i].row = v[i].id /\ t.entries[i].changes = {}

(* ... or what changed between two versions of one.                        *)
TellsUpdate(t, S, old, w) ==
    /\ Replacing(t, S, old, w)
    /\ \E e \in Entry : /\ t.entries = <<e>>
                        /\ e.type = "updated" /\ e.row = old.id
                        /\ e.changes = FieldChanges(old, w)

Tells(t, S, H) ==
    \/ \E w \in Row : TellsInsert(t, S, H, w)
    \/ \E k \in 1..MaxRowId : \E v \in [1..k -> S] : TellsRemove(t, S, k, v)
    \/ \E old \in Row, w \in Row : TellsUpdate(t, S, old, w)
TxTells(p) ==
    tx[p].stage \in {"written", "counted"} =>
        Tells(tx[p], rows[tx[p].dataset], history[tx[p].dataset])

HInv ==
    /\ IInv
    /\ \A d \in Datasets : HistoryOK(d)
    /\ \A p \in Requests : TxTells(p)

LEMMA FirstNumbers ==
    ASSUME NEW n \in Nat
    PROVE  IsFiniteSet(1..n) /\ Cardinality(1..n) = n
  BY FS_Interval

(* What entries E after entries H are.                                     *)
LEMMA EntriesAfter ==
    ASSUME NEW H \in Seq(Entry), NEW E \in Seq(Entry)
    PROVE  /\ H \o E \in Seq(Entry)
           /\ Len(H) \in Nat /\ Len(E) \in Nat
           /\ DOMAIN H = 1..Len(H) /\ DOMAIN E = 1..Len(E)
           /\ DOMAIN (H \o E) = 1..(Len(H) + Len(E))
           /\ \A i \in DOMAIN H : i \in DOMAIN (H \o E) /\ (H \o E)[i] = H[i]
           /\ \A i \in DOMAIN E :
                Len(H) + i \in DOMAIN (H \o E) /\ (H \o E)[Len(H) + i] = E[i]
           /\ \A i \in DOMAIN (H \o E) :
                i \in DOMAIN H \/ \E j \in DOMAIN E : i = Len(H) + j
  <1>1. H \o E \in Seq(Entry) /\ Len(H \o E) = Len(H) + Len(E)
    BY ConcatProperties
  <1>2. /\ Len(H) \in Nat /\ Len(E) \in Nat
        /\ DOMAIN H = 1..Len(H) /\ DOMAIN E = 1..Len(E)
        /\ DOMAIN (H \o E) = 1..(Len(H) + Len(E))
    BY <1>1, LenProperties
  <1>3. \A i \in 1..(Len(H) + Len(E)) :
          (H \o E)[i] = IF i <= Len(H) THEN H[i] ELSE E[i - Len(H)]
    BY <1>1, ConcatProperties
  <1>4. \A i \in DOMAIN H : i \in DOMAIN (H \o E) /\ (H \o E)[i] = H[i]
    BY <1>2, <1>3
  <1>5. ASSUME NEW i \in DOMAIN E
        PROVE  Len(H) + i \in DOMAIN (H \o E) /\ (H \o E)[Len(H) + i] = E[i]
    <2>1. /\ i \in Nat /\ i >= 1 /\ Len(H) + i \in 1..(Len(H) + Len(E))
          /\ ~(Len(H) + i <= Len(H)) /\ (Len(H) + i) - Len(H) = i
      BY <1>2
    <2> QED
      BY <1>2, <1>3, <2>1
  <1>6. ASSUME NEW i \in DOMAIN (H \o E), i \notin DOMAIN H
        PROVE  \E j \in DOMAIN E : i = Len(H) + j
    <2>1. i - Len(H) \in 1..Len(E) /\ i = Len(H) + (i - Len(H))
      BY <1>2, <1>6
    <2> QED
      BY <1>2, <2>1
  <1> QED
    BY <1>1, <1>2, <1>4, <1>5, <1>6

LEMMA CountsAdd ==
    ASSUME NEW H \in Seq(Entry), NEW E \in Seq(Entry), NEW type
    PROVE  /\ CountIn(H, type) \in Nat /\ CountIn(E, type) \in Nat
           /\ CountIn(H \o E, type) = CountIn(H, type) + CountIn(E, type)
  <1> DEFINE A == {i \in DOMAIN H : H[i].type = type}
             B == {i \in DOMAIN E : E[i].type = type}
             C == {i \in DOMAIN (H \o E) : (H \o E)[i].type = type}
             D == C \ A
             shift == [i \in B |-> Len(H) + i]
  <1>1. IsFiniteSet(DOMAIN H) /\ IsFiniteSet(DOMAIN E)
    <2>1. Len(H) \in Nat /\ Len(E) \in Nat
          /\ DOMAIN H = 1..Len(H) /\ DOMAIN E = 1..Len(E)
      BY LenProperties
    <2> QED
      BY <2>1, FirstNumbers
  <1>2. IsFiniteSet(A) /\ IsFiniteSet(B)
    BY <1>1, FS_Subset
  <1>3. \A i \in DOMAIN E : Len(H) + i \notin DOMAIN H
    BY EntriesAfter
  <1>4. A \subseteq C /\ \A i \in B : Len(H) + i \in D
    BY <1>3, EntriesAfter
  <1>5. ASSUME NEW j \in D PROVE \E i \in B : j = Len(H) + i
    <2>1. j \notin DOMAIN H
      BY EntriesAfter
    <2>2. PICK i \in DOMAIN E : j = Len(H) + i
      BY <2>1, EntriesAfter
    <2> QED
      BY <2>2, EntriesAfter
  <1>6. \A i \in B, j \in B : Len(H) + i = Len(H) + j => i = j
    BY EntriesAfter
  <1>7. shift \in Bijection(B, D)
    <2>1. shift \in [B -> D] /\ \A i \in B : shift[i] = Len(H) + i
      BY <1>4
    <2> HIDE DEF shift, B, D
    <2> QED
      BY <1>5, <1>6, <2>1 DEF Bijection, Injection, Surjection, IsInjective
  <1>8. IsFiniteSet(D) /\ Cardinality(D) = Cardinality(B)
    BY <1>2, <1>7, FS_Bijection DEF ExistsBijection
  <1>9. C = A \cup D /\ A \cap D = {}
    BY <1>4
  <1>10. Cardinality(A \cup D) = Cardinality(A) + Cardinality(D)
    <2>1. Cardinality(A \cap D) = 0
      BY <1>9, FS_EmptySet
    <2>2. Cardinality(A) \in Nat /\ Cardinality(D) \in Nat
      BY <1>2, <1>8, FS_CardinalityType
    <2> HIDE DEF A, D
    <2>3. Cardinality(A \cup D) = Cardinality(A) + Cardinality(D) - Cardinality(A \cap D)
      BY <1>2, <1>8, FS_Union
    <2> QED
      BY <2>1, <2>2, <2>3
  <1>11. CountIn(H, type) = Cardinality(A) /\ CountIn(E, type) = Cardinality(B)
         /\ CountIn(H \o E, type) = Cardinality(C)
    BY DEF CountIn
  <1>12. Cardinality(A) \in Nat /\ Cardinality(B) \in Nat
    BY <1>2, FS_CardinalityType
  <1> HIDE DEF A, B, C, D
  <1> QED
    BY <1>8, <1>9, <1>10, <1>11, <1>12

(* The only entry of its type, or none of it.                              *)
LEMMA CountOne ==
    ASSUME NEW e \in Entry, NEW type
    PROVE  CountIn(<<e>>, type) = IF e.type = type THEN 1 ELSE 0
  <1>1. DOMAIN <<e>> = {1} /\ <<e>>[1] = e
    OBVIOUS
  <1>2. CASE e.type = type
    <2>1. {i \in DOMAIN <<e>> : <<e>>[i].type = type} = {1}
      BY <1>1, <1>2
    <2> QED
      BY <1>2, <2>1, FS_Singleton DEF CountIn
  <1>3. CASE e.type # type
    <2>1. {i \in DOMAIN <<e>> : <<e>>[i].type = type} = {}
      BY <1>1, <1>3
    <2> QED
      BY <1>3, <2>1, FS_EmptySet DEF CountIn
  <1> QED
    BY <1>2, <1>3

LEMMA CountAll ==
    ASSUME NEW E \in Seq(Entry), NEW all, NEW type,
           \A i \in DOMAIN E : E[i].type = all
    PROVE  CountIn(E, type) = IF all = type THEN Len(E) ELSE 0
  <1>1. DOMAIN E = 1..Len(E) /\ Len(E) \in Nat
    BY LenProperties
  <1>2. CASE all = type
    <2>1. {i \in DOMAIN E : E[i].type = type} = 1..Len(E)
      BY <1>1, <1>2
    <2>2. Cardinality(1..Len(E)) = Len(E)
      BY <1>1, FirstNumbers
    <2> QED
      BY <1>2, <2>1, <2>2 DEF CountIn
  <1>3. CASE all # type
    <2>1. {i \in DOMAIN E : E[i].type = type} = {}
      BY <1>3
    <2> QED
      BY <1>3, <2>1, FS_EmptySet DEF CountIn
  <1> QED
    BY <1>2, <1>3

-----------------------------------------------------------------------------
(* What new entries E keep of an account H.                                *)

LEMMA LivesOnceKept ==
    ASSUME NEW H \in Seq(Entry), NEW E \in Seq(Entry), LivesOnce(H), LivesOnce(E),
           \A i \in DOMAIN H, j \in DOMAIN E :
               H[i].row = E[j].row => H[i].type # "deleted" /\ E[j].type # "created"
    PROVE  LivesOnce(H \o E)
  <1> DEFINE HE == H \o E
  <1> SUFFICES ASSUME NEW i \in DOMAIN HE, NEW j \in DOMAIN HE, i < j,
                      HE[i].row = HE[j].row
               PROVE  HE[i].type # "deleted" /\ HE[j].type # "created"
    BY DEF LivesOnce
  <1>1. /\ DOMAIN H = 1..Len(H) /\ Len(H) \in Nat /\ DOMAIN E = 1..Len(E) /\ Len(E) \in Nat
        /\ \A m \in DOMAIN H : HE[m] = H[m]
        /\ \A m \in DOMAIN E : HE[Len(H) + m] = E[m]
        /\ \A m \in DOMAIN HE : m \in DOMAIN H \/ \E l \in DOMAIN E : m = Len(H) + l
    BY EntriesAfter
  <1> HIDE DEF HE
  <1>2. CASE i \in DOMAIN H /\ j \in DOMAIN H
    BY <1>1, <1>2 DEF LivesOnce
  <1>3. CASE i \in DOMAIN H /\ j \notin DOMAIN H
    <2>1. PICK l \in DOMAIN E : j = Len(H) + l
      BY <1>1, <1>3
    <2> QED
      BY <1>1, <1>3, <2>1
  <1>4. CASE i \notin DOMAIN H
    <2>1. PICK m \in DOMAIN E : i = Len(H) + m
      BY <1>1, <1>4
    <2>2. j \notin DOMAIN H
      BY <1>1, <2>1
    <2>3. PICK l \in DOMAIN E : j = Len(H) + l
      BY <1>1, <2>2
    <2>4. m < l
      BY <1>1, <2>1, <2>3
    <2>5. E[m].row = E[l].row
      BY <1>1, <2>1, <2>3
    <2>6. E[m].type # "deleted" /\ E[l].type # "created"
      BY <2>4, <2>5 DEF LivesOnce
    <2> QED
      BY <1>1, <2>1, <2>3, <2>6
  <1> QED
    BY <1>2, <1>3, <1>4

LEMMA ToldKept ==
    ASSUME NEW H \in Seq(Entry), NEW E \in Seq(Entry), NEW S, NEW T, NEW next,
           Told(H, S, next), Told(E, T, next),
           \A r \in T : r \in S \/ \A i \in DOMAIN H : H[i].row # r.id
    PROVE  Told(H \o E, T, next)
  <1> DEFINE HE == H \o E
  <1>1. \A i \in DOMAIN HE : \/ i \in DOMAIN H /\ HE[i] = H[i]
                             \/ \E j \in DOMAIN E : HE[i] = E[j]
    BY EntriesAfter
  <1> HIDE DEF HE
  <1>2. Told(HE, T, next)
    BY <1>1 DEF Told
  <1> QED
    BY <1>2 DEF HE

(* Entries without changes leave the chains alone, as long as no row comes *)
(* that has a history.                                                     *)
LEMMA ChainedQuiet ==
    ASSUME NEW H \in Seq(Entry), NEW E \in Seq(Entry), NEW S, NEW T, Chained(H, S),
           \A i \in DOMAIN E : E[i].changes = {},
           \A r \in T : r \in S \/ \A i \in DOMAIN H : H[i].row # r.id
    PROVE  Chained(H \o E, T)
  <1> DEFINE HE == H \o E
  <1>1. /\ \A i \in DOMAIN H : i \in DOMAIN HE /\ HE[i] = H[i]
        /\ \A i \in DOMAIN HE : i \in DOMAIN H \/ \E j \in DOMAIN E : HE[i] = E[j]
    BY EntriesAfter
  <1> HIDE DEF HE
  <1>2. \A id, f : EditsIn(HE, id, f) = EditsIn(H, id, f)
    BY <1>1 DEF EditsIn
  <1>3. \A i \in DOMAIN H : \A f : ChangeIn(HE, i, f) = ChangeIn(H, i, f)
    BY <1>1 DEF ChangeIn
  <1>4. ASSUME NEW f \in {"key", "cell"}, NEW id \in RowIds, NEW i \in EditsIn(H, id, f)
        PROVE  ChainedAt(HE, T, id, f, i)
    <2>1. ChainedAt(H, S, id, f, i)
      BY DEF Chained
    <2>2. /\ i \in DOMAIN H /\ H[i].row = id
          /\ \A j \in EditsIn(H, id, f) : j \in DOMAIN H
      BY DEF EditsIn
    <2>3. \A r \in T : r.id = id => r \in S
      BY <2>2
    <2> QED
      BY <1>2, <1>3, <2>1, <2>2, <2>3 DEF ChainedAt
  <1> QED
    BY <1>2, <1>4 DEF Chained, HE

(* What _row_field_changes says of a field.                                *)
LEMMA FieldChange ==
    ASSUME NEW old, NEW w, NEW f \in {"key", "cell"}, NEW e,
           e.changes = FieldChanges(old, w)
    PROVE  /\ (\E c \in e.changes : c.field = f) <=> old[f] # w[f]
           /\ old[f] # w[f] =>
                LET c == CHOOSE c \in e.changes : c.field = f
                IN  c.before = old[f] /\ c.after = w[f]
  <1>1. \A c \in e.changes : \E g \in {"key", "cell"} :
            c = [field |-> g, before |-> old[g], after |-> w[g]] /\ old[g] # w[g]
    BY DEF FieldChanges
  <1>2. \A c \in e.changes :
            c.field = f => c.before = old[f] /\ c.after = w[f] /\ old[f] # w[f]
    BY <1>1
  <1>3. ASSUME old[f] # w[f] PROVE \E c \in e.changes : c.field = f
    <2>1. [field |-> f, before |-> old[f], after |-> w[f]] \in e.changes
      BY <1>3 DEF FieldChanges
    <2> QED
      BY <2>1
  <1> QED
    BY <1>2, <1>3

(* An update goes on where the last change of each field ended.            *)
LEMMA ChainedUpdate ==
    ASSUME NEW H \in Seq(Entry), NEW e \in Entry, NEW S \in SUBSET Row,
           NEW old \in S, NEW w \in Row, Table!KeysDistinct(S), w.id = old.id,
           e.row = old.id, e.changes = FieldChanges(old, w), Chained(H, S)
    PROVE  Chained(H \o <<e>>, (S \ {old}) \cup {w})
  <1> DEFINE HE == H \o <<e>>
             n == Len(H) + 1
             T == (S \ {old}) \cup {w}
  <1>1. /\ \A i \in DOMAIN H : i \in DOMAIN HE /\ HE[i] = H[i] /\ i < n
        /\ n \in DOMAIN HE /\ HE[n] = e /\ n \notin DOMAIN H
        /\ \A i \in DOMAIN HE : i \in DOMAIN H \/ i = n
        /\ DOMAIN H \subseteq Nat /\ n \in Nat
    <2>1. <<e>> \in Seq(Entry) /\ DOMAIN <<e>> = {1} /\ <<e>>[1] = e
      OBVIOUS
    <2> QED
      BY <2>1, EntriesAfter
  <1>2. \A r \in T : IF r.id = old.id THEN r = w ELSE r \in S
    BY DEF Table!KeysDistinct
  <1> HIDE DEF HE, n, T
  <1>3. ASSUME NEW f \in {"key", "cell"}, NEW id \in RowIds, NEW i \in EditsIn(HE, id, f)
        PROVE  ChainedAt(HE, T, id, f, i)
    <2>1. \A j \in DOMAIN H :
            /\ j \in EditsIn(HE, id, f) <=> j \in EditsIn(H, id, f)
            /\ ChangeIn(HE, j, f) = ChangeIn(H, j, f)
      BY <1>1 DEF EditsIn, ChangeIn
    <2>2. n \in EditsIn(HE, id, f) <=> id = old.id /\ old[f] # w[f]
      BY <1>1, FieldChange DEF EditsIn
    <2>3. old[f] # w[f] => /\ ChangeIn(HE, n, f).before = old[f]
                           /\ ChangeIn(HE, n, f).after = w[f]
      BY <1>1, FieldChange DEF ChangeIn
    <2>4. /\ \A j \in EditsIn(HE, id, f) : j \in DOMAIN H \/ j = n
          /\ \A j \in EditsIn(H, id, f) : j \in DOMAIN H
      BY <1>1 DEF EditsIn
    <2>5. CASE i = n
      <3>1. \A j \in EditsIn(HE, id, f) : ~(j > i)
        BY <1>1, <2>4, <2>5
      <3>2. \A r \in T : r.id = id => r[f] = ChangeIn(HE, i, f).after
        BY <1>2, <2>2, <2>3, <2>5
      <3> QED
        BY <3>1, <3>2 DEF ChainedAt
    <2>6. CASE i # n
      <3>1. i \in DOMAIN H /\ i \in EditsIn(H, id, f) /\ i < n
        BY <1>1, <2>1, <2>4, <2>6
      <3>2. ChainedAt(H, S, id, f, i)
        BY <3>1 DEF Chained
      <3>3. CASE \E j \in EditsIn(H, id, f) :
                   /\ j > i /\ \A k \in EditsIn(H, id, f) : k > i => j <= k
                   /\ ChangeIn(H, i, f).after = ChangeIn(H, j, f).before
        <4>1. PICK j \in EditsIn(H, id, f) :
                   /\ j > i /\ \A k \in EditsIn(H, id, f) : k > i => j <= k
                   /\ ChangeIn(H, i, f).after = ChangeIn(H, j, f).before
          BY <3>3
        <4>2. j \in EditsIn(HE, id, f) /\ j \in DOMAIN H /\ j <= n
          BY <1>1, <2>1, <2>4
        <4>3. \A k \in EditsIn(HE, id, f) : k > i => j <= k
          BY <2>1, <2>4, <4>1, <4>2
        <4>4. ChangeIn(HE, i, f).after = ChangeIn(HE, j, f).before
          BY <2>1, <3>1, <4>1, <4>2
        <4> QED
          BY <4>1, <4>2, <4>3, <4>4 DEF ChainedAt
      <3>4. CASE /\ \A j \in EditsIn(H, id, f) : ~(j > i)
                 /\ \A r \in S : r.id = id => r[f] = ChangeIn(H, i, f).after
        <4>1. CASE id = old.id /\ old[f] # w[f]
          <5>1. n \in EditsIn(HE, id, f) /\ n > i
            BY <1>1, <2>2, <3>1, <4>1
          <5>2. \A k \in EditsIn(HE, id, f) : k > i => n <= k
            BY <1>1, <2>1, <2>4, <3>4
          <5>3. ChangeIn(HE, i, f).after = ChangeIn(HE, n, f).before
            BY <2>1, <2>3, <3>1, <3>4, <4>1
          <5> QED
            BY <5>1, <5>2, <5>3 DEF ChainedAt
        <4>2. CASE ~(id = old.id /\ old[f] # w[f])
          <5>1. \A j \in EditsIn(HE, id, f) : ~(j > i)
            BY <2>1, <2>2, <2>4, <3>4, <4>2
          <5>2. \A r \in T : r.id = id => r[f] = ChangeIn(HE, i, f).after
            BY <1>2, <2>1, <3>1, <3>4, <4>2
          <5> QED
            BY <5>1, <5>2 DEF ChainedAt
        <4> QED
          BY <4>1, <4>2
      <3> QED
        BY <3>2, <3>3, <3>4 DEF ChainedAt
    <2> QED
      BY <2>5, <2>6
  <1> QED
    BY <1>3 DEF Chained, HE, T

-----------------------------------------------------------------------------
(* The three ways in which a commit goes on with the account.              *)

LEMMA AccountInsert ==
    ASSUME NEW t, NEW S \in SUBSET Row, NEW H \in Seq(Entry), NEW w \in Row, NEW next,
           IsFiniteSet(S), Table!KeysDistinct(S), w.id < next,
           Account(H, S, next), TellsInsert(t, S, H, w)
    PROVE  Account(H \o t.entries, Applied(t, S), next)
  <1>1. PICK e \in Entry : t.entries = <<e>> /\ e.type = "created" /\ e.row = w.id
                           /\ e.changes = {}
    BY DEF TellsInsert
  <1> DEFINE T == S \cup {w}
             E == <<e>>
  <1>2. Applied(t, S) = T /\ Cardinality(T) = Cardinality(S) + 1
    <2>1. Inserting(t, S, w)
      BY DEF TellsInsert
    <2>2. Applied(t, S) = T
      BY <2>1, InsertApplied
    <2>3. Cardinality(Applied(t, S)) = Cardinality(S) + 1
      BY <2>1, InsertKeeps
    <2> QED
      BY <2>2, <2>3
  <1>3. E \in Seq(Entry) /\ DOMAIN E = {1} /\ E[1] = e
    OBVIOUS
  <1>4. \A r \in T : r \in S \/ \A i \in DOMAIN H : H[i].row # r.id
    BY DEF TellsInsert
  <1>5. Cardinality(S) \in Nat
    BY FS_CardinalityType
  <1>6. CountIn(E, "created") = 1 /\ CountIn(E, "deleted") = 0
    BY <1>1, CountOne
  <1> HIDE DEF T, E
  <1>7. H \o E # <<>> /\ (H \o E)[1] = H[1]
    BY <1>3, EntriesAfter, EmptySeq DEF Account
  <1>8. LivesOnce(E)
    BY <1>3 DEF LivesOnce
  <1>9. LivesOnce(H \o E)
    <2>1. \A i \in DOMAIN H, j \in DOMAIN E : H[i].row # E[j].row
      BY <1>1, <1>3 DEF TellsInsert
    <2> QED
      BY <1>3, <1>8, <2>1, LivesOnceKept DEF Account
  <1>10. Chained(H \o E, T)
    <2>1. \A i \in DOMAIN E : E[i].changes = {}
      BY <1>1, <1>3
    <2> QED
      BY <1>3, <1>4, <2>1, ChainedQuiet DEF Account
  <1>11. Told(H \o E, T, next)
    <2>1. Told(E, T, next)
      BY <1>1, <1>3 DEF Told
    <2> QED
      BY <1>3, <1>4, <2>1, ToldKept DEF Account
  <1>12. Balanced(H \o E, Cardinality(T))
    <2>1. /\ CountIn(H \o E, "created") = CountIn(H, "created") + 1
          /\ CountIn(H \o E, "deleted") = CountIn(H, "deleted")
          /\ CountIn(H, "created") \in Nat /\ CountIn(H, "deleted") \in Nat
      BY <1>3, <1>6, CountsAdd
    <2>2. Cardinality(S) + CountIn(H, "deleted") = H[1].number + CountIn(H, "created")
      BY DEF Account, Balanced
    <2>3. H[1].number \in Nat
      <3>1. H[1] \in Entry
        BY EntriesAfter, EmptySeq, ElementOfSeq DEF Account
      <3> QED
        BY <3>1 DEF Entry
    <2>4. \A c, a, m, b \in Nat : c + a = m + b => (c + 1) + a = m + (b + 1)
      OBVIOUS
    <2>5. Cardinality(T) + CountIn(H \o E, "deleted")
            = H[1].number + CountIn(H \o E, "created")
      BY <1>2, <1>5, <2>1, <2>2, <2>3, <2>4
    <2> QED
      BY <1>7, <2>5 DEF Balanced
  <1> QED
    BY <1>1, <1>2, <1>7, <1>9, <1>10, <1>11, <1>12 DEF Account, E

LEMMA AccountRemove ==
    ASSUME NEW t, NEW S \in SUBSET Row, NEW H \in Seq(Entry), NEW next,
           NEW k \in 1..MaxRowId, NEW v \in [1..k -> S], t.entries \in Seq(Entry),
           IsFiniteSet(S), Table!KeysDistinct(S), \A r \in S : r.id < next,
           Account(H, S, next), TellsRemove(t, S, k, v)
    PROVE  Account(H \o t.entries, Applied(t, S), next)
  <1> DEFINE E == t.entries
             gone == {v[i] : i \in 1..k}
             T == S \ gone
  <1>1. /\ k \in Nat /\ Len(E) = k /\ DOMAIN E = 1..k
        /\ \A i \in 1..k : /\ E[i].type = "deleted" /\ E[i].row = v[i].id
                           /\ E[i].changes = {}
    BY BoundsAssumption, LenProperties DEF TellsRemove
  <1>2. /\ \A i, j \in 1..k : v[i].id = v[j].id => i = j
        /\ \A i \in 1..k : v[i] \in S
    BY DEF TellsRemove
  <1>3. IsFiniteSet(gone) /\ Cardinality(gone) = k
    <2>1. v \in [1..k -> gone] /\ \A s \in gone : \E i \in 1..k : s = v[i]
      OBVIOUS
    <2>2. \A i, j \in 1..k : v[i] = v[j] => i = j
      BY <1>2
    <2> QED
      BY <1>1, <2>1, <2>2, NumberedRows
  <1>4. Applied(t, S) = T
    BY <1>2 DEF TellsRemove, Applied, Table!KeysDistinct
  <1>5. gone \subseteq S
    BY <1>2
  <1>6. \A r \in T, i \in 1..k : r.id # v[i].id
    BY <1>2 DEF Table!KeysDistinct
  <1> HIDE DEF gone, E
  <1>7. Cardinality(T) = Cardinality(S) - k /\ Cardinality(S) \in Nat
    <2>1. S \cap gone = gone
      BY <1>5
    <2>2. Cardinality(T) = Cardinality(S) - Cardinality(S \cap gone)
      BY FS_Difference
    <2> QED
      BY <1>3, <2>1, <2>2, FS_CardinalityType
  <1> HIDE DEF T
  <1>8. E \in Seq(Entry)
    BY DEF E
  <1>9. H \o E # <<>> /\ (H \o E)[1] = H[1]
    BY <1>8, EntriesAfter, EmptySeq DEF Account
  <1>10. \A r \in T : r \in S
    BY DEF T
  <1>11. LivesOnce(H \o E)
    <2>1. LivesOnce(E)
      BY <1>1, <1>2 DEF LivesOnce
    <2>2. ASSUME NEW i \in DOMAIN H, NEW j \in DOMAIN E, H[i].row = E[j].row
          PROVE  H[i].type # "deleted" /\ E[j].type # "created"
      BY <1>1, <1>2, <2>2 DEF Account, Told
    <2> QED
      BY <1>8, <2>1, <2>2, LivesOnceKept DEF Account
  <1>12. Chained(H \o E, T)
    BY <1>1, <1>8, <1>10, ChainedQuiet DEF Account
  <1>13. Told(H \o E, T, next)
    <2>1. Told(E, T, next)
      BY <1>1, <1>2, <1>6 DEF Told
    <2> QED
      BY <1>8, <1>10, <2>1, ToldKept DEF Account
  <1>14. Balanced(H \o E, Cardinality(T))
    <2>1. CountIn(E, "created") = 0 /\ CountIn(E, "deleted") = k
      <3>1. \A i \in DOMAIN E : E[i].type = "deleted"
        BY <1>1
      <3>2. \A type : CountIn(E, type) = IF "deleted" = type THEN Len(E) ELSE 0
        BY <1>8, <3>1, CountAll
      <3> QED
        BY <1>1, <3>2
    <2>2. /\ CountIn(H \o E, "created") = CountIn(H, "created")
          /\ CountIn(H \o E, "deleted") = CountIn(H, "deleted") + k
          /\ CountIn(H, "created") \in Nat /\ CountIn(H, "deleted") \in Nat
      BY <1>8, <2>1, CountsAdd
    <2>3. Cardinality(S) + CountIn(H, "deleted") = H[1].number + CountIn(H, "created")
      BY DEF Account, Balanced
    <2> QED
      BY <1>1, <1>7, <1>9, <2>2, <2>3 DEF Balanced
  <1> QED
    BY <1>4, <1>9, <1>11, <1>12, <1>13, <1>14 DEF Account, E

LEMMA AccountUpdate ==
    ASSUME NEW t, NEW S \in SUBSET Row, NEW H \in Seq(Entry), NEW next,
           NEW old \in Row, NEW w \in Row,
           IsFiniteSet(S), Table!KeysDistinct(S), \A r \in S : r.id < next,
           Account(H, S, next), TellsUpdate(t, S, old, w)
    PROVE  Account(H \o t.entries, Applied(t, S), next)
  <1>1. PICK e \in Entry : t.entries = <<e>> /\ e.type = "updated" /\ e.row = old.id
                           /\ e.changes = FieldChanges(old, w)
    BY DEF TellsUpdate
  <1> DEFINE T == (S \ {old}) \cup {w}
             E == <<e>>
  <1>2. Applied(t, S) = T /\ Cardinality(T) = Cardinality(S)
    <2>1. Replacing(t, S, old, w)
      BY DEF TellsUpdate
    <2>2. Applied(t, S) = T
      BY <2>1, ReplaceApplied
    <2>3. Cardinality(Applied(t, S)) = Cardinality(S)
      BY <2>1, ReplaceKeeps
    <2> QED
      BY <2>2, <2>3
  <1>3. E \in Seq(Entry) /\ DOMAIN E = {1} /\ E[1] = e
    OBVIOUS
  <1>4. old \in S /\ w.id = old.id
    BY DEF TellsUpdate, Replacing
  <1>5. CountIn(E, "created") = 0 /\ CountIn(E, "deleted") = 0
    BY <1>1, CountOne
  <1>6. Chained(H \o E, T)
    BY <1>1, <1>4, ChainedUpdate DEF Account
  <1>7. \A r \in T : \E s \in S : s.id = r.id
    BY <1>4
  <1> HIDE DEF T, E
  <1>8. H \o E # <<>> /\ (H \o E)[1] = H[1]
    BY <1>3, EntriesAfter, EmptySeq DEF Account
  <1>9. LivesOnce(H \o E)
    <2>1. LivesOnce(E)
      BY <1>3 DEF LivesOnce
    <2>2. \A i \in DOMAIN H, j \in DOMAIN E :
            H[i].row = E[j].row => H[i].type # "deleted" /\ E[j].type # "created"
      BY <1>1, <1>3, <1>4 DEF Account, Told
    <2> QED
      BY <1>3, <2>1, <2>2, LivesOnceKept DEF Account
  <1>10. Told(H \o E, T, next)
    <2>1. \A i \in DOMAIN (H \o E) : (i \in DOMAIN H /\ (H \o E)[i] = H[i]) \/ (H \o E)[i] = e
      BY <1>3, EntriesAfter
    <2> QED
      BY <1>1, <1>4, <1>7, <2>1 DEF Account, Told
  <1>11. Balanced(H \o E, Cardinality(T))
    <2>1. /\ CountIn(H \o E, "created") = CountIn(H, "created")
          /\ CountIn(H \o E, "deleted") = CountIn(H, "deleted")
      BY <1>3, <1>5, CountsAdd
    <2> QED
      BY <1>2, <1>8, <2>1 DEF Account, Balanced
  <1> QED
    BY <1>1, <1>2, <1>6, <1>8, <1>9, <1>10, <1>11 DEF Account, E

LEMMA AccountLater ==
    ASSUME NEW H, NEW S, NEW next \in Nat, NEW later \in Nat, next <= later,
           Account(H, S, next)
    PROVE  Account(H, S, later)
  BY BoundsAssumption DEF Account, Told, RowIds

-----------------------------------------------------------------------------
(* HInv is inductive.                                                      *)

LEMMA InitHInv == Init => HInv
  <1> SUFFICES ASSUME Init PROVE HInv
    OBVIOUS
  <1>1. \A d \in Datasets : HistoryOK(d)
    BY DEF Init, HistoryOK
  <1>2. \A p \in Requests : TxTells(p)
    BY DEF Init, TxTells, Idle
  <1> QED
    BY <1>1, <1>2, InitIInv DEF HInv

LEMMA HistoryFrame ==
    ASSUME HInv, NEW d \in Datasets, rows'[d] = rows[d], history'[d] = history[d],
           status[d] \in {"active", "archived"} <=> status'[d] \in {"active", "archived"},
           nextId \in Nat, nextId' \in Nat, nextId <= nextId'
    PROVE  HistoryOK(d)'
  <1>1. HistoryOK(d)
    BY DEF HInv
  <1>2. CASE status[d] \in {"active", "archived"}
    <2>1. Account(history[d], rows[d], nextId')
      BY <1>1, <1>2, AccountLater DEF HistoryOK
    <2> QED
      BY <1>2, <2>1 DEF HistoryOK
  <1>3. CASE status[d] \notin {"active", "archived"}
    BY <1>1, <1>3 DEF HistoryOK
  <1> QED
    BY <1>2, <1>3

LEMMA TellsFrame ==
    ASSUME HInv, NEW q \in Requests, tx'[q] = tx[q],
           tx[q].stage # "idle" =>
               LET d == tx[q].dataset
               IN  rows'[d] = rows[d] /\ history'[d] = history[d]
    PROVE  TxTells(q)'
  BY DEF HInv, TxTells

(* A statement of p, inside its transaction or to open one.                *)
LEMMA StatementHInv ==
    ASSUME HInv, IInv', NEW p \in Requests, NEW t, UNCHANGED datasetVars,
           nextId' >= nextId, tx' = [tx EXCEPT ![p] = t], TxTells(p)'
    PROVE  HInv'
  <1>1. nextId \in Nat /\ nextId' \in Nat
    BY BoundsAssumption DEF HInv, IInv, TypeOK
  <1>2. \A d \in Datasets : HistoryOK(d)'
    BY <1>1, HistoryFrame DEF datasetVars
  <1>3. ASSUME NEW q \in Requests PROVE TxTells(q)'
    <2>1. CASE q = p
      BY <2>1
    <2>2. CASE q # p
      <3>1. tx'[q] = tx[q]
        BY <2>2 DEF HInv, IInv, TypeOK
      <3> QED
        BY <3>1, TellsFrame DEF datasetVars
    <2> QED
      BY <2>1, <2>2
  <1> QED
    BY <1>2, <1>3 DEF HInv

(* The statements that write nothing.                                      *)
LEMMA QuietHInv ==
    ASSUME HInv, IInv', NEW p \in Requests, NEW t, UNCHANGED <<datasetVars, nextId>>,
           tx' = [tx EXCEPT ![p] = t], t.stage \in {"locked", "numbered", "fetched"}
    PROVE  HInv'
  <1>1. TxTells(p)'
    BY DEF HInv, IInv, TypeOK, TxTells
  <1>2. nextId' >= nextId
    BY BoundsAssumption DEF HInv, IInv, TypeOK
  <1> QED
    BY <1>1, <1>2, StatementHInv

LEMMA LockHInv ==
    ASSUME HInv, NEW p \in Requests, NEW d \in Datasets, Lock(p, d)
    PROVE  HInv'
  <1>1. IInv'
    BY LockIInv DEF HInv
  <1>2. /\ tx' = [tx EXCEPT ![p] = Opened(d)] /\ UNCHANGED <<datasetVars, nextId>>
        /\ Opened(d).stage = "locked"
    BY DEF Lock, Opened
  <1> QED
    BY <1>1, <1>2, QuietHInv

LEMMA FetchNumberHInv ==
    ASSUME HInv, NEW p \in Requests, FetchNumber(p)
    PROVE  HInv'
  <1>1. IInv' /\ tx[p] \in Transaction
    BY FetchNumberIInv, OpenTransaction DEF HInv, FetchNumber
  <1>2. PICK n \in RowNumbers :
          tx' = [tx EXCEPT ![p] = [@ EXCEPT !.stage = "numbered", !.number = n]]
    BY DEF FetchNumber
  <1> DEFINE t == [tx[p] EXCEPT !.stage = "numbered", !.number = n]
  <1>3. t.stage = "numbered" /\ tx' = [tx EXCEPT ![p] = t]
    BY <1>1, <1>2 DEF Transaction
  <1> HIDE DEF t
  <1> QED
    BY <1>1, <1>3, QuietHInv DEF FetchNumber

LEMMA FetchRowHInv ==
    ASSUME HInv, NEW p \in Requests, FetchRow(p)
    PROVE  HInv'
  <1>1. IInv' /\ tx[p] \in Transaction
    BY FetchRowIInv, OpenTransaction DEF HInv, FetchRow
  <1>2. PICK r \in rows[tx[p].dataset] :
          tx' = [tx EXCEPT ![p] = [@ EXCEPT !.stage = "fetched", !.row = r]]
    BY DEF FetchRow
  <1> DEFINE t == [tx[p] EXCEPT !.stage = "fetched", !.row = r]
  <1>3. t.stage = "fetched" /\ tx' = [tx EXCEPT ![p] = t]
    BY <1>1, <1>2 DEF Transaction
  <1> HIDE DEF t
  <1> QED
    BY <1>1, <1>3, QuietHInv DEF FetchRow

LEMMA InsertRowHInv ==
    ASSUME HInv, NEW p \in Requests, InsertRow(p)
    PROVE  HInv'
  <1> DEFINE d == tx[p].dataset
             entry == [type |-> "created", row |-> nextId, number |-> tx[p].number,
                       changes |-> {}]
             after(w) == [tx[p] EXCEPT !.stage = "written", !.puts = {w},
                                       !.entries = <<entry>>]
  <1>1. IInv'
    BY InsertRowIInv DEF HInv
  <1>2. PICK row : row.id = nextId /\ tx' = [tx EXCEPT ![p] = after(row)]
    <2> DEFINE stored(key) == CreatedKey(d, tx[p].number, key)
               new(key, cell) == [id |-> nextId, number |-> tx[p].number,
                                  index |-> Strip[stored(key)],
                                  key |-> stored(key), cell |-> cell]
    <2>1. PICK key \in Cells, cell \in Texts : tx' = [tx EXCEPT ![p] = after(new(key, cell))]
      BY DEF InsertRow
    <2>2. new(key, cell).id = nextId
      OBVIOUS
    <2> QED
      BY <2>1, <2>2
  <1> DEFINE t == after(row)
  <1>3. /\ tx[p] \in Transaction /\ tx[p].stage = "numbered" /\ d \in Datasets
        /\ nextId \in RowIds /\ tx[p].number \in RowNumbers
        /\ UNCHANGED <<datasetVars, holder>> /\ nextId' = nextId + 1
        /\ status[d] = "active"
    BY OpenTransaction, BoundsAssumption DEF InsertRow, TxOK, RowIds, HInv
  <1>4. /\ t.dataset = d /\ t.stage = "written" /\ t.puts = {row} /\ t.entries = <<entry>>
    BY <1>3 DEF Transaction
  <1>5. tx'[p] = t
    BY <1>2 DEF HInv, IInv, TypeOK
  <1>6. TxOK(p)'
    BY <1>1 DEF IInv
  <1> HIDE DEF t
  <1>7. \E w \in Row : Inserting(t, rows[d], w)
    BY <1>3, <1>4, <1>5, <1>6 DEF TxOK, datasetVars, Removing
  <1>8. row \in Row /\ Inserting(t, rows[d], row)
    BY <1>4, <1>7 DEF Inserting
  <1>9. entry \in Entry
    BY <1>3, BoundsAssumption DEF Entry, RowIds, RowNumbers
  <1>10. entry.type = "created" /\ entry.row = row.id /\ entry.changes = {}
    BY <1>2
  <1>11. \A i \in DOMAIN history[d] : history[d][i].row # row.id
    <2>1. Told(history[d], rows[d], nextId)
      BY <1>3 DEF HInv, HistoryOK, Account
    <2> QED
      BY <1>2, <1>3, <2>1 DEF Told, RowIds
  <1> HIDE DEF entry
  <1>12. TellsInsert(t, rows[d], history[d], row)
    BY <1>4, <1>8, <1>9, <1>10, <1>11 DEF TellsInsert
  <1>13. TxTells(p)'
    BY <1>3, <1>4, <1>5, <1>8, <1>12 DEF TxTells, Tells, datasetVars
  <1>14. nextId' >= nextId
    BY <1>3, BoundsAssumption DEF RowIds
  <1> QED
    BY <1>1, <1>2, <1>3, <1>13, <1>14, StatementHInv

LEMMA UpdateRowHInv ==
    ASSUME HInv, NEW p \in Requests, UpdateRow(p)
    PROVE  HInv'
  <1> DEFINE d == tx[p].dataset
             old == tx[p].row
             entry(w) == [type |-> "updated", row |-> old.id, number |-> old.number,
                          changes |-> FieldChanges(old, w)]
             after(w) == [tx[p] EXCEPT !.stage = "counted", !.puts = {w},
                                       !.entries = <<entry(w)>>]
  <1>1. IInv'
    BY UpdateRowIInv DEF HInv
  <1>2. PICK key \in Cells \cup {Unset}, cell \in Texts \cup {Unset} :
          tx' = [tx EXCEPT ![p] = after(Patched(old, key, cell))]
    BY DEF UpdateRow
  <1> DEFINE w == Patched(old, key, cell)
             t == after(w)
             e == entry(w)
  <1>3. /\ tx[p] \in Transaction /\ tx[p].stage = "fetched" /\ d \in Datasets
        /\ old \in rows[d] /\ rows[d] \in SUBSET Row /\ Table!KeysDistinct(rows[d])
        /\ UNCHANGED <<datasetVars, holder, nextId>>
    BY OpenTransaction DEF UpdateRow, TxOK, TableOK, HInv
  <1>4. w.id = old.id
    BY <1>3 DEF Patched, Row
  <1> HIDE DEF w
  <1>5. t.dataset = d /\ t.stage = "counted" /\ t.puts = {w} /\ t.entries = <<e>>
    BY <1>3 DEF Transaction
  <1>6. tx' = [tx EXCEPT ![p] = t]
    BY <1>2 DEF w
  <1>7. tx'[p] = t
    BY <1>6 DEF HInv, IInv, TypeOK
  <1>8. TxOK(p)' /\ tx'[p] \in Transaction
    BY <1>1 DEF IInv, TypeOK
  <1>9. e.type = "updated" /\ e.row = old.id /\ e.changes = FieldChanges(old, w)
    OBVIOUS
  <1> HIDE DEF t, e
  <1>10. e \in Entry
    <2>1. <<e>> \in Seq(Entry)
      BY <1>5, <1>7, <1>8 DEF Transaction
    <2>2. Len(<<e>>) = 1 /\ <<e>>[1] = e
      OBVIOUS
    <2> QED
      BY <2>1, <2>2, ElementOfSeq
  <1>11. \/ \E v \in Row : Inserting(t, rows[d], v)
        \/ \E o, v \in Row : Replacing(t, rows[d], o, v)
    BY <1>3, <1>5, <1>7, <1>8 DEF TxOK, datasetVars, Removing
  <1>12. \E o, v \in Row : Replacing(t, rows[d], o, v)
    BY <1>3, <1>4, <1>5, <1>11 DEF Inserting
  <1>13. w \in Row /\ old \in Row /\ Replacing(t, rows[d], old, w)
    BY <1>3, <1>4, <1>5, <1>12 DEF Replacing, Table!KeysDistinct
  <1>14. TellsUpdate(t, rows[d], old, w)
    BY <1>5, <1>9, <1>10, <1>13 DEF TellsUpdate
  <1>15. TxTells(p)'
    BY <1>3, <1>5, <1>7, <1>13, <1>14 DEF TxTells, Tells, datasetVars
  <1>16. nextId' >= nextId
    BY <1>3, BoundsAssumption DEF HInv, IInv, TypeOK
  <1> QED
    BY <1>1, <1>6, <1>3, <1>15, <1>16, StatementHInv

LEMMA DeleteRowsHInv ==
    ASSUME HInv, NEW p \in Requests, DeleteRows(p)
    PROVE  HInv'
  <1> DEFINE d == tx[p].dataset
             gone(k, v) == {v[i].id : i \in 1..k}
             entries(k, v) == [i \in 1..k |-> [type |-> "deleted", row |-> v[i].id,
                                                number |-> v[i].number,
                                                changes |-> {}]]
             after(k, v) == [tx[p] EXCEPT !.stage = "written", !.gone = gone(k, v),
                                          !.entries = entries(k, v)]
  <1>1. PICK k \in 1..MaxRowId : \E v \in [1..k -> rows[d]] :
          /\ \A i, j \in 1..k : v[i].id = v[j].id => i = j
          /\ tx' = [tx EXCEPT ![p] = after(k, v)]
    BY DEF DeleteRows
  <1>2. PICK v \in [1..k -> rows[d]] :
          /\ \A i, j \in 1..k : v[i].id = v[j].id => i = j
          /\ tx' = [tx EXCEPT ![p] = after(k, v)]
    BY <1>1
  <1> DEFINE t == after(k, v)
  <1>3. /\ tx[p] \in Transaction /\ tx[p].stage = "locked" /\ d \in Datasets
        /\ tx[p].puts = {} /\ UNCHANGED <<datasetVars, holder, nextId>>
    BY OpenTransaction DEF DeleteRows, TxOK, HInv
  <1>4. /\ t.dataset = d /\ t.stage = "written" /\ t.puts = {}
        /\ t.gone = gone(k, v) /\ t.entries = entries(k, v)
    BY <1>3 DEF Transaction
  <1>5. tx'[p] = t
    BY <1>2 DEF HInv, IInv, TypeOK
  <1>6. IInv'
    BY DeleteRowsIInv DEF HInv
  <1>7. Len(entries(k, v)) = k
    BY BoundsAssumption
  <1>8. \A i \in 1..k : /\ entries(k, v)[i].type = "deleted"
                        /\ entries(k, v)[i].row = v[i].id
                        /\ entries(k, v)[i].changes = {}
    OBVIOUS
  <1> HIDE DEF t, entries
  <1>9. TellsRemove(t, rows[d], k, v)
    BY <1>2, <1>4, <1>7, <1>8 DEF TellsRemove
  <1>10. TxTells(p)'
    BY <1>3, <1>4, <1>5, <1>9 DEF TxTells, Tells, datasetVars
  <1>11. nextId' >= nextId
    BY <1>3, BoundsAssumption DEF HInv, IInv, TypeOK
  <1> QED
    BY <1>2, <1>3, <1>6, <1>10, <1>11, StatementHInv DEF t

LEMMA CountRowsHInv ==
    ASSUME HInv, NEW p \in Requests, CountRows(p)
    PROVE  HInv'
  <1> DEFINE d == tx[p].dataset
             c == Cardinality(Applied(tx[p], rows[d]))
             t == [tx[p] EXCEPT !.stage = "counted", !.count = c]
  <1>1. /\ tx[p] \in Transaction /\ tx[p].stage = "written" /\ d \in Datasets
        /\ UNCHANGED <<datasetVars, holder, nextId>>
    BY OpenTransaction DEF CountRows, HInv
  <1>2. tx' = [tx EXCEPT ![p] = t]
    BY DEF CountRows
  <1> HIDE DEF c
  <1>3. /\ t.dataset = d /\ t.puts = tx[p].puts /\ t.gone = tx[p].gone
        /\ t.entries = tx[p].entries
    BY <1>1 DEF Transaction
  <1>4. tx'[p] = t
    BY <1>2 DEF HInv, IInv, TypeOK
  <1>5. IInv'
    BY CountRowsIInv DEF HInv
  <1>6. Tells(tx[p], rows[d], history[d])
    BY <1>1 DEF HInv, TxTells
  <1> HIDE DEF t
  <1>7. Tells(t, rows[d], history[d])
    BY <1>3, <1>6 DEF Tells, TellsInsert, TellsRemove, TellsUpdate, Inserting, Replacing
  <1>8. TxTells(p)'
    BY <1>1, <1>3, <1>4, <1>7 DEF TxTells, datasetVars
  <1>9. nextId' >= nextId
    BY <1>1, BoundsAssumption DEF HInv, IInv, TypeOK
  <1> QED
    BY <1>1, <1>2, <1>5, <1>8, <1>9, StatementHInv

(* The commit carries the account of its dataset on.                       *)
LEMMA CommitHInv ==
    ASSUME HInv, NEW p \in Requests, Commit(p)
    PROVE  HInv'
  <1> DEFINE d == tx[p].dataset
             t == tx[p]
             S == rows[d]
             H == history[d]
             after == Applied(t, S)
  <1>1. /\ t \in Transaction /\ t.stage = "counted" /\ d \in Datasets /\ TableOK(d)
        /\ status[d] = "active" /\ S \in SUBSET Row /\ H \in Seq(Entry)
        /\ IInv /\ IInv'
    <2>1. IInv /\ IInv' /\ t.stage = "counted"
      BY CommitIInv DEF HInv, Commit
    <2>2. /\ t \in Transaction /\ d \in Datasets /\ TableOK(d) /\ TxOK(p)
          /\ S \in SUBSET Row
      BY <2>1, OpenTransaction
    <2>3. H \in Seq(Entry)
      BY <2>1, <2>2 DEF IInv, TypeOK
    <2>4. status[d] = "active"
      BY <2>1, <2>2 DEF TxOK
    <2> QED
      BY <2>1, <2>2, <2>3, <2>4
  <1>2. /\ IsFiniteSet(S) /\ Table!KeysDistinct(S) /\ \A r \in S : r.id < nextId
        /\ \A r \in after : r.id < nextId
        /\ t.entries \in Seq(Entry) /\ Account(H, S, nextId) /\ Tells(t, S, H)
    <2>1. \A r \in after : r.id < nextId
      BY <1>1, CommittedTable
    <2>2. Tells(t, S, H)
      BY <1>1 DEF HInv, TxTells
    <2>3. Account(H, S, nextId)
      BY <1>1 DEF HInv, HistoryOK
    <2>4. t.entries \in Seq(Entry)
      BY <1>1 DEF Transaction
    <2> QED
      BY <1>1, <2>1, <2>2, <2>3, <2>4 DEF TableOK
  <1>3. /\ rows' = [rows EXCEPT ![d] = after]
        /\ history' = [history EXCEPT ![d] = H \o t.entries]
        /\ tx' = [tx EXCEPT ![p] = Idle] /\ UNCHANGED <<status, nextId>>
    BY DEF Commit
  <1>4. /\ rows'[d] = after /\ history'[d] = H \o t.entries
        /\ \A e \in Datasets \ {d} : rows'[e] = rows[e] /\ history'[e] = history[e]
        /\ tx'[p] = Idle /\ \A q \in Requests \ {p} : tx'[q] = tx[q]
    BY <1>1, <1>3 DEF IInv, TypeOK
  <1> HIDE DEF d, t, S, H, after
  <1>5. Account(H \o t.entries, after, nextId)
    <2>1. ASSUME NEW w \in Row, TellsInsert(t, S, H, w)
          PROVE  Account(H \o t.entries, after, nextId)
      <3>1. w \in after
        BY <2>1 DEF TellsInsert, Inserting, Applied, after
      <3> QED
        BY <1>1, <1>2, <2>1, <3>1, AccountInsert DEF after
    <2>2. ASSUME NEW k \in 1..MaxRowId, NEW v \in [1..k -> S], TellsRemove(t, S, k, v)
          PROVE  Account(H \o t.entries, after, nextId)
      <3>1. /\ S \in SUBSET Row /\ H \in Seq(Entry) /\ t.entries \in Seq(Entry)
            /\ IsFiniteSet(S) /\ Table!KeysDistinct(S) /\ \A r \in S : r.id < nextId
            /\ Account(H, S, nextId)
        BY <1>1, <1>2
      <3>2. Account(H \o t.entries, Applied(t, S), nextId)
        BY <2>2, <3>1, AccountRemove
      <3> QED
        BY <3>2 DEF after
    <2>3. ASSUME NEW old \in Row, NEW w \in Row, TellsUpdate(t, S, old, w)
          PROVE  Account(H \o t.entries, after, nextId)
      BY <1>1, <1>2, <2>3, AccountUpdate DEF after
    <2> QED
      BY <1>2, <2>1, <2>2, <2>3 DEF Tells
  <1>6. ASSUME NEW e \in Datasets PROVE HistoryOK(e)'
    <2>1. CASE e = d
      BY <1>1, <1>3, <1>4, <1>5, <2>1 DEF HistoryOK
    <2>2. CASE e # d
      <3>1. nextId \in Nat /\ nextId' \in Nat /\ nextId <= nextId'
        BY <1>1, <1>3, BoundsAssumption DEF IInv, TypeOK
      <3> QED
        BY <1>3, <1>4, <2>2, <3>1, HistoryFrame
    <2> QED
      BY <2>1, <2>2
  <1>7. ASSUME NEW q \in Requests PROVE TxTells(q)'
    <2>1. CASE q = p
      BY <1>4, <2>1 DEF TxTells, Idle
    <2>2. CASE q # p
      <3>1. tx[q].stage # "idle" => tx[q].dataset \in Datasets /\ tx[q].dataset # d
        BY <1>1, <2>2, OthersElsewhere DEF IInv, TxOK, d, t
      <3> QED
        BY <1>4, <2>2, <3>1, TellsFrame
    <2> QED
      BY <2>1, <2>2
  <1> QED
    BY <1>1, <1>6, <1>7 DEF HInv

LEMMA AbortHInv ==
    ASSUME HInv, NEW p \in Requests, Abort(p)
    PROVE  HInv'
  <1>1. IInv' /\ tx' = [tx EXCEPT ![p] = Idle] /\ UNCHANGED <<datasetVars, nextId>>
    BY AbortIInv DEF HInv, Abort
  <1>2. TxTells(p)'
    BY <1>1 DEF HInv, IInv, TypeOK, TxTells, Idle
  <1>3. nextId' >= nextId
    BY <1>1, BoundsAssumption DEF HInv, IInv, TypeOK
  <1> QED
    BY <1>1, <1>2, <1>3, StatementHInv

(* A step of a dataset on which no transaction is open.                    *)
LEMMA DatasetHInv ==
    ASSUME HInv, IInv', NEW d \in Datasets, holder[d] = None \/ status[d] # "active",
           tx' = tx, nextId' >= nextId, HistoryOK(d)',
           \A e \in Datasets \ {d} :
               rows'[e] = rows[e] /\ history'[e] = history[e] /\ status'[e] = status[e]
    PROVE  HInv'
  <1>1. nextId \in Nat /\ nextId' \in Nat
    BY BoundsAssumption DEF HInv, IInv, TypeOK
  <1>2. \A e \in Datasets : HistoryOK(e)'
    BY <1>1, HistoryFrame
  <1>3. ASSUME NEW q \in Requests PROVE TxTells(q)'
    <2>1. tx[q].stage # "idle" => tx[q].dataset \in Datasets /\ tx[q].dataset # d
      BY IdentitiesAssumption DEF HInv, IInv, TxOK
    <2> QED
      BY <2>1, TellsFrame
  <1> QED
    BY <1>2, <1>3 DEF HInv

LEMMA CreateDatasetHInv ==
    ASSUME HInv, NEW d \in Datasets, CreateDataset(d)
    PROVE  HInv'
  <1>1. IInv'
    BY CreateDatasetIInv DEF HInv
  <1>2. PICK k \in 0..MaxInitialRows :
          /\ rowCount' = [rowCount EXCEPT ![d] = k] /\ nextId' = nextId + k
          /\ history' = [history EXCEPT
               ![d] = <<[type |-> "dataset_created", row |-> None, number |-> k,
                         changes |-> {}]>>]
    BY DEF CreateDataset
  <1>3. PICK S : rows' = [rows EXCEPT ![d] = S]
    BY DEF CreateDataset
  <1> DEFINE e == [type |-> "dataset_created", row |-> None, number |-> k, changes |-> {}]
             H == <<e>>
  <1>4. /\ status[d] = "absent" /\ status' = [status EXCEPT ![d] = "active"] /\ tx' = tx
    BY DEF CreateDataset
  <1>5. rows'[d] = S /\ rowCount'[d] = k /\ history'[d] = H /\ status'[d] = "active"
    BY <1>2, <1>3, <1>4 DEF HInv, IInv, TypeOK
  <1>6. Cardinality(S) = k
    BY <1>1, <1>5 DEF IInv, TableOK
  <1>7. k \in Nat /\ nextId' >= nextId
    BY <1>2, BoundsAssumption DEF HInv, IInv, TypeOK
  <1>8. e \in Entry
    BY <1>7 DEF Entry
  <1>9. /\ DOMAIN H = {1} /\ H[1] = e /\ H # <<>>
        /\ e.type = "dataset_created" /\ e.row = None /\ e.changes = {} /\ e.number = k
    OBVIOUS
  <1> HIDE DEF e
  <1>10. CountIn(H, "created") = 0 /\ CountIn(H, "deleted") = 0
    BY <1>8, <1>9, CountOne
  <1> HIDE DEF H
  <1>11. Account(H, S, nextId')
    <2>1. LivesOnce(H)
      BY <1>9 DEF LivesOnce
    <2>2. Chained(H, S)
      BY <1>9 DEF Chained, EditsIn
    <2>3. Balanced(H, Cardinality(S))
      BY <1>6, <1>7, <1>9, <1>10 DEF Balanced
    <2>4. Told(H, S, nextId')
      BY <1>9, IdentitiesAssumption, BoundsAssumption DEF Told, RowIds
    <2> QED
      BY <1>9, <2>1, <2>2, <2>3, <2>4 DEF Account
  <1>12. HistoryOK(d)'
    BY <1>5, <1>11 DEF HistoryOK
  <1>13. \A c \in Datasets \ {d} :
           rows'[c] = rows[c] /\ history'[c] = history[c] /\ status'[c] = status[c]
    BY <1>2, <1>3, <1>4 DEF HInv, IInv, TypeOK
  <1> QED
    BY <1>1, <1>4, <1>7, <1>12, <1>13, DatasetHInv

LEMMA DatasetStepHInv ==
    ASSUME HInv, NEW d \in Datasets, DatasetStep(d)
    PROVE  HInv'
  <1>1. nextId \in Nat
    BY BoundsAssumption DEF HInv, IInv, TypeOK
  <1>2. CASE ArchiveDataset(d) \/ RestoreDataset(d) \/ UpdatePublicPreview(d)
    <2>1. /\ IInv' /\ UNCHANGED <<rows, history, nextId, tx>> /\ holder[d] = None
      BY <1>2, ArchiveDatasetIInv, RestoreDatasetIInv, UpdatePublicPreviewIInv
         DEF HInv, ArchiveDataset, RestoreDataset, UpdatePublicPreview
    <2>2. /\ \A e \in Datasets \ {d} : status'[e] = status[e]
          /\ status[d] \in {"active", "archived"} /\ status'[d] \in {"active", "archived"}
      BY <1>2 DEF HInv, IInv, TypeOK, ArchiveDataset, RestoreDataset, UpdatePublicPreview
    <2>3. HistoryOK(d)'
      BY <1>1, <2>1, <2>2, HistoryFrame
    <2> QED
      BY <1>1, <2>1, <2>2, <2>3, DatasetHInv
  <1>3. CASE DeleteDataset(d)
    <2>1. /\ IInv' /\ UNCHANGED <<nextId, tx>> /\ holder[d] = None
      BY <1>3, DeleteDatasetIInv DEF HInv, DeleteDataset
    <2>2. /\ status'[d] = "deleted" /\ history'[d] = <<>>
          /\ \A e \in Datasets \ {d} :
               rows'[e] = rows[e] /\ history'[e] = history[e] /\ status'[e] = status[e]
      BY <1>3 DEF HInv, IInv, TypeOK, DeleteDataset
    <2>3. HistoryOK(d)'
      BY <2>2 DEF HistoryOK
    <2> QED
      BY <1>1, <2>1, <2>2, <2>3, DatasetHInv
  <1> QED
    BY <1>2, <1>3, CreateDatasetHInv DEF DatasetStep

LEMMA NextHInv ==
    ASSUME HInv, [Next]_vars
    PROVE  HInv'
  <1>1. CASE UNCHANGED vars
    <2>1. UNCHANGED <<datasetVars, nextId, tx>> /\ IInv'
      BY <1>1, NextIInv DEF HInv, vars, datasetVars
    <2>2. nextId \in Nat /\ nextId' \in Nat /\ nextId <= nextId'
      BY <2>1, BoundsAssumption DEF HInv, IInv, TypeOK
    <2>3. \A d \in Datasets : HistoryOK(d)'
      BY <2>1, <2>2, HistoryFrame DEF datasetVars
    <2>4. \A q \in Requests : TxTells(q)'
      BY <2>1, TellsFrame DEF datasetVars
    <2> QED
      BY <2>1, <2>3, <2>4 DEF HInv
  <1>2. ASSUME NEW p \in Requests, RowStep(p) PROVE HInv'
    BY <1>2, FetchNumberHInv, InsertRowHInv, FetchRowHInv, UpdateRowHInv,
       DeleteRowsHInv, CountRowsHInv, CommitHInv, AbortHInv DEF RowStep
  <1> QED
    BY <1>1, <1>2, DatasetStepHInv, LockHInv DEF Next

LEMMA HistoryInvariance == Spec => []HInv
  BY InitHInv, NextHInv, PTL DEF Spec

(* What is recorded explains what is there: the history of a dataset, with *)
(* its edits chained and its counts balanced, accounts for every row that  *)
(* is committed, however requests interleave, roll back or delete.         *)
THEOREM HistoryAccountsForRows == Spec => []HistoryExplainsRows
  <1>1. ASSUME HInv, NEW d \in Datasets
        PROVE  LET H == history[d]
               IN  LivesOnce(H) /\ Chained(H, rows[d]) /\ Balanced(H, rowCount[d])
    <2>1. CASE status[d] \in {"active", "archived"}
      BY <1>1, <2>1 DEF HInv, IInv, TableOK, HistoryOK, Account
    <2>2. CASE status[d] \notin {"active", "archived"}
      <3>1. history[d] = <<>> /\ DOMAIN <<>> = {}
        BY <1>1, <2>2 DEF HInv, HistoryOK
      <3> QED
        BY <3>1 DEF LivesOnce, Chained, EditsIn, Balanced
    <2> QED
      BY <2>1, <2>2
  <1>2. ASSUME NEW d \in Datasets
        PROVE  /\ \A id, f : Edits(d, id, f) = EditsIn(history[d], id, f)
               /\ \A i, f : ChangeAt(d, i, f) = ChangeIn(history[d], i, f)
    BY DEF Edits, EditsIn, ChangeAt, ChangeIn
  <1>3. HInv => HistoryExplainsRows
    BY <1>1, <1>2
    DEF HistoryExplainsRows, LivesOnce, Chained, ChainedAt, Balanced, CountIn
  <1> QED
    BY <1>3, HistoryInvariance, PTL

=============================================================================
