----------------------------- MODULE RowQueries ------------------------------
(***************************************************************************)
(* What a query selects among the rows of a dataset, in which order, and   *)
(* how the two ways of searching are merged (datasets/services.py and      *)
(* api/services.py).                                                       *)
(*                                                                         *)
(* Of a cell the queries see the number or moment its text stands for, its *)
(* place among the lower-cased texts and the texts that occur in it, which *)
(* the constants give.  A row is a record [dataset, number, data].         *)
(***************************************************************************)
EXTENDS Integers, Sequences, SequencesExt

CONSTANTS
    Schema,        \* dataset id -> (header -> the type of its values)
    Cells,         \* header -> the cells of that column
    Quantity,      \* cell -> number or moment, None if its text is neither
    Letters,       \* cell -> rank of its lower-cased text
    Within,        \* <<cell, text>>: the text occurs in the cell
    Truths,        \* the texts for true, and those for false
    RankOffset,    \* DATASET_SEARCH_RRF_K
    None

Datasets == DOMAIN Schema
Types == {"text", "ordered", "boolean", "choice"}

ASSUME SchemaAssumption ==
    \A d \in Datasets : /\ d \in Nat
                        /\ Range(Schema[d]) \subseteq Types
                        /\ DOMAIN Schema[d] \subseteq DOMAIN Cells

Texts == UNION Range(Cells)

ASSUME QuantityAssumption == Quantity \in [Texts -> Nat \cup {None}]
ASSUME LettersAssumption == Letters \in [Texts -> Nat]
ASSUME WithinAssumption == Within \subseteq Texts \X Texts
ASSUME RankOffsetAssumption == RankOffset \in Nat \ {0}
ASSUME NoneAssumption == None \notin Nat
ASSUME TruthsAssumption == Truths \subseteq SUBSET Texts

Same(x, y) == Letters[x] = Letters[y]

-----------------------------------------------------------------------------
(* Filters: [header, values, operator], at most one for a header.  An      *)
(* operator that was not given is None.                                    *)

OperatorsFor(type) ==
    CASE type \in {"boolean", "choice"} -> {"is"}
      [] type = "ordered" -> {"contains", "above", "below"}
      [] type = "text" -> {"contains"}

DefaultFor(type) ==
    IF type \in {"boolean", "choice"} THEN "is" ELSE "contains"

OperatorOf(type, operator) ==
    IF operator \in OperatorsFor(type) THEN operator ELSE DefaultFor(type)

BadOperator(d, f) ==
    f.operator # None /\ f.operator \notin OperatorsFor(Schema[d][f.header])

(* What a strict query is refused for, and another one silently drops. *)
Refused(d, filters) ==
    \E f \in filters :
      \/ f.header \notin DOMAIN Schema[d]
      \/ Len(f.values) > 1 /\ Schema[d][f.header] # "choice"
      \/ BadOperator(d, f)

NormalFilters(d, filters) ==
    {[header |-> f.header,
      values |-> IF Schema[d][f.header] = "choice" THEN f.values
                 ELSE <<f.values[1]>>,
      operator |-> OperatorOf(Schema[d][f.header], f.operator)] :
        f \in {g \in filters : g.header \in DOMAIN Schema[d]}}

(* Does a cell of that type pass the filter?  A text that stands for no    *)
(* number compares with nothing, and one for neither true nor false        *)
(* selects nothing.                                                        *)
Passes(type, cell, f) ==
    LET value == f.values[1] IN
    CASE type = "boolean" ->
           \E spellings \in Truths :
             /\ \E s \in spellings : Same(s, value)
             /\ \E s \in spellings : Same(s, cell)
      [] type = "choice" ->
           \E i \in DOMAIN f.values : Same(f.values[i], cell)
      [] type = "ordered" /\ f.operator = "above" ->
           /\ Quantity[value] # None /\ Quantity[cell] # None
           /\ Quantity[cell] > Quantity[value]
      [] type = "ordered" /\ f.operator = "below" ->
           /\ Quantity[value] # None /\ Quantity[cell] # None
           /\ Quantity[cell] < Quantity[value]
      [] OTHER -> <<cell, value>> \in Within

Mentions(row, words) ==
    \E h \in DOMAIN Schema[row.dataset] : <<row.data[h], words>> \in Within

(* The rows of one dataset: apply_dataset_row_query. *)
Selects(row, words, filters) ==
    /\ words # None => Mentions(row, words)
    /\ \A f \in NormalFilters(row.dataset, filters) :
         Passes(Schema[row.dataset][f.header], row.data[f.header], f)

(* The rows of several: apply_dataset_rows_query.  A dataset for whose     *)
(* column the operator means nothing is left out; of each of the headers   *)
(* that are left the row must meet the condition of its own dataset.       *)
Contexts(ds, filters) ==
    {d \in ds : \A f \in filters :
       f.header \in DOMAIN Schema[d] => ~BadOperator(d, f)}

SelectsAmong(row, ds, words, filters) ==
    LET contexts == Contexts(ds, filters)
        ofContext(d) == NormalFilters(d, filters)
        headers == {f.header : f \in UNION {ofContext(d) : d \in contexts}} IN
    /\ row.dataset \in contexts
    /\ words # None => Mentions(row, words)
    /\ \A h \in headers : \E d \in contexts : \E f \in ofContext(d) :
         f.header = h /\ row.dataset = d /\ Passes(Schema[d][h], row.data[h], f)

-----------------------------------------------------------------------------
(* Order. *)

SortKey(row, header) ==
    IF Schema[row.dataset][header] = "ordered"
    THEN Quantity[row.data[header]]
    ELSE Letters[row.data[header]]

(* In both directions a cell without a key comes last. *)
KeyAhead(k, l, descending) ==
    /\ k # None
    /\ l # None => IF descending THEN k > l ELSE k < l

ByNumber(r, s, descending) ==
    IF descending THEN r.number > s.number ELSE r.number < s.number

(* "row_number" is the default order, even where a column has this name. *)
SortsByColumn(d, sort) == sort # "row_number" /\ sort \in DOMAIN Schema[d]

(* Fault: rows equal in the sorted column come in whatever order. *)
AheadByColumnOnly(r, s, sort, descending) ==
    IF ~SortsByColumn(r.dataset, sort) THEN ByNumber(r, s, descending)
    ELSE KeyAhead(SortKey(r, sort), SortKey(s, sort), descending)

(* ORDER BY the column and then row_number, or row_number alone. *)
Ahead(r, s, sort, descending) ==
    IF ~SortsByColumn(r.dataset, sort) THEN ByNumber(r, s, descending)
    ELSE LET k == SortKey(r, sort)  l == SortKey(s, sort) IN
         \/ KeyAhead(k, l, descending)
         \/ k = l /\ ByNumber(r, s, FALSE)

(* ORDER BY dataset_id, row_number. *)
AheadAmong(r, s) ==
    \/ r.dataset < s.dataset
    \/ r.dataset = s.dataset /\ ByNumber(r, s, FALSE)

(* The sequences a query for these ids may return. *)
Orders(ids, Before(_, _)) ==
    {s \in SetToSeqs(ids) :
       \A i, j \in DOMAIN s : i < j => ~Before(s[j], s[i])}

-----------------------------------------------------------------------------
(* Merging the nearest points of the vector store with the rows found by   *)
(* their words.  A point is a chunk of a row: a row can be hit repeatedly,  *)
(* and its first hit counts.                                               *)

RankIn(s, id) ==
    IF \E i \in DOMAIN s : s[i] = id
    THEN CHOOSE i \in DOMAIN s : s[i] = id /\ \A j \in 1 .. i - 1 : s[j] # id
    ELSE None

(* Fault: a hit need not be a row the filters let through. *)
CandidatesUnfiltered(hits, allowed, lexical) ==
    Range(hits) \cup Range(lexical)

Candidates(hits, allowed, lexical) ==
    (Range(hits) \cap allowed) \cup Range(lexical)

(* 1 / (k + rank) as a fraction, 0 without a rank. *)
Reciprocal(rank) ==
    IF rank = None THEN <<0, 1>> ELSE <<1, RankOffset + rank>>

Score(vector, lexical) ==
    LET a == Reciprocal(vector)  b == Reciprocal(lexical) IN
    <<a[1] * b[2] + b[1] * a[2], a[2] * b[2]>>

Above(x, y) == x[1] * y[2] > y[1] * x[2]

OrLast(rank) == IF rank = None THEN 10000 ELSE rank

(* Fault: only the better of the two ranks counts. *)
RanksAboveByBest(a, b) ==
    LET best(c) == IF OrLast(c.vector) < OrLast(c.lexical)
                   THEN OrLast(c.vector) ELSE OrLast(c.lexical) IN
    best(a) < best(b) \/ (best(a) = best(b) /\ a.row < b.row)

RanksAbove(a, b) ==
    LET x == Score(a.vector, a.lexical)  y == Score(b.vector, b.lexical) IN
    \/ Above(x, y)
    \/ /\ ~Above(y, x)
       /\ \/ OrLast(a.vector) < OrLast(b.vector)
          \/ /\ OrLast(a.vector) = OrLast(b.vector)
             /\ \/ OrLast(a.lexical) < OrLast(b.lexical)
                \/ /\ OrLast(a.lexical) = OrLast(b.lexical)
                   /\ a.row < b.row

(* What is known of a candidate: the rank by meaning counts if the filters  *)
(* let the row through.                                                    *)
Found(id, hits, allowed, lexical) ==
    [row |-> id,
     vector |-> IF id \in allowed THEN RankIn(hits, id) ELSE None,
     lexical |-> RankIn(lexical, id)]

(* The orders a search may answer some of its candidates in: there is one. *)
Rankings(ids, hits, allowed, lexical) ==
    LET above(i, j) == RanksAbove(Found(i, hits, allowed, lexical),
                                  Found(j, hits, allowed, lexical)) IN
    Orders(ids, above)
=============================================================================
