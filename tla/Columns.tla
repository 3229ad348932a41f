------------------------------ MODULE Columns -------------------------------
(***************************************************************************)
(* The columns of one dataset: headers, column_schema and index_column on  *)
(* the dataset, the same names as keys in the data of every row, in the    *)
(* formulas of calculated columns and in relationships (the column         *)
(* services of apps/api/services.py, the schema and formula code of        *)
(* apps/datasets).  Every operation on the dataset runs under its row      *)
(* lock, so it is one step; a relationship from another dataset is created *)
(* and deleted under that dataset's lock, and what it reads here, it reads *)
(* earlier: these are two steps.                                           *)
(*                                                                         *)
(* headers is rebuilt together with column_schema, whose domain every      *)
(* normalisation makes equal to it; guards read that domain, and headers   *)
(* keeps the order.  Cell values are matched by MatchKey (case, spaces,    *)
(* dashes).  A formula is the set of columns it refers to.                 *)
(***************************************************************************)
EXTENDS Naturals, Sequences, FiniteSets

CONSTANTS
    Names,           \* the column names callers use
    Rows,            \* the rows the dataset can have
    Cells, Blank,    \* what a cell can hold; the empty string
    IndexCells,      \* the index values callers give
    MatchKey,        \* _choice_value_match_key
    ChoiceSets,      \* the choices lists callers give
    RefSets,         \* the references of the formulas callers give
    Orders,          \* the header lists callers reorder to
    Rels,            \* the relationships other datasets can create
    FirstHeaders,    \* the columns the dataset is created with
    IndexGenerated,  \* dataset.index_generated
    Sources,         \* the source columns of relationships callers create
    FirstIds,        \* identities for the columns in FirstHeaders
    MaxIds,          \* bound: columns ever created
    None             \* no row

ASSUME ColumnsAssumption ==
    /\ Blank \in Cells /\ IndexCells \subseteq Cells
    /\ Orders \subseteq Seq(Names)
    /\ MatchKey \in [Cells -> Cells]
    /\ ChoiceSets \subseteq (SUBSET (Cells \ {Blank})) \ {{}}
    /\ RefSets \subseteq SUBSET Names
    /\ FirstHeaders \in Seq(Names) /\ Len(FirstHeaders) > 0
    /\ \A x, y \in DOMAIN FirstHeaders : FirstHeaders[x] = FirstHeaders[y] => x = y
    /\ MaxIds \in Nat /\ MaxIds >= Len(FirstHeaders) /\ Sources \subseteq Names
    /\ FirstIds \in [{FirstHeaders[k] : k \in DOMAIN FirstHeaders} ->
                      1..Len(FirstHeaders)]
    /\ \A x, y \in DOMAIN FirstIds : FirstIds[x] = FirstIds[y] => x = y
    /\ IndexGenerated \in BOOLEAN
    /\ None \notin Rels \cup Rows
    /\ None \notin UNION {[S -> Cells] : S \in SUBSET Names}
    /\ None \notin UNION {[S -> Cells] : S \in SUBSET (1..MaxIds)}

VARIABLES
    headers,         \* dataset.headers
    schema,          \* dataset.column_schema
    index,           \* dataset.index_column
    data,            \* DatasetRow.data, None without row
    incoming,        \* the relationships of other datasets to this one
    target,          \* their target_index_column
    child,           \* the open transaction of each such dataset
    outgoing,        \* source columns of this dataset's own relationships
    raced,           \* ghost: relationships excused by a race or a cascade
    ids, spent,      \* ghosts: the identity of each column, the last given
    writer           \* ghost: the row last written, None for a schema change

vars == <<headers, schema, index, data, incoming, target, child, outgoing,
          raced, ids, spent, writer>>
relationships == <<incoming, target, child, outgoing>>

Listed(s) == {s[k] : k \in DOMAIN s}
Injective(f) == \A x, y \in DOMAIN f : f[x] = f[y] => x = y

-----------------------------------------------------------------------------
(* Entries of column_schema, as _normalize_column_schema_entry returns     *)
(* them: a type, and what the type needs.                                  *)
Text == [type |-> "text", choices |-> {}, refs |-> {}, rel |-> None]
Choice(s) == [Text EXCEPT !.type = "choice", !.choices = s]
Formula(refs) == [Text EXCEPT !.type = "formula", !.refs = refs]
Count(k) == [Text EXCEPT !.type = "count", !.rel = k]

Entries ==
    {Text} \cup {Choice(s) : s \in ChoiceSets}
           \cup {Formula(refs) : refs \in RefSets} \cup {Count(k) : k \in Rels}

IsCalculated(e) == e.type \in {"formula", "count"}
OfType(sch, type) == {c \in DOMAIN sch : sch[c].type = type}
Columns == DOMAIN schema
Writable == {c \in Columns : ~IsCalculated(schema[c])}

(* _canonical_choice_value: the choice itself, or the only one that        *)
(* matches it.                                                             *)
Matches(v, choices) == {c \in choices : MatchKey[c] = MatchKey[v]}
IsAllowed(e, v) ==
    e.type = "choice" =>
        v = Blank \/ v \in e.choices \/ \E c \in Cells : Matches(v, e.choices) = {c}
Canonical(e, v) ==
    IF e.type # "choice" \/ v = Blank \/ v \in e.choices THEN v
    ELSE CHOOSE c \in Cells : Matches(v, e.choices) = {c}

(* validate_formula_dependencies visits the formulas depth first; it finds *)
(* no cycle just when every set of them has one that refers to none in it. *)
Acyclic(sch) ==
    \A s \in SUBSET OfType(sch, "formula") :
        s # {} => \E c \in s : sch[c].refs \cap s = {}

References(sch) == UNION {sch[c].refs : c \in OfType(sch, "formula")}

FormulasCompile(sch) ==
    /\ References(sch) \subseteq DOMAIN sch \ OfType(sch, "count")
    /\ Acyclic(sch)

Live == {k \in Rels : incoming[k] = "live"}
Counted(sch) == {sch[c].rel : c \in OfType(sch, "count")}

(* _validate_existing_calculated_columns                                   *)
CalculatedColumnsValid(sch) == FormulasCompile(sch) /\ Counted(sch) \subseteq Live

(* _validate_existing_choice_values: a key a row lacks reads as blank.     *)
CellOf(row, c) == IF c \in DOMAIN row THEN row[c] ELSE Blank
Cell(r, c) == CellOf(data[r], c)
Present == {r \in Rows : data[r] # None}
ExistingChoicesValid(sch) ==
    \A r \in Present : \A c \in DOMAIN sch : IsAllowed(sch[c], Cell(r, c))

(* The ghosts a schema change sets: no row was written, and a relationship *)
(* under deletion that a column counts from now on is lost to a race.      *)
Reshaped(sch) ==
    /\ writer' = None
    /\ raced' = raced \cup {k \in Counted(sch) : child[k] = "deleting"}

Init ==
    /\ headers = FirstHeaders
    /\ schema = [c \in Listed(FirstHeaders) |-> Text]
    /\ index = FirstHeaders[1]
    /\ data = [r \in Rows |-> None]
    /\ incoming = [k \in Rels |-> "none"]
    /\ target = [k \in Rels |-> None]
    /\ child = [k \in Rels |-> "idle"]
    /\ outgoing = {}
    /\ raced = {}
    /\ ids = FirstIds
    /\ spent = Len(FirstHeaders)
    /\ writer = None

-----------------------------------------------------------------------------
(* Schema operations.                                                      *)

With(f, c, v) == [x \in DOMAIN f \cup {c} |-> IF x = c THEN v ELSE f[x]]
Without(f, c) == [x \in DOMAIN f \ {c} |-> f[x]]
Cut(s, p) == [k \in 1 .. Len(s) - 1 |-> IF k < p THEN s[k] ELSE s[k + 1]]

(* The key o of f becomes n.                                               *)
Renamed(f, o, n) ==
    [x \in (DOMAIN f \ {o}) \cup {n} |-> IF x = n THEN f[o] ELSE f[x]]

(* _transform_dataset_rows                                                 *)
EachRow(transform(_)) ==
    data' = [r \in Rows |-> IF data[r] = None THEN None ELSE transform(data[r])]

(* A plain column is backfilled: a key the row already has wins over the   *)
(* default.  A calculated column has no default and touches no row.        *)
AddColumn(c, e, default) ==
    LET next == With(schema, c, e)
        filled(row) == IF c \in DOMAIN row THEN row
                       ELSE With(row, c, Canonical(e, default))
    IN  /\ c \notin Columns
        /\ CalculatedColumnsValid(next)
        /\ IF IsCalculated(e)
           THEN default = Blank /\ UNCHANGED data
           ELSE IsAllowed(e, default) /\ EachRow(filled)
        /\ schema' = next
        /\ headers' = Append(headers, c)
        /\ spent < MaxIds
        /\ spent' = spent + 1
        /\ ids' = With(ids, c, spent')
        /\ Reshaped(next)
        /\ UNCHANGED <<index, relationships>>

(* update_profile_dataset_column_types; the form for one formula column    *)
(* calls it.  It looks at existing values, not at relationships, and       *)
(* leaves the rows alone: the cells of a column that becomes calculated    *)
(* stay in them, hidden.                                                   *)
RetypeColumn(c, e) ==
    LET next == [schema EXCEPT ![c] = e]
    IN  /\ c \in Columns
        /\ c = index => ~IsCalculated(e)
        /\ ExistingChoicesValid(next)
        /\ CalculatedColumnsValid(next)
        /\ schema' = next
        /\ Reshaped(next)
        /\ UNCHANGED <<headers, index, data, ids, spent, relationships>>

(* Fault: incoming relationships do not hold the index column's name.      *)
IsFreeOfOutgoing(c) == c \notin outgoing

(* _raise_if_column_participates_in_relationship                           *)
IsFree(c) == c \notin outgoing /\ (c = index => Live = {})

(* Fault: a formula that refers to the column is not looked for.           *)
IsReferencedNowhere(c) == FALSE

(* _raise_if_column_is_referenced_by_formula                               *)
IsReferenced(c) == c \in References(schema)

(* Fault: the old key is dropped and the new one starts blank.             *)
RenameColumnBlanking(o, n) ==
    LET relabelled(row) == With(Without(row, o), n, Blank)
    IN  /\ o \in Columns /\ n \notin Columns \ {o}
        /\ IsFree(o) /\ ~IsReferenced(o)
        /\ ~(IndexGenerated /\ o = index)
        /\ schema' = Renamed(schema, o, n)
        /\ headers' = [k \in DOMAIN headers |-> IF headers[k] = o THEN n ELSE headers[k]]
        /\ index' = IF index = o THEN n ELSE index
        /\ EachRow(relabelled)
        /\ ids' = Renamed(ids, o, n)
        /\ Reshaped(schema')
        /\ UNCHANGED <<spent, relationships>>

RenameColumn(o, n) ==
    LET relabelled(row) == With(Without(row, o), n, CellOf(row, o))
    IN  /\ o \in Columns /\ n \notin Columns \ {o}
        /\ IsFree(o) /\ ~IsReferenced(o)
        /\ ~(IndexGenerated /\ o = index)
        /\ schema' = Renamed(schema, o, n)
        /\ headers' = [k \in DOMAIN headers |-> IF headers[k] = o THEN n ELSE headers[k]]
        /\ index' = IF index = o THEN n ELSE index
        /\ EachRow(relabelled)
        /\ ids' = Renamed(ids, o, n)
        /\ Reshaped(schema')
        /\ UNCHANGED <<spent, relationships>>

DropColumn(c) ==
    LET cut(row) == Without(row, c)
    IN  /\ c \in Columns /\ c # index
        /\ IsFree(c) /\ ~IsReferenced(c)
        /\ schema' = Without(schema, c)
        /\ \E p \in DOMAIN headers : headers[p] = c /\ headers' = Cut(headers, p)
        /\ EachRow(cut)
        /\ ids' = Without(ids, c)
        /\ Reshaped(schema')
        /\ UNCHANGED <<index, spent, relationships>>

(* Callers may give any list of names; only a permutation is accepted.     *)
ReorderColumns(order) ==
    /\ Listed(order) = Columns /\ Injective(order)
    /\ headers' = order
    /\ writer' = None
    /\ UNCHANGED <<schema, index, data, raced, ids, spent, relationships>>

-----------------------------------------------------------------------------
(* Row operations, as far as columns go (their other side is DatasetRows). *)

IndexFits(r, v) ==
    /\ v # Blank
    /\ \A o \in Present \ {r} : data[o][index] # v

(* create_dataset_row writes the columns that are not calculated, all of   *)
(* them, with canonical choices.                                           *)
CreateRow(r, row) ==
    /\ data[r] = None
    /\ DOMAIN row = Writable
    /\ \A c \in Writable : IsAllowed(schema[c], row[c])
    /\ LET stored == [c \in Writable |-> Canonical(schema[c], row[c])]
       IN  /\ IndexFits(r, stored[index])
           /\ data' = [data EXCEPT ![r] = stored]
    /\ writer' = r
    /\ UNCHANGED <<headers, schema, index, raced, ids, spent, relationships>>

(* Fault: a patched choice is stored unvalidated.                          *)
PatchRowUnvalidated(r, c, v) ==
    /\ r \in Present /\ c \in Writable
    /\ c = index => IndexFits(r, v) /\ (IndexGenerated => v = data[r][index])
    /\ data' = [data EXCEPT ![r] = With(data[r], c, v)]
    /\ writer' = r
    /\ UNCHANGED <<headers, schema, index, raced, ids, spent, relationships>>

PatchRow(r, c, v) ==
    LET stored == Canonical(schema[c], v)
    IN  /\ r \in Present /\ c \in Writable
        /\ IsAllowed(schema[c], v)
        /\ c = index => IndexFits(r, stored) /\ (IndexGenerated => stored = data[r][index])
        /\ data' = [data EXCEPT ![r] = With(data[r], c, stored)]
        /\ writer' = r
        /\ UNCHANGED <<headers, schema, index, raced, ids, spent, relationships>>

DeleteRow(r) ==
    /\ r \in Present
    /\ data' = [data EXCEPT ![r] = None]
    /\ writer' = r
    /\ UNCHANGED <<headers, schema, index, raced, ids, spent, relationships>>

-----------------------------------------------------------------------------
(* Relationships.  Those of this dataset are created under its own lock,   *)
(* and go with a deletion or with their target dataset.                    *)
CreateOutgoing(c) ==
    /\ c \in Writable \cap Sources
    /\ outgoing' = outgoing \cup {c}
    /\ UNCHANGED <<headers, schema, index, data, incoming, target, child,
                   raced, ids, spent, writer>>

DeleteOutgoing(c) ==
    /\ outgoing' = outgoing \ {c}
    /\ UNCHANGED <<headers, schema, index, data, incoming, target, child,
                   raced, ids, spent, writer>>

(* create_profile_dataset_relationship in the other dataset reads this     *)
(* one's index column and stores it ...                                    *)
BeginCreate(k) ==
    /\ incoming[k] = "none" /\ child[k] = "idle"
    /\ child' = [child EXCEPT ![k] = "creating"]
    /\ target' = [target EXCEPT ![k] = index]
    /\ UNCHANGED <<headers, schema, index, data, incoming, outgoing, raced,
                   ids, spent, writer>>

(* ... and commits later: a rename in between is a race.                   *)
CommitCreate(k) ==
    /\ child[k] = "creating"
    /\ incoming' = [incoming EXCEPT ![k] = "live"]
    /\ child' = [child EXCEPT ![k] = "idle"]
    /\ raced' = IF target[k] = index THEN raced ELSE raced \cup {k}
    /\ UNCHANGED <<headers, schema, index, data, target, outgoing, ids,
                   spent, writer>>

(* Fault: _raise_if_relationship_used_by_calculated_columns is not called. *)
BeginDeleteUnlooked(k) ==
    /\ incoming[k] = "live" /\ child[k] = "idle"
    /\ child' = [child EXCEPT ![k] = "deleting"]
    /\ UNCHANGED <<headers, schema, index, data, incoming, target, outgoing,
                   raced, ids, spent, writer>>

(* delete_profile_dataset_relationship looks for columns that count it ... *)
BeginDelete(k) ==
    /\ incoming[k] = "live" /\ child[k] = "idle"
    /\ k \notin Counted(schema)
    /\ child' = [child EXCEPT ![k] = "deleting"]
    /\ UNCHANGED <<headers, schema, index, data, incoming, target, outgoing,
                   raced, ids, spent, writer>>

(* ... and commits later.                                                  *)
CommitDelete(k) ==
    /\ child[k] = "deleting"
    /\ incoming' = [incoming EXCEPT ![k] = "gone"]
    /\ target' = [target EXCEPT ![k] = None]
    /\ child' = [child EXCEPT ![k] = "idle"]
    /\ UNCHANGED <<headers, schema, index, data, outgoing, raced, ids, spent,
                   writer>>

(* Deleting the other dataset for good cascades to the relationship and    *)
(* asks nobody.  The lock on the dataset keeps it apart from child's.      *)
CascadeDelete(k) ==
    /\ incoming[k] = "live" /\ child[k] = "idle"
    /\ incoming' = [incoming EXCEPT ![k] = "gone"]
    /\ target' = [target EXCEPT ![k] = None]
    /\ raced' = raced \cup {k}
    /\ UNCHANGED <<headers, schema, index, data, child, outgoing, ids, spent,
                   writer>>

-----------------------------------------------------------------------------
SchemaStep ==
    \/ \E c \in Names, e \in Entries, v \in Cells : AddColumn(c, e, v)
    \/ \E c \in Names, e \in Entries : RetypeColumn(c, e)
    \/ \E o, n \in Names : RenameColumn(o, n)
    \/ \E c \in Names : DropColumn(c)
    \/ \E order \in Orders : ReorderColumns(order)

RowStep ==
    \E r \in Rows :
        \/ \E row \in [Writable -> Cells] : row[index] \in IndexCells /\ CreateRow(r, row)
        \/ \E c \in Names \ {index}, v \in Cells : PatchRow(r, c, v)
        \/ \E v \in IndexCells : PatchRow(r, index, v)
        \/ DeleteRow(r)

RelationshipStep ==
    \/ \E c \in Names : CreateOutgoing(c) \/ DeleteOutgoing(c)
    \/ \E k \in Rels :
        \/ BeginCreate(k) \/ CommitCreate(k)
        \/ BeginDelete(k) \/ CommitDelete(k)
        \/ CascadeDelete(k)

Next == SchemaStep \/ RowStep \/ RelationshipStep

Spec == Init /\ [][Next]_vars

-----------------------------------------------------------------------------
(* headers, column_schema and the ghost identities name the same columns,  *)
(* each once, the index is a plain one of them, and no row has a key of    *)
(* its own.                                                                *)
TypeOK ==
    /\ headers \in Seq(Names) /\ Injective(headers) /\ Listed(headers) = Columns
    /\ Columns \subseteq Names /\ schema \in [Columns -> Entries]
    /\ index \in Writable
    /\ DOMAIN data = Rows
    /\ \A r \in Present :
         \E keys \in SUBSET Columns : index \in keys /\ data[r] \in [keys -> Cells]
    /\ incoming \in [Rels -> {"none", "live", "gone"}]
    /\ target \in [Rels -> Names \cup {None}]
    /\ child \in [Rels -> {"idle", "creating", "deleting"}]
    /\ outgoing \subseteq Names /\ raced \subseteq Rels
    /\ spent \in 1..MaxIds /\ ids \in [Columns -> 1..spent] /\ Injective(ids)
    /\ writer \in Rows \cup {None}

(* Every formula can be evaluated, after any sequence of renames, drops    *)
(* and retypes: the columns it refers to exist, none of them counts a      *)
(* relationship, and no chain of references leads back                     *)
(* (_FormulaCompiler, which reading any row runs).                         *)
FormulasResolve == FormulasCompile(schema)

(* However a column came to be a choice column, what its rows hold is      *)
(* blank or stands for exactly one of its choices.                         *)
ChoiceCellsAllowed ==
    \A r \in Present : \A c \in Columns : IsAllowed(schema[c], Cell(r, c))

(* A column that counts a relationship has one to count, unless the column *)
(* was added while the relationship was being deleted or its dataset was   *)
(* deleted for good (delete_profile_dataset_relationship's 409).           *)
CountsHaveRelationship == Counted(schema) \subseteq Live \cup raced

(* The names that relationships hold stay names of columns: the source     *)
(* columns of this dataset's own, and this dataset's index in those of     *)
(* others, except where a rename came between their two steps.             *)
RelationshipsNameColumns ==
    /\ outgoing \subseteq Columns
    /\ \A k \in Live : target[k] = index \/ k \in raced

(* What _normalize_relationship_source_column refuses when a relationship  *)
(* is created: a source column whose values no write can reach.            *)
SourcesAreStored == outgoing \subseteq Writable

(* The columns and rows a caller sees are a Grid: cells follow the column  *)
(* through renames and retypes, and no dropped value comes back.           *)
ByIdentity(f, row) ==
    IF row = None THEN None
    ELSE [i \in Listed(f) |-> CellOf(row, CHOOSE c \in DOMAIN f : f[c] = i)]

G == INSTANCE Grid WITH
        Ids <- 1..MaxIds,
        columns <- Listed(ids),
        spent <- 1..spent,
        cells <- [r \in Rows |-> ByIdentity(ids, data[r])]

ImplementsGrid == G!Spec
=============================================================================
