--------------------------- MODULE ColumnsProofs ----------------------------
(***************************************************************************)
(* Proofs about Columns, for all names, rows, cells, formulas and numbers  *)
(* of columns.  The inductive invariant adds to the properties only what   *)
(* the two steps of another dataset's transaction know of each other.      *)
(***************************************************************************)
EXTENDS Columns, TLAPS

USE ColumnsAssumption

RowOK(row, cols, key) ==
    \E keys \in SUBSET cols : key \in keys /\ row \in [keys -> Cells]

(* A row may hold what it holds.                                           *)
RowAllowed(row, sch) == \A c \in DOMAIN sch : IsAllowed(sch[c], CellOf(row, c))

ChildrenOK ==
    \A k \in Rels :
        /\ child[k] = "creating" => incoming[k] = "none"
        /\ child[k] = "deleting" => incoming[k] = "live"
        /\ child[k] = "deleting" /\ k \in Counted(schema) => k \in raced

IInv ==
    /\ TypeOK
    /\ FormulasResolve
    /\ ChoiceCellsAllowed
    /\ CountsHaveRelationship
    /\ RelationshipsNameColumns
    /\ ChildrenOK

-----------------------------------------------------------------------------
(* Functions with a key added, removed or renamed.                         *)

LEMMA WithType ==
    ASSUME NEW D, NEW S, NEW f \in [D -> S], NEW c, NEW v \in S
    PROVE  With(f, c, v) \in [D \cup {c} -> S]
  BY DEF With

LEMMA WithoutType ==
    ASSUME NEW D, NEW S, NEW f \in [D -> S], NEW c
    PROVE  Without(f, c) \in [D \ {c} -> S]
  BY DEF Without

LEMMA RenamedType ==
    ASSUME NEW D, NEW S, NEW f \in [D -> S], NEW o \in D, NEW n
    PROVE  Renamed(f, o, n) \in [(D \ {o}) \cup {n} -> S]
  BY DEF Renamed

LEMMA FunctionIsSeq ==
    ASSUME NEW S, NEW n \in Nat, NEW f \in [1..n -> S]
    PROVE  f \in Seq(S)
  OBVIOUS

LEMMA TextInEntries == Text \in Entries
  BY DEF Entries

(* Entries are records of one shape, and what calculates is not a choice.  *)
LEMMA EntryShape ==
    ASSUME NEW e \in Entries
    PROVE  /\ e.type = "formula" => e.refs \in RefSets
           /\ e.type = "count" => e.rel \in Rels
           /\ e.type = "choice" => e.choices \in ChoiceSets
  <1>1. CASE e = Text
    BY <1>1 DEF Text
  <1>2. ASSUME NEW s \in ChoiceSets, e = Choice(s) PROVE e.type = "choice" /\ e.choices = s
    BY <1>2 DEF Choice, Text
  <1>3. ASSUME NEW refs \in RefSets, e = Formula(refs) PROVE e.type = "formula" /\ e.refs = refs
    BY <1>3 DEF Formula, Text
  <1>4. ASSUME NEW k \in Rels, e = Count(k) PROVE e.type = "count" /\ e.rel = k
    BY <1>4 DEF Count, Text
  <1> QED
    BY <1>1, <1>2, <1>3, <1>4 DEF Entries

(* Storing a choice in its canonical spelling gives a cell the column may  *)
(* hold (_canonical_choice_value).                                         *)
LEMMA CanonicalAllowed ==
    ASSUME NEW e \in Entries, NEW v \in Cells, IsAllowed(e, v)
    PROVE  Canonical(e, v) \in Cells /\ IsAllowed(e, Canonical(e, v))
  <1>1. CASE e.type # "choice" \/ v = Blank \/ v \in e.choices
    BY <1>1 DEF Canonical, IsAllowed
  <1>2. CASE e.type = "choice" /\ v # Blank /\ v \notin e.choices
    <2>1. PICK c \in Cells : Matches(v, e.choices) = {c}
      BY <1>2 DEF IsAllowed
    <2>2. Canonical(e, v) = (CHOOSE x \in Cells : Matches(v, e.choices) = {x})
      BY <1>2 DEF Canonical
    <2>3. Canonical(e, v) \in Cells /\ Matches(v, e.choices) = {Canonical(e, v)}
      BY <2>1, <2>2
    <2>4. Canonical(e, v) \in e.choices
      BY <2>3 DEF Matches
    <2> QED
      BY <2>3, <2>4 DEF IsAllowed
  <1> QED
    BY <1>1, <1>2

LEMMA BlankAllowed == \A e : IsAllowed(e, Blank)
  BY DEF IsAllowed

LEMMA RowIsNotNone ==
    ASSUME NEW S \in SUBSET Names, NEW row \in [S -> Cells]
    PROVE  row # None
  OBVIOUS

-----------------------------------------------------------------------------
LEMMA InitIInv == Init => IInv
  <1> SUFFICES ASSUME Init PROVE IInv
    OBVIOUS
  <1>1. Columns = Listed(FirstHeaders) /\ schema = [c \in Columns |-> Text]
    BY DEF Init, Columns
  <1>2. Columns \subseteq Names /\ schema \in [Columns -> Entries]
    BY <1>1, TextInEntries DEF Listed
  <1>3. \A c \in Columns : schema[c].type = "text"
    BY <1>1 DEF Text
  <1>4. OfType(schema, "formula") = {} /\ OfType(schema, "count") = {}
    BY <1>3 DEF OfType, Columns
  <1>5. Present = {} /\ Live = {}
    BY DEF Init, Present, Live
  <1>6. Injective(headers) /\ Listed(headers) = Columns /\ headers \in Seq(Names)
    BY <1>1 DEF Init, Injective
  <1>7. index \in Writable
    <2>1. 1 \in DOMAIN FirstHeaders
      OBVIOUS
    <2>2. index \in Columns
      BY <1>1, <2>1 DEF Init, Listed
    <2> QED
      BY <1>3, <2>2 DEF Writable, IsCalculated
  <1>8. spent \in 1..MaxIds /\ ids \in [Columns -> 1..spent] /\ Injective(ids)
    BY <1>1 DEF Init, Injective, Listed
  <1>9. TypeOK
    BY <1>2, <1>5, <1>6, <1>7, <1>8 DEF Init, TypeOK
  <1>10. FormulasResolve
    BY <1>4 DEF FormulasResolve, FormulasCompile, References, Acyclic
  <1>11. CountsHaveRelationship /\ RelationshipsNameColumns /\ ChildrenOK
    BY <1>4, <1>5 DEF Init, CountsHaveRelationship, RelationshipsNameColumns,
       ChildrenOK, Counted
  <1> QED
    BY <1>5, <1>9, <1>10, <1>11 DEF IInv, ChoiceCellsAllowed

-----------------------------------------------------------------------------
(* Operations on the schema.                                               *)

LEMMA ChoicesByRow ==
    /\ ChoiceCellsAllowed <=>
         \A r \in Rows : data[r] # None => RowAllowed(data[r], schema)
    /\ \A sch : ExistingChoicesValid(sch) <=>
         \A r \in Rows : data[r] # None => RowAllowed(data[r], sch)
  BY DEF ChoiceCellsAllowed, ExistingChoicesValid, Present, RowAllowed, Cell,
     CellOf, Columns

(* What a schema step owes to the relationships, whatever it does to the   *)
(* columns: it counts none that is not live, and the ghost notes the race. *)
LEMMA ReshapedKeepsChildren ==
    ASSUME IInv, NEW sch, Reshaped(sch), schema' = sch,
           Counted(sch) \subseteq Live \cup raced, UNCHANGED <<incoming, child>>,
           \A k \in Counted(sch) : k \in Rels
    PROVE  /\ CountsHaveRelationship' /\ ChildrenOK'
           /\ raced \subseteq raced' /\ raced' \subseteq Rels
           /\ writer' = None
  <1>1. raced \subseteq raced' /\ raced' \subseteq Rels /\ writer' = None
    BY DEF Reshaped, IInv, TypeOK
  <1>2. Counted(schema)' = Counted(sch) /\ Live' = Live
    BY DEF Counted, OfType, Live
  <1>3. CountsHaveRelationship'
    BY <1>1, <1>2 DEF CountsHaveRelationship
  <1>4. ChildrenOK'
    BY <1>1, <1>2 DEF IInv, ChildrenOK, Reshaped
  <1> QED
    BY <1>1, <1>3, <1>4

LEMMA CountedAreRels ==
    ASSUME NEW D, NEW sch \in [D -> Entries]
    PROVE  \A k \in Counted(sch) : k \in Rels
  BY EntryShape DEF Counted, OfType

(* What is left to show of a schema step.                                  *)
LEMMA SchemaStepKeeps ==
    ASSUME IInv, Reshaped(schema'), UNCHANGED relationships,
           headers' \in Seq(Names), Injective(headers'), Listed(headers') = Columns',
           Columns' \subseteq Names, schema' \in [Columns' -> Entries],
           index' \in Writable',
           spent' \in 1..MaxIds, ids' \in [Columns' -> 1..spent'], Injective(ids'),
           DOMAIN data' = Rows,
           \A r \in Rows : data'[r] # None =>
                RowOK(data'[r], Columns', index') /\ RowAllowed(data'[r], schema'),
           FormulasCompile(schema'), Counted(schema') \subseteq Live \cup raced,
           outgoing \subseteq Columns', index' = index \/ Live = {}
    PROVE  IInv'
  <1>1. CountsHaveRelationship' /\ ChildrenOK'
        /\ raced \subseteq raced' /\ raced' \subseteq Rels /\ writer' = None
    BY CountedAreRels, ReshapedKeepsChildren DEF relationships
  <1>2. TypeOK'
    BY <1>1 DEF IInv, TypeOK, RowOK, Present, relationships
  <1>3. ChoiceCellsAllowed'
    BY DEF ChoiceCellsAllowed, Present, RowAllowed, Cell, CellOf, Columns
  <1>4. RelationshipsNameColumns'
    BY <1>1 DEF IInv, RelationshipsNameColumns, relationships, Live
  <1> QED
    BY <1>1, <1>2, <1>3, <1>4 DEF IInv, FormulasResolve

LEMMA AddColumnKeeps ==
    ASSUME IInv, NEW c \in Names, NEW e \in Entries, NEW v \in Cells, AddColumn(c, e, v)
    PROVE  IInv'
  <1> DEFINE next == With(schema, c, e)
             filled(row) == IF c \in DOMAIN row THEN row
                            ELSE With(row, c, Canonical(e, v))
  <1>1. c \notin Columns /\ CalculatedColumnsValid(next) /\ schema' = next
    BY DEF AddColumn
  <1>2. schema \in [Columns -> Entries] /\ Columns \subseteq Names
    BY DEF IInv, TypeOK
  <1>3. next \in [Columns \cup {c} -> Entries]
    BY <1>2, WithType
  <1>4. Columns' = Columns \cup {c} /\ DOMAIN next = Columns \cup {c}
    BY <1>1, <1>3 DEF Columns
  <1>5. next[c] = e /\ \A x \in Columns : next[x] = schema[x]
    BY <1>1, <1>2 DEF With, Columns
  <1>6. headers' \in Seq(Names) /\ Injective(headers') /\ Listed(headers') = Columns'
    <2>1. headers' = Append(headers, c)
      BY DEF AddColumn
    <2>2. headers \in Seq(Names) /\ Injective(headers) /\ Listed(headers) = Columns
      BY DEF IInv, TypeOK
    <2>3. \A k \in DOMAIN headers : headers[k] # c
      BY <1>1, <2>2 DEF Listed
    <2>4. /\ DOMAIN headers' = DOMAIN headers \cup {Len(headers) + 1}
          /\ headers'[Len(headers) + 1] = c
          /\ \A k \in DOMAIN headers : headers'[k] = headers[k]
      BY <2>1, <2>2
    <2>5. headers' \in Seq(Names)
      BY <2>1, <2>2
    <2>6. Injective(headers')
      BY <2>2, <2>3, <2>4 DEF Injective
    <2>7. Listed(headers') = Columns'
      BY <2>2, <2>4, <1>4 DEF Listed
    <2> QED
      BY <2>5, <2>6, <2>7
  <1>7. index' \in Writable'
    BY <1>1, <1>4, <1>5 DEF IInv, TypeOK, AddColumn, Writable
  <1>8. spent' \in 1..MaxIds /\ ids' \in [Columns' -> 1..spent'] /\ Injective(ids')
    <2>1. spent' = spent + 1 /\ ids' = With(ids, c, spent') /\ spent < MaxIds
      BY DEF AddColumn
    <2>2. spent \in 1..MaxIds /\ ids \in [Columns -> 1..spent] /\ Injective(ids)
      BY DEF IInv, TypeOK
    <2>3. ids \in [Columns -> 1..spent'] /\ spent' \in 1..spent'
      BY <2>1, <2>2
    <2>4. ids' \in [Columns' -> 1..spent']
      BY <2>1, <2>3, <1>4, WithType
    <2>5. ids'[c] = spent' /\ \A x \in Columns : ids'[x] = ids[x] /\ ids[x] # spent'
      BY <2>1, <2>2, <1>1 DEF With
    <2>6. Injective(ids')
      BY <2>2, <2>4, <2>5, <1>4 DEF Injective
    <2> QED
      BY <2>1, <2>2, <2>4, <2>6
  <1>9. DOMAIN data' = Rows /\
        \A r \in Rows : data'[r] # None =>
            data[r] # None /\ RowOK(data'[r], Columns', index') /\ RowAllowed(data'[r], next)
    <2>1. index' = index
      BY DEF AddColumn
    <2>2. SUFFICES ASSUME NEW r \in Rows, data'[r] # None
                   PROVE  data[r] # None /\ RowOK(data'[r], Columns', index')
                          /\ RowAllowed(data'[r], next)
      BY DEF AddColumn, EachRow, IInv, TypeOK
    <2>3. data[r] # None
      BY <2>2 DEF AddColumn, EachRow
    <2>4. PICK keys \in SUBSET Columns : index \in keys /\ data[r] \in [keys -> Cells]
      BY <2>3 DEF IInv, TypeOK, Present
    <2>5. RowAllowed(data[r], schema)
      BY <2>3, ChoicesByRow DEF IInv
    <2>6. c \notin keys
      BY <1>1, <2>4
    <2>7. CASE IsCalculated(e)
      <3>1. data'[r] = data[r]
        BY <2>7 DEF AddColumn
      <3>2. CellOf(data[r], c) = Blank
        BY <2>4, <2>6 DEF CellOf
      <3>3. \A x \in Columns : IsAllowed(next[x], CellOf(data[r], x))
        BY <1>5, <2>5 DEF RowAllowed, Columns
      <3> QED
        BY <3>1, <3>2, <3>3, <1>4, <2>1, <2>3, <2>4, BlankAllowed DEF RowOK, RowAllowed
    <2>8. CASE ~IsCalculated(e)
      <3>1. data'[r] = With(data[r], c, Canonical(e, v)) /\ IsAllowed(e, v)
        BY <2>3, <2>4, <2>6, <2>8 DEF AddColumn, EachRow
      <3>2. Canonical(e, v) \in Cells /\ IsAllowed(e, Canonical(e, v))
        BY <3>1, CanonicalAllowed
      <3>3. data'[r] \in [keys \cup {c} -> Cells]
        <4>1. With(data[r], c, Canonical(e, v)) \in [keys \cup {c} -> Cells]
          BY <3>2, <2>4, WithType
        <4> QED
          BY <4>1, <3>1
      <3>4. CellOf(data'[r], c) = Canonical(e, v)
            /\ \A x \in Columns : CellOf(data'[r], x) = CellOf(data[r], x)
        BY <3>1, <2>4, <2>6, <1>1 DEF CellOf, With
      <3>5. RowAllowed(data'[r], next)
        BY <3>2, <3>4, <1>4, <1>5, <2>5 DEF RowAllowed, Columns
      <3>6. RowOK(data'[r], Columns', index')
        BY <3>3, <1>4, <2>1, <2>4 DEF RowOK
      <3> QED
        BY <3>5, <3>6, <2>3
    <2> QED
      BY <2>7, <2>8
  <1>10. Reshaped(next) /\ UNCHANGED <<index, relationships>>
    BY DEF AddColumn
  <1>11. FormulasCompile(next) /\ Counted(next) \subseteq Live \cup raced
    BY <1>1 DEF CalculatedColumnsValid
  <1>12. outgoing \subseteq Columns' /\ index' = index
    BY <1>4, <1>10 DEF IInv, RelationshipsNameColumns
  <1> QED
    BY <1>1, <1>2, <1>3, <1>4, <1>6, <1>7, <1>8, <1>9, <1>10, <1>11, <1>12,
       SchemaStepKeeps

(* Retyping: rows stay as they are, and were looked at.                    *)
LEMMA RetypeColumnKeeps ==
    ASSUME IInv, NEW c \in Names, NEW e \in Entries, RetypeColumn(c, e)
    PROVE  IInv'
  <1>1. schema' = [schema EXCEPT ![c] = e] /\ c \in Columns
        /\ CalculatedColumnsValid(schema') /\ ExistingChoicesValid(schema')
        /\ Reshaped(schema') /\ (c = index => ~IsCalculated(e))
        /\ UNCHANGED <<headers, index, data, ids, spent, relationships>>
    BY DEF RetypeColumn
  <1>2. Columns' = Columns /\ schema' \in [Columns' -> Entries]
    BY <1>1 DEF IInv, TypeOK, Columns
  <1>3. index' \in Writable'
    BY <1>1, <1>2 DEF IInv, TypeOK, Writable, Columns
  <1>4. \A r \in Rows : data'[r] # None =>
            RowOK(data'[r], Columns', index') /\ RowAllowed(data'[r], schema')
    BY <1>1, <1>2, ChoicesByRow DEF IInv, TypeOK, RowOK, Present
  <1>5. headers' \in Seq(Names) /\ Injective(headers') /\ Listed(headers') = Columns'
        /\ Columns' \subseteq Names /\ DOMAIN data' = Rows
    BY <1>1, <1>2 DEF IInv, TypeOK
  <1>6. spent' \in 1..MaxIds /\ ids' \in [Columns' -> 1..spent'] /\ Injective(ids')
    BY <1>1, <1>2 DEF IInv, TypeOK
  <1>7. FormulasCompile(schema') /\ Counted(schema') \subseteq Live \cup raced
    BY <1>1 DEF CalculatedColumnsValid
  <1>8. outgoing \subseteq Columns'
    BY <1>2 DEF IInv, RelationshipsNameColumns
  <1> QED
    BY <1>1, <1>2, <1>3, <1>4, <1>5, <1>6, <1>7, <1>8, SchemaStepKeeps

-----------------------------------------------------------------------------
(* No formula refers to a column that is renamed or dropped, so the        *)
(* formulas keep their references and their order.                         *)

LEMMA WithoutCompiles ==
    ASSUME IInv, NEW c \in Columns, ~IsReferenced(c)
    PROVE  /\ FormulasCompile(Without(schema, c))
           /\ Counted(Without(schema, c)) \subseteq Counted(schema)
  <1> DEFINE next == Without(schema, c)
  <1>1. DOMAIN next = Columns \ {c} /\ \A x \in DOMAIN next : next[x] = schema[x]
    BY DEF Without, Columns
  <1>2. \A type : OfType(next, type) = OfType(schema, type) \ {c}
    BY <1>1 DEF OfType, Columns
  <1> HIDE DEF next
  <1>3. References(next) \subseteq References(schema) \ {c}
    BY <1>1, <1>2 DEF References, IsReferenced, OfType, Columns
  <1>4. References(next) \subseteq DOMAIN next \ OfType(next, "count")
    BY <1>1, <1>2, <1>3 DEF IInv, FormulasResolve, FormulasCompile, Columns
  <1>5. Acyclic(next)
    <2> SUFFICES ASSUME NEW s \in SUBSET OfType(next, "formula"), s # {}
                 PROVE  \E x \in s : next[x].refs \cap s = {}
      BY DEF Acyclic
    <2>1. s \in SUBSET OfType(schema, "formula")
      BY <1>2
    <2>2. PICK x \in s : schema[x].refs \cap s = {}
      BY <2>1 DEF IInv, FormulasResolve, FormulasCompile, Acyclic
    <2>3. x \in DOMAIN next
      BY DEF OfType
    <2> QED
      BY <1>1, <2>2, <2>3
  <1>6. Counted(next) \subseteq Counted(schema)
    BY <1>1, <1>2 DEF Counted, OfType, Columns
  <1> QED
    BY <1>4, <1>5, <1>6 DEF FormulasCompile, next

LEMMA RenamedCompiles ==
    ASSUME IInv, NEW o \in Columns, NEW n, n \notin Columns \ {o}, ~IsReferenced(o)
    PROVE  /\ FormulasCompile(Renamed(schema, o, n))
           /\ Counted(Renamed(schema, o, n)) \subseteq Counted(schema)
  <1> DEFINE next == Renamed(schema, o, n)
             was(x) == IF x = n THEN o ELSE x
  <1>1. DOMAIN next = (Columns \ {o}) \cup {n}
        /\ \A x \in DOMAIN next : was(x) \in Columns /\ next[x] = schema[was(x)]
    BY DEF Renamed, Columns
  <1>2. \A type : \A x : x \in OfType(next, type) <=>
            x \in DOMAIN next /\ was(x) \in OfType(schema, type)
    BY <1>1 DEF OfType, Columns
  <1> HIDE DEF next
  <1>3. References(schema) \subseteq Columns \ {o} /\ n \notin References(schema)
    BY DEF IInv, FormulasResolve, FormulasCompile, IsReferenced, Columns
  <1>4. \A x \in OfType(next, "formula") : next[x].refs \subseteq References(schema)
    BY <1>1, <1>2 DEF References, OfType
  <1>5. References(next) \subseteq References(schema)
    BY <1>4 DEF References
  <1>6. References(next) \subseteq DOMAIN next \ OfType(next, "count")
    <2> SUFFICES ASSUME NEW x \in References(next)
                 PROVE  x \in DOMAIN next /\ x \notin OfType(next, "count")
      OBVIOUS
    <2>1. x \in Columns \ {o} /\ x # n /\ x \notin OfType(schema, "count")
      BY <1>3, <1>5 DEF IInv, FormulasResolve, FormulasCompile
    <2> QED
      BY <2>1, <1>1, <1>2
  <1>7. Acyclic(next)
    <2> SUFFICES ASSUME NEW s \in SUBSET OfType(next, "formula"), s # {}
                 PROVE  \E x \in s : next[x].refs \cap s = {}
      BY DEF Acyclic
    <2> DEFINE old == {was(x) : x \in s}
    <2>1. old \in SUBSET OfType(schema, "formula") /\ old # {}
      BY <1>2
    <2>2. PICK y \in old : schema[y].refs \cap old = {}
      BY <2>1 DEF IInv, FormulasResolve, FormulasCompile, Acyclic
    <2>3. PICK x \in s : y = was(x)
      BY <2>2
    <2>4. next[x].refs = schema[y].refs /\ next[x].refs \subseteq References(schema)
      BY <1>1, <1>4, <2>3 DEF OfType
    <2>5. \A z \in next[x].refs : z \notin s
      <3> SUFFICES ASSUME NEW z \in next[x].refs, z \in s PROVE FALSE
        OBVIOUS
      <3>1. z # n
        BY <2>4, <1>3
      <3>2. z \in old
        BY <3>1
      <3> QED
        BY <3>2, <2>2, <2>4
    <2> QED
      BY <2>5
  <1>8. Counted(next) \subseteq Counted(schema)
    <2> SUFFICES ASSUME NEW x \in OfType(next, "count")
                 PROVE  next[x].rel \in Counted(schema)
      BY DEF Counted
    <2>1. was(x) \in OfType(schema, "count") /\ next[x] = schema[was(x)]
      BY <1>1, <1>2
    <2> HIDE DEF was
    <2> QED
      BY <2>1 DEF Counted
  <1> QED
    BY <1>6, <1>7, <1>8 DEF FormulasCompile, next

LEMMA RenameColumnKeeps ==
    ASSUME IInv, NEW o \in Names, NEW n \in Names, RenameColumn(o, n)
    PROVE  IInv'
  <1> DEFINE relabelled(row) == With(Without(row, o), n, CellOf(row, o))
  <1>1. /\ o \in Columns /\ n \notin Columns \ {o} /\ IsFree(o) /\ ~IsReferenced(o)
        /\ schema' = Renamed(schema, o, n) /\ Reshaped(schema')
        /\ index' = (IF index = o THEN n ELSE index)
        /\ ids' = Renamed(ids, o, n) /\ spent' = spent /\ UNCHANGED relationships
    BY DEF RenameColumn
  <1>2. Columns' = (Columns \ {o}) \cup {n} /\ schema' \in [Columns' -> Entries]
        /\ Columns' \subseteq Names
    <2>1. schema \in [Columns -> Entries] /\ Columns \subseteq Names
      BY DEF IInv, TypeOK
    <2>2. Renamed(schema, o, n) \in [(Columns \ {o}) \cup {n} -> Entries]
      BY <1>1, <2>1, RenamedType
    <2> QED
      BY <1>1, <2>1, <2>2 DEF Columns
  <1>3. schema'[n] = schema[o] /\ \A x \in Columns \ {o} : schema'[x] = schema[x]
    BY <1>1 DEF Renamed, Columns
  <1>4. headers' \in Seq(Names) /\ Injective(headers') /\ Listed(headers') = Columns'
    <2>1. headers' = [k \in DOMAIN headers |-> IF headers[k] = o THEN n ELSE headers[k]]
      BY DEF RenameColumn
    <2>2. headers \in Seq(Names) /\ Injective(headers) /\ Listed(headers) = Columns
      BY DEF IInv, TypeOK
    <2>3. DOMAIN headers = 1..Len(headers) /\ Len(headers) \in Nat
      BY <2>2
    <2>4. headers' \in Seq(Names)
      BY <2>1, <2>2, <2>3
    <2>5. \A k \in DOMAIN headers : headers[k] \in Columns
      BY <2>2 DEF Listed
    <2>6. Injective(headers')
      BY <2>1, <2>2, <2>5, <1>1 DEF Injective
    <2>7. Listed(headers') = Columns'
      <3>1. PICK p \in DOMAIN headers : headers[p] = o
        BY <1>1, <2>2 DEF Listed
      <3>2. Listed(headers') \subseteq Columns'
        BY <2>1, <2>5, <1>2 DEF Listed
      <3>3. \A x \in Columns \ {o} : x \in Listed(headers')
        BY <2>1, <2>2 DEF Listed
      <3>4. n \in Listed(headers')
        BY <2>1, <3>1 DEF Listed
      <3> QED
        BY <3>2, <3>3, <3>4, <1>2
    <2> QED
      BY <2>4, <2>6, <2>7
  <1>5. index' \in Writable'
    BY <1>1, <1>2, <1>3 DEF IInv, TypeOK, Writable
  <1>6. spent' \in 1..MaxIds /\ ids' \in [Columns' -> 1..spent'] /\ Injective(ids')
    <2>1. spent \in 1..MaxIds /\ ids \in [Columns -> 1..spent] /\ Injective(ids)
      BY DEF IInv, TypeOK
    <2>2. Renamed(ids, o, n) \in [(Columns \ {o}) \cup {n} -> 1..spent]
      BY <1>1, <2>1, RenamedType
    <2>3. ids'[n] = ids[o] /\ \A x \in Columns \ {o} : ids'[x] = ids[x]
      BY <1>1, <2>1 DEF Renamed
    <2>4. Injective(ids')
      BY <1>1, <2>1, <2>2, <2>3 DEF Injective
    <2> QED
      BY <1>1, <1>2, <2>1, <2>2, <2>4
  <1>7. DOMAIN data' = Rows /\
        \A r \in Rows : data'[r] # None =>
            RowOK(data'[r], Columns', index') /\ RowAllowed(data'[r], schema')
    <2>1. DOMAIN data' = Rows
      BY DEF RenameColumn, EachRow
    <2> SUFFICES ASSUME NEW r \in Rows, data'[r] # None
                 PROVE  RowOK(data'[r], Columns', index') /\ RowAllowed(data'[r], schema')
      BY <2>1
    <2>2. data[r] # None /\ data'[r] = relabelled(data[r])
      BY DEF RenameColumn, EachRow
    <2>3. PICK keys \in SUBSET Columns : index \in keys /\ data[r] \in [keys -> Cells]
      BY <2>2 DEF IInv, TypeOK, Present
    <2>4. RowAllowed(data[r], schema)
      BY <2>2, ChoicesByRow DEF IInv
    <2>5. CellOf(data[r], o) \in Cells
      BY <2>3 DEF CellOf
    <2>6. Without(data[r], o) \in [keys \ {o} -> Cells]
      BY <2>3, WithoutType
    <2>7. data'[r] \in [(keys \ {o}) \cup {n} -> Cells]
      <3>1. With(Without(data[r], o), n, CellOf(data[r], o)) \in [(keys \ {o}) \cup {n} -> Cells]
        BY <2>5, <2>6, WithType
      <3> QED
        BY <3>1, <2>2
    <2>8. CellOf(data'[r], n) = CellOf(data[r], o)
          /\ \A x \in Columns \ {o} : CellOf(data'[r], x) = CellOf(data[r], x)
      BY <2>2, <2>3, <2>5, <1>1 DEF CellOf, With, Without
    <2>9. RowAllowed(data'[r], schema')
      BY <1>1, <1>2, <1>3, <2>4, <2>8 DEF RowAllowed, Columns
    <2>10. index' \in (keys \ {o}) \cup {n} /\ (keys \ {o}) \cup {n} \subseteq Columns'
      BY <1>1, <1>2, <2>3
    <2> QED
      BY <2>7, <2>9, <2>10 DEF RowOK
  <1>8. FormulasCompile(schema') /\ Counted(schema') \subseteq Live \cup raced
    BY <1>1, RenamedCompiles DEF IInv, CountsHaveRelationship
  <1>9. outgoing \subseteq Columns' /\ (index' = index \/ Live = {})
    BY <1>1, <1>2 DEF IInv, RelationshipsNameColumns, IsFree
  <1> QED
    BY <1>1, <1>2, <1>4, <1>5, <1>6, <1>7, <1>8, <1>9, SchemaStepKeeps

LEMMA DropColumnKeeps ==
    ASSUME IInv, NEW c \in Names, DropColumn(c)
    PROVE  IInv'
  <1>1. /\ c \in Columns /\ c # index /\ IsFree(c) /\ ~IsReferenced(c)
        /\ schema' = Without(schema, c) /\ Reshaped(schema')
        /\ ids' = Without(ids, c) /\ UNCHANGED <<index, spent, relationships>>
    BY DEF DropColumn
  <1>2. Columns' = Columns \ {c} /\ schema' \in [Columns' -> Entries]
        /\ Columns' \subseteq Names
    <2>1. schema \in [Columns -> Entries] /\ Columns \subseteq Names
      BY DEF IInv, TypeOK
    <2>2. Without(schema, c) \in [Columns \ {c} -> Entries]
      BY <2>1, WithoutType
    <2> QED
      BY <1>1, <2>1, <2>2 DEF Columns
  <1>3. \A x \in Columns' : schema'[x] = schema[x]
    BY <1>1, <1>2 DEF Without, Columns
  <1>4. headers' \in Seq(Names) /\ Injective(headers') /\ Listed(headers') = Columns'
    <2>1. PICK p \in DOMAIN headers : headers[p] = c /\ headers' = Cut(headers, p)
      BY DEF DropColumn
    <2>2. headers \in Seq(Names) /\ Injective(headers) /\ Listed(headers) = Columns
      BY DEF IInv, TypeOK
    <2>3. DOMAIN headers = 1..Len(headers) /\ Len(headers) \in Nat /\ p \in 1..Len(headers)
      BY <2>1, <2>2
    <2> DEFINE from(k) == IF k < p THEN k ELSE k + 1
    <2>4. /\ DOMAIN headers' = 1..(Len(headers) - 1)
          /\ \A k \in DOMAIN headers' : from(k) \in DOMAIN headers \ {p}
                                        /\ headers'[k] = headers[from(k)]
      BY <2>1, <2>3 DEF Cut
    <2>5. headers' \in Seq(Names)
      <3>1. \A k \in DOMAIN headers : headers[k] \in Names
        BY <2>2
      <3>2. Len(headers) - 1 \in Nat
        BY <2>3
      <3>3. headers' \in [1..(Len(headers) - 1) -> Names]
        BY <2>1, <2>4, <3>1 DEF Cut
      <3> QED
        BY <3>2, <3>3, FunctionIsSeq
    <2>6. Injective(headers')
      <3> SUFFICES ASSUME NEW x \in DOMAIN headers', NEW y \in DOMAIN headers',
                          headers'[x] = headers'[y]
                   PROVE  x = y
        BY DEF Injective
      <3>1. from(x) = from(y)
        BY <2>2, <2>4 DEF Injective
      <3> QED
        BY <3>1, <2>3, <2>4
    <2>7. Listed(headers') \subseteq Columns'
      <3> SUFFICES ASSUME NEW k \in DOMAIN headers' PROVE headers'[k] \in Columns \ {c}
        BY <1>2 DEF Listed
      <3>1. from(k) \in DOMAIN headers /\ from(k) # p /\ headers'[k] = headers[from(k)]
        BY <2>4
      <3> HIDE DEF from
      <3> QED
        BY <3>1, <2>1, <2>2 DEF Injective, Listed
    <2>8. ASSUME NEW x \in Columns' PROVE x \in Listed(headers')
      <3>1. PICK k \in DOMAIN headers : headers[k] = x
        BY <1>2, <2>2, <2>8 DEF Listed
      <3>2. k # p
        BY <1>2, <2>1, <2>8, <3>1
      <3>3. CASE k < p
        <4>1. k \in DOMAIN headers' /\ from(k) = k
          BY <3>3, <2>3, <2>4
        <4> QED
          BY <4>1, <3>1, <2>4 DEF Listed
      <3>4. CASE k > p
        <4>1. k - 1 \in DOMAIN headers' /\ from(k - 1) = k
          BY <3>4, <2>3, <2>4
        <4> QED
          BY <4>1, <3>1, <2>4 DEF Listed
      <3> QED
        BY <3>2, <3>3, <3>4, <2>3
    <2> QED
      BY <2>5, <2>6, <2>7, <2>8
  <1>5. index' \in Writable'
    BY <1>1, <1>2, <1>3 DEF IInv, TypeOK, Writable
  <1>6. spent' \in 1..MaxIds /\ ids' \in [Columns' -> 1..spent'] /\ Injective(ids')
    <2>1. spent \in 1..MaxIds /\ ids \in [Columns -> 1..spent] /\ Injective(ids)
      BY DEF IInv, TypeOK
    <2>2. Without(ids, c) \in [Columns \ {c} -> 1..spent]
      BY <2>1, WithoutType
    <2>3. \A x \in Columns \ {c} : ids'[x] = ids[x]
      BY <1>1, <2>1 DEF Without
    <2>4. Injective(ids')
      BY <1>1, <2>1, <2>2, <2>3 DEF Injective
    <2> QED
      BY <1>1, <1>2, <2>1, <2>2, <2>4
  <1>7. DOMAIN data' = Rows /\
        \A r \in Rows : data'[r] # None =>
            RowOK(data'[r], Columns', index') /\ RowAllowed(data'[r], schema')
    <2>1. DOMAIN data' = Rows
      BY DEF DropColumn, EachRow
    <2> SUFFICES ASSUME NEW r \in Rows, data'[r] # None
                 PROVE  RowOK(data'[r], Columns', index') /\ RowAllowed(data'[r], schema')
      BY <2>1
    <2>2. data[r] # None /\ data'[r] = Without(data[r], c)
      BY DEF DropColumn, EachRow
    <2>3. PICK keys \in SUBSET Columns : index \in keys /\ data[r] \in [keys -> Cells]
      BY <2>2 DEF IInv, TypeOK, Present
    <2>4. RowAllowed(data[r], schema)
      BY <2>2, ChoicesByRow DEF IInv
    <2>5. data'[r] \in [keys \ {c} -> Cells]
      <3>1. Without(data[r], c) \in [keys \ {c} -> Cells]
        BY <2>3, WithoutType
      <3> QED
        BY <3>1, <2>2
    <2>6. \A x \in Columns' : CellOf(data'[r], x) = CellOf(data[r], x)
      BY <2>2, <2>3, <1>2 DEF CellOf, Without
    <2>7. RowAllowed(data'[r], schema')
      BY <1>2, <1>3, <2>4, <2>6 DEF RowAllowed, Columns
    <2>8. index' \in keys \ {c} /\ keys \ {c} \subseteq Columns'
      BY <1>1, <1>2, <2>3
    <2> QED
      BY <2>5, <2>7, <2>8 DEF RowOK
  <1>8. FormulasCompile(schema') /\ Counted(schema') \subseteq Live \cup raced
    BY <1>1, WithoutCompiles DEF IInv, CountsHaveRelationship
  <1>9. outgoing \subseteq Columns' /\ index' = index
    BY <1>1, <1>2 DEF IInv, RelationshipsNameColumns, IsFree
  <1> QED
    BY <1>1, <1>2, <1>4, <1>5, <1>6, <1>7, <1>8, <1>9, SchemaStepKeeps

(* A reordering changes no set: what the invariant says stays.             *)
LEMMA ReorderColumnsKeeps ==
    ASSUME IInv, NEW order \in Orders, ReorderColumns(order)
    PROVE  IInv'
  <1>1. UNCHANGED <<schema, index, data, raced, ids, spent, relationships>>
        /\ writer' = None /\ headers' = order
        /\ Listed(order) = Columns /\ Injective(order) /\ order \in Seq(Names)
    BY DEF ReorderColumns
  <1>2. Columns' = Columns /\ Writable' = Writable /\ Present' = Present /\ Live' = Live
    BY <1>1 DEF Columns, Writable, Present, Live, relationships
  <1>3. TypeOK'
    BY <1>1, <1>2 DEF IInv, TypeOK, relationships
  <1>4. FormulasResolve' /\ CountsHaveRelationship' /\ ChildrenOK'
    BY <1>1, <1>2 DEF IInv, FormulasResolve, CountsHaveRelationship, ChildrenOK, relationships
  <1>5. ChoiceCellsAllowed' /\ RelationshipsNameColumns'
    BY <1>1, <1>2 DEF IInv, ChoiceCellsAllowed, Cell, RelationshipsNameColumns, relationships
  <1> QED
    BY <1>3, <1>4, <1>5 DEF IInv

-----------------------------------------------------------------------------
(* Operations on rows: one row becomes another that the schema allows.     *)

LEMMA RowStepKeeps ==
    ASSUME IInv, UNCHANGED <<headers, schema, index, raced, ids, spent, relationships>>,
           writer' \in Rows, DOMAIN data' = Rows,
           \A r \in Rows : data'[r] # None =>
                RowOK(data'[r], Columns, index) /\ RowAllowed(data'[r], schema)
    PROVE  IInv'
  <1>1. Columns' = Columns /\ Writable' = Writable /\ Live' = Live
    BY DEF Columns, Writable, Live, relationships
  <1>2. TypeOK'
    BY <1>1 DEF IInv, TypeOK, RowOK, Present, relationships
  <1>3. ChoiceCellsAllowed'
    BY <1>1 DEF ChoiceCellsAllowed, Present, RowAllowed, Cell, CellOf, Columns
  <1>4. FormulasResolve' /\ CountsHaveRelationship' /\ ChildrenOK' /\ RelationshipsNameColumns'
    BY <1>1 DEF IInv, FormulasResolve, CountsHaveRelationship, ChildrenOK,
       RelationshipsNameColumns, relationships
  <1> QED
    BY <1>2, <1>3, <1>4 DEF IInv

LEMMA RowsAreOK ==
    ASSUME IInv
    PROVE  \A r \in Rows : data[r] # None =>
                RowOK(data[r], Columns, index) /\ RowAllowed(data[r], schema)
  BY ChoicesByRow DEF IInv, TypeOK, RowOK, Present

LEMMA CreateRowKeeps ==
    ASSUME IInv, NEW r \in Rows, NEW row \in [Writable -> Cells], CreateRow(r, row)
    PROVE  IInv'
  <1> DEFINE stored == [c \in Writable |-> Canonical(schema[c], row[c])]
  <1>1. data' = [data EXCEPT ![r] = stored] /\ writer' = r
        /\ UNCHANGED <<headers, schema, index, raced, ids, spent, relationships>>
        /\ \A c \in Writable : IsAllowed(schema[c], row[c])
    BY DEF CreateRow
  <1>2. \A c \in Writable : stored[c] \in Cells /\ IsAllowed(schema[c], stored[c])
    <2> TAKE c \in Writable
    <2>1. schema[c] \in Entries /\ row[c] \in Cells
      BY DEF IInv, TypeOK, Writable
    <2> QED
      BY <2>1, <1>1, CanonicalAllowed
  <1>3. stored \in [Writable -> Cells] /\ Writable \subseteq Columns /\ index \in Writable
    BY <1>2 DEF IInv, TypeOK, Writable
  <1>4. RowOK(stored, Columns, index)
    BY <1>3 DEF RowOK
  <1>5. RowAllowed(stored, schema)
    BY <1>2, <1>3, BlankAllowed DEF RowAllowed, CellOf
  <1>6. \A q \in Rows : data'[q] # None =>
            RowOK(data'[q], Columns, index) /\ RowAllowed(data'[q], schema)
    BY <1>1, <1>4, <1>5, RowsAreOK DEF IInv, TypeOK
  <1>7. DOMAIN data' = Rows
    BY <1>1 DEF IInv, TypeOK
  <1> QED
    BY <1>1, <1>6, <1>7, RowStepKeeps

LEMMA PatchRowKeeps ==
    ASSUME IInv, NEW r \in Rows, NEW c, NEW v \in Cells, PatchRow(r, c, v)
    PROVE  IInv'
  <1> DEFINE stored == Canonical(schema[c], v)
  <1>1. data' = [data EXCEPT ![r] = With(data[r], c, stored)] /\ writer' = r
        /\ UNCHANGED <<headers, schema, index, raced, ids, spent, relationships>>
        /\ r \in Present /\ c \in Writable /\ IsAllowed(schema[c], v)
    BY DEF PatchRow
  <1>2. schema[c] \in Entries /\ c \in Columns
    BY <1>1 DEF IInv, TypeOK, Writable
  <1>3. stored \in Cells /\ IsAllowed(schema[c], stored)
    BY <1>1, <1>2, CanonicalAllowed
  <1> HIDE DEF stored
  <1>4. PICK keys \in SUBSET Columns : index \in keys /\ data[r] \in [keys -> Cells]
    BY <1>1 DEF IInv, TypeOK
  <1> DEFINE new == With(data[r], c, stored)
  <1>5. new \in [keys \cup {c} -> Cells]
    BY <1>3, <1>4, WithType
  <1>6. CellOf(new, c) = stored /\ \A x : x # c => CellOf(new, x) = CellOf(data[r], x)
    BY <1>4 DEF CellOf, With
  <1>7. RowAllowed(data[r], schema)
    BY <1>1, RowsAreOK DEF Present
  <1>8. RowOK(new, Columns, index)
    BY <1>2, <1>4, <1>5 DEF RowOK
  <1>9. RowAllowed(new, schema)
    BY <1>3, <1>6, <1>7 DEF RowAllowed
  <1> HIDE DEF new
  <1>10. data' = [data EXCEPT ![r] = new]
    BY <1>1 DEF new
  <1>11. \A q \in Rows : data'[q] # None =>
            RowOK(data'[q], Columns, index) /\ RowAllowed(data'[q], schema)
    BY <1>8, <1>9, <1>10, RowsAreOK DEF IInv, TypeOK
  <1>12. DOMAIN data' = Rows
    BY <1>10 DEF IInv, TypeOK
  <1> QED
    BY <1>1, <1>11, <1>12, RowStepKeeps

LEMMA DeleteRowKeeps ==
    ASSUME IInv, NEW r \in Rows, DeleteRow(r)
    PROVE  IInv'
  <1>1. data' = [data EXCEPT ![r] = None] /\ writer' = r
        /\ UNCHANGED <<headers, schema, index, raced, ids, spent, relationships>>
    BY DEF DeleteRow
  <1>2. \A q \in Rows : data'[q] # None =>
            RowOK(data'[q], Columns, index) /\ RowAllowed(data'[q], schema)
    BY <1>1, RowsAreOK DEF IInv, TypeOK
  <1>3. DOMAIN data' = Rows
    BY <1>1 DEF IInv, TypeOK
  <1> QED
    BY <1>1, <1>2, <1>3, RowStepKeeps

-----------------------------------------------------------------------------
(* Steps of relationships, which leave the columns and the rows alone.     *)

LEMMA RelationshipStepKeeps ==
    ASSUME IInv, UNCHANGED <<headers, schema, index, data, ids, spent, writer>>,
           incoming' \in [Rels -> {"none", "live", "gone"}],
           target' \in [Rels -> Names \cup {None}],
           child' \in [Rels -> {"idle", "creating", "deleting"}],
           outgoing' \subseteq Columns, raced' \subseteq Rels, raced \subseteq raced',
           \A k \in Live : k \in Live' \/ k \notin Counted(schema) \/ k \in raced',
           \A k \in Rels : incoming'[k] = "live" => target'[k] = index \/ k \in raced',
           ChildrenOK'
    PROVE  IInv'
  <1>1. Columns' = Columns /\ Writable' = Writable /\ Present' = Present
        /\ Counted(schema)' = Counted(schema)
    BY DEF Columns, Writable, Present, Counted, OfType
  <1>2. TypeOK'
    BY <1>1 DEF IInv, TypeOK, RelationshipsNameColumns
  <1>3. FormulasResolve' /\ ChoiceCellsAllowed'
    BY <1>1 DEF IInv, FormulasResolve, ChoiceCellsAllowed, Cell
  <1>4. CountsHaveRelationship'
    BY <1>1 DEF IInv, CountsHaveRelationship
  <1>5. RelationshipsNameColumns'
    BY <1>1 DEF RelationshipsNameColumns, Live
  <1> QED
    BY <1>2, <1>3, <1>4, <1>5 DEF IInv

LEMMA OutgoingKeeps ==
    ASSUME IInv, NEW c \in Names, CreateOutgoing(c) \/ DeleteOutgoing(c)
    PROVE  IInv'
  <1>1. UNCHANGED <<headers, schema, index, data, ids, spent, writer>>
        /\ UNCHANGED <<incoming, target, child, raced>> /\ outgoing' \subseteq Columns
    BY DEF IInv, RelationshipsNameColumns, CreateOutgoing, DeleteOutgoing, Writable
  <1>2. ChildrenOK' /\ Live' = Live
    BY <1>1 DEF IInv, ChildrenOK, Live
  <1>3. incoming' \in [Rels -> {"none", "live", "gone"}]
        /\ target' \in [Rels -> Names \cup {None}]
        /\ child' \in [Rels -> {"idle", "creating", "deleting"}]
        /\ raced' \subseteq Rels
    BY <1>1 DEF IInv, TypeOK
  <1>4. \A k \in Rels : incoming'[k] = "live" => target'[k] = index \/ k \in raced'
    BY <1>1 DEF IInv, RelationshipsNameColumns, Live
  <1> QED
    BY <1>1, <1>2, <1>3, <1>4, RelationshipStepKeeps

LEMMA BeginKeeps ==
    ASSUME IInv, NEW k \in Rels, BeginCreate(k) \/ BeginDelete(k)
    PROVE  IInv'
  <1>1. UNCHANGED <<headers, schema, index, data, ids, spent, writer>>
        /\ UNCHANGED <<incoming, outgoing, raced>> /\ Live' = Live
    BY DEF BeginCreate, BeginDelete, Live
  <1>2. index \in Names
    BY DEF IInv, TypeOK, Writable
  <1>3. incoming' \in [Rels -> {"none", "live", "gone"}]
        /\ target' \in [Rels -> Names \cup {None}]
        /\ child' \in [Rels -> {"idle", "creating", "deleting"}]
        /\ outgoing' \subseteq Columns /\ raced' \subseteq Rels
    <2>1. incoming' \in [Rels -> {"none", "live", "gone"}]
          /\ outgoing' \subseteq Columns /\ raced' \subseteq Rels
      BY <1>1 DEF IInv, TypeOK, RelationshipsNameColumns
    <2>2. CASE BeginCreate(k)
      BY <2>1, <2>2, <1>2 DEF IInv, TypeOK, BeginCreate
    <2>3. CASE BeginDelete(k)
      BY <2>1, <2>3 DEF IInv, TypeOK, BeginDelete
    <2> QED
      BY <2>2, <2>3
  <1>4. \A j \in Rels : incoming'[j] = "live" => target'[j] = index \/ j \in raced'
    <2>1. \A j \in Rels : incoming[j] = "live" => target'[j] = target[j]
      BY DEF BeginCreate, BeginDelete, IInv, TypeOK
    <2> QED
      BY <2>1, <1>1 DEF IInv, RelationshipsNameColumns, Live
  <1>5. ChildrenOK'
    <2>1. Counted(schema)' = Counted(schema)
      BY <1>1 DEF Counted, OfType
    <2> QED
      BY <2>1, <1>1 DEF IInv, TypeOK, ChildrenOK, BeginCreate, BeginDelete
  <1> QED
    BY <1>1, <1>3, <1>4, <1>5, RelationshipStepKeeps

LEMMA CommitCreateKeeps ==
    ASSUME IInv, NEW k \in Rels, CommitCreate(k)
    PROVE  IInv'
  <1>1. UNCHANGED <<headers, schema, index, data, ids, spent, writer>>
        /\ UNCHANGED <<outgoing, target>>
        /\ incoming' = [incoming EXCEPT ![k] = "live"] /\ child[k] = "creating"
        /\ child' = [child EXCEPT ![k] = "idle"]
        /\ raced' = IF target[k] = index THEN raced ELSE raced \cup {k}
    BY DEF CommitCreate
  <1>2. incoming' \in [Rels -> {"none", "live", "gone"}]
        /\ target' \in [Rels -> Names \cup {None}]
        /\ child' \in [Rels -> {"idle", "creating", "deleting"}]
        /\ outgoing' \subseteq Columns /\ raced' \subseteq Rels /\ raced \subseteq raced'
    BY <1>1 DEF IInv, TypeOK, RelationshipsNameColumns
  <1>3. Live \subseteq Live'
    BY <1>1 DEF IInv, TypeOK, Live
  <1>4. \A j \in Rels : incoming'[j] = "live" => target'[j] = index \/ j \in raced'
    BY <1>1 DEF IInv, TypeOK, RelationshipsNameColumns, Live
  <1>5. ChildrenOK'
    <2>1. Counted(schema)' = Counted(schema)
      BY <1>1 DEF Counted, OfType
    <2> QED
      BY <2>1, <1>1, <1>2 DEF IInv, TypeOK, ChildrenOK
  <1> QED
    BY <1>1, <1>2, <1>3, <1>4, <1>5, RelationshipStepKeeps

(* Both ways a relationship goes away: an announced deletion, which the    *)
(* schema steps since then noted as a race, and a cascade.                 *)
LEMMA DeleteKeeps ==
    ASSUME IInv, NEW k \in Rels, CommitDelete(k) \/ CascadeDelete(k)
    PROVE  IInv'
  <1>1. UNCHANGED <<headers, schema, index, data, ids, spent, writer>>
        /\ UNCHANGED outgoing /\ incoming[k] = "live"
        /\ incoming' = [incoming EXCEPT ![k] = "gone"]
        /\ target' = [target EXCEPT ![k] = None]
        /\ child' = [child EXCEPT ![k] = "idle"]
        /\ raced \subseteq raced' /\ raced' \subseteq raced \cup {k}
    BY DEF CommitDelete, CascadeDelete, IInv, ChildrenOK, TypeOK
  <1>2. incoming' \in [Rels -> {"none", "live", "gone"}]
        /\ target' \in [Rels -> Names \cup {None}]
        /\ child' \in [Rels -> {"idle", "creating", "deleting"}]
        /\ outgoing' \subseteq Columns /\ raced' \subseteq Rels /\ raced \subseteq raced'
    BY <1>1 DEF IInv, TypeOK, RelationshipsNameColumns
  <1>3. Live \ {k} \subseteq Live' /\ (k \in Counted(schema) => k \in raced')
    BY <1>1 DEF IInv, TypeOK, Live, ChildrenOK, CommitDelete, CascadeDelete
  <1>4. \A j \in Rels : incoming'[j] = "live" => target'[j] = index \/ j \in raced'
    BY <1>1 DEF IInv, TypeOK, RelationshipsNameColumns, Live
  <1>5. ChildrenOK'
    <2>1. Counted(schema)' = Counted(schema)
      BY <1>1 DEF Counted, OfType
    <2> QED
      BY <2>1, <1>1, <1>2 DEF IInv, TypeOK, ChildrenOK
  <1> QED
    BY <1>1, <1>2, <1>3, <1>4, <1>5, RelationshipStepKeeps

-----------------------------------------------------------------------------
LEMMA NextIInv == IInv /\ [Next]_vars => IInv'
  <1> SUFFICES ASSUME IInv, [Next]_vars PROVE IInv'
    OBVIOUS
  <1>1. ASSUME NEW c \in Names, NEW e \in Entries, NEW v \in Cells, AddColumn(c, e, v)
        PROVE  IInv'
    BY <1>1, AddColumnKeeps
  <1>2. ASSUME NEW c \in Names, NEW e \in Entries, RetypeColumn(c, e)
        PROVE  IInv'
    BY <1>2, RetypeColumnKeeps
  <1>3. ASSUME NEW o \in Names, NEW n \in Names, RenameColumn(o, n)
        PROVE  IInv'
    BY <1>3, RenameColumnKeeps
  <1>4. ASSUME NEW c \in Names, DropColumn(c)
        PROVE  IInv'
    BY <1>4, DropColumnKeeps
  <1>5. ASSUME NEW order \in Orders, ReorderColumns(order)
        PROVE  IInv'
    BY <1>5, ReorderColumnsKeeps
  <1>6. ASSUME RowStep
        PROVE  IInv'
    <2>1. IndexCells \subseteq Cells
      OBVIOUS
    <2> QED
      BY <1>6, <2>1, CreateRowKeeps, PatchRowKeeps, DeleteRowKeeps DEF RowStep
  <1>7. ASSUME RelationshipStep
        PROVE  IInv'
    BY <1>7, OutgoingKeeps, BeginKeeps, CommitCreateKeeps, DeleteKeeps DEF RelationshipStep
  <1>8. ASSUME UNCHANGED vars
        PROVE  IInv'
    <2>1. UNCHANGED <<headers, schema, index, data, ids, spent, writer>>
          /\ UNCHANGED <<incoming, target, child, outgoing, raced>>
      BY <1>8 DEF vars
    <2>2. ChildrenOK' /\ Live' = Live
      BY <2>1 DEF IInv, ChildrenOK, Live, Counted, OfType
    <2>3. incoming' \in [Rels -> {"none", "live", "gone"}]
          /\ target' \in [Rels -> Names \cup {None}]
          /\ child' \in [Rels -> {"idle", "creating", "deleting"}]
          /\ outgoing' \subseteq Columns /\ raced' \subseteq Rels
      BY <2>1 DEF IInv, TypeOK, RelationshipsNameColumns
    <2>4. \A k \in Rels : incoming'[k] = "live" => target'[k] = index \/ k \in raced'
      BY <2>1 DEF IInv, RelationshipsNameColumns, Live
    <2> QED
      BY <2>1, <2>2, <2>3, <2>4, RelationshipStepKeeps
  <1> QED
    BY <1>1, <1>2, <1>3, <1>4, <1>5, <1>6, <1>7, <1>8 DEF Next, SchemaStep

THEOREM InductiveInvariant == Spec => []IInv
  BY InitIInv, NextIInv, PTL DEF Spec

(* headers, column_schema and the rows' keys agree after any steps.        *)
THEOREM TypeCorrect == Spec => []TypeOK
  <1>1. IInv => TypeOK
    BY DEF IInv
  <1> QED
    BY <1>1, InductiveInvariant, PTL

(* No sequence of schema operations leaves a formula that cannot be        *)
(* evaluated (services.py, the three validations of formulas).             *)
THEOREM FormulasAlwaysResolve == Spec => []FormulasResolve
  <1>1. IInv => FormulasResolve
    BY DEF IInv
  <1> QED
    BY <1>1, InductiveInvariant, PTL

(* Choice columns hold only their choices, whatever came first, the rows   *)
(* or the choices (_validate_existing_choice_values).                      *)
THEOREM ChoicesAlwaysAllowed == Spec => []ChoiceCellsAllowed
  <1>1. IInv => ChoiceCellsAllowed
    BY DEF IInv
  <1> QED
    BY <1>1, InductiveInvariant, PTL

(* A counting column loses its relationship only to the two-step race of   *)
(* the deletion or to a cascade (delete_profile_dataset_relationship).     *)
THEOREM CountsAlwaysHaveRelationship == Spec => []CountsHaveRelationship
  <1>1. IInv => CountsHaveRelationship
    BY DEF IInv
  <1> QED
    BY <1>1, InductiveInvariant, PTL

(* Relationships keep naming columns that exist                            *)
(* (_raise_if_column_participates_in_relationship).                        *)
THEOREM RelationshipsAlwaysNameColumns == Spec => []RelationshipsNameColumns
  <1>1. IInv => RelationshipsNameColumns
    BY DEF IInv
  <1> QED
    BY <1>1, InductiveInvariant, PTL

-----------------------------------------------------------------------------
(* The refinement: by identity, a row is what its data say by name.        *)

IdsOK(f, D) ==
    D \in SUBSET Names /\ (\E n \in 1..MaxIds : f \in [D -> 1..n]) /\ Injective(f)

RowOn(row, D) == \E keys \in SUBSET D : row \in [keys -> Cells]

LEMMA NumberedIsNotNone ==
    ASSUME NEW S \in SUBSET (1..MaxIds), NEW row \in [S -> Cells]
    PROVE  row # None
  OBVIOUS

LEMMA ByIdentityAt ==
    ASSUME NEW f, NEW D, IdsOK(f, D), NEW row, RowOn(row, D)
    PROVE  /\ ByIdentity(f, row) \in [Listed(f) -> Cells]
           /\ \A c \in D : ByIdentity(f, row)[f[c]] = CellOf(row, c)
           /\ ByIdentity(f, row) # None
           /\ Listed(f) = {f[c] : c \in D}
  <1>1. PICK n \in 1..MaxIds : f \in [D -> 1..n]
    BY DEF IdsOK
  <1>2. PICK keys \in SUBSET D : row \in [keys -> Cells]
    BY DEF RowOn
  <1>3. row # None
    BY <1>2 DEF IdsOK
  <1>4. ByIdentity(f, row) =
            [i \in Listed(f) |-> CellOf(row, CHOOSE c \in D : f[c] = i)]
    BY <1>1, <1>3 DEF ByIdentity
  <1>5. \A c \in D : f[c] \in Listed(f) /\ (CHOOSE x \in D : f[x] = f[c]) = c
    <2> TAKE c \in D
    <2>1. \A x \in D : f[x] = f[c] => x = c
      BY <1>1 DEF Injective, IdsOK
    <2> QED
      BY <2>1, <1>1 DEF Listed
  <1>6. \A c : CellOf(row, c) \in Cells
    BY <1>2 DEF CellOf
  <1>7. ByIdentity(f, row) \in [Listed(f) -> Cells]
    BY <1>4, <1>6
  <1>8. Listed(f) \in SUBSET (1..MaxIds) /\ Listed(f) = {f[c] : c \in D}
    BY <1>1 DEF Listed
  <1>9. ByIdentity(f, row) # None
    BY <1>7, <1>8, NumberedIsNotNone
  <1> QED
    BY <1>4, <1>5, <1>7, <1>8, <1>9

(* A row reads by identity as any function that says of each column's      *)
(* identity what the row says of its name.                                 *)
Reads(f, D, row, g) ==
    g = [i \in Listed(f) |-> g[i]] /\ \A c \in D : g[f[c]] = CellOf(row, c)

LEMMA ByIdentityOf ==
    ASSUME NEW f, NEW D, IdsOK(f, D), NEW row, RowOn(row, D),
           NEW g, Reads(f, D, row, g)
    PROVE  ByIdentity(f, row) = g
  <1>1. ByIdentity(f, row) \in [Listed(f) -> Cells]
        /\ (\A c \in D : ByIdentity(f, row)[f[c]] = CellOf(row, c))
        /\ Listed(f) = {f[c] : c \in D}
    BY ByIdentityAt
  <1>2. \A i \in Listed(f) : ByIdentity(f, row)[i] = g[i]
    BY <1>1 DEF Reads
  <1>3. g = [i \in Listed(f) |-> g[i]]
    BY DEF Reads
  <1> HIDE DEF Reads
  <1> QED
    BY <1>1, <1>2, <1>3

LEMMA RowByIdentity ==
    ASSUME IInv, NEW r \in Rows, data[r] # None
    PROVE  IdsOK(ids, Columns) /\ RowOn(data[r], Columns)
  BY DEF IInv, TypeOK, Present, IdsOK, RowOn

Grown == [r \in Rows |-> ByIdentity(ids, data[r])]

LEMMA InitRefines == Init => G!Init
  <1> SUFFICES ASSUME Init PROVE G!Init
    OBVIOUS
  <1>1. Len(FirstHeaders) \in 1..MaxIds /\ Listed(ids) \subseteq 1..spent
    BY DEF Init, Listed
  <1>2. 1..spent \in SUBSET (1..MaxIds)
    BY <1>1 DEF Init
  <1>3. \A r \in Rows : ByIdentity(ids, data[r]) = None
    BY DEF Init, ByIdentity
  <1> QED
    BY <1>1, <1>2, <1>3 DEF Init, G!Init

LEMMA UnchangedRefines ==
    ASSUME UNCHANGED <<data, ids, spent, writer>>
    PROVE  UNCHANGED G!vars
  BY DEF G!vars

LEMMA AddColumnRefines ==
    ASSUME IInv, IInv', NEW c \in Names, NEW e \in Entries, NEW v \in Cells,
           AddColumn(c, e, v)
    PROVE  \E i \in 1..MaxIds : G!AddColumn(i)
  <1> DEFINE i == spent + 1
             w == IF IsCalculated(e) THEN Blank ELSE Canonical(e, v)
  <1>1. /\ c \notin Columns /\ ids' = With(ids, c, i) /\ spent' = i /\ spent < MaxIds
        /\ schema' = With(schema, c, e) /\ writer' = None
        /\ (~IsCalculated(e) => IsAllowed(e, v))
    BY DEF AddColumn, Reshaped
  <1>2. spent \in 1..MaxIds /\ ids \in [Columns -> 1..spent] /\ Columns' = Columns \cup {c}
    BY <1>1 DEF IInv, TypeOK, Columns, With
  <1>3. ids' \in [Columns' -> 1..i] /\ ids'[c] = i /\ \A x \in Columns : ids'[x] = ids[x]
    BY <1>1, <1>2 DEF IInv, TypeOK, With
  <1>4. Listed(ids') = Listed(ids) \cup {i} /\ i \notin Listed(ids)
    BY <1>2, <1>3 DEF Listed
  <1>5. w \in Cells
    BY <1>1, CanonicalAllowed
  <1>6. i \in 1..MaxIds /\ i \notin 1..spent /\ 1..spent' = (1..spent) \cup {i}
    BY <1>1, <1>2
  <1> HIDE DEF w
  <1>7. ASSUME NEW r \in Rows, data[r] # None, RowOn(data'[r], Columns'),
               CellOf(data'[r], c) = w,
               \A x \in Columns : CellOf(data'[r], x) = CellOf(data[r], x)
        PROVE  ByIdentity(ids', data'[r]) =
                 [j \in Listed(ids') |-> IF j = i THEN w ELSE Grown[r][j]]
               /\ Grown[r] # None
    <2> DEFINE g == [j \in Listed(ids') |-> IF j = i THEN w ELSE Grown[r][j]]
    <2>1. IdsOK(ids', Columns')
      BY DEF IInv, TypeOK, IdsOK
    <2>2. Grown[r] # None /\ \A x \in Columns : Grown[r][ids[x]] = CellOf(data[r], x)
      BY <1>7, RowByIdentity, ByIdentityAt DEF Grown
    <2>3. g[ids'[c]] = w
      BY <1>3, <1>4
    <2>4. ASSUME NEW x \in Columns PROVE g[ids'[x]] = CellOf(data[r], x)
      <3>1. ids'[x] = ids[x] /\ ids[x] \in Listed(ids) /\ ids[x] # i
        BY <1>2, <1>3, <1>4 DEF Listed
      <3> QED
        BY <3>1, <1>4, <2>2
    <2>5. \A x \in Columns' : g[ids'[x]] = CellOf(data'[r], x)
      BY <1>2, <1>7, <2>3, <2>4
    <2>6. g = [j \in Listed(ids') |-> g[j]]
      OBVIOUS
    <2> HIDE DEF g, i
    <2>7. Reads(ids', Columns', data'[r], g)
      BY <2>5, <2>6 DEF Reads
    <2>8. ByIdentity(ids', data'[r]) = g
      BY <1>7, <2>1, <2>7, ByIdentityOf
    <2> QED
      BY <2>2, <2>8 DEF g
  <1>8. \A r \in Rows : ByIdentity(ids', data'[r]) =
            IF Grown[r] = None THEN None
            ELSE [j \in Listed(ids') |-> IF j = i THEN w ELSE Grown[r][j]]
    <2> TAKE r \in Rows
    <2>1. CASE data[r] = None
      <3>1. data'[r] = None
        BY <2>1 DEF AddColumn, EachRow
      <3> QED
        BY <2>1, <3>1 DEF ByIdentity, Grown
    <2>2. CASE data[r] # None
      <3>1. PICK keys \in SUBSET Columns : data[r] \in [keys -> Cells]
        BY <2>2, RowByIdentity DEF RowOn
      <3>2. c \notin keys
        BY <1>1, <3>1
      <3>3. CASE IsCalculated(e)
        <4>1. data'[r] = data[r] /\ w = Blank
          BY <3>3 DEF AddColumn, w
        <4>2. RowOn(data'[r], Columns')
          BY <4>1, <3>1, <1>2 DEF RowOn
        <4>3. CellOf(data'[r], c) = w
              /\ \A x \in Columns : CellOf(data'[r], x) = CellOf(data[r], x)
          BY <4>1, <3>1, <3>2 DEF CellOf
        <4> QED
          BY <4>2, <4>3, <2>2, <1>7
      <3>4. CASE ~IsCalculated(e)
        <4>1. data'[r] = With(data[r], c, w)
          BY <2>2, <3>1, <3>2, <3>4 DEF AddColumn, EachRow, w
        <4>2. With(data[r], c, w) \in [keys \cup {c} -> Cells]
          BY <1>5, <3>1, WithType
        <4>3. RowOn(data'[r], Columns')
          BY <4>1, <4>2, <1>2 DEF RowOn
        <4>4. CellOf(data'[r], c) = w
              /\ \A x \in Columns : CellOf(data'[r], x) = CellOf(data[r], x)
          BY <4>1, <3>1, <3>2, <1>1 DEF CellOf, With
        <4> QED
          BY <4>3, <4>4, <2>2, <1>7
      <3> QED
        BY <3>3, <3>4
    <2> QED
      BY <2>1, <2>2
  <1>9. Grown' = [r \in Rows |-> IF Grown[r] = None THEN None
                  ELSE [j \in Listed(ids') |-> IF j = i THEN w ELSE Grown[r][j]]]
    BY <1>8 DEF Grown
  <1>10. G!AddColumn(i)
    BY <1>1, <1>4, <1>5, <1>6, <1>9 DEF G!AddColumn, Grown
  <1> QED
    BY <1>6, <1>10

LEMMA DropColumnRefines ==
    ASSUME IInv, IInv', NEW c \in Names, DropColumn(c)
    PROVE  \E i \in 1..MaxIds : G!DropColumn(i)
  <1> DEFINE i == ids[c]
  <1>1. /\ c \in Columns /\ ids' = Without(ids, c) /\ spent' = spent
        /\ schema' = Without(schema, c) /\ writer' = None
    BY DEF DropColumn, Reshaped
  <1>2. spent \in 1..MaxIds /\ ids \in [Columns -> 1..spent] /\ Injective(ids)
        /\ Columns' = Columns \ {c}
    BY <1>1 DEF IInv, TypeOK, Columns, Without
  <1>3. DOMAIN ids' = Columns' /\ \A x \in Columns' : ids'[x] = ids[x] /\ ids[x] # i
    BY <1>1, <1>2 DEF Without, Injective
  <1>4. Listed(ids') = Listed(ids) \ {i}
    BY <1>2, <1>3 DEF Listed
  <1>5. \A r \in Rows : ByIdentity(ids', data'[r]) =
            IF Grown[r] = None THEN None ELSE [j \in Listed(ids') |-> Grown[r][j]]
    <2> TAKE r \in Rows
    <2>1. CASE data[r] = None
      <3>1. data'[r] = None
        BY <2>1 DEF DropColumn, EachRow
      <3> QED
        BY <2>1, <3>1 DEF ByIdentity, Grown
    <2>2. CASE data[r] # None
      <3> DEFINE g == [j \in Listed(ids') |-> Grown[r][j]]
      <3>1. PICK keys \in SUBSET Columns : data[r] \in [keys -> Cells]
        BY <2>2, RowByIdentity DEF RowOn
      <3>2. data'[r] = Without(data[r], c)
        BY <2>2 DEF DropColumn, EachRow
      <3>3. Without(data[r], c) \in [keys \ {c} -> Cells]
        BY <3>1, WithoutType
      <3>4. RowOn(data'[r], Columns')
        BY <3>1, <3>2, <3>3, <1>2 DEF RowOn
      <3>5. \A x \in Columns' : CellOf(data'[r], x) = CellOf(data[r], x)
        BY <3>1, <3>2, <1>2 DEF CellOf, Without
      <3>6. Grown[r] # None /\ \A x \in Columns : Grown[r][ids[x]] = CellOf(data[r], x)
        BY <2>2, RowByIdentity, ByIdentityAt DEF Grown
      <3>7. \A x \in Columns' : g[ids'[x]] = CellOf(data'[r], x)
        BY <1>2, <1>3, <3>5, <3>6 DEF Listed
      <3>8. IdsOK(ids', Columns')
        BY DEF IInv, TypeOK, IdsOK
      <3>9. g = [j \in Listed(ids') |-> g[j]]
        OBVIOUS
      <3> HIDE DEF g
      <3>10. Reads(ids', Columns', data'[r], g)
        BY <3>7, <3>9 DEF Reads
      <3>11. ByIdentity(ids', data'[r]) = g
        BY <3>4, <3>8, <3>10, ByIdentityOf
      <3> QED
        BY <3>6, <3>11 DEF g
    <2> QED
      BY <2>1, <2>2
  <1>6. Grown' = [r \in Rows |-> IF Grown[r] = None THEN None
                  ELSE [j \in Listed(ids') |-> Grown[r][j]]]
    BY <1>5 DEF Grown
  <1>7. i \in 1..MaxIds
    BY <1>1, <1>2
  <1> HIDE DEF i
  <1>8. G!DropColumn(i)
    BY <1>1, <1>4, <1>6 DEF G!DropColumn, Grown
  <1> QED
    BY <1>7, <1>8

LEMMA RenameColumnRefines ==
    ASSUME IInv, IInv', NEW o \in Names, NEW n \in Names, RenameColumn(o, n)
    PROVE  G!Reshape
  <1>1. /\ o \in Columns /\ n \notin Columns \ {o} /\ ids' = Renamed(ids, o, n)
        /\ spent' = spent /\ schema' = Renamed(schema, o, n) /\ writer' = None
    BY DEF RenameColumn, Reshaped
  <1>2. ids \in [Columns -> 1..spent] /\ Columns' = (Columns \ {o}) \cup {n}
    BY <1>1 DEF IInv, TypeOK, Columns, Renamed
  <1>3. DOMAIN ids' = Columns' /\ ids'[n] = ids[o]
        /\ \A x \in Columns \ {o} : ids'[x] = ids[x]
    BY <1>1, <1>2 DEF Renamed
  <1>4. Listed(ids') = Listed(ids)
    <2>1. Listed(ids') \subseteq Listed(ids)
      BY <1>1, <1>2, <1>3 DEF Listed
    <2>2. \A x \in Columns : ids[x] \in Listed(ids')
      <3>1. ids[o] \in Listed(ids')
        BY <1>2, <1>3 DEF Listed
      <3>2. \A x \in Columns \ {o} : ids[x] \in Listed(ids')
        BY <1>2, <1>3 DEF Listed
      <3> QED
        BY <3>1, <3>2
    <2>3. Listed(ids) = {ids[x] : x \in Columns}
      BY <1>2 DEF Listed
    <2> QED
      BY <2>1, <2>2, <2>3
  <1>5. \A r \in Rows : ByIdentity(ids', data'[r]) = ByIdentity(ids, data[r])
    <2> TAKE r \in Rows
    <2>1. CASE data[r] = None
      <3>1. data'[r] = None
        BY <2>1 DEF RenameColumn, EachRow
      <3> QED
        BY <2>1, <3>1 DEF ByIdentity
    <2>2. CASE data[r] # None
      <3> DEFINE g == ByIdentity(ids, data[r])
      <3>1. PICK keys \in SUBSET Columns : data[r] \in [keys -> Cells]
        BY <2>2, RowByIdentity DEF RowOn
      <3>2. data'[r] = With(Without(data[r], o), n, CellOf(data[r], o))
        BY <2>2 DEF RenameColumn, EachRow
      <3>3. CellOf(data[r], o) \in Cells /\ Without(data[r], o) \in [keys \ {o} -> Cells]
        BY <3>1, WithoutType DEF CellOf
      <3>4. With(Without(data[r], o), n, CellOf(data[r], o))
                \in [(keys \ {o}) \cup {n} -> Cells]
        BY <3>3, WithType
      <3>5. RowOn(data'[r], Columns')
        BY <3>1, <3>2, <3>4, <1>2 DEF RowOn
      <3>6. CellOf(data'[r], n) = CellOf(data[r], o)
            /\ \A x \in Columns \ {o} : CellOf(data'[r], x) = CellOf(data[r], x)
        BY <3>1, <3>2, <1>1 DEF CellOf, With, Without
      <3>7. g \in [Listed(ids) -> Cells] /\ \A x \in Columns : g[ids[x]] = CellOf(data[r], x)
        BY <2>2, RowByIdentity, ByIdentityAt
      <3>8. IdsOK(ids', Columns')
        BY DEF IInv, TypeOK, IdsOK
      <3> HIDE DEF g
      <3>9. \A x \in Columns' : g[ids'[x]] = CellOf(data'[r], x)
        BY <1>1, <1>2, <1>3, <3>6, <3>7
      <3>10. g = [j \in Listed(ids') |-> g[j]]
        BY <1>4, <3>7
      <3>11. Reads(ids', Columns', data'[r], g)
        BY <3>9, <3>10 DEF Reads
      <3> QED
        BY <3>5, <3>8, <3>11, ByIdentityOf DEF g
    <2> QED
      BY <2>1, <2>2
  <1> QED
    BY <1>1, <1>4, <1>5 DEF G!Reshape

LEMMA CreateRowRefines ==
    ASSUME IInv, IInv', NEW r \in Rows, NEW row \in [Writable -> Cells], CreateRow(r, row)
    PROVE  G!CreateRow(r)
  <1>1. data[r] = None /\ writer' = r /\ UNCHANGED <<schema, ids, spent>>
        /\ \E new : data' = [data EXCEPT ![r] = new]
    BY DEF CreateRow
  <1>2. PICK new : data' = [data EXCEPT ![r] = new]
    BY <1>1
  <1>3. data'[r] = new /\ (\A q \in Rows \ {r} : data'[q] = data[q]) /\ Columns' = Columns
    BY <1>1, <1>2 DEF IInv, TypeOK, Columns
  <1>4. RowOn(new, Columns) /\ IdsOK(ids, Columns)
    <2>1. new # None
      <3>1. new = [c \in Writable |-> Canonical(schema[c], row[c])]
        BY <1>3 DEF CreateRow, IInv, TypeOK
      <3>2. \A c \in Writable : Canonical(schema[c], row[c]) \in Cells
        <4> TAKE c \in Writable
        <4>1. schema[c] \in Entries /\ row[c] \in Cells
          BY DEF IInv, TypeOK, Writable
        <4> QED
          BY <4>1, CanonicalAllowed DEF CreateRow
      <3>3. new \in [Writable -> Cells] /\ Writable \in SUBSET Names
        BY <3>1, <3>2 DEF IInv, TypeOK, Writable
      <3> QED
        BY <3>3, RowIsNotNone
    <2>2. r \in Present'
      BY <2>1, <1>3 DEF Present
    <2> QED
      BY <2>2, <1>3 DEF IInv, TypeOK, RowOn, IdsOK
  <1>5. ByIdentity(ids, new) \in [Listed(ids) -> Cells]
    BY <1>4, ByIdentityAt
  <1>6. ByIdentity(ids, data[r]) = None
    BY <1>1 DEF ByIdentity
  <1>7. [q \in Rows |-> ByIdentity(ids', data'[q])] =
            [[q \in Rows |-> ByIdentity(ids, data[q])] EXCEPT ![r] = ByIdentity(ids, new)]
    BY <1>1, <1>3
  <1> QED
    BY <1>1, <1>5, <1>6, <1>7 DEF G!CreateRow

LEMMA PatchRowRefines ==
    ASSUME IInv, NEW r \in Rows, NEW c, NEW v \in Cells, PatchRow(r, c, v)
    PROVE  G!PatchRow(r)
  <1> DEFINE stored == Canonical(schema[c], v)
             new == With(data[r], c, stored)
             i == ids[c]
             old == ByIdentity(ids, data[r])
  <1>1. data' = [data EXCEPT ![r] = new] /\ writer' = r /\ UNCHANGED <<ids, spent>>
        /\ r \in Present /\ c \in Columns /\ schema[c] \in Entries
        /\ IsAllowed(schema[c], v)
    BY DEF PatchRow, IInv, TypeOK, Writable
  <1>2. stored \in Cells
    BY <1>1, CanonicalAllowed
  <1> HIDE DEF stored
  <1>3. PICK keys \in SUBSET Columns : data[r] \in [keys -> Cells]
    BY <1>1, RowByIdentity DEF RowOn, Present
  <1>4. new \in [keys \cup {c} -> Cells]
    BY <1>2, <1>3, WithType
  <1>5. RowOn(new, Columns) /\ IdsOK(ids, Columns)
    BY <1>1, <1>3, <1>4, RowByIdentity DEF RowOn, Present
  <1>6. CellOf(new, c) = stored /\ \A x \in Columns \ {c} : CellOf(new, x) = CellOf(data[r], x)
    BY <1>3 DEF CellOf, With
  <1> HIDE DEF new
  <1>7. old \in [Listed(ids) -> Cells] /\ old # None /\ Listed(ids) = {ids[x] : x \in Columns}
        /\ \A x \in Columns : old[ids[x]] = CellOf(data[r], x)
    BY <1>1, RowByIdentity, ByIdentityAt DEF Present
  <1>8. i \in Listed(ids) /\ \A x \in Columns \ {c} : ids[x] # i
    BY <1>1, <1>7 DEF IInv, TypeOK, Injective
  <1> DEFINE g == [old EXCEPT ![i] = stored]
  <1> HIDE DEF old, i
  <1>9. g = [j \in Listed(ids) |-> g[j]]
    BY <1>7
  <1>10. \A x \in Columns : g[ids[x]] = CellOf(new, x)
    <2>1. g[ids[c]] = CellOf(new, c)
      BY <1>6, <1>7, <1>8 DEF i
    <2>2. ASSUME NEW x \in Columns \ {c} PROVE g[ids[x]] = CellOf(new, x)
      BY <1>6, <1>7, <1>8
    <2> QED
      BY <2>1, <2>2
  <1> HIDE DEF g
  <1>11. Reads(ids, Columns, new, g)
    BY <1>9, <1>10 DEF Reads
  <1>12. ByIdentity(ids, new) = [old EXCEPT ![i] = stored]
    BY <1>5, <1>11, ByIdentityOf DEF g
  <1>13. data'[r] = new /\ \A q \in Rows \ {r} : data'[q] = data[q]
    BY <1>1 DEF IInv, TypeOK
  <1> DEFINE cells == [q \in Rows |-> ByIdentity(ids, data[q])]
  <1>14. [q \in Rows |-> ByIdentity(ids', data'[q])] = [cells EXCEPT ![r] = [old EXCEPT ![i] = stored]]
    <2>1. ByIdentity(ids', data'[r]) = [old EXCEPT ![i] = stored]
      BY <1>1, <1>12, <1>13
    <2>2. \A q \in Rows \ {r} : ByIdentity(ids', data'[q]) = ByIdentity(ids, data[q])
      BY <1>1, <1>13
    <2> QED
      BY <2>1, <2>2
  <1>15. cells[r] = old /\ [cells EXCEPT ![r][i] = stored] = [cells EXCEPT ![r] = [old EXCEPT ![i] = stored]]
    BY DEF old
  <1> QED
    BY <1>1, <1>2, <1>7, <1>8, <1>14, <1>15 DEF G!PatchRow

LEMMA DeleteRowRefines ==
    ASSUME IInv, NEW r \in Rows, DeleteRow(r)
    PROVE  G!DeleteRow(r)
  <1>1. data'[r] = None /\ (\A q \in Rows \ {r} : data'[q] = data[q])
        /\ writer' = r /\ UNCHANGED <<ids, spent>>
    BY DEF DeleteRow, IInv, TypeOK
  <1>2. ByIdentity(ids, None) = None
    BY DEF ByIdentity
  <1> QED
    BY <1>1, <1>2 DEF G!DeleteRow

LEMMA StepRefines == IInv /\ IInv' /\ [Next]_vars => [G!Next]_G!vars
  <1> SUFFICES ASSUME IInv, IInv', [Next]_vars PROVE [G!Next]_G!vars
    OBVIOUS
  <1>1. ASSUME NEW c \in Names, NEW e \in Entries, NEW v \in Cells, AddColumn(c, e, v)
        PROVE  G!Next
    BY <1>1, AddColumnRefines DEF G!Next
  <1>2. ASSUME NEW c \in Names, NEW e \in Entries, RetypeColumn(c, e)
        PROVE  G!Next
    <2>1. UNCHANGED <<data, ids, spent>> /\ writer' = None
      BY <1>2 DEF RetypeColumn, Reshaped
    <2> QED
      BY <2>1 DEF G!Next, G!Reshape
  <1>3. ASSUME NEW o \in Names, NEW n \in Names, RenameColumn(o, n)
        PROVE  G!Next
    BY <1>3, RenameColumnRefines DEF G!Next
  <1>4. ASSUME NEW c \in Names, DropColumn(c)
        PROVE  G!Next
    BY <1>4, DropColumnRefines DEF G!Next
  <1>5. ASSUME NEW order \in Orders, ReorderColumns(order)
        PROVE  G!Next
    <2>1. UNCHANGED <<data, ids, spent>> /\ writer' = None
      BY <1>5 DEF ReorderColumns
    <2> QED
      BY <2>1 DEF G!Next, G!Reshape
  <1>6. ASSUME RowStep
        PROVE  G!Next
    <2>1. IndexCells \subseteq Cells
      OBVIOUS
    <2> QED
      BY <1>6, <2>1, CreateRowRefines, PatchRowRefines, DeleteRowRefines DEF RowStep, G!Next
  <1>7. ASSUME RelationshipStep
        PROVE  UNCHANGED G!vars
    <2>1. UNCHANGED <<data, ids, spent, writer>>
      BY <1>7 DEF RelationshipStep, CreateOutgoing, DeleteOutgoing, BeginCreate,
         CommitCreate, BeginDelete, CommitDelete, CascadeDelete
    <2> QED
      BY <2>1, UnchangedRefines
  <1>8. CASE UNCHANGED vars
    BY <1>8, UnchangedRefines DEF vars
  <1> QED
    BY <1>1, <1>2, <1>3, <1>4, <1>5, <1>6, <1>7, <1>8 DEF Next, SchemaStep

(* What a caller sees of columns and rows is a Grid: renames, retypes and  *)
(* reorderings move no cell, and no dropped value comes back (the row      *)
(* transforms of rename_profile_dataset_column and its neighbours).        *)
THEOREM ColumnsImplementGrid == Spec => ImplementsGrid
  <1>1. Spec => G!Init /\ [][G!Next]_G!vars
    BY InitRefines, StepRefines, InductiveInvariant, PTL DEF Spec
  <1> QED
    BY <1>1 DEF ImplementsGrid, G!Spec
=============================================================================
