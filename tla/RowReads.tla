------------------------------ MODULE RowReads -------------------------------
(***************************************************************************)
(* Reading rows while they are written: a client of the API that lists a   *)
(* dataset page by page, a person who turns the pages of the dashboard,    *)
(* and a search of one dataset or of all (api/services.py,                 *)
(* datasets/views.py).                                                     *)
(*                                                                         *)
(* Every query of a read is a statement of its own and sees what was       *)
(* committed until then: the count and the page are two queries, a search  *)
(* asks for points, rows allowed, rows by words and the rows themselves    *)
(* one after the other.  Writes come in between.  One read is under way    *)
(* at a time; reads change nothing.                                        *)
(***************************************************************************)
EXTENDS RowQueries, FiniteSets

CONSTANTS
    Listings,      \* [dataset, words, filters, sort, descending, by]
    Searches,      \* [scope, words, filters]: scope is a dataset or None
    PageSize,
    Limit,         \* rows a search answers
    MaxRows,       \* bound on the rows ever created
    MaxHits,       \* bound on the points the vector store answers
    MaxChanges     \* bound on the writes during one read

ASSUME SizesAssumption ==
    /\ PageSize \in Nat \ {0} /\ Limit \in Nat \ {0}
    /\ MaxRows \in Nat /\ MaxHits \in Nat /\ MaxChanges \in Nat

ASSUME ListingsAssumption ==
    \A l \in Listings : /\ l.dataset \in Datasets
                        /\ l.descending \in BOOLEAN
                        /\ l.by \in {"client", "person"}

(* Filters are given by header; a search of several datasets takes one     *)
(* value for each (api/services.py normalize_search_filters).              *)
ASSUME SearchesAssumption ==
    \A q \in Searches :
      /\ q.scope \in Datasets \cup {None}
      /\ \A f, g \in q.filters : f.header = g.header => f = g
      /\ q.scope = None => \A f \in q.filters : Len(f.values) = 1

VARIABLES
    table,         \* id -> row
    created,       \* rows created so far: their ids are 1 .. created
    read,          \* the read under way, or None
    changes,       \* ghost: the kinds of the writes since it began, in order
    atStart,       \* ghost: the rows it would have found when it began
    met,           \* ghost: the rows that met its filters since it began
    kept           \* ghost: those its words and filters select ever since

vars == <<table, created, read, changes, atStart, met, kept>>
ghosts == <<atStart, met, kept>>

DataOf(d) ==
    {data \in [DOMAIN Schema[d] -> Texts] :
       \A h \in DOMAIN data : data[h] \in Cells[h]}
RowType(d) == [dataset : {d}, number : 1 .. MaxRows,
               data : DataOf(d)]
Ids == 1 .. MaxRows
Live == DOMAIN table

Init ==
    /\ table = <<>> /\ created = 0
    /\ read = None /\ changes = <<>>
    /\ atStart = {} /\ met = {} /\ kept = {}

-----------------------------------------------------------------------------
(* Which rows a read is after, in a table. *)

(* A search over all datasets leaves out those that would refuse the same  *)
(* search of them alone.                                                   *)
InScope(r, row) ==
    IF r.kind = "pages" THEN row.dataset = r.dataset
    ELSE row.dataset \in r.datasets /\ ~Refused(row.dataset, r.filters)

MeetsFilters(r, row) == InScope(r, row) /\ Selects(row, None, r.filters)

Wanted(r, row) == InScope(r, row) /\ Selects(row, r.words, r.filters)

WantedIn(t, r) == {i \in DOMAIN t : Wanted(r, t[i])}
MetIn(t, r) == {i \in DOMAIN t : MeetsFilters(r, t[i])}

Begin(r) ==
    /\ read = None
    /\ read' = r
    /\ changes' = <<>>
    /\ atStart' = WantedIn(table, r)
    /\ kept' = WantedIn(table, r)
    /\ met' = MetIn(table, r)
    /\ UNCHANGED <<table, created>>

Step(r) ==
    /\ read' = r
    /\ UNCHANGED <<table, created, changes, ghosts>>

(* The reader has its answer and goes, or the embedding or the vector store *)
(* failed and the search with it.                                          *)
Leave ==
    /\ read # None /\ read.at \in {"done", "points"}
    /\ read' = None /\ changes' = <<>>
    /\ atStart' = {} /\ met' = {} /\ kept' = {}
    /\ UNCHANGED <<table, created>>

-----------------------------------------------------------------------------
(* Writes, as DatasetRows models them in detail. *)

Write(t, kind) ==
    /\ table' = t
    /\ IF read = None THEN UNCHANGED <<read, changes, ghosts>>
       ELSE /\ read.at # "done" /\ Len(changes) < MaxChanges
            /\ changes' = Append(changes, kind)
            /\ met' = met \cup MetIn(t, read)
            /\ kept' = kept \cap WantedIn(t, read)
            /\ UNCHANGED <<read, atStart>>

NumbersOf(d) == {table[i].number : i \in {j \in Live : table[j].dataset = d}}

(* Fault: the rows are counted. *)
NextByCount(d) == 1 + Cardinality(NumbersOf(d))

NextNumber(d) == 1 + Max({0} \cup NumbersOf(d))

Create(d) ==
    \E data \in DataOf(d) :
      /\ created < MaxRows
      /\ created' = created + 1
      /\ Write([i \in Live \cup {created + 1} |->
                  IF i \in Live THEN table[i]
                  ELSE [dataset |-> d, number |-> NextNumber(d), data |-> data]],
               "created")

Patch(i) ==
    \E h \in DOMAIN table[i].data : \E c \in Cells[h] \ {table[i].data[h]} :
      /\ Write([table EXCEPT ![i].data[h] = c], "patched")
      /\ UNCHANGED created

Delete(i) ==
    /\ Write([j \in Live \ {i} |-> table[j]], "deleted")
    /\ UNCHANGED created

-----------------------------------------------------------------------------
(* Listing: the count, then the page. *)

Rows(r) ==
    LET ahead(i, j) == Ahead(table[i], table[j], r.sort, r.descending) IN
    Orders(WantedIn(table, r), ahead)

Open(l) ==
    Begin([kind |-> "pages", at |-> "count", dataset |-> l.dataset,
           words |-> l.words, filters |-> l.filters, sort |-> l.sort,
           descending |-> l.descending, by |-> l.by,
           offset |-> 0, count |-> 0, got |-> <<>>])

(* The API refuses what the dashboard drops. *)
Ask(l) == l.by = "client" /\ ~Refused(l.dataset, l.filters) /\ Open(l)
Look(l) == l.by = "person" /\ Open(l)

Count ==
    /\ read.at = "count"
    /\ Step([read EXCEPT !.at = "page", !.count = Cardinality(WantedIn(table, read))])

Slice(s, from, to) == SubSeq(s, from + 1, IF to < Len(s) THEN to ELSE Len(s))

(* The client goes on behind what it got while has_more says so, and gives *)
(* up at an empty page.                                                    *)
ClientPage ==
    /\ read.at = "page" /\ read.by = "client"
    /\ \E s \in Rows(read) :
         LET page == Slice(s, read.offset, read.offset + PageSize)
             more == read.offset + Len(page) < read.count IN
         Step([read EXCEPT !.got = @ \o page,
                           !.offset = @ + Len(page),
                           !.at = IF more /\ page # <<>> THEN "count" ELSE "done"])

(* Paginator.get_page: a page behind the last is the last, and the last    *)
(* ends at the count.  The person follows the link to the next page.       *)
PersonPage ==
    /\ read.at = "page" /\ read.by = "person"
    /\ LET last == IF read.count = 0 THEN 0 ELSE (read.count - 1) \div PageSize
           from == IF read.offset <= last * PageSize THEN read.offset
                   ELSE last * PageSize
           to == IF from + PageSize < read.count THEN from + PageSize
                 ELSE read.count IN
       \E s \in Rows(read) :
         Step([read EXCEPT !.got = @ \o Slice(s, from, to),
                           !.offset = from + PageSize,
                           !.at = IF from < last * PageSize THEN "count" ELSE "done"])

-----------------------------------------------------------------------------
(* Searching: the datasets, the points, the rows allowed, the rows by      *)
(* words, the answer.                                                      *)

Eligible(filters) ==
    {d \in Datasets : \A f \in filters : f.header \in DOMAIN Schema[d]}

(* Search one dataset, or all that have the columns the filters name. *)
Search(q) ==
    /\ q.scope # None => ~Refused(q.scope, q.filters)
    /\ Begin([kind |-> "search", at |-> "points", scope |-> q.scope,
              words |-> q.words, filters |-> q.filters,
              datasets |-> IF q.scope # None THEN {q.scope}
                           ELSE Eligible(q.filters),
              hits |-> <<>>, allowed |-> {}, lexical |-> <<>>,
              answer |-> <<>>])

(* The points are of rows of these datasets, some of them deleted since. *)
Hit(r) == {i \in 1 .. created : i \in Live => table[i].dataset \in r.datasets}

Points ==
    /\ read.at = "points"
    /\ \E n \in 0 .. MaxHits : \E hits \in [1 .. n -> Hit(read)] :
         Step([read EXCEPT !.at = "allowed", !.hits = hits])

(* A search of one dataset without filters allows every point. *)
Allowed(r) ==
    IF r.scope = None
    THEN {i \in Range(r.hits) \cap Live :
            SelectsAmong(table[i], r.datasets, None, r.filters)}
    ELSE IF r.filters = {} THEN Range(r.hits)
    ELSE {i \in Range(r.hits) \cap Live : MeetsFilters(r, table[i])}

Allow ==
    /\ read.at = "allowed"
    /\ Step([read EXCEPT !.at = "lexical", !.allowed = Allowed(read)])

ByWords(r) ==
    IF r.scope = None
    THEN {i \in Live : SelectsAmong(table[i], r.datasets, r.words, r.filters)}
    ELSE WantedIn(table, r)

Lexical ==
    /\ read.at = "lexical"
    /\ LET ahead(i, j) == IF read.scope = None
                          THEN AheadAmong(table[i], table[j])
                          ELSE Ahead(table[i], table[j], None, FALSE) IN
       \E s \in Orders(ByWords(read), ahead) :
         Step([read EXCEPT !.at = "answer",
                           !.lexical = Slice(s, 0, 3 * Limit)])

(* The best candidates, in their order; rows deleted since are missing.    *)
Answer ==
    /\ read.at = "answer"
    /\ LET candidates == Candidates(read.hits, read.allowed, read.lexical)
           ranked(ids) == Rankings(ids, read.hits, read.allowed, read.lexical) IN
       \E s \in ranked(candidates) :
         \E answer \in ranked(Range(Slice(s, 0, Limit)) \cap Live) :
           Step([read EXCEPT !.at = "done", !.answer = answer])

-----------------------------------------------------------------------------
Read ==
    \/ \E l \in Listings : Ask(l) \/ Look(l)
    \/ \E q \in Searches : Search(q)
    \/ read # None /\ (\/ Count \/ ClientPage \/ PersonPage
                       \/ Points \/ Allow \/ Lexical \/ Answer)
    \/ Leave

Writes ==
    \/ \E d \in Datasets : Create(d)
    \/ \E i \in Live : Patch(i) \/ Delete(i)

Next == Read \/ Writes

Spec == Init /\ [][Next]_vars

-----------------------------------------------------------------------------
(* Properties.                                                             *)

(* Types; besides, rows of one dataset have different numbers, by which    *)
(* the order of a listing is total.                                        *)
TypeOK ==
    /\ created \in 0 .. MaxRows
    /\ Live \subseteq 1 .. created
    /\ \A i \in Live : table[i].dataset \in Datasets
                       /\ table[i] \in RowType(table[i].dataset)
    /\ \A i, j \in Live : i # j /\ table[i].dataset = table[j].dataset
                          => table[i].number # table[j].number
    /\ read # None => read.kind \in {"pages", "search"}
    /\ changes \in Seq({"created", "patched", "deleted"})
    /\ atStart \subseteq Ids /\ met \subseteq Ids /\ kept \subseteq atStart

Finished(kind) == read # None /\ read.kind = kind /\ read.at = "done"

(* Pages cut out of separate queries add up.  Without writes in between     *)
(* they deliver every row of the query exactly once and in its order,      *)
(* whatever is sorted by: rows equal in the sorted column do not change     *)
(* places between two pages.  In the default order, rows created during    *)
(* the listing, and changes a listing without words and filters does not   *)
(* look at, neither hide a row that was there nor show one twice; and the   *)
(* API shows no row twice even when rows are deleted meanwhile (api/       *)
(* services.py _list_dataset_rows_payload, docs dataset-api.md:93-94).      *)
ListingsDeliverOnce ==
    Finished("pages") =>
      LET plain == read.words = None /\ read.filters = {}
          inOrder == read.sort = "row_number" /\ ~read.descending
          harmless == IF plain THEN {"created", "patched"} ELSE {"created"} IN
      /\ changes = <<>> => read.got \in Rows(read)
      /\ inOrder /\ Range(changes) \subseteq harmless =>
           IsInjective(read.got) /\ atStart \subseteq Range(read.got)
      /\ inOrder /\ plain /\ read.by = "client" => IsInjective(read.got)

(* A search answers only with rows that met its filters, as a search of    *)
(* their own dataset understands them, at some moment since it began,      *)
(* though it judges points and rows by separate queries and points may be  *)
(* stale; and if it did not have to cut, it answers with every row that    *)
(* its words and filters selected all the time (api/services.py            *)
(* search_profile_rows, search_profile_dataset_rows).                      *)
SearchesAnswerWhatMet ==
    Finished("search") =>
      /\ Range(read.answer) \subseteq met
      /\ Cardinality(Candidates(read.hits, read.allowed, read.lexical)) <= Limit
           => kept \subseteq Range(read.answer)

(* A row found both by meaning and by its words is answered before every   *)
(* row found in one way only, as long as no rank exceeds the offset of the  *)
(* reciprocal ranks (api/services.py _rank_dataset_search_candidates).     *)
BothWaysFirst ==
    Finished("search")
      /\ Len(read.hits) <= RankOffset /\ Len(read.lexical) <= RankOffset =>
      LET hits == Range(read.hits) \cap read.allowed
          both == hits \cap Range(read.lexical) \cap Live IN
      \A n \in DOMAIN read.answer : read.answer[n] \notin both =>
        \A i \in both : \E k \in 1 .. n : read.answer[k] = i
=============================================================================
