-------------------------- MODULE RowQueriesProofs ---------------------------
(***************************************************************************)
(* Facts about queries, for every schema, cell and filter, and what        *)
(* listings and searches promise while rows are written.                   *)
(*                                                                         *)
(* Lists: what a listing has got is a front of the list of all rows it is  *)
(* after.  Whichever list the database answers, a front is its beginning   *)
(* and what comes behind it makes a longer one.                            *)
(* Rows: the later row of a dataset has the larger number; so in the       *)
(* default order what is created comes last.                               *)
(* Searches: what was allowed or found by words met the filters then, and  *)
(* what is kept was found, or there was more than an answer takes.         *)
(* Answers: a finite set of which any two elements are ordered has exactly *)
(* one list; a list of fewer elements has a place for one more.            *)
(***************************************************************************)
EXTENDS RowReads, FunctionTheorems, FiniteSetTheorems, SequenceTheorems,
        TLAPS

-----------------------------------------------------------------------------
(* The order of a listing. *)

Keys == Nat \cup {None}

(* Whatever the direction, keys are totally preordered with None last.     *)
LEMMA KeyOrder ==
    ASSUME NEW k \in Keys, NEW l \in Keys, NEW m \in Keys,
           NEW descending \in BOOLEAN
    PROVE  /\ ~(KeyAhead(k, l, descending) /\ KeyAhead(l, k, descending))
           /\ k # l => KeyAhead(k, l, descending) \/ KeyAhead(l, k, descending)
           /\ KeyAhead(k, l, descending) /\ KeyAhead(l, m, descending)
                => KeyAhead(k, m, descending)
<1>1. CASE descending = TRUE BY <1>1, NoneAssumption DEF KeyAhead, Keys
<1>2. CASE descending = FALSE BY <1>2, NoneAssumption DEF KeyAhead, Keys
<1> QED BY <1>1, <1>2

IsRowOf(r, d) ==
    /\ r.dataset = d /\ r.number \in Nat
    /\ \A h \in DOMAIN Schema[d] : r.data[h] \in Texts

(* The sort key of a row is a number or missing, in either kind of column. *)
LEMMA SortKeyType ==
    ASSUME NEW d \in Datasets, NEW r, IsRowOf(r, d),
           NEW sort \in DOMAIN Schema[d]
    PROVE  SortKey(r, sort) \in Keys
<1>1. r.data[sort] \in Texts BY DEF IsRowOf
<1> QED
  BY <1>1, QuantityAssumption, LettersAssumption DEF SortKey, IsRowOf, Keys

(* Of two rows of a dataset with different numbers one comes first in every *)
(* order a listing can ask for, and the order is transitive: the pages of   *)
(* a listing are cut from one sequence (datasets/services.py               *)
(* apply_dataset_row_sort).                                                *)
THEOREM ListingOrderIsTotal ==
    ASSUME NEW d \in Datasets,
           NEW r, NEW s, NEW t, IsRowOf(r, d), IsRowOf(s, d), IsRowOf(t, d),
           NEW sort, NEW descending \in BOOLEAN
    PROVE  /\ ~(Ahead(r, s, sort, descending) /\ Ahead(s, r, sort, descending))
           /\ r.number # s.number =>
                Ahead(r, s, sort, descending) \/ Ahead(s, r, sort, descending)
           /\ Ahead(r, s, sort, descending) /\ Ahead(s, t, sort, descending) =>
                Ahead(r, t, sort, descending)
<1>1. CASE ~SortsByColumn(d, sort)
  BY <1>1 DEF Ahead, ByNumber, IsRowOf
<1>2. CASE SortsByColumn(d, sort)
  <2> DEFINE k == SortKey(r, sort)
             l == SortKey(s, sort)
             m == SortKey(t, sort)
  <2>1. k \in Keys /\ l \in Keys /\ m \in Keys
    BY <1>2, SortKeyType DEF SortsByColumn
  <2>2. /\ Ahead(r, s, sort, descending) <=>
             KeyAhead(k, l, descending) \/ (k = l /\ r.number < s.number)
        /\ Ahead(s, r, sort, descending) <=>
             KeyAhead(l, k, descending) \/ (k = l /\ s.number < r.number)
        /\ Ahead(s, t, sort, descending) <=>
             KeyAhead(l, m, descending) \/ (l = m /\ s.number < t.number)
        /\ Ahead(r, t, sort, descending) <=>
             KeyAhead(k, m, descending) \/ (k = m /\ r.number < t.number)
    BY <1>2 DEF Ahead, ByNumber, IsRowOf
  <2>3. r.number \in Nat /\ s.number \in Nat /\ t.number \in Nat
    BY DEF IsRowOf
  <2> HIDE DEF k, l, m
  <2>4. /\ ~(KeyAhead(k, l, descending) /\ KeyAhead(l, k, descending))
        /\ k # l => KeyAhead(k, l, descending) \/ KeyAhead(l, k, descending)
        /\ KeyAhead(k, l, descending) /\ KeyAhead(l, m, descending)
             => KeyAhead(k, m, descending)
    BY <2>1, KeyOrder
  <2>5. ~KeyAhead(k, k, descending)
    BY <2>1, KeyOrder
  <2> QED BY <2>2, <2>3, <2>4, <2>5
<1> QED BY <1>1, <1>2

-----------------------------------------------------------------------------
(* The two query builders. *)

(* Over datasets that all have the columns of the filters, the query of    *)
(* several datasets selects, of a dataset that would not refuse the query, *)
(* just the rows its own query selects, and nothing of one that would      *)
(* refuse an operator (datasets/services.py apply_dataset_rows_query and    *)
(* apply_dataset_row_query).                                               *)
THEOREM BuildersAgree ==
    ASSUME NEW ds \in SUBSET Datasets, NEW filters, NEW words, NEW row,
           row.dataset \in ds,
           \A d \in ds : \A f \in filters : f.header \in DOMAIN Schema[d],
           \A f, g \in filters : f.header = g.header => f = g,
           \A f \in filters : Len(f.values) = 1
    PROVE  SelectsAmong(row, ds, words, filters) <=>
             ~Refused(row.dataset, filters) /\ Selects(row, words, filters)
<1> DEFINE own == row.dataset
           contexts == Contexts(ds, filters)
           normal(d) == NormalFilters(d, filters)
           headers == {f.header : f \in UNION {normal(d) : d \in contexts}}
<1>1. Refused(own, filters) <=> own \notin contexts
  <2>1. \A f \in filters : f.header \in DOMAIN Schema[own] /\ ~(Len(f.values) > 1)
    <3>1. ~(1 > 1) OBVIOUS
    <3>2. \A f \in filters : Len(f.values) = 1 OBVIOUS
    <3>3. \A f \in filters : f.header \in DOMAIN Schema[own] OBVIOUS
    <3> QED BY <3>1, <3>2, <3>3, Zenon
  <2>2. Refused(own, filters) <=> \E f \in filters : BadOperator(own, f)
    BY <2>1 DEF Refused
  <2>3. own \in contexts <=> \A f \in filters : ~BadOperator(own, f)
    BY <2>1 DEF Contexts
  <2> QED BY <2>2, <2>3
<1>2. ASSUME NEW d \in ds, NEW f \in normal(d)
      PROVE  \E g \in filters :
               /\ f.header = g.header
               /\ f = [header |-> g.header,
                       values |-> IF Schema[d][g.header] = "choice"
                                  THEN g.values ELSE <<g.values[1]>>,
                       operator |-> OperatorOf(Schema[d][g.header], g.operator)]
  BY <1>2 DEF NormalFilters
<1>3. ASSUME NEW d \in ds, NEW g \in filters
      PROVE  \E f \in normal(d) : f.header = g.header
  <2> DEFINE n == [header |-> g.header,
                   values |-> IF Schema[d][g.header] = "choice"
                              THEN g.values ELSE <<g.values[1]>>,
                   operator |-> OperatorOf(Schema[d][g.header], g.operator)]
  <2>1. g.header \in DOMAIN Schema[d] OBVIOUS
  <2>2. n \in normal(d) BY <2>1, <1>3, Zenon DEF NormalFilters
  <2> QED BY <2>2
<1>4. \A f, g \in normal(own) : f.header = g.header => f = g
  BY <1>2
<1>5. ASSUME own \in contexts
      PROVE  headers = {f.header : f \in normal(own)}
  <2>1. contexts \subseteq ds BY DEF Contexts
  <2>2. ASSUME NEW d \in contexts, NEW f \in normal(d)
        PROVE  \E e \in normal(own) : e.header = f.header
    <3>1. PICK g \in filters : f.header = g.header BY <1>2, <2>1
    <3> QED BY <3>1, <1>3
  <2> HIDE DEF normal
  <2> QED BY <1>5, <2>2
<1> DEFINE Holds(h, d, f) ==
             f.header = h /\ own = d /\ Passes(Schema[d][h], row.data[h], f)
<1>6. ASSUME own \in contexts
      PROVE  (\A h \in headers : \E d \in contexts : \E f \in normal(d) :
                Holds(h, d, f))
             <=> \A f \in normal(own) :
                   Passes(Schema[own][f.header], row.data[f.header], f)
  <2> HIDE DEF normal, headers, contexts, own
  <2>1. ASSUME \A h \in headers : \E d \in contexts : \E f \in normal(d) :
                 Holds(h, d, f),
               NEW f \in normal(own)
        PROVE  Passes(Schema[own][f.header], row.data[f.header], f)
    <3>1. f.header \in headers BY <1>5, <1>6
    <3>2. PICK g \in normal(own) : Holds(f.header, own, g) BY <2>1, <3>1
    <3>3. g = f BY <3>2, <1>4
    <3> QED BY <3>2, <3>3
  <2>2. ASSUME \A f \in normal(own) :
                 Passes(Schema[own][f.header], row.data[f.header], f),
               NEW h \in headers
        PROVE  \E d \in contexts : \E f \in normal(d) : Holds(h, d, f)
    <3>1. PICK f \in normal(own) : f.header = h BY <1>5, <1>6
    <3> QED BY <3>1, <2>2, <1>6
  <2> QED BY <2>1, <2>2
<1> QED BY <1>1, <1>6 DEF SelectsAmong, Selects

-----------------------------------------------------------------------------
(* Reciprocal ranks. *)

(* Whatever is found both by meaning and by words scores more than what is *)
(* found in one way only, as long as the two ranks are at most the offset: *)
(* 1/(k+v) + 1/(k+l) >= 1/k > 1/(k+r) (api/services.py                      *)
(* _reciprocal_rank_score).  A search for 20 rows or fewer has no larger    *)
(* rank than 60; one for 50 has.                                           *)
THEOREM BothWaysScoreMore ==
    ASSUME NEW v \in 1 .. RankOffset, NEW l \in 1 .. RankOffset,
           NEW r \in Nat \ {0}
    PROVE  /\ Above(Score(v, l), Score(r, None))
           /\ Above(Score(v, l), Score(None, r))
<1> DEFINE k == RankOffset
           a == k + v
           b == k + l
           c == k + r
<1>1. k \in Nat /\ k > 0 BY RankOffsetAssumption
<1>2. /\ a \in Nat /\ a > 0 /\ a <= 2 * k
      /\ b \in Nat /\ b > 0 /\ b <= 2 * k
      /\ c \in Nat /\ c >= k + 1
  BY <1>1
<1>3. Score(v, l) = <<b + a, a * b>>
  BY <1>1, <1>2, NoneAssumption DEF Score, Reciprocal
<1>4. Score(r, None) = <<1, c>> /\ Score(None, r) = <<1, c>>
  BY <1>1, <1>2, NoneAssumption DEF Score, Reciprocal
<1> HIDE DEF k, a, b, c
<1>5. a * b <= (a + b) * k
  <2>1. a * b <= a * (2 * k) BY <1>1, <1>2
  <2>2. a * b <= (2 * k) * b BY <1>1, <1>2
  <2> QED BY <2>1, <2>2, <1>1, <1>2
<1>6. (a + b) * k < (a + b) * c BY <1>1, <1>2
<1>7. (b + a) * c > 1 * (a * b)
  <2>1. (b + a) * c = (a + b) * c BY <1>2
  <2>2. a * b \in Nat /\ (a + b) * k \in Nat /\ (a + b) * c \in Nat
    BY <1>1, <1>2
  <2> QED BY <2>1, <2>2, <1>5, <1>6
<1> QED BY <1>3, <1>4, <1>7 DEF Above

-----------------------------------------------------------------------------
(* Lists.  Of an order, B holds the pairs <<i, j>> where i comes before j.  *)

LEMMA LeastNumber ==
    ASSUME NEW T \in SUBSET Nat, T # {}
    PROVE  \E n \in T : \A m \in T : n <= m
<1> DEFINE less == OpToRel(<, Nat)
<1>1. \A m, n \in Nat : <<m, n>> \in less <=> m < n
  BY DEF OpToRel
<1>2. IsWellFoundedOn(less, Nat) BY NatLessThanWellFounded
<1> HIDE DEF less
<1>3. \E n \in T : \A m \in T : <<m, n>> \notin less
  BY <1>2, WFMin
<1>4. PICK n \in T : \A m \in T : <<m, n>> \notin less BY <1>3
<1>5. \A m \in T : ~(m < n) BY <1>1, <1>4
<1>6. \A m \in T : n <= m BY <1>5
<1> QED BY <1>6

LEMMA GreatestNumber ==
    ASSUME NEW T \in SUBSET Nat, T # {}, NEW n \in Nat, \A m \in T : m <= n
    PROVE  \E k \in T : \A m \in T : k >= m
<1> DEFINE short == {n - m : m \in T}
<1>1. short \in SUBSET Nat /\ short # {}
  <2>1. \A m \in T : n - m \in Nat OBVIOUS
  <2>2. PICK m \in T : TRUE OBVIOUS
  <2>3. n - m \in short OBVIOUS
  <2> QED BY <2>1, <2>3
<1> HIDE DEF short
<1>2. PICK l \in short : \A s \in short : l <= s BY <1>1, LeastNumber
<1>3. PICK k \in T : l = n - k BY <1>2 DEF short
<1>4. ASSUME NEW m \in T PROVE k >= m
  <2>1. n - k <= n - m BY <1>2, <1>3 DEF short
  <2> QED BY <2>1
<1> QED BY <1>4

LEMMA FirstNumbers ==
    ASSUME NEW n \in Nat
    PROVE  IsFiniteSet(1..n) /\ Cardinality(1..n) = n
BY FS_Interval

IsOrderOf(B, W) ==
    /\ \A i, j \in W : i # j => <<i, j>> \in B \/ <<j, i>> \in B
    /\ \A i, j \in W : ~(<<i, j>> \in B /\ <<j, i>> \in B)

(* s has each element of W once, and in this order. *)
Lists(s, W, B) ==
    /\ s \in [1 .. Cardinality(W) -> W]
    /\ \A k, l \in 1 .. Cardinality(W) : k # l => s[k] # s[l]
    /\ \A k, l \in 1 .. Cardinality(W) : k < l => <<s[l], s[k]>> \notin B

(* g is what a list of W begins with. *)
IsFront(g, W, B) ==
    /\ g \in Seq(W)
    /\ \A k, l \in 1 .. Len(g) : k < l => <<g[k], g[l]>> \in B
    /\ \A k \in 1 .. Len(g) : \A i \in W :
         <<i, g[k]>> \in B => \E l \in 1 .. Len(g) : g[l] = i

LEMMA ListsAreComplete ==
    ASSUME NEW W, IsFiniteSet(W), NEW B, NEW s, Lists(s, W, B)
    PROVE  /\ Cardinality(W) \in Nat
           /\ s \in Seq(W) /\ Len(s) = Cardinality(W)
           /\ \A i \in W : \E k \in 1 .. Cardinality(W) : s[k] = i
<1> DEFINE n == Cardinality(W)
<1>1. n \in Nat BY FS_CardinalityType
<1>2. s \in [1 .. n -> W] /\ \A k, l \in 1 .. n : k # l => s[k] # s[l]
  BY DEF Lists
<1> HIDE DEF n
<1>3. s \in Injection(1 .. n, W) BY <1>2, Fun_IsInj
<1>4. Cardinality(1 .. n) = Cardinality(W) BY <1>1, FirstNumbers DEF n
<1>5. s \in Surjection(1 .. n, W) BY <1>3, <1>4, FS_Injection
<1>6. \A i \in W : \E k \in 1 .. n : s[k] = i
  BY <1>5 DEF Surjection
<1>7. s \in Seq(W) /\ Len(s) = n
  BY <1>1, <1>2
<1> QED BY <1>1, <1>6, <1>7 DEF n

(* Whatever list of W one takes, it begins with every front of W.          *)
LEMMA ListBeginsWithFront ==
    ASSUME NEW W, IsFiniteSet(W), NEW B, IsOrderOf(B, W),
           NEW g, IsFront(g, W, B), NEW s, Lists(s, W, B)
    PROVE  /\ Len(g) \in 0 .. Cardinality(W)
           /\ \A k \in 1 .. Len(g) : g[k] = s[k]
<1> DEFINE n == Cardinality(W)
           bad == {k \in 1 .. Len(g) : k > n \/ g[k] # s[k]}
<1>1. /\ n \in Nat
      /\ \A i \in W : \E k \in 1 .. n : s[k] = i
  BY ListsAreComplete
<1>2. /\ g \in Seq(W) /\ Len(g) \in Nat
      /\ \A k \in 1 .. Len(g) : g[k] \in W
  BY DEF IsFront
<1>3. /\ \A k \in 1 .. n : s[k] \in W
      /\ \A k, l \in 1 .. n : k # l => s[k] # s[l]
      /\ \A k, l \in 1 .. n : k < l => <<s[l], s[k]>> \notin B
  BY DEF Lists
<1>4. \A k, l \in 1 .. Len(g) : k < l => g[k] # g[l]
  BY <1>2 DEF IsFront, IsOrderOf
<1> HIDE DEF n
<1>5. bad = {}
  <2> SUFFICES ASSUME bad # {} PROVE FALSE
    OBVIOUS
  <2>1. bad \in SUBSET Nat BY <1>2
  <2>2. PICK k \in bad : \A m \in bad : k <= m
    BY <2>1, LeastNumber
  <2>3. k \in 1 .. Len(g) /\ g[k] \in W BY <1>2
  <2>4. PICK l \in 1 .. n : s[l] = g[k] BY <1>1, <2>3
  <2>5. ~(l < k)
    <3> SUFFICES ASSUME l < k PROVE FALSE
      OBVIOUS
    <3>1. l \in 1 .. Len(g) /\ l \notin bad BY <1>1, <1>2, <2>2, <2>3
    <3>2. g[l] = s[l] BY <3>1
    <3> QED BY <3>1, <3>2, <2>3, <2>4, <1>4
  <2>6. k \in 1 .. n /\ g[k] # s[k] /\ k < l
    <3>1. l >= k BY <1>1, <1>2, <2>3, <2>5
    <3>2. k \in 1 .. n BY <1>1, <1>2, <2>3, <3>1
    <3>3. g[k] # s[k] BY <1>1, <3>2
    <3> QED BY <3>1, <3>2, <3>3, <2>4, <1>1
  <2>7. <<s[k], g[k]>> \in B
    BY <2>3, <2>4, <2>6, <1>3 DEF IsOrderOf
  <2>8. PICK m \in 1 .. Len(g) : g[m] = s[k]
    BY <2>3, <2>6, <2>7, <1>3 DEF IsFront
  <2>9. CASE m < k
    <3>1. m \notin bad BY <1>2, <2>2, <2>3, <2>9
    <3>2. m \in 1 .. n /\ g[m] = s[m] BY <3>1, <1>1, <1>2
    <3> QED BY <3>2, <2>8, <2>9, <2>6, <1>3
  <2>10. CASE m = k BY <2>10, <2>8, <2>6
  <2>11. CASE k < m
    <3>1. <<g[k], g[m]>> \in B BY <2>11, <2>3 DEF IsFront
    <3> QED BY <3>1, <2>3, <2>6, <2>7, <2>8, <1>3 DEF IsOrderOf
  <2> QED BY <2>9, <2>10, <2>11, <2>3, <1>2
<1>6. \A k \in 1 .. Len(g) : k <= n /\ g[k] = s[k]
  BY <1>5, <1>1, <1>2
<1>7. Len(g) <= n BY <1>6, <1>1, <1>2
<1> QED BY <1>1, <1>2, <1>6, <1>7 DEF n

(* The beginning of a list is a front. *)
LEMMA ListHasFronts ==
    ASSUME NEW W, IsFiniteSet(W), NEW B, IsOrderOf(B, W),
           NEW s, Lists(s, W, B), NEW m \in 0 .. Cardinality(W)
    PROVE  /\ IsFront(SubSeq(s, 1, m), W, B)
           /\ Len(SubSeq(s, 1, m)) = m
<1> DEFINE n == Cardinality(W)
           g == SubSeq(s, 1, m)
<1>1. /\ n \in Nat
      /\ \A i \in W : \E k \in 1 .. n : s[k] = i
  BY ListsAreComplete
<1>2. /\ \A k \in 1 .. n : s[k] \in W
      /\ \A k, l \in 1 .. n : k # l => s[k] # s[l]
      /\ \A k, l \in 1 .. n : k < l => <<s[l], s[k]>> \notin B
  BY DEF Lists
<1>3. m \in Nat /\ m <= n BY <1>1
<1> HIDE DEF n
<1>4. g \in Seq(W) /\ Len(g) = m /\ \A k \in 1 .. m : g[k] = s[k]
  <2>1. \A k \in 1 .. m : s[k] \in W BY <1>1, <1>2, <1>3
  <2>2. /\ g \in Seq(W)
        /\ Len(g) = IF 1 <= m THEN m - 1 + 1 ELSE 0
        /\ \A i \in 1 .. m - 1 + 1 : g[i] = s[1 + i - 1]
    BY <2>1, <1>3, SubSeqProperties
  <2> QED BY <2>2, <1>3
<1> HIDE DEF g
<1>5. \A k \in 1 .. m : k \in 1 .. n BY <1>1, <1>3
<1>6. ASSUME NEW k \in 1 .. m, NEW l \in 1 .. m, k < l
      PROVE  <<g[k], g[l]>> \in B
  <2>1. g[k] = s[k] /\ g[l] = s[l] /\ k \in 1 .. n /\ l \in 1 .. n
    BY <1>4, <1>5
  <2>2. k # l BY <1>6, <1>3
  <2>3. s[k] \in W /\ s[l] \in W /\ s[k] # s[l] /\ <<s[l], s[k]>> \notin B
    BY <2>1, <2>2, <1>2, <1>6
  <2> QED BY <2>1, <2>3 DEF IsOrderOf
<1>7. ASSUME NEW k \in 1 .. m, NEW i \in W, <<i, g[k]>> \in B
      PROVE  \E l \in 1 .. m : g[l] = i
  <2>1. PICK l \in 1 .. n : s[l] = i BY <1>1
  <2>2. g[k] = s[k] /\ k \in 1 .. n BY <1>4, <1>5
  <2>3. l # k BY <2>1, <2>2, <1>2, <1>7 DEF IsOrderOf
  <2>4. ~(k < l) BY <2>1, <2>2, <1>2, <1>7
  <2>5. l \in 1 .. m BY <2>3, <2>4, <1>1, <1>3
  <2> QED BY <2>5, <2>1, <1>4
<1> QED BY <1>4, <1>6, <1>7 DEF IsFront, g

(* A front followed by what comes behind it in a list is a longer front.   *)
LEMMA FrontContinued ==
    ASSUME NEW W, IsFiniteSet(W), NEW B, IsOrderOf(B, W),
           NEW g, IsFront(g, W, B), NEW s, Lists(s, W, B),
           NEW m \in Nat, Len(g) <= m, m <= Cardinality(W)
    PROVE  /\ IsFront(g \o SubSeq(s, Len(g) + 1, m), W, B)
           /\ Len(g \o SubSeq(s, Len(g) + 1, m)) = m
<1>1. /\ Cardinality(W) \in Nat
      /\ s \in Seq(W) /\ Len(s) = Cardinality(W)
  BY ListsAreComplete
<1>2. /\ Len(g) \in 0 .. Cardinality(W)
      /\ \A k \in 1 .. Len(g) : g[k] = s[k]
  BY ListBeginsWithFront
<1>3. /\ IsFront(SubSeq(s, 1, Len(g)), W, B)
      /\ Len(SubSeq(s, 1, Len(g))) = Len(g)
  BY <1>2, ListHasFronts
<1>4. \A k \in 1 .. Len(g) : SubSeq(s, 1, Len(g))[k] = s[k]
  BY <1>1, <1>2, <1>3
<1>5. g = SubSeq(s, 1, Len(g))
  <2>1. g \in Seq(W) /\ SubSeq(s, 1, Len(g)) \in Seq(W)
    BY <1>3 DEF IsFront
  <2> QED BY <2>1, <1>2, <1>3, <1>4, SeqEqual
<1> DEFINE n == Len(g)
<1>6. n \in Nat /\ n <= Len(s) /\ m \in n .. Len(s)
  BY <1>1, <1>2
<1> HIDE DEF n
<1>7. SubSeq(s, 1, n) \o SubSeq(s, n + 1, m) = SubSeq(s, 1, m)
  <2>1. 1 \in 1 .. Len(s) + 1 /\ n \in 1 - 1 .. Len(s) /\ m \in n .. Len(s)
    BY <1>1, <1>6
  <2> QED BY <2>1, <1>1, ConcatAdjacentSubSeq
<1>8. g \o SubSeq(s, Len(g) + 1, m) = SubSeq(s, 1, m)
  BY <1>5, <1>7 DEF n
<1>9. m \in 0 .. Cardinality(W) BY <1>1
<1>10. IsFront(SubSeq(s, 1, m), W, B) /\ Len(SubSeq(s, 1, m)) = m
  BY <1>9, ListHasFronts
<1> QED BY <1>8, <1>10

(* A front that has all of W is a list of it. *)
LEMMA FullFrontLists ==
    ASSUME NEW W, IsFiniteSet(W), NEW B, IsOrderOf(B, W),
           NEW g, IsFront(g, W, B), W \subseteq Range(g)
    PROVE  Lists(g, W, B)
<1> DEFINE n == Len(g)
<1>1. n \in Nat /\ g \in [1 .. n -> W] /\ DOMAIN g = 1 .. n
  BY DEF IsFront
<1>2. ASSUME NEW k \in 1 .. n, NEW l \in 1 .. n, g[k] = g[l]
      PROVE  k = l
  <2>1. ~(k < l) /\ ~(l < k)
    BY <1>1, <1>2 DEF IsFront, IsOrderOf
  <2> QED BY <2>1, <1>1
<1>3. \A i \in W : \E k \in 1 .. n : g[k] = i
  BY <1>1 DEF Range
<1>4. \A k, l \in 1 .. n : k < l => <<g[l], g[k]>> \notin B
  BY <1>1 DEF IsFront, IsOrderOf
<1>5. \A k, l \in 1 .. n : g[k] = g[l] => k = l BY <1>2
<1> HIDE DEF n
<1>6. g \in Surjection(1 .. n, W) /\ g \in Injection(1 .. n, W)
  BY <1>1, <1>5, <1>3, Fun_IsInj, Fun_IsSurj
<1>7. Cardinality(W) = n
  BY <1>1, <1>6, FS_Surjection, FirstNumbers
<1> QED BY <1>1, <1>5, <1>4, <1>7 DEF Lists

-----------------------------------------------------------------------------
(* The rows: in a dataset the later row has the larger number.             *)

RowsOK ==
    /\ created \in 0 .. MaxRows
    /\ Live \subseteq 1 .. created
    /\ \A i \in Live : /\ table[i].dataset \in Datasets
                       /\ table[i] \in RowType(table[i].dataset)
                       /\ table[i].number <= i
    /\ \A i, j \in Live : i < j /\ table[i].dataset = table[j].dataset
                          => table[i].number < table[j].number

LEMMA LiveRows ==
    ASSUME RowsOK
    PROVE  /\ created \in Nat /\ created <= MaxRows /\ MaxRows \in Nat
           /\ IsFiniteSet(Live) /\ Live \subseteq Nat
           /\ \A i \in Live : i >= 1 /\ i <= created
           /\ \A i \in Live : IsRowOf(table[i], table[i].dataset)
<1>1. created \in Nat /\ created <= MaxRows /\ MaxRows \in Nat
  BY SizesAssumption DEF RowsOK
<1>2. Live \subseteq Nat /\ \A i \in Live : i >= 1 /\ i <= created
  BY <1>1 DEF RowsOK
<1>3. IsFiniteSet(Live) BY <1>1, <1>2, FS_BoundedSetOfNaturals
<1>4. \A i \in Live : IsRowOf(table[i], table[i].dataset)
  BY <1>1 DEF RowsOK, RowType, DataOf, IsRowOf
<1> QED BY <1>1, <1>2, <1>3, <1>4

(* The next number is larger than those of all rows of the dataset.        *)
LEMMA NextNumberIsFree ==
    ASSUME RowsOK, NEW d \in Datasets
    PROVE  /\ NextNumber(d) \in 1 .. created + 1
           /\ \A i \in Live : table[i].dataset = d => table[i].number < NextNumber(d)
<1> DEFINE S == {0} \cup NumbersOf(d)
<1>1. created \in Nat BY LiveRows
<1>2. \A i \in Live : table[i].number \in Nat /\ table[i].number <= created
  <2>1. \A i \in Live : table[i].number \in Nat /\ i \in Nat
    BY LiveRows DEF IsRowOf
  <2>2. \A i \in Live : table[i].number <= i /\ i <= created
    BY LiveRows DEF RowsOK
  <2> QED BY <2>1, <2>2, <1>1
<1>3. S \in SUBSET Nat /\ S # {} /\ \A n \in S : n <= created
  BY <1>1, <1>2 DEF NumbersOf
<1>4. \E k \in S : \A m \in S : k >= m BY <1>1, <1>3, GreatestNumber
<1>5. Max(S) \in S /\ \A m \in S : Max(S) >= m BY <1>4 DEF Max
<1>6. \A i \in Live : table[i].dataset = d => table[i].number \in S
  BY DEF NumbersOf
<1>7. NextNumber(d) = 1 + Max(S) BY DEF NextNumber
<1> HIDE DEF S
<1>8. Max(S) \in Nat /\ Max(S) <= created BY <1>3, <1>5
<1> QED BY <1>1, <1>2, <1>5, <1>6, <1>7, <1>8

(* What a write does to the rows, and to a read under way.                 *)
WriteBy(kind) ==
    /\ read' = read
    /\ \A i \in Live' :
         \/ /\ i \in Live
            /\ table'[i].dataset = table[i].dataset
            /\ table'[i].number = table[i].number
            /\ kind # "patched" => table'[i] = table[i]
         \/ kind = "created" /\ created' = created + 1 /\ i = created + 1
    /\ kind # "deleted" => Live \subseteq Live'
    /\ created' \in {created, created + 1}
    /\ IF read = None THEN UNCHANGED <<changes, ghosts>>
       ELSE /\ read.at # "done"
            /\ changes' = Append(changes, kind)
            /\ met' = met \cup MetIn(table', read)
            /\ kept' = kept \cap WantedIn(table', read)
            /\ atStart' = atStart

Kinds == {"created", "patched", "deleted"}

LEMMA WritesKeepRows ==
    ASSUME RowsOK, Writes
    PROVE  RowsOK' /\ \E kind \in Kinds : WriteBy(kind)
<1>1. /\ created \in Nat /\ MaxRows \in Nat /\ Live \subseteq Nat
      /\ \A i \in Live : i >= 1 /\ i <= created
      /\ \A i \in Live : table[i].number \in Nat
  BY LiveRows DEF IsRowOf
<1>2. ASSUME NEW d \in Datasets, Create(d)
      PROVE  RowsOK' /\ WriteBy("created")
  <2> DEFINE new == created + 1
  <2>1. PICK data \in DataOf(d) :
          /\ created < MaxRows /\ created' = new
          /\ Write([i \in Live \cup {new} |->
                      IF i \in Live THEN table[i]
                      ELSE [dataset |-> d, number |-> NextNumber(d),
                            data |-> data]], "created")
    BY <1>2 DEF Create
  <2>2. /\ table' = [i \in Live \cup {new} |->
                      IF i \in Live THEN table[i]
                      ELSE [dataset |-> d, number |-> NextNumber(d),
                            data |-> data]]
        /\ IF read = None THEN UNCHANGED <<read, changes, ghosts>>
           ELSE /\ read.at # "done"
                /\ changes' = Append(changes, "created")
                /\ met' = met \cup MetIn(table', read)
                /\ kept' = kept \cap WantedIn(table', read)
                /\ UNCHANGED <<read, atStart>>
    BY <2>1, Zenon DEF Write
  <2>3. new \notin Live /\ new \in Nat BY <1>1
  <2>4. /\ Live' = Live \cup {new}
        /\ \A i \in Live : table'[i] = table[i]
        /\ table'[new] = [dataset |-> d, number |-> NextNumber(d), data |-> data]
    BY <2>2, <2>3 DEF Live
  <2>5. WriteBy("created")
    <3>1. \A i \in Live' : i \in Live \/ i = new BY <2>4
    <3> QED BY <2>1, <2>2, <2>4, <3>1 DEF WriteBy, ghosts
  <2>6. /\ NextNumber(d) \in 1 .. new
        /\ \A i \in Live : table[i].dataset = d => table[i].number < NextNumber(d)
    BY NextNumberIsFree
  <2>7. /\ table'[new].dataset = d /\ table'[new].number = NextNumber(d)
        /\ table'[new] \in RowType(d) /\ table'[new].number <= new
    <3>1. NextNumber(d) \in 1 .. MaxRows BY <2>1, <2>6, <1>1
    <3> QED BY <3>1, <2>4, <2>6, <1>1 DEF RowType
  <2>8. created' \in 0 .. MaxRows /\ Live' \subseteq 1 .. created'
    <3>1. new \in 0 .. MaxRows BY <2>1, <1>1
    <3>2. \A i \in Live \cup {new} : i \in 1 .. new
      BY <2>3, <1>1
    <3> QED BY <2>1, <2>4, <3>1, <3>2
  <2>9. \A i \in Live' : /\ table'[i].dataset \in Datasets
                         /\ table'[i] \in RowType(table'[i].dataset)
                         /\ table'[i].number <= i
    BY <2>4, <2>7 DEF RowsOK
  <2>10. ASSUME NEW i \in Live', NEW j \in Live', i < j,
                table'[i].dataset = table'[j].dataset
         PROVE  table'[i].number < table'[j].number
    <3>1. i \in Live BY <2>4, <2>10, <1>1
    <3>2. CASE j \in Live BY <3>1, <3>2, <2>4, <2>10 DEF RowsOK
    <3>3. CASE j = new BY <3>1, <3>3, <2>4, <2>6, <2>7, <2>10
    <3> QED BY <3>2, <3>3, <2>4
  <2>11. RowsOK' BY <2>8, <2>9, <2>10, Zenon DEF RowsOK, Live, RowType, DataOf
  <2> QED BY <2>5, <2>11
<1>3. ASSUME NEW i \in Live, Patch(i)
      PROVE  RowsOK' /\ WriteBy("patched")
  <2>1. PICK h \in DOMAIN table[i].data : \E c \in Cells[h] \ {table[i].data[h]} :
          /\ Write([table EXCEPT ![i].data[h] = c], "patched")
          /\ UNCHANGED created
    BY <1>3 DEF Patch
  <2>2. PICK c \in Cells[h] \ {table[i].data[h]} :
          /\ Write([table EXCEPT ![i].data[h] = c], "patched")
          /\ UNCHANGED created
    BY <2>1
  <2>3. /\ table' = [table EXCEPT ![i].data[h] = c]
        /\ created' = created
        /\ IF read = None THEN UNCHANGED <<read, changes, ghosts>>
           ELSE /\ read.at # "done"
                /\ changes' = Append(changes, "patched")
                /\ met' = met \cup MetIn(table', read)
                /\ kept' = kept \cap WantedIn(table', read)
                /\ UNCHANGED <<read, atStart>>
    BY <2>2 DEF Write
  <2>4. /\ Live' = Live
        /\ \A j \in Live : j # i => table'[j] = table[j]
        /\ table'[i] = [table[i] EXCEPT !.data = [table[i].data EXCEPT ![h] = c]]
    BY <2>3 DEF Live
  <2>5. /\ table[i].dataset \in Datasets
        /\ table[i] \in RowType(table[i].dataset)
    BY DEF RowsOK
  <2>6. /\ table'[i].dataset = table[i].dataset
        /\ table'[i].number = table[i].number
        /\ table'[i] \in RowType(table[i].dataset)
    <3> DEFINE d == table[i].dataset
    <3>1. table[i] \in [dataset : {d}, number : 1 .. MaxRows, data : DataOf(d)]
      BY <2>5 DEF RowType
    <3>2. table[i].data \in DataOf(d) BY <3>1
    <3>3. DOMAIN table[i].data = DOMAIN Schema[d] BY <3>2 DEF DataOf
    <3>4. c \in Texts
      <4>1. h \in DOMAIN Cells BY <2>5, <3>3, SchemaAssumption
      <4> QED BY <4>1 DEF Texts, Range
    <3>5. [table[i].data EXCEPT ![h] = c] \in DataOf(d)
      BY <3>2, <3>3, <3>4 DEF DataOf
    <3> QED BY <3>1, <3>5, <2>4 DEF RowType
  <2>7. \A j \in Live : /\ table'[j].dataset = table[j].dataset
                        /\ table'[j].number = table[j].number
                        /\ table'[j] \in RowType(table[j].dataset)
    BY <2>4, <2>6 DEF RowsOK
  <2>8. WriteBy("patched")
    BY <2>3, <2>4, <2>7 DEF WriteBy, ghosts
  <2>9. RowsOK'
    <3>1. created' \in 0 .. MaxRows /\ Live' \subseteq 1 .. created'
      BY <2>3, <2>4 DEF RowsOK
    <3>2. \A j \in Live' : /\ table'[j].dataset \in Datasets
                           /\ table'[j] \in RowType(table'[j].dataset)
                           /\ table'[j].number <= j
      BY <2>4, <2>7 DEF RowsOK
    <3>3. \A j, k \in Live' :
            j < k /\ table'[j].dataset = table'[k].dataset
              => table'[j].number < table'[k].number
      BY <2>4, <2>7 DEF RowsOK
    <3> QED BY <3>1, <3>2, <3>3 DEF RowsOK, RowType, DataOf
  <2> QED BY <2>8, <2>9
<1>4. ASSUME NEW i \in Live, Delete(i)
      PROVE  RowsOK' /\ WriteBy("deleted")
  <2>1. /\ table' = [j \in Live \ {i} |-> table[j]]
        /\ created' = created
        /\ IF read = None THEN UNCHANGED <<read, changes, ghosts>>
           ELSE /\ read.at # "done"
                /\ changes' = Append(changes, "deleted")
                /\ met' = met \cup MetIn(table', read)
                /\ kept' = kept \cap WantedIn(table', read)
                /\ UNCHANGED <<read, atStart>>
    BY <1>4 DEF Delete, Write
  <2>2. Live' = Live \ {i} /\ \A j \in Live' : table'[j] = table[j]
    BY <2>1 DEF Live
  <2>3. WriteBy("deleted")
    BY <2>1, <2>2 DEF WriteBy, ghosts
  <2>4. RowsOK' 
    BY <2>1, <2>2, Zenon DEF RowsOK, RowType, DataOf
  <2> QED BY <2>3, <2>4
<1> QED BY <1>2, <1>3, <1>4 DEF Writes, Kinds

-----------------------------------------------------------------------------
(* Types. *)

PagesRead ==
    [kind : {"pages"}, at : {"count", "page", "done"}, dataset : Datasets,
     words : {l.words : l \in Listings}, filters : {l.filters : l \in Listings},
     sort : {l.sort : l \in Listings}, descending : BOOLEAN,
     by : {"client", "person"}, offset : Nat, count : Nat, got : Seq(Ids)]

SearchRead ==
    [kind : {"search"}, at : {"points", "allowed", "lexical", "answer", "done"},
     scope : Datasets \cup {None}, words : {q.words : q \in Searches},
     filters : {q.filters : q \in Searches}, datasets : SUBSET Datasets,
     hits : Seq(Ids), allowed : SUBSET Ids, lexical : Seq(Ids),
     answer : Seq(Ids)]

TypeInv ==
    /\ RowsOK
    /\ read # None => read \in PagesRead \cup SearchRead
    /\ changes \in Seq(Kinds)
    /\ atStart \subseteq Ids /\ met \subseteq Ids /\ kept \subseteq atStart

LEMMA Division ==
    ASSUME NEW a \in Nat, NEW p \in Nat \ {0}
    PROVE  /\ a \div p \in Nat
           /\ (a \div p) * p <= a
           /\ a < (a \div p) * p + p
OBVIOUS

LEMMA SliceType ==
    ASSUME NEW S, NEW s \in Seq(S), NEW m \in Nat, NEW n \in Nat
    PROVE  /\ Slice(s, m, n) \in Seq(S)
           /\ Slice(s, m, n) = SubSeq(s, m + 1, IF n < Len(s) THEN n ELSE Len(s))
           /\ Len(Slice(s, m, n)) \in Nat
           /\ Range(Slice(s, m, n)) \subseteq Range(s)
<1> DEFINE k == IF n < Len(s) THEN n ELSE Len(s)
<1>1. /\ Len(s) \in Nat /\ k \in Nat /\ k <= Len(s)
      /\ \A i \in 1 .. Len(s) : s[i] \in S
      /\ DOMAIN s = 1 .. Len(s)
  OBVIOUS
<1>2. Slice(s, m, n) = SubSeq(s, m + 1, k) BY DEF Slice
<1> HIDE DEF k
<1>3. \A T : (\A i \in 1 .. Len(s) : s[i] \in T) => SubSeq(s, m + 1, k) \in Seq(T)
  <2> SUFFICES ASSUME NEW T, \A i \in 1 .. Len(s) : s[i] \in T
               PROVE  SubSeq(s, m + 1, k) \in Seq(T)
    OBVIOUS
  <2>1. \A i \in m + 1 .. k : s[i] \in T BY <1>1
  <2>2. m + 1 \in Int /\ k \in Int BY <1>1
  <2> QED BY <2>1, <2>2, SubSeqProperties
<1>4. SubSeq(s, m + 1, k) \in Seq(S) BY <1>1, <1>3
<1>5. SubSeq(s, m + 1, k) \in Seq(Range(s)) BY <1>1, <1>3 DEF Range
<1>6. Range(SubSeq(s, m + 1, k)) \subseteq Range(s) BY <1>5, RangeOfSeq
<1> QED BY <1>2, <1>4, <1>6 DEF k

(* Of each order, the pairs of rows of which one comes before the other.   *)
Pairs(t, r) ==
    {p \in (DOMAIN t) \X (DOMAIN t) :
       Ahead(t[p[1]], t[p[2]], r.sort, r.descending)}

LEMMA RowsAreLists ==
    ASSUME NEW r, NEW s
    PROVE  s \in Rows(r) <=> Lists(s, WantedIn(table, r), Pairs(table, r))
<1> DEFINE W == WantedIn(table, r)
           n == Cardinality(W)
           behind(i, j) == Ahead(table[j], table[i], r.sort, r.descending)
<1>1. s \in Rows(r) <=>
        /\ s \in [1 .. n -> W]
        /\ \A k, l \in 1 .. n : k # l => s[k] # s[l]
        /\ \A k, l \in DOMAIN s : k < l => ~behind(s[k], s[l])
  BY DEF Rows, Orders, SetToSeqs
<1>2. W \subseteq DOMAIN table BY DEF WantedIn
<1>3. \A i, j \in W : behind(i, j) <=> <<j, i>> \in Pairs(table, r)
  BY <1>2 DEF Pairs
<1> HIDE DEF W, n, behind
<1>4. s \in [1 .. n -> W] =>
        /\ DOMAIN s = 1 .. n
        /\ \A k \in 1 .. n : s[k] \in W
  OBVIOUS
<1> QED BY <1>1, <1>3, <1>4 DEF Lists, W, n

LEMMA WantedIsFinite ==
    ASSUME RowsOK, NEW r
    PROVE  /\ IsFiniteSet(WantedIn(table, r))
           /\ Cardinality(WantedIn(table, r)) \in Nat
           /\ WantedIn(table, r) \subseteq 1 .. created
           /\ WantedIn(table, r) \subseteq Ids
           /\ WantedIn(table, r) \subseteq Live
<1>1. WantedIn(table, r) \subseteq Live BY DEF WantedIn, Live
<1>2. IsFiniteSet(WantedIn(table, r)) BY <1>1, LiveRows, FS_Subset
<1>3. \A i \in Live : i \in 1 .. created /\ i \in Ids
  BY LiveRows DEF Ids
<1> QED BY <1>1, <1>2, <1>3, FS_CardinalityType

(* A listing's rows are of one dataset, and its order is total on them.    *)
LEMMA ListingIsOrdered ==
    ASSUME RowsOK, NEW r \in PagesRead
    PROVE  IsOrderOf(Pairs(table, r), WantedIn(table, r))
<1> DEFINE W == WantedIn(table, r)
           d == r.dataset
<1>1. d \in Datasets /\ r.descending \in BOOLEAN /\ r.kind = "pages"
  BY DEF PagesRead
<1>2. W \subseteq Live /\ \A i \in W : table[i].dataset = d
  BY <1>1 DEF WantedIn, Wanted, InScope, Live
<1>3. \A i \in W : IsRowOf(table[i], d)
  BY <1>2, LiveRows
<1>4. ASSUME NEW i \in W, NEW j \in W, i # j
      PROVE  table[i].number # table[j].number
  <2>1. i \in Nat /\ j \in Nat /\ i \in Live /\ j \in Live
    BY <1>2, LiveRows
  <2>2. table[i].number \in Nat /\ table[j].number \in Nat
    BY <1>3 DEF IsRowOf
  <2>3. i < j \/ j < i BY <2>1, <1>4
  <2>4. table[i].number < table[j].number \/ table[j].number < table[i].number
    BY <2>1, <2>3, <1>2 DEF RowsOK
  <2> QED BY <2>2, <2>4
<1>5. \A i, j \in W : <<i, j>> \in Pairs(table, r) <=>
                        Ahead(table[i], table[j], r.sort, r.descending)
  BY <1>2 DEF Pairs, Live
<1>6. ASSUME NEW i \in W, NEW j \in W
      PROVE  /\ ~(Ahead(table[i], table[j], r.sort, r.descending)
                  /\ Ahead(table[j], table[i], r.sort, r.descending))
             /\ i # j => \/ Ahead(table[i], table[j], r.sort, r.descending)
                         \/ Ahead(table[j], table[i], r.sort, r.descending)
  <2> HIDE DEF W, d
  <2>1. IsRowOf(table[i], d) /\ IsRowOf(table[j], d) BY <1>3
  <2>2. i # j => table[i].number # table[j].number BY <1>4
  <2>3. /\ ~(Ahead(table[i], table[j], r.sort, r.descending)
             /\ Ahead(table[j], table[i], r.sort, r.descending))
        /\ table[i].number # table[j].number =>
             \/ Ahead(table[i], table[j], r.sort, r.descending)
             \/ Ahead(table[j], table[i], r.sort, r.descending)
    BY <2>1, <1>1, ListingOrderIsTotal
  <2> QED BY <2>2, <2>3
<1> QED BY <1>5, <1>6 DEF IsOrderOf

(* The pages a read takes are of rows that are wanted now.                 *)
LEMMA PageType ==
    ASSUME TypeInv, NEW r \in PagesRead, NEW s \in Rows(r),
           NEW m \in Nat, NEW n \in Nat
    PROVE  /\ s \in Seq(WantedIn(table, r))
           /\ Len(s) = Cardinality(WantedIn(table, r))
           /\ Slice(s, m, n) \in Seq(WantedIn(table, r))
           /\ Slice(s, m, n) \in Seq(Ids)
           /\ Len(Slice(s, m, n)) \in Nat
<1> DEFINE W == WantedIn(table, r)
<1>1. IsFiniteSet(W) /\ W \subseteq Ids BY WantedIsFinite DEF TypeInv
<1>2. Lists(s, W, Pairs(table, r)) BY RowsAreLists
<1>3. s \in Seq(W) /\ Len(s) = Cardinality(W)
  BY <1>1, <1>2, ListsAreComplete
<1> HIDE DEF W
<1>4. Slice(s, m, n) \in Seq(W) /\ Len(Slice(s, m, n)) \in Nat
  BY <1>3, SliceType
<1>5. Slice(s, m, n) \in Seq(Ids) BY <1>1, <1>4, SeqMonotonic
<1> QED BY <1>3, <1>4, <1>5 DEF W

(* What each step of a read does to it. *)
PageEnd(r) == IF r.count = 0 THEN 0 ELSE (r.count - 1) \div PageSize
PageFrom(r) == IF r.offset <= PageEnd(r) * PageSize THEN r.offset
               ELSE PageEnd(r) * PageSize
PageTo(r) == IF PageFrom(r) + PageSize < r.count THEN PageFrom(r) + PageSize
             ELSE r.count

LEMMA PageNumbers ==
    ASSUME NEW r \in PagesRead
    PROVE  /\ PageEnd(r) \in Nat /\ PageFrom(r) \in Nat /\ PageTo(r) \in Nat
           /\ PageEnd(r) * PageSize \in Nat
           /\ PageFrom(r) <= PageEnd(r) * PageSize
           /\ r.count > 0 => PageEnd(r) * PageSize < r.count
           /\ r.count <= PageEnd(r) * PageSize + PageSize
<1>1. r.count \in Nat /\ r.offset \in Nat /\ PageSize \in Nat \ {0}
  BY SizesAssumption DEF PagesRead
<1>2. /\ PageEnd(r) \in Nat
      /\ PageEnd(r) * PageSize \in Nat
      /\ r.count > 0 => PageEnd(r) * PageSize < r.count
      /\ r.count <= PageEnd(r) * PageSize + PageSize
  <2>1. CASE r.count = 0 BY <2>1, <1>1 DEF PageEnd
  <2>2. CASE r.count # 0
    <3> DEFINE a == r.count - 1
               q == a \div PageSize
    <3>1. a \in Nat /\ a < r.count /\ r.count = a + 1 BY <2>2, <1>1
    <3> HIDE DEF a
    <3>2. q \in Nat /\ q * PageSize <= a /\ a < q * PageSize + PageSize
      BY <3>1, <1>1, Division
    <3>3. PageEnd(r) = q BY <2>2 DEF PageEnd, a
    <3> HIDE DEF q
    <3>4. q * PageSize \in Nat BY <3>2, <1>1
    <3>5. \A x \in Nat : x <= a /\ a < x + PageSize =>
                           x < r.count /\ r.count <= x + PageSize
      BY <3>1, <1>1
    <3> QED BY <3>2, <3>3, <3>4, <3>5
  <2> QED BY <2>1, <2>2
<1> HIDE DEF PageEnd
<1>3. PageFrom(r) \in Nat /\ PageFrom(r) <= PageEnd(r) * PageSize
  BY <1>1, <1>2 DEF PageFrom
<1>4. PageTo(r) \in Nat BY <1>1, <1>3 DEF PageTo
<1> QED BY <1>2, <1>3, <1>4

Paged(r) == [r EXCEPT !.at = "page",
                         !.count = Cardinality(WantedIn(table, r))]

ClientGot(r, s) ==
    LET page == Slice(s, r.offset, r.offset + PageSize)
        more == r.offset + Len(page) < r.count IN
    [r EXCEPT !.got = @ \o page, !.offset = @ + Len(page),
              !.at = IF more /\ page # <<>> THEN "count" ELSE "done"]

PersonGot(r, s) ==
    [r EXCEPT !.got = @ \o Slice(s, PageFrom(r), PageTo(r)),
              !.offset = PageFrom(r) + PageSize,
              !.at = IF PageFrom(r) < PageEnd(r) * PageSize
                     THEN "count" ELSE "done"]

LEMMA PersonPageGets ==
    PersonPage => /\ read.at = "page" /\ read.by = "person"
                  /\ \E s \in Rows(read) : Step(PersonGot(read, s))
BY Zenon DEF PersonPage, PersonGot, PageEnd, PageFrom, PageTo

LEMMA ClientPageGets ==
    ClientPage => /\ read.at = "page" /\ read.by = "client"
                  /\ \E s \in Rows(read) : Step(ClientGot(read, s))
BY Zenon DEF ClientPage, ClientGot

LEMMA ListingTypes ==
    ASSUME TypeInv, NEW r \in PagesRead
    PROVE  /\ Paged(r) \in PagesRead
           /\ \A s \in Rows(r) : ClientGot(r, s) \in PagesRead
           /\ \A s \in Rows(r) : PersonGot(r, s) \in PagesRead
<1>1. Paged(r) \in PagesRead
  <2>1. Cardinality(WantedIn(table, r)) \in Nat
    BY WantedIsFinite DEF TypeInv
  <2> QED BY <2>1 DEF Paged, PagesRead
<1>2. r.got \in Seq(Ids) /\ r.offset \in Nat /\ PageSize \in Nat
  BY SizesAssumption DEF PagesRead
<1>3. ASSUME NEW s \in Rows(r) PROVE ClientGot(r, s) \in PagesRead
  <2> DEFINE page == Slice(s, r.offset, r.offset + PageSize)
  <2>1. page \in Seq(Ids) /\ Len(page) \in Nat
    <3>1. r.offset + PageSize \in Nat BY <1>2
    <3> QED BY <1>2, <3>1, PageType
  <2> HIDE DEF page
  <2>2. r.got \o page \in Seq(Ids) BY <1>2, <2>1, ConcatProperties
  <2>3. r.offset + Len(page) \in Nat BY <1>2, <2>1
  <2> QED BY <2>2, <2>3 DEF ClientGot, PagesRead, page
<1>4. ASSUME NEW s \in Rows(r) PROVE PersonGot(r, s) \in PagesRead
  <2>1. PageFrom(r) \in Nat /\ PageTo(r) \in Nat BY PageNumbers
  <2>2. Slice(s, PageFrom(r), PageTo(r)) \in Seq(Ids) BY <2>1, PageType
  <2>3. r.got \o Slice(s, PageFrom(r), PageTo(r)) \in Seq(Ids)
    BY <1>2, <2>2, ConcatProperties
  <2>4. PageFrom(r) + PageSize \in Nat BY <1>2, <2>1
  <2> QED BY <2>3, <2>4 DEF PersonGot, PagesRead
<1> QED BY <1>1, <1>3, <1>4

LEMMA ByWordsIsFinite ==
    ASSUME RowsOK, NEW r
    PROVE  /\ ByWords(r) \subseteq Live /\ Live \subseteq Ids
           /\ IsFiniteSet(ByWords(r)) /\ Cardinality(ByWords(r)) \in Nat
<1>1. ByWords(r) \subseteq Live BY DEF ByWords, WantedIn, Live
<1>2. IsFiniteSet(ByWords(r)) BY <1>1, LiveRows, FS_Subset
<1>3. \A i \in Live : i \in Ids BY LiveRows DEF Ids
<1> QED BY <1>1, <1>2, <1>3, FS_CardinalityType

(* What the words find, in whatever order. *)
Enumerates(s, ids) ==
    /\ s \in [1 .. Cardinality(ids) -> ids]
    /\ \A k, l \in 1 .. Cardinality(ids) : k # l => s[k] # s[l]

LEMMA EnumeratesAll ==
    ASSUME NEW ids, IsFiniteSet(ids), NEW s, Enumerates(s, ids)
    PROVE  /\ s \in Seq(ids) /\ Len(s) = Cardinality(ids)
           /\ Cardinality(ids) \in Nat
           /\ Range(s) = ids
<1>1. Lists(s, ids, {}) BY DEF Enumerates, Lists
<1>2. /\ Cardinality(ids) \in Nat
      /\ s \in Seq(ids) /\ Len(s) = Cardinality(ids)
      /\ \A i \in ids : \E k \in 1 .. Cardinality(ids) : s[k] = i
  BY <1>1, ListsAreComplete
<1>3. s \in [1 .. Cardinality(ids) -> ids] BY DEF Enumerates
<1> QED BY <1>2, <1>3 DEF Range

WordsFound(r, s) == [r EXCEPT !.at = "answer", !.lexical = Slice(s, 0, 3 * Limit)]

LEMMA LexicalFinds ==
    Lexical => /\ read.at = "lexical"
               /\ \E s : Enumerates(s, ByWords(read)) /\ Step(WordsFound(read, s))
BY DEF Lexical, Orders, SetToSeqs, Enumerates, WordsFound

Scored(r, i) == Found(i, r.hits, r.allowed, r.lexical)
CandidatesOf(r) == Candidates(r.hits, r.allowed, r.lexical)

(* s has the ids once each, none behind one that it ranks above. *)
Ranks(s, ids, r) ==
    /\ Enumerates(s, ids)
    /\ \A k, l \in 1 .. Cardinality(ids) :
         k < l => ~RanksAbove(Scored(r, s[l]), Scored(r, s[k]))

Best(s) == Range(Slice(s, 0, Limit)) \cap Live

Answered(r, answer) == [r EXCEPT !.at = "done", !.answer = answer]

LEMMA AnswerRanks ==
    Answer => /\ read.at = "answer"
              /\ \E s, answer : /\ Ranks(s, CandidatesOf(read), read)
                                /\ Ranks(answer, Best(s), read)
                                /\ Step(Answered(read, answer))
<1>1. ASSUME NEW ids, NEW s \in Rankings(ids, read.hits, read.allowed, read.lexical)
      PROVE  Ranks(s, ids, read)
  <2>1. /\ s \in [1 .. Cardinality(ids) -> ids]
        /\ \A k, l \in 1 .. Cardinality(ids) : k # l => s[k] # s[l]
        /\ \A k, l \in DOMAIN s : k < l =>
             ~RanksAbove(Found(s[l], read.hits, read.allowed, read.lexical),
                         Found(s[k], read.hits, read.allowed, read.lexical))
    BY DEF Rankings, Orders, SetToSeqs
  <2>2. DOMAIN s = 1 .. Cardinality(ids) BY <2>1
  <2> QED BY <2>1, <2>2 DEF Ranks, Enumerates, Scored
<1> SUFFICES ASSUME Answer
             PROVE  /\ read.at = "answer"
                    /\ \E s, answer : /\ Ranks(s, CandidatesOf(read), read)
                                      /\ Ranks(answer, Best(s), read)
                                      /\ Step(Answered(read, answer))
  OBVIOUS
<1>2. PICK s \in Rankings(CandidatesOf(read), read.hits, read.allowed, read.lexical) :
        \E answer \in Rankings(Best(s), read.hits, read.allowed, read.lexical) :
          Step(Answered(read, answer))
  BY DEF Answer, CandidatesOf, Best, Answered
<1>3. PICK answer \in Rankings(Best(s), read.hits, read.allowed, read.lexical) :
          Step(Answered(read, answer))
  BY <1>2
<1>4. Ranks(s, CandidatesOf(read), read) /\ Ranks(answer, Best(s), read)
  BY <1>1
<1> QED BY <1>3, <1>4 DEF Answer

LEMMA SearchTypes ==
    ASSUME TypeInv, NEW r \in SearchRead
    PROVE  /\ \A n \in 0 .. MaxHits : \A hits \in [1 .. n -> Hit(r)] :
                [r EXCEPT !.at = "allowed", !.hits = hits] \in SearchRead
           /\ [r EXCEPT !.at = "lexical", !.allowed = Allowed(r)] \in SearchRead
           /\ \A s : Enumerates(s, ByWords(r)) => WordsFound(r, s) \in SearchRead
           /\ \A s, t : Ranks(s, Best(t), r) => Answered(r, s) \in SearchRead
<1>1. Live \subseteq Ids /\ 1 .. created \subseteq Ids
  BY LiveRows DEF TypeInv, Ids
<1>2. ASSUME NEW n \in 0 .. MaxHits, NEW hits \in [1 .. n -> Hit(r)]
      PROVE  [r EXCEPT !.at = "allowed", !.hits = hits] \in SearchRead
  <2>1. Hit(r) \subseteq Ids BY <1>1 DEF Hit
  <2>2. n \in Nat BY SizesAssumption
  <2>3. hits \in Seq(Ids) BY <2>1, <2>2
  <2> QED BY <2>3 DEF SearchRead
<1>3. [r EXCEPT !.at = "lexical", !.allowed = Allowed(r)] \in SearchRead
  <2>1. Range(r.hits) \subseteq Ids
    <3>1. r.hits \in Seq(Ids) BY DEF SearchRead
    <3> QED BY <3>1, RangeOfSeq
  <2>2. Allowed(r) \subseteq Ids BY <2>1 DEF Allowed
  <2> QED BY <2>2 DEF SearchRead
<1>4. ASSUME NEW s, Enumerates(s, ByWords(r))
      PROVE  WordsFound(r, s) \in SearchRead
  <2>1. ByWords(r) \subseteq Ids /\ s \in Seq(ByWords(r))
    BY <1>4, ByWordsIsFinite, EnumeratesAll DEF TypeInv
  <2>2. s \in Seq(Ids) /\ 0 \in Nat /\ 3 * Limit \in Nat
    BY <2>1, SeqMonotonic, SizesAssumption
  <2>3. Slice(s, 0, 3 * Limit) \in Seq(Ids) BY <2>2, SliceType
  <2> QED BY <2>3 DEF WordsFound, SearchRead
<1>5. ASSUME NEW s, NEW t, Ranks(s, Best(t), r)
      PROVE  Answered(r, s) \in SearchRead
  <2>1. Best(t) \subseteq Live BY DEF Best
  <2>2. IsFiniteSet(Best(t)) BY <2>1, LiveRows, FS_Subset DEF TypeInv
  <2>3. s \in Seq(Best(t)) BY <1>5, <2>2, EnumeratesAll DEF Ranks
  <2>4. s \in Seq(Ids) BY <1>1, <2>1, <2>3, SeqMonotonic
  <2> QED BY <2>4 DEF Answered, SearchRead
<1> QED BY <1>2, <1>3, <1>4, <1>5

OpenedRead(l) ==
    [kind |-> "pages", at |-> "count", dataset |-> l.dataset,
     words |-> l.words, filters |-> l.filters, sort |-> l.sort,
     descending |-> l.descending, by |-> l.by,
     offset |-> 0, count |-> 0, got |-> <<>>]

SearchedRead(q) ==
    [kind |-> "search", at |-> "points", scope |-> q.scope,
     words |-> q.words, filters |-> q.filters,
     datasets |-> IF q.scope # None THEN {q.scope} ELSE Eligible(q.filters),
     hits |-> <<>>, allowed |-> {}, lexical |-> <<>>, answer |-> <<>>]

LEMMA BeginningTypes ==
    /\ \A l \in Listings : OpenedRead(l) \in PagesRead
    /\ \A q \in Searches : SearchedRead(q) \in SearchRead
<1>1. <<>> \in Seq(Ids) OBVIOUS
<1>2. ASSUME NEW l \in Listings PROVE OpenedRead(l) \in PagesRead
  BY <1>1, ListingsAssumption DEF OpenedRead, PagesRead
<1>3. ASSUME NEW q \in Searches PROVE SearchedRead(q) \in SearchRead
  <2> DEFINE ds == IF q.scope # None THEN {q.scope} ELSE Eligible(q.filters)
  <2>1. q.scope \in Datasets \cup {None} BY SearchesAssumption
  <2>2. ds \in SUBSET Datasets BY <2>1 DEF Eligible
  <2> HIDE DEF ds
  <2>3. {} \in SUBSET Ids OBVIOUS
  <2>4. [kind |-> "search", at |-> "points", scope |-> q.scope,
         words |-> q.words, filters |-> q.filters, datasets |-> ds,
         hits |-> <<>>, allowed |-> {}, lexical |-> <<>>, answer |-> <<>>]
          \in SearchRead
    BY <2>1, <2>2, <2>3, <1>1 DEF SearchRead
  <2> QED BY <2>4 DEF SearchedRead, ds
<1> QED BY <1>2, <1>3

(* Every step is a write, or begins a read, or goes on with one, or ends it. *)
LEMMA Steps ==
    ASSUME TypeInv, Next
    PROVE  \/ Writes
           \/ \E l \in Listings : Begin(OpenedRead(l))
           \/ \E q \in Searches : /\ q.scope # None => ~Refused(q.scope, q.filters)
                                  /\ Begin(SearchedRead(q))
           \/ read # None /\ (\/ Count \/ ClientPage \/ PersonPage
                              \/ Points \/ Allow \/ Lexical \/ Answer)
           \/ Leave
<1>1. \A l \in Listings : Open(l) => Begin(OpenedRead(l))
  BY Zenon DEF Open, OpenedRead
<1>2. \A q \in Searches : Search(q) => /\ q.scope # None => ~Refused(q.scope, q.filters)
                                       /\ Begin(SearchedRead(q))
  BY Zenon DEF Search, SearchedRead
<1>3. \A l \in Listings : Ask(l) \/ Look(l) => Open(l)
  BY Zenon DEF Ask, Look
<1> QED BY <1>1, <1>2, <1>3, Zenon DEF Next, Read

LEMMA KindsOfReads ==
    /\ \A r \in PagesRead : /\ r.kind = "pages" /\ r \notin SearchRead
                            /\ r.at \in {"count", "page", "done"}
    /\ \A r \in SearchRead : /\ r.kind = "search" /\ r \notin PagesRead
                             /\ r.at \in {"points", "allowed", "lexical", "answer", "done"}
BY DEF PagesRead, SearchRead

LEMMA TypeStep ==
    ASSUME TypeInv, [Next]_vars
    PROVE  TypeInv'
<1>1. ASSUME NEW r \in PagesRead \cup SearchRead, Begin(r) PROVE TypeInv'
  <2>1. /\ read' = r /\ changes' = <<>> /\ table' = table /\ created' = created
        /\ atStart' = WantedIn(table, r) /\ kept' = WantedIn(table, r)
        /\ met' = MetIn(table, r)
    BY <1>1 DEF Begin
  <2>2. RowsOK' BY <2>1 DEF TypeInv, RowsOK, Live, RowType, DataOf
  <2>3. WantedIn(table, r) \subseteq Ids /\ MetIn(table, r) \subseteq Ids
    BY LiveRows DEF TypeInv, WantedIn, MetIn, Live, Ids
  <2>4. <<>> \in Seq(Kinds) OBVIOUS
  <2> QED BY <2>1, <2>2, <2>3, <2>4 DEF TypeInv, PagesRead, SearchRead, Ids
<1>2. ASSUME NEW r \in PagesRead \cup SearchRead, Step(r) PROVE TypeInv'
  <2>1. read' = r /\ UNCHANGED <<table, created, changes, atStart, met, kept>>
    BY <1>2 DEF Step, ghosts
  <2>2. RowsOK' BY <2>1 DEF TypeInv, RowsOK, Live, RowType, DataOf
  <2> QED BY <2>1, <2>2 DEF TypeInv, PagesRead, SearchRead, Ids
<1>3. ASSUME Writes PROVE TypeInv'
  <2>1. RowsOK' BY <1>3, WritesKeepRows DEF TypeInv
  <2>2. PICK kind \in Kinds : WriteBy(kind) BY <1>3, WritesKeepRows DEF TypeInv
  <2>3. read' = read BY <2>2 DEF WriteBy
  <2>4. changes' \in Seq(Kinds)
    BY <2>2 DEF WriteBy, TypeInv
  <2>5. Live' \subseteq Ids
    <3>1. created' \in 0 .. MaxRows /\ Live' \subseteq 1 .. created'
      BY <2>1 DEF RowsOK
    <3> QED BY <3>1, SizesAssumption DEF Ids
  <2>6. atStart' \subseteq Ids /\ met' \subseteq Ids /\ kept' \subseteq atStart'
    <3>1. MetIn(table', read) \subseteq Live' BY DEF MetIn, Live
    <3> QED BY <3>1, <2>2, <2>5 DEF WriteBy, TypeInv, ghosts
  <2> QED BY <2>1, <2>3, <2>4, <2>6 DEF TypeInv, PagesRead, SearchRead, Ids
<1>4. ASSUME Leave PROVE TypeInv'
  <2>1. /\ read' = None /\ changes' = <<>> /\ table' = table /\ created' = created
        /\ atStart' = {} /\ kept' = {} /\ met' = {}
    BY <1>4 DEF Leave
  <2>2. RowsOK' BY <2>1 DEF TypeInv, RowsOK, Live, RowType, DataOf
  <2>3. <<>> \in Seq(Kinds) OBVIOUS
  <2> QED BY <2>1, <2>2, <2>3 DEF TypeInv
<1>5. ASSUME read # None,
             Count \/ ClientPage \/ PersonPage \/ Points \/ Allow \/ Lexical \/ Answer
      PROVE  \E r \in PagesRead \cup SearchRead : Step(r)
  <2>1. read \in PagesRead \cup SearchRead BY <1>5 DEF TypeInv
  <2>2. CASE Count
    <3>1. read \in PagesRead BY <2>1, <2>2, KindsOfReads DEF Count
    <3> QED BY <3>1, <2>2, ListingTypes DEF Count, Paged
  <2>3. CASE ClientPage
    <3>1. read \in PagesRead BY <2>1, <2>3, KindsOfReads, ClientPageGets
    <3> QED BY <3>1, <2>3, ListingTypes, ClientPageGets
  <2>4. CASE PersonPage
    <3>1. read \in PagesRead BY <2>1, <2>4, KindsOfReads, PersonPageGets
    <3> QED BY <3>1, <2>4, ListingTypes, PersonPageGets
  <2>5. CASE Points
    <3>1. read \in SearchRead BY <2>1, <2>5, KindsOfReads DEF Points
    <3> QED BY <3>1, <2>5, SearchTypes DEF Points
  <2>6. CASE Allow
    <3>1. read \in SearchRead BY <2>1, <2>6, KindsOfReads DEF Allow
    <3> QED BY <3>1, <2>6, SearchTypes DEF Allow
  <2>7. CASE Lexical
    <3>1. read \in SearchRead BY <2>1, <2>7, KindsOfReads, LexicalFinds
    <3>2. PICK s : Enumerates(s, ByWords(read)) /\ Step(WordsFound(read, s))
      BY <2>7, LexicalFinds
    <3>3. WordsFound(read, s) \in SearchRead BY <3>1, <3>2, SearchTypes
    <3> QED BY <3>2, <3>3
  <2>8. CASE Answer
    <3>1. read \in SearchRead BY <2>1, <2>8, KindsOfReads, AnswerRanks
    <3>2. PICK s, answer : Ranks(answer, Best(s), read) /\ Step(Answered(read, answer))
      BY <2>8, AnswerRanks
    <3>3. Answered(read, answer) \in SearchRead BY <3>1, <3>2, SearchTypes
    <3> QED BY <3>2, <3>3
  <2> QED BY <1>5, <2>2, <2>3, <2>4, <2>5, <2>6, <2>7, <2>8
<1>6. CASE UNCHANGED vars
  <2>1. RowsOK' BY <1>6 DEF TypeInv, RowsOK, Live, RowType, DataOf, vars
  <2> QED BY <1>6, <2>1 DEF TypeInv, vars, PagesRead, SearchRead, Ids
<1>7. CASE Next
  BY <1>1, <1>2, <1>3, <1>4, <1>5, <1>7, Steps, BeginningTypes
<1> QED BY <1>6, <1>7

LEMMA TypeInit == Init => TypeInv
<1> SUFFICES ASSUME Init PROVE TypeInv
  OBVIOUS
<1>1. /\ table = <<>> /\ created = 0 /\ read = None /\ changes = <<>>
      /\ atStart = {} /\ met = {} /\ kept = {}
  BY DEF Init
<1>2. Live = {} BY <1>1 DEF Live
<1>3. created \in 0 .. MaxRows BY <1>1, SizesAssumption
<1>4. RowsOK BY <1>2, <1>3 DEF RowsOK
<1>5. <<>> \in Seq(Kinds) OBVIOUS
<1> QED BY <1>1, <1>4, <1>5 DEF TypeInv

LEMMA TypeInvGivesTypeOK == TypeInv => TypeOK
<1> SUFFICES ASSUME TypeInv PROVE TypeOK
  OBVIOUS
<1>1. RowsOK BY DEF TypeInv
<1>2. ASSUME NEW i \in Live, NEW j \in Live, i # j,
             table[i].dataset = table[j].dataset
      PROVE  table[i].number # table[j].number
  <2>1. i \in Nat /\ j \in Nat BY <1>1, LiveRows
  <2>2. table[i].number \in Nat /\ table[j].number \in Nat
    BY <1>1, LiveRows DEF IsRowOf
  <2>3. i < j \/ j < i BY <2>1, <1>2
  <2>4. table[i].number < table[j].number \/ table[j].number < table[i].number
    BY <2>3, <1>1, <1>2 DEF RowsOK
  <2> QED BY <2>2, <2>4
<1>3. read # None => read.kind \in {"pages", "search"}
  BY KindsOfReads DEF TypeInv
<1> QED BY <1>1, <1>2, <1>3 DEF TypeOK, TypeInv, RowsOK, Kinds

(* Rows of one dataset never get the same number, whatever is created and  *)
(* deleted, and what a read notes of them has its type.                    *)
THEOREM TypeCorrect == Spec => []TypeOK
<1>1. Spec => []TypeInv
  BY TypeInit, TypeStep, PTL DEF Spec
<1> QED BY <1>1, TypeInvGivesTypeOK, PTL

-----------------------------------------------------------------------------
(* Searches. *)

SearchInv ==
    read # None /\ read.kind = "search" =>
      /\ read.scope # None => /\ read.datasets = {read.scope}
                              /\ ~Refused(read.scope, read.filters)
      /\ read.scope = None => /\ read.datasets = Eligible(read.filters)
                              /\ \A f \in read.filters : Len(f.values) = 1
      /\ \A f, g \in read.filters : f.header = g.header => f = g
      /\ MetIn(table, read) \subseteq met
      /\ kept \subseteq WantedIn(table, read)
      /\ \A i \in Range(read.hits) :
           i \in 1 .. created /\ (i \in Live => table[i].dataset \in read.datasets)
      /\ read.at \in {"lexical", "answer", "done"} =>
           /\ read.allowed \subseteq Range(read.hits)
           /\ read.allowed \cap Live \subseteq met
      /\ read.at \in {"answer", "done"} =>
           /\ Range(read.lexical) \subseteq met
           /\ \/ Cardinality(Range(read.lexical)) > Limit
              \/ kept \subseteq Range(read.lexical)
      /\ SearchesAnswerWhatMet

LEMMA WantedIsMet ==
    ASSUME NEW r, NEW row, Wanted(r, row)
    PROVE  MeetsFilters(r, row)
BY DEF Wanted, MeetsFilters, Selects

(* A search of all datasets finds of each what a search of it alone finds. *)
LEMMA AmongIsAlone ==
    ASSUME TypeInv, SearchInv, read # None, read.kind = "search",
           read.scope = None, NEW i \in Live, NEW words
    PROVE  SelectsAmong(table[i], read.datasets, words, read.filters) <=>
             InScope(read, table[i]) /\ Selects(table[i], words, read.filters)
<1> DEFINE ds == read.datasets
           row == table[i]
<1>1. /\ ds = Eligible(read.filters)
      /\ \A f \in read.filters : Len(f.values) = 1
      /\ \A f, g \in read.filters : f.header = g.header => f = g
  BY DEF SearchInv
<1>2. /\ ds \in SUBSET Datasets
      /\ \A d \in ds : \A f \in read.filters : f.header \in DOMAIN Schema[d]
  BY <1>1 DEF Eligible
<1>3. InScope(read, row) <=>
        row.dataset \in ds /\ ~Refused(row.dataset, read.filters)
  BY DEF InScope
<1> HIDE DEF ds, row
<1>4. CASE row.dataset \in ds
  <2>1. SelectsAmong(row, ds, words, read.filters) <=>
          ~Refused(row.dataset, read.filters) /\ Selects(row, words, read.filters)
    BY <1>1, <1>2, <1>4, BuildersAgree
  <2> QED BY <2>1, <1>3, <1>4 DEF ds, row
<1>5. CASE row.dataset \notin ds
  <2>1. ~SelectsAmong(row, ds, words, read.filters)
    BY <1>5 DEF SelectsAmong, Contexts
  <2> QED BY <2>1, <1>3, <1>5 DEF ds, row
<1> QED BY <1>4, <1>5

LEMMA ByWordsIsWanted ==
    ASSUME TypeInv, SearchInv, read # None, read.kind = "search"
    PROVE  /\ ByWords(read) = WantedIn(table, read)
           /\ ByWords(read) \subseteq MetIn(table, read)
<1>1. ByWords(read) = WantedIn(table, read)
  <2>1. CASE read.scope # None BY <2>1 DEF ByWords
  <2>2. CASE read.scope = None
    <3>1. \A i \in Live :
            SelectsAmong(table[i], read.datasets, read.words, read.filters)
              <=> Wanted(read, table[i])
      BY <2>2, AmongIsAlone DEF Wanted
    <3> QED BY <2>2, <3>1 DEF ByWords, WantedIn, Live
  <2> QED BY <2>1, <2>2
<1>2. WantedIn(table, read) \subseteq MetIn(table, read)
  BY WantedIsMet DEF WantedIn, MetIn
<1> QED BY <1>1, <1>2

LEMMA AllowedIsMet ==
    ASSUME TypeInv, SearchInv, read # None, read.kind = "search"
    PROVE  /\ Allowed(read) \subseteq Range(read.hits)
           /\ Allowed(read) \cap Live \subseteq MetIn(table, read)
<1>1. CASE read.scope = None
  <2>1. \A i \in Live :
          SelectsAmong(table[i], read.datasets, None, read.filters)
            <=> MeetsFilters(read, table[i])
    BY <1>1, AmongIsAlone DEF MeetsFilters
  <2> QED BY <1>1, <2>1 DEF Allowed, MetIn, Live
<1>2. CASE read.scope # None /\ read.filters = {}
  <2>1. Allowed(read) = Range(read.hits) BY <1>2 DEF Allowed
  <2>2. ASSUME NEW i \in Range(read.hits) \cap Live
        PROVE  MeetsFilters(read, table[i])
    <3>1. table[i].dataset \in read.datasets /\ read.datasets = {read.scope}
      BY <1>2 DEF SearchInv
    <3>2. ~Refused(table[i].dataset, read.filters) BY <1>2, <3>1 DEF SearchInv
    <3>3. InScope(read, table[i]) BY <3>1, <3>2 DEF InScope
    <3>4. Selects(table[i], None, read.filters)
      BY <1>2 DEF Selects, NormalFilters
    <3> QED BY <3>3, <3>4 DEF MeetsFilters
  <2> QED BY <2>1, <2>2 DEF MetIn, Live
<1>3. CASE read.scope # None /\ read.filters # {}
  BY <1>3 DEF Allowed, MetIn, Live
<1> QED BY <1>1, <1>2, <1>3

Cut(s, n) == IF n < Len(s) THEN n ELSE Len(s)

LEMMA FirstOf ==
    ASSUME NEW S, NEW s \in Seq(S), NEW n \in Nat
    PROVE  /\ Slice(s, 0, n) = SubSeq(s, 1, Cut(s, n))
           /\ Len(s) \in Nat /\ Cut(s, n) \in Nat
           /\ Cut(s, n) <= n /\ Cut(s, n) <= Len(s)
           /\ Slice(s, 0, n) \in Seq(S)
           /\ Len(Slice(s, 0, n)) = Cut(s, n)
           /\ \A i \in 1 .. Cut(s, n) : Slice(s, 0, n)[i] = s[i]
           /\ Range(Slice(s, 0, n)) = {s[i] : i \in 1 .. Cut(s, n)}
<1> DEFINE k == Cut(s, n)
<1>1. Len(s) \in Nat /\ k \in Nat /\ k <= n /\ k <= Len(s)
  BY LenProperties DEF Cut
<1>2. Slice(s, 0, n) = SubSeq(s, 1, k)
  BY DEF Slice, Cut
<1>3. \A i \in 1 .. Len(s) : s[i] \in S BY LenProperties
<1> HIDE DEF k
<1>4. /\ SubSeq(s, 1, k) \in Seq(S)
      /\ Len(SubSeq(s, 1, k)) = k
      /\ \A i \in 1 .. k : SubSeq(s, 1, k)[i] = s[i]
  <2>1. \A i \in 1 .. k : s[i] \in S BY <1>1, <1>3
  <2>2. /\ SubSeq(s, 1, k) \in Seq(S)
        /\ Len(SubSeq(s, 1, k)) = IF 1 <= k THEN k - 1 + 1 ELSE 0
        /\ \A i \in 1 .. k - 1 + 1 : SubSeq(s, 1, k)[i] = s[1 + i - 1]
    BY <2>1, <1>1, SubSeqProperties
  <2> QED BY <2>2, <1>1
<1>5. Range(SubSeq(s, 1, k)) = {s[i] : i \in 1 .. k}
  <2>1. Range(SubSeq(s, 1, k)) = {SubSeq(s, 1, k)[i] : i \in 1 .. k}
    BY <1>4, RangeEquality
  <2> QED BY <2>1, <1>4
<1> QED BY <1>1, <1>2, <1>4, <1>5 DEF k

(* The rows a list is cut to. *)
LEMMA FirstRange ==
    ASSUME NEW S, NEW s \in Seq(S), NEW n \in Nat
    PROVE  \A x : x \in Range(Slice(s, 0, n)) <=> \E k \in 1 .. Cut(s, n) : s[k] = x
<1>1. Range(Slice(s, 0, n)) = {s[i] : i \in 1 .. Cut(s, n)} BY FirstOf
<1> QED BY <1>1

LEMMA IdsAreFinite ==
    ASSUME NEW T \in SUBSET Ids
    PROVE  IsFiniteSet(T)
<1>1. IsFiniteSet(Ids) BY FirstNumbers, SizesAssumption DEF Ids
<1> QED BY <1>1, FS_Subset

LEMMA LexicalKeeps ==
    ASSUME TypeInv, SearchInv, read # None, read.kind = "search",
           NEW s, Enumerates(s, ByWords(read))
    PROVE  LET found == Slice(s, 0, 3 * Limit) IN
           /\ Range(found) \subseteq met
           /\ Cardinality(Range(found)) > Limit \/ kept \subseteq Range(found)
<1> DEFINE found == Slice(s, 0, 3 * Limit)
           W == ByWords(read)
           lim == 3 * Limit
           k == Cut(s, lim)
<1>1. /\ s \in Seq(W) /\ Len(s) = Cardinality(W)
      /\ Cardinality(W) \in Nat /\ Range(s) = W /\ IsFiniteSet(W)
  BY ByWordsIsFinite, EnumeratesAll DEF TypeInv
<1>2. W \subseteq MetIn(table, read) /\ W = WantedIn(table, read)
  BY ByWordsIsWanted
<1>3. MetIn(table, read) \subseteq met /\ kept \subseteq WantedIn(table, read)
  BY DEF SearchInv
<1>4. \A i, j \in 1 .. Cardinality(W) : i # j => s[i] # s[j]
  BY DEF Enumerates
<1>5. Limit \in Nat /\ Limit > 0 /\ lim \in Nat /\ lim > Limit
  BY SizesAssumption
<1>6. found = Slice(s, 0, lim) OBVIOUS
<1> HIDE DEF W, lim, found
<1>7. /\ k \in Nat /\ k <= Len(s)
      /\ found \in Seq(W) /\ Len(found) = k
      /\ \A i \in 1 .. k : found[i] = s[i]
      /\ Range(found) = {s[i] : i \in 1 .. k}
  <2>1. s \in Seq(W) /\ lim \in Nat BY <1>1, <1>5
  <2>2. /\ Slice(s, 0, lim) = SubSeq(s, 1, Cut(s, lim))
        /\ Len(s) \in Nat /\ Cut(s, lim) \in Nat
        /\ Cut(s, lim) <= lim /\ Cut(s, lim) <= Len(s)
        /\ Slice(s, 0, lim) \in Seq(W)
        /\ Len(Slice(s, 0, lim)) = Cut(s, lim)
        /\ \A i \in 1 .. Cut(s, lim) : Slice(s, 0, lim)[i] = s[i]
        /\ Range(Slice(s, 0, lim)) = {s[i] : i \in 1 .. Cut(s, lim)}
    BY <2>1, FirstOf
  <2> QED BY <2>2, <1>6
<1>8. Range(found) \subseteq W BY <1>7, RangeOfSeq
<1>9. Range(s) = {s[i] : i \in 1 .. Len(s)} BY <1>1, RangeEquality
<1> SUFFICES /\ Range(found) \subseteq met
             /\ Cardinality(Range(found)) > Limit \/ kept \subseteq Range(found)
  BY DEF found
<1>10. CASE k = Len(s)
  BY <1>2, <1>3, <1>7, <1>8, <1>9, <1>10, <1>1
<1>11. CASE k = lim
  <2> DEFINE f == [i \in 1 .. k |-> s[i]]
  <2>1. f \in Surjection(1 .. k, Range(found))
    BY <1>7, Fun_IsSurj
  <2>2. \A i, j \in 1 .. k : f[i] = f[j] => i = j
    BY <1>1, <1>4, <1>7
  <2>3. f \in [1 .. k -> Range(found)] BY <1>7
  <2> HIDE DEF f, k
  <2>4. f \in Injection(1 .. k, Range(found)) BY <2>2, <2>3, Fun_IsInj
  <2>5. Cardinality(Range(found)) = Cardinality(1 .. k)
    BY <2>1, <2>4, <1>7, FS_Surjection, FirstNumbers
  <2>6. Cardinality(Range(found)) = k BY <2>5, <1>7, FirstNumbers
  <2> QED BY <2>6, <1>11, <1>5, <1>8, <1>2, <1>3 DEF k
<1> QED BY <1>10, <1>11 DEF Cut, found, lim

SameQuestion(r, q) ==
    /\ r.kind = q.kind /\ r.words = q.words /\ r.filters = q.filters
    /\ r.kind = "pages" => r.dataset = q.dataset
    /\ r.kind # "pages" => r.datasets = q.datasets

LEMMA SameQuestionSameRows ==
    ASSUME NEW r, NEW q, SameQuestion(r, q), NEW t
    PROVE  WantedIn(t, r) = WantedIn(t, q) /\ MetIn(t, r) = MetIn(t, q)
BY DEF SameQuestion, WantedIn, MetIn, Wanted, MeetsFilters, InScope

(* What the steps of a search have in common. *)
LEMMA SearchGoesOn ==
    ASSUME TypeInv, SearchInv, read # None, read.kind = "search",
           NEW r, SameQuestion(r, read), r.scope = read.scope, Step(r),
           \A i \in Range(r.hits) :
             i \in 1 .. created /\ (i \in Live => table[i].dataset \in r.datasets),
           r.at \in {"lexical", "answer", "done"} =>
             /\ r.allowed \subseteq Range(r.hits)
             /\ r.allowed \cap Live \subseteq met,
           r.at \in {"answer", "done"} =>
             /\ Range(r.lexical) \subseteq met
             /\ Cardinality(Range(r.lexical)) > Limit \/ kept \subseteq Range(r.lexical),
           r.at = "done" =>
             /\ Range(r.answer) \subseteq met
             /\ Cardinality(CandidatesOf(r)) <= Limit => kept \subseteq Range(r.answer)
    PROVE  SearchInv'
<1>1. read' = r /\ UNCHANGED <<table, created, met, kept>>
  BY DEF Step, ghosts
<1>2. Live' = Live BY <1>1 DEF Live
<1>3. r.kind = "search" /\ r.datasets = read.datasets /\ r.filters = read.filters
  BY DEF SameQuestion
<1>4. MetIn(table, r) \subseteq met /\ kept \subseteq WantedIn(table, r)
  BY SameQuestionSameRows DEF SearchInv
<1>5. SearchesAnswerWhatMet'
  BY <1>1 DEF SearchesAnswerWhatMet, Finished, CandidatesOf
<1>6. /\ r.scope # None => r.datasets = {r.scope} /\ ~Refused(r.scope, r.filters)
      /\ r.scope = None => /\ r.datasets = Eligible(r.filters)
                           /\ \A f \in r.filters : Len(f.values) = 1
      /\ \A f, g \in r.filters : f.header = g.header => f = g
  BY <1>3 DEF SearchInv
<1> QED BY <1>1, <1>2, <1>4, <1>5, <1>6 DEF SearchInv

LEMMA AnswersFit ==
    ASSUME TypeInv, SearchInv, read # None, read \in SearchRead,
           read.at = "answer", NEW s, NEW answer,
           Ranks(s, CandidatesOf(read), read), Ranks(answer, Best(s), read)
    PROVE  /\ Range(answer) = Best(s) /\ Best(s) \subseteq CandidatesOf(read) \cap Live
           /\ Range(answer) \subseteq met
           /\ Cardinality(CandidatesOf(read)) <= Limit => kept \subseteq Range(answer)
<1> DEFINE C == CandidatesOf(read)
<1>1. read.hits \in Seq(Ids) /\ read.lexical \in Seq(Ids) /\ read.kind = "search"
  BY DEF SearchRead
<1>2. C = (Range(read.hits) \cap read.allowed) \cup Range(read.lexical)
  BY DEF CandidatesOf, Candidates
<1>3. C \subseteq Ids BY <1>1, <1>2, RangeOfSeq
<1> HIDE DEF C
<1>4. /\ IsFiniteSet(C) /\ s \in Seq(C) /\ Len(s) = Cardinality(C)
      /\ Cardinality(C) \in Nat /\ Range(s) = C
  BY <1>3, IdsAreFinite, EnumeratesAll DEF Ranks, C
<1>5. Limit \in Nat BY SizesAssumption
<1>6. Slice(s, 0, Limit) \in Seq(C)
  BY <1>4, <1>5, FirstOf
<1>7. Best(s) \subseteq C \cap Live
  BY <1>6, RangeOfSeq DEF Best
<1>8. Range(answer) = Best(s)
  <2>1. IsFiniteSet(Best(s)) BY <1>3, <1>7, IdsAreFinite
  <2> QED BY <2>1, EnumeratesAll DEF Ranks
<1>9. C \cap Live \subseteq met
  <2>1. read.allowed \cap Live \subseteq met /\ Range(read.lexical) \subseteq met
    BY <1>1 DEF SearchInv
  <2> QED BY <2>1, <1>2
<1>10. ASSUME Cardinality(C) <= Limit PROVE kept \subseteq Range(answer)
  <2>1. Cut(s, Limit) = Len(s) BY <1>4, <1>5, <1>10 DEF Cut
  <2>2. Range(Slice(s, 0, Limit)) = Range(s)
    <3>1. s \in Seq(C) /\ Limit \in Nat BY <1>4, <1>5
    <3>2. \A x : x \in Range(Slice(s, 0, Limit))
                <=> \E k \in 1 .. Cut(s, Limit) : s[k] = x
      BY <3>1, FirstRange
    <3>3. DOMAIN s = 1 .. Len(s) BY <3>1
    <3> QED BY <3>2, <3>3, <2>1 DEF Range
  <2>3. Best(s) = C \cap Live BY <2>2, <1>4 DEF Best
  <2>4. Range(read.lexical) \subseteq C BY <1>2
  <2>5. Cardinality(Range(read.lexical)) <= Cardinality(C)
    BY <2>4, <1>4, FS_Subset
  <2>6. Cardinality(Range(read.lexical)) \in Nat
    BY <2>4, <1>4, FS_Subset, FS_CardinalityType
  <2>7. ~(Cardinality(Range(read.lexical)) > Limit)
    BY <2>5, <2>6, <1>4, <1>5, <1>10
  <2>8. kept \subseteq Range(read.lexical) /\ kept \subseteq WantedIn(table, read)
    BY <2>7, <1>1 DEF SearchInv
  <2>9. kept \subseteq Live BY <2>8 DEF WantedIn, Live
  <2> QED BY <2>3, <2>4, <2>8, <2>9, <1>8
<1> QED BY <1>7, <1>8, <1>9, <1>10 DEF C

LEMMA SearchStep ==
    ASSUME TypeInv, SearchInv, [Next]_vars
    PROVE  SearchInv'
<1>1. ASSUME Writes PROVE SearchInv'
  <2>1. RowsOK' BY <1>1, WritesKeepRows DEF TypeInv
  <2>2. PICK kind \in Kinds : WriteBy(kind) BY <1>1, WritesKeepRows DEF TypeInv
  <2> SUFFICES ASSUME (read # None)', (read.kind = "search")' PROVE SearchInv'
    BY DEF SearchInv
  <2>3. /\ read' = read /\ read # None /\ read.kind = "search" /\ read.at # "done"
        /\ met' = met \cup MetIn(table', read)
        /\ kept' = kept \cap WantedIn(table', read)
    BY <2>2 DEF WriteBy
  <2>4. ASSUME NEW i \in Range(read.hits)
        PROVE  /\ i \in 1 .. created'
               /\ i \in Live' => /\ i \in Live
                                 /\ table'[i].dataset \in read.datasets
    <3>1. i \in 1 .. created /\ created \in Nat
      BY <2>3, LiveRows DEF SearchInv, TypeInv
    <3>2. created' \in {created, created + 1} BY <2>2 DEF WriteBy
    <3>3. i \in 1 .. created' /\ i # created + 1 BY <3>1, <3>2
    <3>4. ASSUME i \in Live'
          PROVE  i \in Live /\ table'[i].dataset = table[i].dataset
      BY <3>3, <3>4, <2>2 DEF WriteBy
    <3> QED BY <3>3, <3>4, <2>3 DEF SearchInv
  <2>5. read.at \in {"lexical", "answer", "done"} =>
          /\ read.allowed \subseteq Range(read.hits)
          /\ read.allowed \cap Live' \subseteq met'
    BY <2>3, <2>4 DEF SearchInv
  <2>6. ~(Finished("search"))' BY <2>3 DEF Finished
  <2>7. SearchesAnswerWhatMet' BY <2>6 DEF SearchesAnswerWhatMet
  <2>8. MetIn(table', read) \subseteq met' /\ kept' \subseteq WantedIn(table', read)
    BY <2>3
  <2>9. read.at \in {"answer", "done"} =>
          /\ Range(read.lexical) \subseteq met'
          /\ Cardinality(Range(read.lexical)) > Limit \/ kept' \subseteq Range(read.lexical)
    BY <2>3 DEF SearchInv
  <2>10. /\ read.scope # None => /\ read.datasets = {read.scope}
                                 /\ ~Refused(read.scope, read.filters)
         /\ read.scope = None => /\ read.datasets = Eligible(read.filters)
                                 /\ \A f \in read.filters : Len(f.values) = 1
         /\ \A f, g \in read.filters : f.header = g.header => f = g
    BY <2>3 DEF SearchInv
  <2> QED BY <2>3, <2>4, <2>5, <2>7, <2>8, <2>9, <2>10 DEF SearchInv
<1>2. ASSUME NEW l \in Listings, Begin(OpenedRead(l)) PROVE SearchInv'
  <2>1. read' = OpenedRead(l) BY <1>2 DEF Begin
  <2>2. (read.kind)' = "pages" BY <2>1 DEF OpenedRead
  <2> QED BY <2>2 DEF SearchInv
<1>3. ASSUME NEW q \in Searches, q.scope # None => ~Refused(q.scope, q.filters),
             Begin(SearchedRead(q))
      PROVE  SearchInv'
  <2> DEFINE r == SearchedRead(q)
  <2>1. /\ read' = r /\ UNCHANGED <<table, created>>
        /\ kept' = WantedIn(table, r) /\ met' = MetIn(table, r)
    BY <1>3 DEF Begin
  <2>2. /\ r.at = "points" /\ r.scope = q.scope /\ r.filters = q.filters
        /\ r.datasets = IF q.scope # None THEN {q.scope} ELSE Eligible(q.filters)
        /\ r.hits = <<>>
    BY DEF SearchedRead
  <2>3. Range(r.hits) = {} BY <2>2 DEF Range
  <2>4. ~(Finished("search"))' BY <2>1, <2>2 DEF Finished
  <2>5. SearchesAnswerWhatMet' BY <2>4 DEF SearchesAnswerWhatMet
  <2>6. /\ r.scope # None => r.datasets = {r.scope} /\ ~Refused(r.scope, r.filters)
        /\ r.scope = None => /\ r.datasets = Eligible(r.filters)
                             /\ \A f \in r.filters : Len(f.values) = 1
        /\ \A f, g \in r.filters : f.header = g.header => f = g
    BY <2>2, <1>3, SearchesAssumption
  <2> HIDE DEF r
  <2> QED BY <2>1, <2>2, <2>3, <2>5, <2>6 DEF SearchInv
<1>4. CASE Leave
  <2>1. read' = None BY <1>4 DEF Leave
  <2> QED BY <2>1 DEF SearchInv
<1>5. CASE UNCHANGED vars
  <2>1. UNCHANGED <<table, created, read, met, kept>> BY <1>5 DEF vars
  <2>2. SearchesAnswerWhatMet <=> SearchesAnswerWhatMet'
    BY <2>1 DEF SearchesAnswerWhatMet, Finished
  <2> QED BY <2>1, <2>2 DEF SearchInv, Live
<1>6. ASSUME read # None, Count \/ ClientPage \/ PersonPage PROVE SearchInv'
  <2>1. \E r \in PagesRead : Step(r)
    <3>1. read \in PagesRead
      BY <1>6, KindsOfReads, ClientPageGets, PersonPageGets DEF TypeInv, Count
    <3> QED BY <3>1, <1>6, ListingTypes, ClientPageGets, PersonPageGets
            DEF Count, Paged
  <2>2. (read.kind)' = "pages" BY <2>1, KindsOfReads DEF Step
  <2> QED BY <2>2 DEF SearchInv
<1>7. ASSUME read # None, Points PROVE SearchInv'
  <2>1. read \in SearchRead /\ read.at = "points"
    BY <1>7, KindsOfReads DEF TypeInv, Points
  <2>2. PICK n \in 0 .. MaxHits : \E hits \in [1 .. n -> Hit(read)] :
          Step([read EXCEPT !.at = "allowed", !.hits = hits])
    BY <1>7 DEF Points
  <2>3. PICK hits \in [1 .. n -> Hit(read)] :
          Step([read EXCEPT !.at = "allowed", !.hits = hits])
    BY <2>2
  <2> DEFINE r == [read EXCEPT !.at = "allowed", !.hits = hits]
  <2>4. /\ r.at = "allowed" /\ r.hits = hits /\ SameQuestion(r, read)
        /\ r.scope = read.scope /\ r.datasets = read.datasets
    BY <2>1 DEF SearchRead, SameQuestion
  <2>5. Range(hits) \subseteq Hit(read) BY DEF Range
  <2>6. \A i \in Range(r.hits) :
          i \in 1 .. created /\ (i \in Live => table[i].dataset \in r.datasets)
    BY <2>4, <2>5 DEF Hit
  <2> HIDE DEF r
  <2>7. Step(r) /\ read.kind = "search" BY <2>1, <2>3 DEF r, SearchRead
  <2> QED BY <2>4, <2>6, <2>7, <1>7, SearchGoesOn
<1>8. ASSUME read # None, Allow PROVE SearchInv'
  <2>1. read \in SearchRead /\ read.at = "allowed" /\ read.kind = "search"
    BY <1>8, KindsOfReads DEF TypeInv, Allow
  <2> DEFINE r == [read EXCEPT !.at = "lexical", !.allowed = Allowed(read)]
  <2>2. /\ r.at = "lexical" /\ r.hits = read.hits /\ r.allowed = Allowed(read)
        /\ SameQuestion(r, read)
        /\ r.scope = read.scope /\ r.datasets = read.datasets
    BY <2>1 DEF SearchRead, SameQuestion
  <2>3. \A i \in Range(r.hits) :
          i \in 1 .. created /\ (i \in Live => table[i].dataset \in r.datasets)
    BY <2>1, <2>2, <1>8 DEF SearchInv
  <2>4. r.allowed \subseteq Range(r.hits) /\ r.allowed \cap Live \subseteq met
    BY <2>1, <2>2, <1>8, AllowedIsMet DEF SearchInv
  <2> HIDE DEF r
  <2>5. Step(r) BY <1>8 DEF r, Allow
  <2> QED BY <2>1, <2>2, <2>3, <2>4, <2>5, <1>8, SearchGoesOn
<1>9. ASSUME read # None, Lexical PROVE SearchInv'
  <2>1. read \in SearchRead /\ read.at = "lexical" /\ read.kind = "search"
    BY <1>9, KindsOfReads, LexicalFinds DEF TypeInv
  <2>2. PICK s : Enumerates(s, ByWords(read)) /\ Step(WordsFound(read, s))
    BY <1>9, LexicalFinds
  <2> DEFINE r == WordsFound(read, s)
  <2>3. /\ r.at = "answer" /\ r.hits = read.hits /\ r.allowed = read.allowed
        /\ r.lexical = Slice(s, 0, 3 * Limit)
        /\ SameQuestion(r, read)
        /\ r.scope = read.scope /\ r.datasets = read.datasets
    BY <2>1 DEF SearchRead, SameQuestion, WordsFound
  <2>4. \A i \in Range(r.hits) :
          i \in 1 .. created /\ (i \in Live => table[i].dataset \in r.datasets)
    BY <2>1, <2>3, <1>9 DEF SearchInv
  <2>5. r.allowed \subseteq Range(r.hits) /\ r.allowed \cap Live \subseteq met
    BY <2>1, <2>3, <1>9 DEF SearchInv
  <2>6. /\ Range(Slice(s, 0, 3 * Limit)) \subseteq met
        /\ \/ Cardinality(Range(Slice(s, 0, 3 * Limit))) > Limit
           \/ kept \subseteq Range(Slice(s, 0, 3 * Limit))
    BY <2>1, <2>2, <1>9, LexicalKeeps
  <2>7. /\ Range(r.lexical) \subseteq met
        /\ Cardinality(Range(r.lexical)) > Limit \/ kept \subseteq Range(r.lexical)
    BY <2>3, <2>6
  <2> HIDE DEF r
  <2>8. Step(r) BY <2>2 DEF r
  <2> QED BY <2>1, <2>3, <2>4, <2>5, <2>7, <2>8, <1>9, SearchGoesOn
<1>10. ASSUME read # None, Answer PROVE SearchInv'
  <2>1. read \in SearchRead /\ read.at = "answer" /\ read.kind = "search"
    BY <1>10, KindsOfReads, AnswerRanks DEF TypeInv
  <2>2. PICK s, answer : /\ Ranks(s, CandidatesOf(read), read)
                         /\ Ranks(answer, Best(s), read)
                         /\ Step(Answered(read, answer))
    BY <1>10, AnswerRanks
  <2> DEFINE r == Answered(read, answer)
  <2>3. /\ r.at = "done" /\ r.hits = read.hits /\ r.allowed = read.allowed
        /\ r.lexical = read.lexical /\ r.answer = answer
        /\ SameQuestion(r, read)
        /\ r.scope = read.scope /\ r.datasets = read.datasets
    BY <2>1 DEF SearchRead, SameQuestion, Answered
  <2>4. \A i \in Range(r.hits) :
          i \in 1 .. created /\ (i \in Live => table[i].dataset \in r.datasets)
    BY <2>1, <2>3, <1>10 DEF SearchInv
  <2>5. r.allowed \subseteq Range(r.hits) /\ r.allowed \cap Live \subseteq met
    BY <2>1, <2>3, <1>10 DEF SearchInv
  <2>6. /\ Range(r.lexical) \subseteq met
        /\ Cardinality(Range(r.lexical)) > Limit \/ kept \subseteq Range(r.lexical)
    BY <2>1, <2>3, <1>10 DEF SearchInv
  <2>7. CandidatesOf(r) = CandidatesOf(read) BY <2>3 DEF CandidatesOf
  <2>8. /\ Range(answer) \subseteq met
        /\ Cardinality(CandidatesOf(read)) <= Limit => kept \subseteq Range(answer)
    BY <2>1, <2>2, <1>10, AnswersFit
  <2>9. /\ Range(r.answer) \subseteq met
        /\ Cardinality(CandidatesOf(r)) <= Limit => kept \subseteq Range(r.answer)
    BY <2>3, <2>7, <2>8
  <2> HIDE DEF r
  <2>10. Step(r) BY <2>2 DEF r
  <2> QED BY <2>1, <2>3, <2>4, <2>5, <2>6, <2>9, <2>10, <1>10, SearchGoesOn
<1> QED
  BY <1>1, <1>2, <1>3, <1>4, <1>5, <1>6, <1>7, <1>8, <1>9, <1>10, Steps

(* Searches answer with rows that met their filters while they ran, and    *)
(* with all that were there all the time, unless they had to cut.          *)
THEOREM SearchesAreRight == Spec => []SearchesAnswerWhatMet
<1>1. Init => TypeInv /\ SearchInv
  <2>1. Init => SearchInv BY DEF Init, SearchInv
  <2> QED BY <2>1, TypeInit
<1>2. TypeInv /\ SearchInv /\ [Next]_vars => TypeInv' /\ SearchInv'
  BY TypeStep, SearchStep
<1>3. SearchInv => SearchesAnswerWhatMet
  BY DEF SearchInv, SearchesAnswerWhatMet, Finished
<1> QED BY <1>1, <1>2, <1>3, PTL DEF Spec

(* The rank of what is in a list is its place there. *)
LEMMA RankType ==
    ASSUME NEW S, NEW s \in Seq(S), NEW i
    PROVE  /\ i \in Range(s) => RankIn(s, i) \in 1 .. Len(s)
           /\ i \notin Range(s) => RankIn(s, i) = None
<1> DEFINE at == {k \in 1 .. Len(s) : s[k] = i}
<1>1. Len(s) \in Nat /\ DOMAIN s = 1 .. Len(s) BY LenProperties
<1>2. i \in Range(s) <=> at # {} BY <1>1 DEF Range
<1>3. ASSUME at # {} PROVE RankIn(s, i) \in 1 .. Len(s)
  <2>1. at \in SUBSET Nat BY <1>1
  <2>2. PICK k \in at : \A m \in at : k <= m BY <2>1, <1>3, LeastNumber
  <2>3. k \in DOMAIN s /\ s[k] = i /\ \A m \in 1 .. k - 1 : s[m] # i
    <3>1. k \in 1 .. Len(s) /\ s[k] = i OBVIOUS
    <3>2. ASSUME NEW m \in 1 .. k - 1 PROVE s[m] # i
      <4>1. m \in 1 .. Len(s) /\ ~(k <= m) BY <3>1, <1>1
      <4> QED BY <4>1, <2>2
    <3> QED BY <3>1, <3>2, <1>1
  <2>4. \E n \in DOMAIN s : s[n] = i /\ \A m \in 1 .. n - 1 : s[m] # i
    BY <2>3
  <2>5. RankIn(s, i) \in DOMAIN s BY <2>3, <2>4 DEF RankIn
  <2> QED BY <2>5, <1>1
<1>4. ASSUME at = {} PROVE RankIn(s, i) = None
  BY <1>1, <1>4 DEF RankIn
<1> QED BY <1>2, <1>3, <1>4

(* A candidate found both ways ranks above one that is not. *)
LEMMA BothRankAbove ==
    ASSUME NEW r \in SearchRead,
           Len(r.hits) <= RankOffset, Len(r.lexical) <= RankOffset,
           NEW i \in Range(r.hits) \cap r.allowed \cap Range(r.lexical),
           NEW j \in CandidatesOf(r),
           j \notin Range(r.hits) \cap r.allowed \cap Range(r.lexical)
    PROVE  RanksAbove(Scored(r, i), Scored(r, j))
<1> DEFINE v == RankIn(r.hits, i)
           l == RankIn(r.lexical, i)
<1>1. r.hits \in Seq(Ids) /\ r.lexical \in Seq(Ids) BY DEF SearchRead
<1>2. Len(r.hits) \in Nat /\ Len(r.lexical) \in Nat /\ RankOffset \in Nat
  BY <1>1, RankOffsetAssumption
<1>3. v \in 1 .. RankOffset /\ l \in 1 .. RankOffset
  <2>1. v \in 1 .. Len(r.hits) /\ l \in 1 .. Len(r.lexical)
    BY <1>1, RankType
  <2> QED BY <2>1, <1>2
<1>4. Scored(r, i).vector = v /\ Scored(r, i).lexical = l
  BY DEF Scored, Found
<1> DEFINE x == Scored(r, j)
<1>5. \E n \in Nat \ {0} : \/ x.vector = n /\ x.lexical = None
                           \/ x.vector = None /\ x.lexical = n
  <2>1. /\ x.vector = IF j \in r.allowed THEN RankIn(r.hits, j) ELSE None
        /\ x.lexical = RankIn(r.lexical, j)
    BY DEF Scored, Found
  <2>2. CASE j \in Range(r.lexical)
    <3>1. ~(j \in Range(r.hits) /\ j \in r.allowed) BY <2>2
    <3>2. x.vector = None BY <3>1, <2>1, <1>1, RankType
    <3>3. x.lexical \in 1 .. Len(r.lexical) BY <2>1, <2>2, <1>1, RankType
    <3>4. x.lexical \in Nat \ {0} BY <3>3, <1>2
    <3> QED BY <3>2, <3>4
  <2>3. CASE j \notin Range(r.lexical)
    <3>1. j \in Range(r.hits) /\ j \in r.allowed
      BY <2>3 DEF CandidatesOf, Candidates
    <3>2. x.lexical = None BY <2>1, <2>3, <1>1, RankType
    <3>3. x.vector \in 1 .. Len(r.hits) BY <3>1, <2>1, <1>1, RankType
    <3>4. x.vector \in Nat \ {0} BY <3>3, <1>2
    <3> QED BY <3>2, <3>4
  <2> QED BY <2>2, <2>3
<1> HIDE DEF v, l, x
<1>6. Above(Score(v, l), Score(x.vector, x.lexical))
  BY <1>3, <1>5, BothWaysScoreMore
<1> QED BY <1>4, <1>6 DEF RanksAbove, x

LEMMA BothWaysAnswer ==
    ASSUME TypeInv, SearchInv, read # None, read \in SearchRead,
           read.at = "answer", NEW s, NEW answer,
           Ranks(s, CandidatesOf(read), read), Ranks(answer, Best(s), read),
           Len(read.hits) <= RankOffset, Len(read.lexical) <= RankOffset,
           NEW n \in DOMAIN answer,
           answer[n] \notin Range(read.hits) \cap read.allowed
                              \cap Range(read.lexical) \cap Live,
           NEW i \in Range(read.hits) \cap read.allowed
                       \cap Range(read.lexical) \cap Live
    PROVE  \E k \in 1 .. n : answer[k] = i
<1> DEFINE C == CandidatesOf(read)
           top == Best(s)
           j == answer[n]
<1>1. C \subseteq Ids /\ i \in C
  <2>1. read.hits \in Seq(Ids) /\ read.lexical \in Seq(Ids) BY DEF SearchRead
  <2> QED BY <2>1, RangeOfSeq DEF CandidatesOf, Candidates
<1>2. Range(answer) = top /\ top \subseteq C \cap Live
  BY AnswersFit
<1>3. /\ s \in Seq(C) /\ Len(s) = Cardinality(C) /\ Cardinality(C) \in Nat
      /\ Range(s) = C
  <2>1. IsFiniteSet(C) BY <1>1, IdsAreFinite
  <2> QED BY <2>1, EnumeratesAll DEF Ranks
<1>4. /\ answer \in Seq(top) /\ Len(answer) = Cardinality(top)
      /\ Cardinality(top) \in Nat /\ DOMAIN answer = 1 .. Cardinality(top)
  <2>1. IsFiniteSet(top) BY <1>1, <1>2, IdsAreFinite
  <2>2. /\ answer \in Seq(top) /\ Len(answer) = Cardinality(top)
        /\ Cardinality(top) \in Nat
    BY <2>1, EnumeratesAll DEF Ranks
  <2> QED BY <2>2
<1>5. j \in top /\ j \in C /\ j \in Live /\ i # j
  BY <1>2 DEF Range
<1>6. RanksAbove(Scored(read, i), Scored(read, j))
  BY <1>5, BothRankAbove
<1>7. /\ \A k, l \in 1 .. Cardinality(C) : k < l =>
           ~RanksAbove(Scored(read, s[l]), Scored(read, s[k]))
      /\ \A k, l \in 1 .. Cardinality(top) : k < l =>
           ~RanksAbove(Scored(read, answer[l]), Scored(read, answer[k]))
  BY DEF Ranks
<1> HIDE DEF C, top, j
<1>8. i \in top
  <2>1. Limit \in Nat BY SizesAssumption
  <2>2. /\ Cut(s, Limit) \in Nat /\ Cut(s, Limit) <= Len(s)
        /\ \A x : x \in Range(Slice(s, 0, Limit))
                 <=> \E k \in 1 .. Cut(s, Limit) : s[k] = x
    <3>1. s \in Seq(C) /\ Limit \in Nat BY <1>3, <2>1
    <3>2. Cut(s, Limit) \in Nat /\ Cut(s, Limit) <= Len(s) BY <3>1, FirstOf
    <3>3. \A x : x \in Range(Slice(s, 0, Limit))
                <=> \E k \in 1 .. Cut(s, Limit) : s[k] = x
      BY <3>1, FirstRange
    <3> QED BY <3>2, <3>3
  <2>3. PICK p \in 1 .. Cut(s, Limit) : s[p] = j
    BY <2>2, <1>5 DEF top, Best
  <2>4. PICK q \in 1 .. Len(s) : s[q] = i
    <3>1. Range(s) = {s[k] : k \in 1 .. Len(s)} BY <1>3, RangeEquality
    <3> QED BY <3>1, <1>1, <1>3 DEF C
  <2>5. p \in 1 .. Len(s) /\ ~(p < q) BY <2>2, <2>3, <2>4, <1>3, <1>6, <1>7
  <2>6. p # q BY <2>3, <2>4, <1>5
  <2>7. q \in 1 .. Cut(s, Limit) BY <2>2, <2>3, <2>4, <2>5, <2>6, <1>3
  <2>8. i \in Range(Slice(s, 0, Limit)) BY <2>2, <2>4, <2>7
  <2> QED BY <2>8 DEF top, Best
<1>9. PICK k \in DOMAIN answer : answer[k] = i
  BY <1>2, <1>8 DEF Range
<1>10. k # n BY <1>5, <1>9 DEF j
<1>11. ~(n < k)
  <2> SUFFICES ASSUME n < k PROVE FALSE
    OBVIOUS
  <2>1. ~RanksAbove(Scored(read, answer[k]), Scored(read, answer[n]))
    BY <1>4, <1>7, <1>9
  <2> QED BY <2>1, <1>6, <1>9 DEF j
<1>12. k \in 1 .. n BY <1>4, <1>9, <1>10, <1>11
<1> QED BY <1>9, <1>12

(* A search's answer, once given, stands. *)
LEMMA BothWaysStep ==
    ASSUME TypeInv, SearchInv, BothWaysFirst, [Next]_vars
    PROVE  BothWaysFirst'
<1> SUFFICES ASSUME Finished("search")' PROVE BothWaysFirst'
  BY DEF BothWaysFirst
<1>1. read' # None /\ read'.kind = "search" /\ read'.at = "done"
  BY DEF Finished
<1>2. ASSUME read # None, Answer PROVE BothWaysFirst'
  <2>1. read \in SearchRead /\ read.at = "answer"
    BY <1>2, KindsOfReads, AnswerRanks DEF TypeInv
  <2>2. PICK s, answer : /\ Ranks(s, CandidatesOf(read), read)
                         /\ Ranks(answer, Best(s), read)
                         /\ Step(Answered(read, answer))
    BY <1>2, AnswerRanks
  <2>3. /\ read'.hits = read.hits /\ read'.allowed = read.allowed
        /\ read'.lexical = read.lexical /\ read'.answer = answer
        /\ table' = table
    BY <2>1, <2>2 DEF SearchRead, Answered, Step
  <2>4. ASSUME Len(read.hits) <= RankOffset, Len(read.lexical) <= RankOffset,
               NEW n \in DOMAIN answer,
               answer[n] \notin Range(read.hits) \cap read.allowed
                                  \cap Range(read.lexical) \cap Live,
               NEW i \in Range(read.hits) \cap read.allowed
                           \cap Range(read.lexical) \cap Live
        PROVE  \E k \in 1 .. n : answer[k] = i
    BY <1>2, <2>1, <2>2, <2>4, BothWaysAnswer
  <2> QED BY <2>3, <2>4 DEF BothWaysFirst, Live
<1>3. CASE UNCHANGED vars
  BY <1>3 DEF BothWaysFirst, Finished, vars, Live
<1>4. ASSUME Writes PROVE FALSE
  <2>1. PICK kind \in Kinds : WriteBy(kind) BY <1>4, WritesKeepRows DEF TypeInv
  <2> QED BY <2>1, <1>1 DEF WriteBy
<1>5. ASSUME NEW l \in Listings, Begin(OpenedRead(l)) PROVE FALSE
  BY <1>1, <1>5 DEF Begin, OpenedRead
<1>6. ASSUME NEW q \in Searches, Begin(SearchedRead(q)) PROVE FALSE
  BY <1>1, <1>6 DEF Begin, SearchedRead
<1>7. ASSUME Leave PROVE FALSE BY <1>1, <1>7 DEF Leave
<1>8. ASSUME read # None, Count \/ ClientPage \/ PersonPage PROVE FALSE
  <2>1. \E r \in PagesRead : Step(r)
    <3>1. read \in PagesRead
      BY <1>8, KindsOfReads, ClientPageGets, PersonPageGets DEF TypeInv, Count
    <3> QED BY <3>1, <1>8, ListingTypes, ClientPageGets, PersonPageGets
            DEF Count, Paged
  <2> QED BY <2>1, <1>1, KindsOfReads DEF Step
<1>9. ASSUME read # None, Points \/ Allow \/ Lexical PROVE FALSE
  <2>1. read.at \in {"points", "allowed", "lexical"}
    BY <1>9, LexicalFinds DEF Points, Allow
  <2>2. read \in SearchRead BY <1>9, <2>1, KindsOfReads DEF TypeInv
  <2>3. CASE Points \/ Allow
    BY <2>2, <2>3, <1>1 DEF Points, Allow, Step, SearchRead
  <2>4. CASE Lexical
    <3>1. PICK s : Step(WordsFound(read, s)) BY <2>4, LexicalFinds
    <3> QED BY <3>1, <2>2, <1>1 DEF WordsFound, Step, SearchRead
  <2> QED BY <1>9, <2>3, <2>4
<1> QED
  BY <1>2, <1>3, <1>4, <1>5, <1>6, <1>7, <1>8, <1>9, Steps

(* What is found by meaning and by words is answered first. *)
THEOREM FoundBothWaysFirst == Spec => []BothWaysFirst
<1>1. Init => TypeInv /\ SearchInv /\ BothWaysFirst
  <2>1. Init => SearchInv /\ BothWaysFirst
    BY DEF Init, SearchInv, BothWaysFirst, Finished
  <2> QED BY <2>1, TypeInit
<1>2. TypeInv /\ SearchInv /\ BothWaysFirst /\ [Next]_vars
        => TypeInv' /\ SearchInv' /\ BothWaysFirst'
  BY TypeStep, SearchStep, BothWaysStep
<1> QED BY <1>1, <1>2, PTL DEF Spec

-----------------------------------------------------------------------------
(* Listings. *)

InOrder(r) == r.sort = "row_number" /\ ~r.descending
Plain(r) == r.words = None /\ r.filters = {}
Harmless(r) == IF Plain(r) THEN {"created", "patched"} ELSE {"created"}

(* Nothing was written that may move the pages. *)
Quiet(r, writes) ==
    writes = <<>> \/ (InOrder(r) /\ Range(writes) \subseteq Harmless(r))

(* Of a listing of which A was there at the start and W is there now: what *)
(* it has got is what W begins with, A comes first in W, and it does not   *)
(* end before all of A was got.                                            *)
Delivers(r, A, W, B) ==
    /\ IsFront(r.got, W, B)
    /\ A \subseteq W
    /\ \A i \in A : \A j \in W \ A : <<i, j>> \in B
    /\ r.at = "page" => Cardinality(A) <= r.count /\ r.count <= Cardinality(W)
    /\ r.at # "done" => r.offset = Len(r.got)
    /\ r.at = "done" => A \subseteq Range(r.got)
    /\ r.by = "person" =>
         /\ r.at # "done" => \E k \in Nat : r.offset = k * PageSize
         /\ r.at = "count" => r.offset = 0 \/ r.offset < Cardinality(W)
         /\ r.at = "page" => r.offset = 0 \/ r.offset < r.count

(* Whatever is deleted, the place of a row got is not behind its place in  *)
(* what was got.                                                           *)
Grows(g, W) ==
    /\ g \in Seq(Nat)
    /\ \A k, l \in 1 .. Len(g) : k < l => g[k] < g[l]
    /\ \A k \in 1 .. Len(g) : Cardinality({i \in W : i <= g[k]}) <= k

PagesInv ==
    read # None /\ read.kind = "pages" =>
      LET W == WantedIn(table, read) IN
      /\ changes = <<>> => atStart = W
      /\ read.got \in Seq(1 .. created)
      /\ Quiet(read, changes) => Delivers(read, atStart, W, Pairs(table, read))
      /\ InOrder(read) /\ Plain(read) /\ read.by = "client" =>
           /\ Grows(read.got, W)
           /\ read.at # "done" => read.offset = Len(read.got)

(* A front as long as A has A, if A comes first. *)
LEMMA FrontHasFirst ==
    ASSUME NEW W, IsFiniteSet(W), NEW B, IsOrderOf(B, W),
           NEW g, IsFront(g, W, B), NEW A \in SUBSET W,
           \A i \in A : \A j \in W \ A : <<i, j>> \in B,
           Cardinality(A) <= Len(g)
    PROVE  A \subseteq Range(g)
<1> SUFFICES ASSUME NEW x \in A, x \notin Range(g) PROVE FALSE
  OBVIOUS
<1>1. /\ g \in Seq(W) /\ Len(g) \in Nat /\ DOMAIN g = 1 .. Len(g)
      /\ \A k \in 1 .. Len(g) : g[k] \in W /\ g[k] # x
  BY DEF IsFront, Range
<1>2. \A k \in 1 .. Len(g) : <<x, g[k]>> \notin B
  BY <1>1 DEF IsFront
<1>3. \A k \in 1 .. Len(g) : g[k] \in A \ {x}
  BY <1>1, <1>2
<1>4. Range(g) \subseteq A \ {x} BY <1>1, <1>3 DEF Range
<1>5. \A k, l \in 1 .. Len(g) : g[k] = g[l] => k = l
  <2> SUFFICES ASSUME NEW k \in 1 .. Len(g), NEW l \in 1 .. Len(g), g[k] = g[l]
               PROVE  k = l
    OBVIOUS
  <2>1. ~(k < l) /\ ~(l < k) BY <1>1 DEF IsFront, IsOrderOf
  <2> QED BY <2>1, <1>1
<1> DEFINE n == Len(g)
<1>6. g \in [1 .. n -> Range(g)] /\ n \in Nat BY <1>1 DEF Range
<1>7. \A i \in Range(g) : \E k \in 1 .. n : g[k] = i BY <1>1 DEF Range
<1> HIDE DEF n
<1>8. g \in Surjection(1 .. n, Range(g)) /\ g \in Injection(1 .. n, Range(g))
  BY <1>5, <1>6, <1>7, Fun_IsInj, Fun_IsSurj DEF n
<1>9. Cardinality(Range(g)) = n
  BY <1>6, <1>8, FS_Surjection, FirstNumbers
<1>10. IsFiniteSet(A) /\ IsFiniteSet(A \ {x}) BY FS_Subset
<1>11. Cardinality(A \ {x}) = Cardinality(A) - 1
  BY <1>10, FS_RemoveElement
<1>12. Cardinality(Range(g)) <= Cardinality(A \ {x})
  BY <1>4, <1>10, FS_Subset
<1>13. Cardinality(A) \in Nat BY <1>10, FS_CardinalityType
<1> QED BY <1>6, <1>9, <1>11, <1>12, <1>13 DEF n

(* A front stays one when later elements join. *)
LEMMA FrontKept ==
    ASSUME NEW W, NEW B, NEW g, IsFront(g, W, B), NEW V, NEW C,
           W \subseteq V,
           \A i, j \in W : <<i, j>> \in B <=> <<i, j>> \in C,
           \A i \in W : \A j \in V \ W : <<j, i>> \notin C
    PROVE  IsFront(g, V, C)
<1>1. /\ g \in Seq(W) /\ \A k \in 1 .. Len(g) : g[k] \in W
      /\ \A k, l \in 1 .. Len(g) : k < l => <<g[k], g[l]>> \in B
      /\ \A k \in 1 .. Len(g) : \A i \in W :
           <<i, g[k]>> \in B => \E l \in 1 .. Len(g) : g[l] = i
  BY DEF IsFront
<1>2. g \in Seq(V) BY <1>1, SeqMonotonic
<1>3. \A k, l \in 1 .. Len(g) : k < l => <<g[k], g[l]>> \in C BY <1>1
<1>4. ASSUME NEW k \in 1 .. Len(g), NEW i \in V, <<i, g[k]>> \in C
      PROVE  \E l \in 1 .. Len(g) : g[l] = i
  <2>1. i \in W BY <1>1, <1>4
  <2> QED BY <1>1, <1>4, <2>1
<1> QED BY <1>2, <1>3, <1>4 DEF IsFront

(* In the list of a set of numbers each has its place. *)
LEMMA PlacesInList ==
    ASSUME NEW W \in SUBSET Nat, IsFiniteSet(W), NEW B,
           \A i, j \in W : <<i, j>> \in B <=> i < j,
           NEW s, Lists(s, W, B), NEW l \in 1 .. Cardinality(W)
    PROVE  /\ \A k \in 1 .. Cardinality(W) : k < l => s[k] < s[l]
           /\ Cardinality({i \in W : i <= s[l]}) = l
<1> DEFINE n == Cardinality(W)
           upTo == {i \in W : i <= s[l]}
           f == [k \in 1 .. l |-> s[k]]
<1>1. n \in Nat /\ \A i \in W : \E k \in 1 .. n : s[k] = i
  BY ListsAreComplete
<1>2. /\ \A k \in 1 .. n : s[k] \in W /\ s[k] \in Nat
      /\ \A k, m \in 1 .. n : k # m => s[k] # s[m]
      /\ \A k, m \in 1 .. n : k < m => <<s[m], s[k]>> \notin B
  BY DEF Lists
<1> HIDE DEF n
<1>3. \A k, m \in 1 .. n : k < m => s[k] < s[m]
  <2> SUFFICES ASSUME NEW k \in 1 .. n, NEW m \in 1 .. n, k < m
               PROVE  s[k] < s[m]
    OBVIOUS
  <2>1. k # m BY <1>1
  <2>2. s[k] # s[m] /\ ~(s[m] < s[k]) BY <2>1, <1>2
  <2> QED BY <2>2, <1>2
<1>4. l \in Nat /\ l \in 1 .. n /\ 1 .. l \subseteq 1 .. n
  BY <1>1 DEF n
<1>5. \A k \in 1 .. l : s[k] \in upTo
  <2> SUFFICES ASSUME NEW k \in 1 .. l PROVE s[k] <= s[l]
    BY <1>2, <1>4
  <2>1. k = l \/ k < l BY <1>4
  <2> QED BY <2>1, <1>2, <1>3, <1>4
<1>6. \A i \in upTo : \E k \in 1 .. l : s[k] = i
  <2> SUFFICES ASSUME NEW i \in upTo PROVE \E k \in 1 .. l : s[k] = i
    OBVIOUS
  <2>1. PICK k \in 1 .. n : s[k] = i BY <1>1
  <2>2. ~(l < k) BY <2>1, <1>2, <1>3, <1>4
  <2>3. k \in 1 .. l BY <2>1, <2>2, <1>1, <1>4
  <2> QED BY <2>1, <2>3
<1>7. \A k, m \in 1 .. l : s[k] = s[m] => k = m BY <1>2, <1>4
<1> HIDE DEF upTo
<1>8. /\ f \in [1 .. l -> upTo]
      /\ \A i \in upTo : \E k \in 1 .. l : f[k] = i
      /\ \A k, m \in 1 .. l : f[k] = f[m] => k = m
  BY <1>5, <1>6, <1>7
<1> HIDE DEF f
<1>9. f \in Surjection(1 .. l, upTo) /\ f \in Injection(1 .. l, upTo)
  BY <1>8, Fun_IsInj, Fun_IsSurj
<1>10. Cardinality(upTo) = l BY <1>4, <1>9, FS_Surjection, FirstNumbers
<1> QED BY <1>3, <1>4, <1>10 DEF upTo, n

(* What comes behind the n-th place of the list is larger than the n rows  *)
(* got before.                                                             *)
LEMMA GrowsOn ==
    ASSUME NEW W \in SUBSET Nat, IsFiniteSet(W), NEW B,
           \A i, j \in W : <<i, j>> \in B <=> i < j,
           NEW s, Lists(s, W, B), NEW g, Grows(g, W),
           NEW m \in Nat, m <= Cardinality(W)
    PROVE  Grows(g \o SubSeq(s, Len(g) + 1, m), W)
<1> DEFINE n == Len(g)
           c == Cardinality(W)
           page == SubSeq(s, n + 1, m)
           new == g \o page
<1>1. /\ g \in Seq(Nat) /\ n \in Nat /\ \A k \in 1 .. n : g[k] \in Nat
      /\ \A k, l \in 1 .. n : k < l => g[k] < g[l]
      /\ \A k \in 1 .. n : Cardinality({i \in W : i <= g[k]}) <= k
  BY DEF Grows
<1>2. /\ c \in Nat /\ \A k \in 1 .. c : s[k] \in W /\ s[k] \in Nat
  BY ListsAreComplete DEF Lists
<1>3. /\ \A k, l \in 1 .. c : k < l => s[k] < s[l]
      /\ \A l \in 1 .. c : Cardinality({i \in W : i <= s[l]}) = l
  <2>1. ASSUME NEW l \in 1 .. Cardinality(W)
        PROVE  /\ \A k \in 1 .. Cardinality(W) : k < l => s[k] < s[l]
               /\ Cardinality({i \in W : i <= s[l]}) = l
    BY PlacesInList
  <2> QED BY <2>1
<1>4. m <= c OBVIOUS
<1> HIDE DEF n, c
<1>5. /\ page \in Seq(Nat) /\ Len(page) = IF n + 1 <= m THEN m - n ELSE 0
      /\ \A k \in 1 .. Len(page) : page[k] = s[n + k] /\ n + k \in 1 .. c
  <2>1. \A k \in n + 1 .. m : s[k] \in Nat BY <1>1, <1>2, <1>4
  <2>2. n + 1 \in Int /\ m \in Int BY <1>1
  <2>3. /\ SubSeq(s, n + 1, m) \in Seq(Nat)
        /\ Len(SubSeq(s, n + 1, m)) = IF n + 1 <= m THEN m - (n + 1) + 1 ELSE 0
        /\ \A i \in 1 .. m - (n + 1) + 1 : SubSeq(s, n + 1, m)[i] = s[n + 1 + i - 1]
    BY <2>1, <2>2, SubSeqProperties
  <2>4. Len(page) = IF n + 1 <= m THEN m - n ELSE 0 BY <2>3, <1>1
  <2>5. ASSUME NEW k \in 1 .. Len(page)
        PROVE  page[k] = s[n + k] /\ n + k \in 1 .. c
    <3>1. n + 1 <= m BY <2>4, <1>1
    <3>2. k \in 1 .. m - (n + 1) + 1 BY <2>4, <3>1, <1>1
    <3>3. page[k] = s[n + 1 + k - 1] BY <2>3, <3>2
    <3>4. n + 1 + k - 1 = n + k BY <1>1, <3>2
    <3>5. n + k \in 1 .. c BY <3>2, <1>1, <1>2, <1>4
    <3> QED BY <3>3, <3>4, <3>5
  <2> QED BY <2>3, <2>4, <2>5
<1> HIDE DEF page
<1>6. ASSUME NEW k \in 1 .. n, NEW l \in 1 .. c, k < l
      PROVE  g[k] < s[l]
  <2> SUFFICES ASSUME s[l] <= g[k] PROVE FALSE
    BY <1>1, <1>2
  <2> DEFINE below(x) == {i \in W : i <= x}
  <2>1. below(s[l]) \subseteq below(g[k])
    <3>1. \A i \in W : i <= s[l] => i <= g[k]
      BY <1>1, <1>2
    <3> QED BY <3>1
  <2>2. IsFiniteSet(below(g[k])) /\ IsFiniteSet(below(s[l])) BY FS_Subset
  <2>3. Cardinality(below(s[l])) <= Cardinality(below(g[k]))
    BY <2>1, <2>2, FS_Subset
  <2>4. Cardinality(below(s[l])) = l /\ Cardinality(below(g[k])) <= k
    BY <1>1, <1>3
  <2>5. Cardinality(below(g[k])) \in Nat BY <2>2, FS_CardinalityType
  <2> HIDE DEF below
  <2> QED BY <2>3, <2>4, <2>5, <1>1, <1>2, <1>6
<1>7. /\ new \in Seq(Nat) /\ Len(new) = n + Len(page) /\ Len(page) \in Nat
      /\ \A k \in 1 .. Len(new) :
           new[k] = IF k <= n THEN g[k] ELSE page[k - n]
  <2>1. /\ new \in Seq(Nat) /\ Len(new) = Len(g) + Len(page)
        /\ \A k \in 1 .. Len(g) + Len(page) :
             new[k] = IF k <= Len(g) THEN g[k] ELSE page[k - Len(g)]
    BY <1>1, <1>5, ConcatProperties
  <2> QED BY <2>1, <1>5 DEF n
<1>8. \A k \in 1 .. Len(new) :
        \/ k \in 1 .. n /\ new[k] = g[k]
        \/ k \in 1 .. c /\ k > n /\ new[k] = s[k]
  <2> SUFFICES ASSUME NEW k \in 1 .. Len(new), ~(k \in 1 .. n)
               PROVE  k \in 1 .. c /\ k > n /\ new[k] = s[k]
    BY <1>1, <1>7
  <2>1. k > n /\ k - n \in 1 .. Len(page) /\ n + (k - n) = k
    BY <1>1, <1>7
  <2>2. new[k] = page[k - n] BY <1>7, <2>1, <1>1
  <2>3. page[k - n] = s[n + (k - n)] /\ n + (k - n) \in 1 .. c
    BY <1>5, <2>1
  <2> QED BY <2>1, <2>2, <2>3
<1> HIDE DEF new
<1>9. ASSUME NEW k \in 1 .. Len(new), NEW l \in 1 .. Len(new), k < l
      PROVE  new[k] < new[l]
  <2>1. CASE k \in 1 .. n /\ l \in 1 .. n
    <3>1. new[k] = g[k] /\ new[l] = g[l] BY <2>1, <1>8, <1>1
    <3> QED BY <3>1, <2>1, <1>1, <1>9
  <2>2. CASE k \in 1 .. n /\ l \notin 1 .. n
    <3>1. new[k] = g[k] /\ l \in 1 .. c /\ new[l] = s[l] BY <2>2, <1>8, <1>1
    <3> QED BY <3>1, <2>2, <1>6, <1>9
  <2>3. CASE k \notin 1 .. n
    <3>1. k \in 1 .. c /\ new[k] = s[k] /\ l \notin 1 .. n
      BY <2>3, <1>8, <1>1, <1>7, <1>9
    <3>2. l \in 1 .. c /\ new[l] = s[l] BY <3>1, <1>8
    <3> QED BY <3>1, <3>2, <1>3, <1>9
  <2> QED BY <2>1, <2>2, <2>3
<1>10. ASSUME NEW k \in 1 .. Len(new)
       PROVE  Cardinality({i \in W : i <= new[k]}) <= k
  <2>1. k \in Nat BY <1>1, <1>7
  <2>2. CASE k \in 1 .. n /\ new[k] = g[k] BY <2>2, <1>1
  <2>3. CASE k \in 1 .. c /\ new[k] = s[k] BY <2>1, <2>3, <1>3
  <2> QED BY <2>2, <2>3, <1>8
<1> QED BY <1>7, <1>9, <1>10 DEF Grows, new, page, n

(* Writes only move what was got to the front. *)
LEMMA GrowsKept ==
    ASSUME NEW W, IsFiniteSet(W), NEW V, NEW new, NEW g, Grows(g, W),
           V \subseteq W \cup {new}, new \in Nat,
           \A k \in 1 .. Len(g) : g[k] < new
    PROVE  Grows(g, V)
<1>1. /\ g \in Seq(Nat) /\ \A k \in 1 .. Len(g) : g[k] \in Nat /\ k \in Nat
      /\ \A k, l \in 1 .. Len(g) : k < l => g[k] < g[l]
      /\ \A k \in 1 .. Len(g) : Cardinality({i \in W : i <= g[k]}) <= k
  BY DEF Grows
<1>2. ASSUME NEW k \in 1 .. Len(g)
      PROVE  Cardinality({i \in V : i <= g[k]}) <= k
  <2> DEFINE below(S) == {i \in S : i <= g[k]}
  <2>1. ~(new <= g[k]) BY <1>1
  <2>2. below(V) \subseteq below(W) BY <2>1
  <2>3. IsFiniteSet(below(W)) BY FS_Subset
  <2>4. Cardinality(below(V)) <= Cardinality(below(W)) /\ IsFiniteSet(below(V))
    BY <2>2, <2>3, FS_Subset
  <2>5. Cardinality(below(V)) \in Nat /\ Cardinality(below(W)) \in Nat
    BY <2>3, <2>4, FS_CardinalityType
  <2>6. Cardinality(below(W)) <= k BY <1>1
  <2> HIDE DEF below
  <2>7. Cardinality(below(V)) <= k BY <2>4, <2>5, <2>6, <1>1
  <2> QED BY <2>7 DEF below
<1> QED BY <1>1, <1>2 DEF Grows

GrowingNumbers(t) ==
    /\ \A i \in DOMAIN t : i \in Nat /\ t[i].number \in Nat
    /\ \A i, j \in DOMAIN t : i < j /\ t[i].dataset = t[j].dataset
                              => t[i].number < t[j].number

LEMMA InOrderById ==
    ASSUME NEW t, GrowingNumbers(t), NEW r \in PagesRead, InOrder(r)
    PROVE  /\ WantedIn(t, r) \subseteq Nat
           /\ \A i, j \in WantedIn(t, r) : <<i, j>> \in Pairs(t, r) <=> i < j
<1> DEFINE W == WantedIn(t, r)
<1>1. W \subseteq DOMAIN t /\ \A i \in W : t[i].dataset = r.dataset
  BY KindsOfReads DEF WantedIn, Wanted, InScope
<1>2. ASSUME NEW i \in W, NEW j \in W
      PROVE  <<i, j>> \in Pairs(t, r) <=> i < j
  <2>1. <<i, j>> \in Pairs(t, r) <=> Ahead(t[i], t[j], r.sort, r.descending)
    BY <1>1 DEF Pairs
  <2>2. ~SortsByColumn(t[i].dataset, r.sort) BY DEF InOrder, SortsByColumn
  <2>3. Ahead(t[i], t[j], r.sort, r.descending) <=> t[i].number < t[j].number
    BY <2>2 DEF Ahead, ByNumber, InOrder
  <2>4. /\ i \in Nat /\ j \in Nat /\ t[i].number \in Nat /\ t[j].number \in Nat
        /\ i < j => t[i].number < t[j].number
        /\ j < i => t[j].number < t[i].number
    BY <1>1 DEF GrowingNumbers
  <2>5. i = j => t[i].number = t[j].number OBVIOUS
  <2> HIDE DEF W
  <2>6. t[i].number < t[j].number <=> i < j BY <2>4, <2>5
  <2> QED BY <2>1, <2>3, <2>6
<1> QED BY <1>1, <1>2 DEF GrowingNumbers

LEMMA NumbersGrow ==
    /\ RowsOK => GrowingNumbers(table)
    /\ RowsOK' => GrowingNumbers(table')
<1>1. ASSUME RowsOK PROVE GrowingNumbers(table)
  BY <1>1, LiveRows DEF GrowingNumbers, RowsOK, IsRowOf, Live
<1>2. ASSUME RowsOK' PROVE GrowingNumbers(table')
  <2>1. \A i \in DOMAIN table' : i \in 1 .. created' /\ created' \in 0 .. MaxRows
    BY <1>2 DEF RowsOK, Live
  <2>2. \A i \in DOMAIN table' : table'[i].number \in 1 .. MaxRows
    BY <1>2 DEF RowsOK, Live, RowType
  <2>3. \A i \in DOMAIN table' : i \in Nat /\ table'[i].number \in Nat
    BY <2>1, <2>2, SizesAssumption
  <2> QED BY <2>3, <1>2 DEF GrowingNumbers, RowsOK, Live
<1> QED BY <1>1, <1>2

LEMMA ClientDelivers ==
    ASSUME NEW r \in PagesRead, r.at = "page", r.by = "client",
           NEW A, NEW W, IsFiniteSet(W), NEW B, IsOrderOf(B, W),
           Delivers(r, A, W, B), NEW s, Lists(s, W, B)
    PROVE  Delivers(ClientGot(r, s), A, W, B)
<1> DEFINE n == Len(r.got)
           c == Cardinality(W)
           m == IF n + PageSize < c THEN n + PageSize ELSE c
           page == Slice(s, r.offset, r.offset + PageSize)
           q == ClientGot(r, s)
<1>1. /\ IsFront(r.got, W, B) /\ r.offset = n
      /\ A \subseteq W /\ \A i \in A : \A j \in W \ A : <<i, j>> \in B
      /\ Cardinality(A) <= r.count /\ r.count <= c
  BY DEF Delivers
<1>2. /\ c \in Nat /\ s \in Seq(W) /\ Len(s) = c
  BY ListsAreComplete
<1>3. n \in 0 .. c BY <1>1, ListBeginsWithFront
<1>4. PageSize \in Nat \ {0} /\ r.count \in Nat
  BY SizesAssumption DEF PagesRead
<1>5. /\ q.got = r.got \o page /\ q.offset = r.offset + Len(page)
      /\ q.at = IF r.offset + Len(page) < r.count /\ page # <<>>
                THEN "count" ELSE "done"
      /\ q.by = "client"
  BY DEF ClientGot, PagesRead
<1>6. A \subseteq W /\ IsFiniteSet(A) /\ Cardinality(A) \in Nat /\ Cardinality(A) <= c
  BY <1>1, FS_Subset, FS_CardinalityType
<1> HIDE DEF q, c, n
<1>7. n \in Nat /\ m \in Nat /\ n <= m /\ m <= c /\ n + PageSize \in Nat
  BY <1>2, <1>3, <1>4
<1>8. page = SubSeq(s, n + 1, m) /\ page \in Seq(W) /\ Len(page) \in Nat
  <2>1. /\ Slice(s, n, n + PageSize) \in Seq(W)
        /\ Slice(s, n, n + PageSize)
             = SubSeq(s, n + 1, IF n + PageSize < Len(s) THEN n + PageSize ELSE Len(s))
        /\ Len(Slice(s, n, n + PageSize)) \in Nat
    BY <1>2, <1>7, SliceType
  <2> QED BY <2>1, <1>1, <1>2
<1> HIDE DEF page, m
<1>9. IsFront(r.got \o page, W, B) /\ Len(r.got \o page) = m
  <2> DEFINE g == r.got
  <2>1. IsFront(g, W, B) BY <1>1
  <2>2. m \in Nat /\ Len(g) <= m /\ m <= Cardinality(W)
    BY <1>7 DEF c, n
  <2> HIDE DEF g
  <2>3. /\ IsFront(g \o SubSeq(s, Len(g) + 1, m), W, B)
        /\ Len(g \o SubSeq(s, Len(g) + 1, m)) = m
    BY <2>1, <2>2, FrontContinued
  <2> QED BY <2>3, <1>8 DEF n, g
<1>10. Len(r.got \o page) = n + Len(page)
  <2>1. r.got \in Seq(W) BY <1>1 DEF IsFront
  <2> QED BY <2>1, <1>8, ConcatProperties DEF n
<1>11. q.offset = m /\ Len(q.got) = m
  BY <1>1, <1>5, <1>9, <1>10, <1>7, <1>8
<1>12. ASSUME Cardinality(A) <= m PROVE A \subseteq Range(q.got)
  <2> DEFINE h == r.got \o page
  <2>1. /\ IsFront(h, W, B) /\ A \in SUBSET W /\ Cardinality(A) <= Len(h)
        /\ \A i \in A : \A j \in W \ A : <<i, j>> \in B
    BY <1>1, <1>9, <1>12
  <2>2. q.got = h BY <1>5
  <2> HIDE DEF h
  <2>3. A \subseteq Range(h) BY <2>1, FrontHasFirst
  <2> QED BY <2>2, <2>3
<1>13. ASSUME q.at = "done" PROVE A \subseteq Range(q.got)
  <2>1. CASE ~(r.offset + Len(page) < r.count)
    <3>1. r.count <= m BY <2>1, <1>1, <1>4, <1>7, <1>8, <1>9, <1>10
    <3>2. Cardinality(A) <= m BY <3>1, <1>1, <1>4, <1>6, <1>7
    <3> QED BY <3>2, <1>12
  <2>2. CASE page = <<>>
    <3>1. m = n BY <2>2, <1>7, <1>9, <1>10
    <3>2. m = c BY <3>1, <1>2, <1>4, <1>7 DEF m
    <3>3. Cardinality(A) <= m BY <3>2, <1>6
    <3> QED BY <3>3, <1>12
  <2> QED BY <2>1, <2>2, <1>5, <1>13
<1>14. IsFront(q.got, W, B) /\ q.at # "page" /\ q.by # "person"
  BY <1>5, <1>9
<1> QED BY <1>1, <1>11, <1>13, <1>14 DEF Delivers, q

(* Of two multiples, the one less than a page above the other is not above. *)
LEMMA Multiples ==
    ASSUME NEW k \in Nat, NEW q \in Nat, NEW p \in Nat \ {0},
           k * p < q * p + p
    PROVE  k * p <= q * p
<1>1. k <= q
  <2> SUFFICES ASSUME q + 1 <= k PROVE FALSE
    OBVIOUS
  <2>1. (q + 1) * p <= k * p OBVIOUS
  <2>2. (q + 1) * p = q * p + p OBVIOUS
  <2> QED BY <2>1, <2>2
<1> QED BY <1>1

LEMMA PersonDelivers ==
    ASSUME NEW r \in PagesRead, r.at = "page", r.by = "person",
           NEW A, NEW W, IsFiniteSet(W), NEW B, IsOrderOf(B, W),
           Delivers(r, A, W, B), NEW s, Lists(s, W, B)
    PROVE  Delivers(PersonGot(r, s), A, W, B)
<1> DEFINE n == Len(r.got)
           c == Cardinality(W)
           last == PageEnd(r) * PageSize
           m == PageTo(r)
           page == Slice(s, PageFrom(r), PageTo(r))
           q == PersonGot(r, s)
<1>1. /\ IsFront(r.got, W, B) /\ r.offset = n
      /\ A \subseteq W /\ \A i \in A : \A j \in W \ A : <<i, j>> \in B
      /\ Cardinality(A) <= r.count /\ r.count <= c
      /\ \E k \in Nat : r.offset = k * PageSize
      /\ r.offset = 0 \/ r.offset < r.count
  BY DEF Delivers
<1>2. /\ c \in Nat /\ s \in Seq(W) /\ Len(s) = c
  BY ListsAreComplete
<1>3. n \in 0 .. c BY <1>1, ListBeginsWithFront
<1>4. PageSize \in Nat \ {0} /\ r.count \in Nat /\ r.offset \in Nat
  BY SizesAssumption DEF PagesRead
<1>5. /\ q.got = r.got \o page /\ q.offset = PageFrom(r) + PageSize
      /\ q.at = IF PageFrom(r) < last THEN "count" ELSE "done"
      /\ q.by = "person"
  BY DEF PersonGot, PagesRead
<1>6. /\ PageEnd(r) \in Nat /\ last \in Nat
      /\ r.count > 0 => last < r.count
      /\ r.count <= last + PageSize
      /\ PageTo(r) \in Nat
  BY PageNumbers
<1>7. PICK k \in Nat : r.offset = k * PageSize BY <1>1
<1>8. r.offset <= last
  <2>1. CASE r.offset = 0 BY <2>1, <1>6
  <2>2. CASE r.offset < r.count
    <3>1. k * PageSize < PageEnd(r) * PageSize + PageSize
      BY <2>2, <1>4, <1>6, <1>7
    <3>2. k * PageSize <= PageEnd(r) * PageSize
      BY <3>1, <1>4, <1>6, Multiples
    <3> QED BY <3>2, <1>7
  <2> QED BY <2>1, <2>2, <1>1
<1>9. PageFrom(r) = n BY <1>1, <1>8 DEF PageFrom
<1>10. m = IF n + PageSize < r.count THEN n + PageSize ELSE r.count
  BY <1>9 DEF PageTo
<1>11. q.at = (IF n < last THEN "count" ELSE "done") /\ q.offset = n + PageSize
  BY <1>5, <1>9
<1> HIDE DEF q, c, n, m, last
<1>12. n \in Nat /\ m \in Nat /\ n <= m /\ m <= c
  <2>1. n \in Nat /\ n <= c BY <1>2, <1>3
  <2>2. n <= r.count BY <2>1, <1>1, <1>4
  <2> QED BY <2>1, <2>2, <1>1, <1>2, <1>4, <1>10
<1>13. page = SubSeq(s, n + 1, m)
  <2>1. page = SubSeq(s, n + 1, IF m < c THEN m ELSE c)
    BY <1>2, <1>9 DEF Slice, m, c
  <2>2. (IF m < c THEN m ELSE c) = m BY <1>12, <1>2
  <2> QED BY <2>1, <2>2
<1> HIDE DEF page
<1>14. IsFront(r.got \o page, W, B) /\ Len(r.got \o page) = m
  <2> DEFINE g == r.got
  <2>1. IsFront(g, W, B) BY <1>1
  <2>2. m \in Nat /\ Len(g) <= m /\ m <= Cardinality(W)
    BY <1>12 DEF c, n
  <2> HIDE DEF g
  <2>3. /\ IsFront(g \o SubSeq(s, Len(g) + 1, m), W, B)
        /\ Len(g \o SubSeq(s, Len(g) + 1, m)) = m
    BY <2>1, <2>2, FrontContinued
  <2> QED BY <2>3, <1>13 DEF n, g
<1>15. ASSUME q.at # "done"
       PROVE  /\ q.offset = Len(q.got)
              /\ \E l \in Nat : q.offset = l * PageSize
              /\ q.offset < c
  <2>1. n < last BY <1>11, <1>15
  <2>2. k * PageSize < PageEnd(r) * PageSize /\ n = k * PageSize
    BY <2>1, <1>1, <1>7 DEF last
  <2>3. n + PageSize <= last
    <3>1. k + 1 <= PageEnd(r)
      <4> SUFFICES ASSUME PageEnd(r) <= k PROVE FALSE
        BY <1>6
      <4> DEFINE e == PageEnd(r)
      <4>1. e \in Nat /\ e <= k BY <1>6
      <4> HIDE DEF e
      <4>2. e * PageSize <= k * PageSize BY <4>1, <1>4
      <4>3. e * PageSize \in Nat /\ k * PageSize \in Nat BY <4>1, <1>4
      <4> QED BY <4>2, <4>3, <2>2 DEF e
    <3> DEFINE e == PageEnd(r)
    <3>2. e \in Nat /\ k + 1 <= e BY <1>6, <3>1
    <3> HIDE DEF e
    <3>3. (k + 1) * PageSize <= e * PageSize BY <3>2, <1>4
    <3>4. (k + 1) * PageSize = k * PageSize + PageSize BY <1>4
    <3> QED BY <3>3, <3>4, <2>2 DEF e, last
  <2>4. r.count > 0 /\ last < r.count
    <3>1. r.count = 0 => last = 0 BY <1>4 DEF last, PageEnd
    <3>2. r.count > 0 BY <3>1, <2>1, <1>4, <1>12
    <3> QED BY <3>2, <1>6 DEF last
  <2>5. n + PageSize < r.count BY <2>3, <2>4, <1>4, <1>6, <1>12
  <2>6. m = n + PageSize BY <2>5, <1>10
  <2>7. q.offset = (k + 1) * PageSize /\ k + 1 \in Nat
    BY <2>2, <1>4, <1>11
  <2>8. q.offset < c BY <2>5, <1>1, <1>2, <1>4, <1>11, <1>12
  <2> QED BY <2>6, <2>7, <2>8, <1>5, <1>11, <1>14
<1>16. ASSUME q.at = "done" PROVE A \subseteq Range(q.got)
  <2>1. ~(n < last) BY <1>11, <1>16
  <2>2. m = r.count BY <2>1, <1>4, <1>6, <1>10, <1>12
  <2> DEFINE h == r.got \o page
  <2>3. /\ IsFront(h, W, B) /\ A \in SUBSET W /\ Cardinality(A) <= Len(h)
        /\ \A i \in A : \A j \in W \ A : <<i, j>> \in B
    BY <2>2, <1>1, <1>14
  <2>4. q.got = h BY <1>5
  <2> HIDE DEF h
  <2>5. A \subseteq Range(h) BY <2>3, FrontHasFirst
  <2> QED BY <2>4, <2>5
<1>17. IsFront(q.got, W, B) /\ q.at # "page" /\ q.by = "person"
  BY <1>5, <1>14
<1> QED BY <1>1, <1>15, <1>16, <1>17 DEF Delivers, q, c

SameListing(r, q) ==
    /\ r \in PagesRead /\ q \in PagesRead
    /\ r.dataset = q.dataset /\ r.words = q.words /\ r.filters = q.filters
    /\ r.sort = q.sort /\ r.descending = q.descending /\ r.by = q.by

LEMMA SameListingSameRows ==
    ASSUME NEW r, NEW q, SameListing(r, q), NEW t, NEW writes
    PROVE  /\ WantedIn(t, r) = WantedIn(t, q) /\ Pairs(t, r) = Pairs(t, q)
           /\ Quiet(r, writes) <=> Quiet(q, writes)
           /\ InOrder(r) <=> InOrder(q)
           /\ Plain(r) <=> Plain(q)
<1>1. SameQuestion(r, q) BY KindsOfReads DEF SameListing, SameQuestion
<1>2. WantedIn(t, r) = WantedIn(t, q) BY <1>1, SameQuestionSameRows
<1>3. Pairs(t, r) = Pairs(t, q) BY DEF Pairs, SameListing
<1>4. (InOrder(r) <=> InOrder(q)) /\ (Plain(r) <=> Plain(q))
  BY DEF InOrder, Plain, SameListing
<1>5. Quiet(r, writes) <=> Quiet(q, writes)
  BY <1>4 DEF Quiet, Harmless
<1> QED BY <1>2, <1>3, <1>4, <1>5

(* What the steps of a listing have in common. *)
LEMMA ListingGoesOn ==
    ASSUME TypeInv, PagesInv, read # None, read \in PagesRead,
           NEW r, SameListing(r, read), Step(r), r.got \in Seq(1 .. created),
           Quiet(read, changes) =>
             Delivers(r, atStart, WantedIn(table, read), Pairs(table, read)),
           InOrder(read) /\ Plain(read) /\ read.by = "client" =>
             /\ Grows(r.got, WantedIn(table, read))
             /\ r.at # "done" => r.offset = Len(r.got)
    PROVE  PagesInv'
<1>1. read' = r /\ UNCHANGED <<table, created, changes, atStart>>
  BY DEF Step, ghosts
<1>2. /\ WantedIn(table, r) = WantedIn(table, read)
      /\ Pairs(table, r) = Pairs(table, read)
      /\ Quiet(r, changes) <=> Quiet(read, changes)
      /\ InOrder(r) <=> InOrder(read)
      /\ Plain(r) <=> Plain(read)
  BY SameListingSameRows
<1>3. r.by = read.by BY DEF SameListing
<1>4. changes = <<>> => atStart = WantedIn(table, read)
  BY KindsOfReads DEF PagesInv
<1>5. (WantedIn(table, read))' = WantedIn(table, r)
  BY <1>1 DEF WantedIn, Wanted, InScope
<1>6. (Pairs(table, read))' = Pairs(table, r)
  BY <1>1 DEF Pairs
<1>7. Quiet(read, changes)' <=> Quiet(r, changes)
  BY <1>1 DEF Quiet, InOrder, Harmless, Plain
<1>8. (InOrder(read)' <=> InOrder(r)) /\ (Plain(read)' <=> Plain(r))
  BY <1>1 DEF InOrder, Plain
<1>9. Delivers(read, atStart, WantedIn(table, read), Pairs(table, read))'
        <=> Delivers(r, atStart, WantedIn(table, read), Pairs(table, read))
  BY <1>1, <1>2, <1>5, <1>6 DEF Delivers, IsFront
<1>10. Grows(read.got, WantedIn(table, read))' <=> Grows(r.got, WantedIn(table, read))
  BY <1>1, <1>2, <1>5 DEF Grows
<1> HIDE DEF PagesInv
<1> QED
  BY <1>1, <1>2, <1>3, <1>4, <1>5, <1>7, <1>8, <1>9, <1>10 DEF PagesInv

LEMMA CountStep ==
    ASSUME TypeInv, PagesInv, read # None, Count
    PROVE  PagesInv'
<1> DEFINE r == Paged(read)
           W == WantedIn(table, read)
           B == Pairs(table, read)
<1>1. read.at = "count" /\ Step(r) BY DEF Count, Paged
<1>2. read \in PagesRead /\ read.kind = "pages"
  BY <1>1, KindsOfReads DEF TypeInv
<1>3. r \in PagesRead BY <1>2, ListingTypes
<1>4. /\ SameListing(r, read) /\ r.got = read.got /\ r.offset = read.offset
      /\ r.at = "page" /\ r.count = Cardinality(W) /\ r.by = read.by
  BY <1>2, <1>3 DEF Paged, SameListing, PagesRead
<1>5. IsFiniteSet(W) /\ Cardinality(W) \in Nat BY WantedIsFinite DEF TypeInv
<1> HIDE DEF r
<1>6. ASSUME Quiet(read, changes) PROVE Delivers(r, atStart, W, B)
  <2>1. Delivers(read, atStart, W, B) BY <1>2, <1>6 DEF PagesInv
  <2> HIDE DEF W, B
  <2>2. /\ IsFront(read.got, W, B) /\ atStart \subseteq W
        /\ \A i \in atStart : \A j \in W \ atStart : <<i, j>> \in B
        /\ read.offset = Len(read.got)
        /\ read.by = "person" =>
             /\ \E k \in Nat : read.offset = k * PageSize
             /\ read.offset = 0 \/ read.offset < Cardinality(W)
    BY <2>1, <1>1 DEF Delivers
  <2>3. Cardinality(atStart) <= Cardinality(W) BY <2>2, <1>5, FS_Subset
  <2> QED BY <2>2, <2>3, <1>4, <1>5 DEF Delivers
<1>7. read.got \in Seq(1 .. created) BY <1>2 DEF PagesInv
<1>8. InOrder(read) /\ Plain(read) /\ read.by = "client" =>
        Grows(read.got, W) /\ read.offset = Len(read.got)
  BY <1>1, <1>2 DEF PagesInv
<1> QED BY <1>1, <1>2, <1>4, <1>6, <1>7, <1>8, ListingGoesOn

LEMMA ClientStep ==
    ASSUME TypeInv, PagesInv, read # None, ClientPage
    PROVE  PagesInv'
<1> DEFINE W == WantedIn(table, read)
           B == Pairs(table, read)
<1>1. read.at = "page" /\ read.by = "client" BY ClientPageGets
<1>2. PICK s \in Rows(read) : Step(ClientGot(read, s)) BY ClientPageGets
<1>3. read \in PagesRead /\ read.kind = "pages"
  BY <1>1, KindsOfReads DEF TypeInv
<1> DEFINE r == ClientGot(read, s)
           page == Slice(s, read.offset, read.offset + PageSize)
<1>4. r \in PagesRead BY <1>3, ListingTypes
<1>5. /\ SameListing(r, read) /\ r.got = read.got \o page
      /\ r.offset = read.offset + Len(page)
  BY <1>3, <1>4 DEF ClientGot, SameListing, PagesRead
<1>6. /\ IsFiniteSet(W) /\ Cardinality(W) \in Nat /\ W \subseteq 1 .. created
      /\ created \in Nat
  BY WantedIsFinite, LiveRows DEF TypeInv
<1>7. IsOrderOf(B, W) BY <1>3, ListingIsOrdered DEF TypeInv
<1>8. Lists(s, W, B) BY RowsAreLists
<1>9. read.got \in Seq(1 .. created) BY <1>3 DEF PagesInv
<1>10. /\ read.offset \in Nat /\ PageSize \in Nat \ {0}
       /\ read.offset + PageSize \in Nat
  BY <1>3, SizesAssumption DEF PagesRead
<1>11. page \in Seq(W) /\ Len(page) \in Nat /\ s \in Seq(W) /\ Len(s) = Cardinality(W)
  BY <1>3, <1>10, PageType
<1>12. r.got \in Seq(1 .. created)
  <2>1. page \in Seq(1 .. created) BY <1>6, <1>11, SeqMonotonic
  <2> QED BY <2>1, <1>5, <1>9, ConcatProperties
<1>13. ASSUME Quiet(read, changes) PROVE Delivers(r, atStart, W, B)
  <2>1. Delivers(read, atStart, W, B) BY <1>3, <1>13 DEF PagesInv
  <2> HIDE DEF W, B
  <2> QED BY <2>1, <1>1, <1>3, <1>6, <1>7, <1>8, ClientDelivers
<1>14. ASSUME InOrder(read), Plain(read)
       PROVE  Grows(r.got, W) /\ r.offset = Len(r.got)
  <2> DEFINE g == read.got
             n == Len(g)
             c == Cardinality(W)
             m == IF n + PageSize < c THEN n + PageSize ELSE c
  <2>1. Grows(g, W) /\ read.offset = n
    BY <1>1, <1>3, <1>14 DEF PagesInv
  <2>2. W \subseteq Nat /\ \A i, j \in W : <<i, j>> \in B <=> i < j
    BY <1>3, <1>14, NumbersGrow, InOrderById DEF TypeInv
  <2>3. page = SubSeq(s, n + 1, m) BY <2>1, <1>11 DEF Slice
  <2>4. g \in Seq(Nat) /\ n \in Nat BY <2>1 DEF Grows
  <2>5. m \in Nat /\ m <= Cardinality(W) BY <2>4, <1>6, <1>10
  <2> HIDE DEF W, B, m, page, g
  <2>6. Grows(g \o SubSeq(s, Len(g) + 1, m), W)
    BY <2>1, <2>2, <2>5, <1>6, <1>8, GrowsOn
  <2>7. r.got = g \o SubSeq(s, Len(g) + 1, m) BY <1>5, <2>3 DEF g
  <2>8. Len(g \o page) = Len(g) + Len(page)
    <3>1. page \in Seq(1 .. created) /\ g \in Seq(1 .. created)
      BY <1>6, <1>9, <1>11, SeqMonotonic DEF g
    <3> QED BY <3>1, ConcatProperties
  <2> QED BY <2>1, <2>6, <2>7, <2>8, <1>5 DEF g
<1> HIDE DEF r
<1> QED BY <1>2, <1>3, <1>5, <1>12, <1>13, <1>14, ListingGoesOn DEF r

LEMMA PersonStep ==
    ASSUME TypeInv, PagesInv, read # None, PersonPage
    PROVE  PagesInv'
<1> DEFINE W == WantedIn(table, read)
           B == Pairs(table, read)
<1>1. read.at = "page" /\ read.by = "person" BY PersonPageGets
<1>2. PICK s \in Rows(read) : Step(PersonGot(read, s)) BY PersonPageGets
<1>3. read \in PagesRead /\ read.kind = "pages"
  BY <1>1, KindsOfReads DEF TypeInv
<1> DEFINE r == PersonGot(read, s)
           page == Slice(s, PageFrom(read), PageTo(read))
<1>4. r \in PagesRead BY <1>3, ListingTypes
<1>5. SameListing(r, read) /\ r.got = read.got \o page
  BY <1>3, <1>4 DEF PersonGot, SameListing, PagesRead
<1>6. IsFiniteSet(W) /\ W \subseteq 1 .. created
  BY WantedIsFinite DEF TypeInv
<1>7. IsOrderOf(B, W) BY <1>3, ListingIsOrdered DEF TypeInv
<1>8. Lists(s, W, B) BY RowsAreLists
<1>9. read.got \in Seq(1 .. created) BY <1>3 DEF PagesInv
<1>10. PageFrom(read) \in Nat /\ PageTo(read) \in Nat BY <1>3, PageNumbers
<1>11. page \in Seq(W) BY <1>3, <1>10, PageType
<1>12. r.got \in Seq(1 .. created)
  <2>1. page \in Seq(1 .. created) BY <1>6, <1>11, SeqMonotonic
  <2> QED BY <2>1, <1>5, <1>9, ConcatProperties
<1>13. ASSUME Quiet(read, changes) PROVE Delivers(r, atStart, W, B)
  <2>1. Delivers(read, atStart, W, B) BY <1>3, <1>13 DEF PagesInv
  <2> HIDE DEF W, B
  <2> QED BY <2>1, <1>1, <1>3, <1>6, <1>7, <1>8, PersonDelivers
<1> HIDE DEF r
<1> QED BY <1>1, <1>2, <1>3, <1>5, <1>12, <1>13, ListingGoesOn DEF r

LEMMA PlainWantsAll ==
    ASSUME NEW r \in PagesRead, Plain(r), NEW row
    PROVE  Wanted(r, row) <=> row.dataset = r.dataset
<1>1. NormalFilters(row.dataset, r.filters) = {} BY DEF Plain, NormalFilters
<1>2. Selects(row, r.words, r.filters) BY <1>1 DEF Plain, Selects
<1> QED BY <1>2, KindsOfReads DEF Wanted, InScope

(* What a write changes among the rows a listing wants. *)
LEMMA WantedAfterWrite ==
    ASSUME TypeInv, NEW r \in PagesRead, NEW kind \in Kinds, WriteBy(kind)
    PROVE  /\ Plain(r) =>
                WantedIn(table', r) \subseteq WantedIn(table, r) \cup {created + 1}
           /\ kind \in Harmless(r) =>
                /\ WantedIn(table, r) \subseteq WantedIn(table', r)
                /\ WantedIn(table', r) \subseteq WantedIn(table, r) \cup {created + 1}
<1>1. \A i \in Live' :
        \/ /\ i \in Live
           /\ table'[i].dataset = table[i].dataset
           /\ kind # "patched" => table'[i] = table[i]
        \/ kind = "created" /\ i = created + 1
  BY DEF WriteBy
<1>2. kind # "deleted" => Live \subseteq Live' BY DEF WriteBy
<1>3. \A i \in Live : i # created + 1 BY LiveRows DEF TypeInv
<1>4. Live = DOMAIN table /\ Live' = DOMAIN table' BY DEF Live
<1>5. Plain(r) => \A row : Wanted(r, row) <=> row.dataset = r.dataset
  BY PlainWantsAll
<1>6. CASE Plain(r)
  <2>1. \A i \in WantedIn(table', r) : i \in WantedIn(table, r) \cup {created + 1}
    BY <1>1, <1>4, <1>5, <1>6 DEF WantedIn
  <2>2. ASSUME kind \in Harmless(r), NEW i \in WantedIn(table, r)
        PROVE  i \in WantedIn(table', r)
    <3>1. i \in Live /\ i \in Live' /\ i # created + 1
      BY <2>2, <1>2, <1>3, <1>4, <1>6 DEF Harmless, WantedIn
    <3>2. table'[i].dataset = table[i].dataset BY <3>1, <1>1
    <3> QED BY <3>1, <3>2, <1>4, <1>5, <1>6 DEF WantedIn
  <2> QED BY <2>1, <2>2, <1>6
<1>7. CASE ~Plain(r)
  <2> SUFFICES ASSUME kind = "created"
               PROVE  /\ WantedIn(table, r) \subseteq WantedIn(table', r)
                      /\ WantedIn(table', r)
                           \subseteq WantedIn(table, r) \cup {created + 1}
    BY <1>7 DEF Harmless
  <2>1. \A i \in Live : i \in Live' /\ table'[i] = table[i]
    BY <1>1, <1>2, <1>3
  <2>2. \A i \in Live' : i \in Live \/ i = created + 1 BY <1>1
  <2> QED BY <2>1, <2>2, <1>4 DEF WantedIn
<1> QED BY <1>6, <1>7

LEMMA WriteKeepsPages ==
    ASSUME TypeInv, PagesInv, RowsOK', NEW kind \in Kinds, WriteBy(kind)
    PROVE  PagesInv'
<1> SUFFICES ASSUME (read # None)', (read.kind = "pages")' PROVE PagesInv'
  BY DEF PagesInv
<1>1. /\ read' = read /\ read # None /\ read.kind = "pages" /\ read.at # "done"
      /\ changes' = Append(changes, kind) /\ atStart' = atStart
      /\ created' \in {created, created + 1}
  BY DEF WriteBy
<1>2. read \in PagesRead BY <1>1, KindsOfReads DEF TypeInv
<1> DEFINE W == WantedIn(table, read)
           V == WantedIn(table', read)
           B == Pairs(table, read)
           C == Pairs(table', read)
           new == created + 1
<1>3. /\ changes = <<>> => atStart = W
      /\ read.got \in Seq(1 .. created)
      /\ Quiet(read, changes) => Delivers(read, atStart, W, B)
      /\ InOrder(read) /\ Plain(read) /\ read.by = "client" =>
           Grows(read.got, W) /\ read.offset = Len(read.got)
  BY <1>1 DEF PagesInv
<1>4. /\ IsFiniteSet(W) /\ W \subseteq 1 .. created /\ created \in Nat
      /\ Cardinality(W) \in Nat
  BY WantedIsFinite, LiveRows DEF TypeInv
<1>5. changes \in Seq(Kinds) BY DEF TypeInv
<1>6. changes' # <<>> /\ Range(changes') = Range(changes) \cup {kind}
  <2>1. /\ Len(changes') = Len(changes) + 1 /\ Len(changes) \in Nat
        /\ DOMAIN changes' = 1 .. Len(changes) + 1
        /\ DOMAIN changes = 1 .. Len(changes)
        /\ \A k \in 1 .. Len(changes) : changes'[k] = changes[k]
        /\ changes'[Len(changes) + 1] = kind
    BY <1>1, <1>5
  <2>2. changes' # <<>> BY <2>1
  <2>3. \A x \in Range(changes') : x \in Range(changes) \cup {kind}
    BY <2>1 DEF Range
  <2>4. \A x \in Range(changes) \cup {kind} : x \in Range(changes')
    <3>1. \A k \in 1 .. Len(changes) : k \in 1 .. Len(changes) + 1 BY <2>1
    <3>2. Len(changes) + 1 \in 1 .. Len(changes) + 1 BY <2>1
    <3> QED BY <2>1, <3>1, <3>2 DEF Range
  <2> QED BY <2>2, <2>3, <2>4
<1>7. read.got \in Seq(1 .. created')
  <2>1. 1 .. created \subseteq 1 .. created' BY <1>1, <1>4
  <2> QED BY <2>1, <1>3, SeqMonotonic
<1>8. /\ Plain(read) => V \subseteq W \cup {new}
      /\ kind \in Harmless(read) => W \subseteq V /\ V \subseteq W \cup {new}
  BY <1>2, WantedAfterWrite
<1>9. ASSUME Quiet(read, changes') PROVE Delivers(read, atStart, V, C)
  <2>1. /\ InOrder(read) /\ kind \in Harmless(read) /\ Quiet(read, changes)
    BY <1>6, <1>9 DEF Quiet
  <2>2. /\ W \subseteq Nat /\ \A i, j \in W : <<i, j>> \in B <=> i < j
        /\ V \subseteq Nat /\ \A i, j \in V : <<i, j>> \in C <=> i < j
    BY <1>2, <2>1, NumbersGrow, InOrderById DEF TypeInv
  <2>3. Delivers(read, atStart, W, B) BY <1>3, <2>1
  <2>4. IsFiniteSet(V) /\ W \subseteq V /\ V \subseteq W \cup {new}
    <3>1. V \subseteq W \cup {new} /\ W \subseteq V BY <1>8, <2>1
    <3>2. IsFiniteSet(W \cup {new}) BY <1>4, FS_AddElement
    <3> QED BY <3>1, <3>2, FS_Subset
  <2> HIDE DEF W, V, B, C
  <2>5. \A i \in W : \A j \in V \ W : i < j /\ j \in V /\ i \in V
    BY <2>4, <1>4
  <2>6. IsFront(read.got, V, C)
    <3>1. IsFront(read.got, W, B) BY <2>3 DEF Delivers
    <3>2. \A i, j \in W : <<i, j>> \in B <=> <<i, j>> \in C BY <2>2, <2>4
    <3>3. \A i \in W : \A j \in V \ W : <<j, i>> \notin C
      BY <2>2, <2>5
    <3> DEFINE g == read.got
    <3>4. IsFront(g, W, B) BY <3>1
    <3> HIDE DEF g
    <3>5. IsFront(g, V, C) BY <3>2, <3>3, <3>4, <2>4, FrontKept
    <3> QED BY <3>5 DEF g
  <2>7. atStart \subseteq V /\ \A i \in atStart : \A j \in V \ atStart : <<i, j>> \in C
    <3>1. atStart \subseteq W /\ \A i \in atStart : \A j \in W \ atStart : <<i, j>> \in B
      BY <2>3 DEF Delivers
    <3> SUFFICES ASSUME NEW i \in atStart, NEW j \in V \ atStart PROVE <<i, j>> \in C
      BY <3>1, <2>4
    <3>2. i \in W BY <3>1
    <3>3. CASE j \in W BY <3>1, <3>2, <3>3, <2>2, <2>4
    <3>4. CASE j \notin W BY <3>2, <3>4, <2>2, <2>5
    <3> QED BY <3>3, <3>4
  <2>8. Cardinality(W) <= Cardinality(V) /\ Cardinality(V) \in Nat
    BY <2>4, FS_Subset, FS_CardinalityType
  <2>9. read.count \in Nat /\ read.offset \in Nat BY <1>2 DEF PagesRead
  <2>10. read.at = "page" => /\ Cardinality(atStart) <= read.count
                             /\ read.count <= Cardinality(V)
    BY <2>3, <2>8, <2>9, <1>4 DEF Delivers
  <2>11. read.by = "person" =>
           /\ \E k \in Nat : read.offset = k * PageSize
           /\ read.at = "count" => read.offset = 0 \/ read.offset < Cardinality(V)
           /\ read.at = "page" => read.offset = 0 \/ read.offset < read.count
    BY <2>3, <2>8, <2>9, <1>1, <1>4 DEF Delivers
  <2>12. read.offset = Len(read.got) BY <2>3, <1>1 DEF Delivers
  <2> QED BY <2>6, <2>7, <2>10, <2>11, <2>12, <1>1 DEF Delivers
<1>10. ASSUME InOrder(read), Plain(read), read.by = "client"
       PROVE  Grows(read.got, V) /\ read.offset = Len(read.got)
  <2>1. Grows(read.got, W) /\ read.offset = Len(read.got) BY <1>3, <1>10
  <2>2. V \subseteq W \cup {new} BY <1>8, <1>10
  <2> DEFINE g == read.got
             S == 1 .. created
  <2>3. new \in Nat /\ \A k \in 1 .. Len(g) : g[k] < new
    <3>1. g \in Seq(S) /\ \A i \in S : i < new BY <1>3, <1>4
    <3> HIDE DEF g, S, new
    <3>2. \A k \in 1 .. Len(g) : g[k] \in S BY <3>1
    <3>3. \A k \in 1 .. Len(g) : g[k] < new BY <3>1, <3>2
    <3> QED BY <3>3, <1>4 DEF new
  <2>4. Grows(g, W) BY <2>1
  <2> HIDE DEF W, V, new, g
  <2>5. Grows(g, V) BY <2>2, <2>3, <2>4, <1>4, GrowsKept
  <2> QED BY <2>1, <2>5 DEF g
<1> QED BY <1>1, <1>6, <1>7, <1>9, <1>10 DEF PagesInv, Quiet, InOrder, Plain, Harmless

LEMMA PagesStep ==
    ASSUME TypeInv, PagesInv, [Next]_vars
    PROVE  PagesInv'
<1>1. ASSUME Writes PROVE PagesInv'
  BY <1>1, WritesKeepRows, WriteKeepsPages DEF TypeInv
<1>2. ASSUME NEW l \in Listings, Begin(OpenedRead(l)) PROVE PagesInv'
  <2> DEFINE r == OpenedRead(l)
             W == WantedIn(table, r)
             B == Pairs(table, r)
  <2>1. /\ read' = r /\ changes' = <<>> /\ table' = table
        /\ created' = created /\ atStart' = W
    BY <1>2 DEF Begin
  <2>2. r.got = <<>> /\ r.offset = 0 /\ r.at = "count" BY DEF OpenedRead
  <2>3. IsFiniteSet(W) BY WantedIsFinite DEF TypeInv
  <2> HIDE DEF r
  <2>4. IsFront(r.got, W, B) BY <2>2 DEF IsFront
  <2>5. r.offset = 0 * PageSize BY <2>2, SizesAssumption
  <2>6. Delivers(r, W, W, B) BY <2>2, <2>4, <2>5 DEF Delivers
  <2>7. Grows(r.got, W) BY <2>2 DEF Grows
  <2>8. r.got \in Seq(1 .. created) /\ r.offset = Len(r.got) BY <2>2
  <2> QED BY <2>1, <2>6, <2>7, <2>8 DEF PagesInv
<1>3. ASSUME NEW q \in Searches, Begin(SearchedRead(q)) PROVE PagesInv'
  BY <1>3 DEF Begin, SearchedRead, PagesInv
<1>4. CASE Leave BY <1>4 DEF Leave, PagesInv
<1>5. ASSUME read # None, Points \/ Allow \/ Lexical \/ Answer PROVE PagesInv'
  <2>1. \E r \in SearchRead : Step(r)
    <3>1. read.at \in {"points", "allowed", "lexical", "answer"}
      BY <1>5, LexicalFinds, AnswerRanks DEF Points, Allow
    <3>2. read \in SearchRead BY <1>5, <3>1, KindsOfReads DEF TypeInv
    <3>3. CASE Points BY <3>2, <3>3, SearchTypes DEF Points
    <3>4. CASE Allow BY <3>2, <3>4, SearchTypes DEF Allow
    <3>5. CASE Lexical
      <4>1. PICK s : Enumerates(s, ByWords(read)) /\ Step(WordsFound(read, s))
        BY <3>5, LexicalFinds
      <4> QED BY <4>1, <3>2, SearchTypes
    <3>6. CASE Answer
      <4>1. PICK s, answer : Ranks(answer, Best(s), read) /\ Step(Answered(read, answer))
        BY <3>6, AnswerRanks
      <4> QED BY <4>1, <3>2, SearchTypes
    <3> QED BY <1>5, <3>3, <3>4, <3>5, <3>6
  <2>2. read'.kind = "search" BY <2>1, KindsOfReads DEF Step
  <2> QED BY <2>2 DEF PagesInv
<1>6. ASSUME read # None, Count \/ ClientPage \/ PersonPage PROVE PagesInv'
  BY <1>6, CountStep, ClientStep, PersonStep
<1>7. CASE UNCHANGED vars
  BY <1>7 DEF vars, PagesInv, WantedIn, Wanted, InScope, Pairs, Quiet, InOrder,
              Plain, Harmless, Delivers, IsFront, Grows
<1> QED BY <1>1, <1>2, <1>3, <1>4, <1>5, <1>6, <1>7, Steps

LEMMA PagesDeliver ==
    ASSUME TypeInv, PagesInv
    PROVE  ListingsDeliverOnce
<1> SUFFICES ASSUME Finished("pages") PROVE ListingsDeliverOnce
  BY DEF ListingsDeliverOnce
<1> DEFINE W == WantedIn(table, read)
           B == Pairs(table, read)
<1>1. read # None /\ read.kind = "pages" /\ read.at = "done" BY DEF Finished
<1>2. read \in PagesRead BY <1>1, KindsOfReads DEF TypeInv
<1>3. IsFiniteSet(W) BY WantedIsFinite DEF TypeInv
<1>4. IsOrderOf(B, W) BY <1>2, ListingIsOrdered DEF TypeInv
<1>5. /\ changes = <<>> => atStart = W
      /\ Quiet(read, changes) => Delivers(read, atStart, W, B)
      /\ InOrder(read) /\ Plain(read) /\ read.by = "client" => Grows(read.got, W)
  BY <1>1 DEF PagesInv
<1>6. DOMAIN read.got = 1 .. Len(read.got) /\ Len(read.got) \in Nat
  BY <1>2 DEF PagesRead
<1> HIDE DEF W, B
<1>7. ASSUME Quiet(read, changes)
      PROVE  IsInjective(read.got) /\ atStart \subseteq Range(read.got)
  <2>1. IsFront(read.got, W, B) /\ atStart \subseteq Range(read.got)
    BY <1>1, <1>5, <1>7 DEF Delivers
  <2>2. ASSUME NEW k \in 1 .. Len(read.got), NEW l \in 1 .. Len(read.got),
               read.got[k] = read.got[l]
        PROVE  k = l
    <3>1. /\ read.got[k] \in W
          /\ k < l => <<read.got[k], read.got[l]>> \in B
          /\ l < k => <<read.got[l], read.got[k]>> \in B
      BY <2>1 DEF IsFront
    <3>2. ~(k < l) /\ ~(l < k) BY <3>1, <2>2, <1>4 DEF IsOrderOf
    <3> QED BY <3>2, <1>6
  <2> QED BY <2>1, <2>2, <1>6 DEF IsInjective
<1>8. ASSUME changes = <<>> PROVE read.got \in Rows(read)
  <2>1. Quiet(read, changes) /\ atStart = W BY <1>5, <1>8 DEF Quiet
  <2>2. IsFront(read.got, W, B) /\ W \subseteq Range(read.got)
    BY <2>1, <1>5, <1>7 DEF Delivers
  <2> DEFINE g == read.got
  <2>3. IsFront(g, W, B) /\ W \subseteq Range(g) BY <2>2
  <2> HIDE DEF g
  <2>4. Lists(g, W, B) BY <2>3, <1>3, <1>4, FullFrontLists
  <2> QED BY <2>4, RowsAreLists DEF g, W, B
<1>9. ASSUME InOrder(read), Plain(read), read.by = "client"
      PROVE  IsInjective(read.got)
  <2>1. Grows(read.got, W) BY <1>5, <1>9
  <2>2. ASSUME NEW k \in 1 .. Len(read.got), NEW l \in 1 .. Len(read.got),
               read.got[k] = read.got[l]
        PROVE  k = l
    <3>1. /\ read.got[k] \in Nat
          /\ k < l => read.got[k] < read.got[l]
          /\ l < k => read.got[l] < read.got[k]
      BY <2>1 DEF Grows
    <3>2. ~(k < l) /\ ~(l < k) BY <3>1, <2>2
    <3> QED BY <3>2, <1>6
  <2> QED BY <2>2, <1>6 DEF IsInjective
<1> QED BY <1>7, <1>8, <1>9
        DEF ListingsDeliverOnce, Quiet, InOrder, Plain, Harmless

(* Whatever the pages, the order and the writes in between: a listing      *)
(* delivers what it promises.                                              *)
THEOREM ListingsAreRight == Spec => []ListingsDeliverOnce
<1>1. Init => TypeInv /\ PagesInv
  <2>1. Init => PagesInv BY DEF Init, PagesInv
  <2> QED BY <2>1, TypeInit
<1>2. TypeInv /\ PagesInv /\ [Next]_vars => TypeInv' /\ PagesInv'
  BY TypeStep, PagesStep
<1>3. TypeInv /\ PagesInv => ListingsDeliverOnce BY PagesDeliver
<1> QED BY <1>1, <1>2, <1>3, PTL DEF Spec

-----------------------------------------------------------------------------
(* Each query has one answer. *)

(* B may leave elements of W unordered. *)
IsPartialOrderOf(B, W) ==
    /\ \A i, j \in W : ~(<<i, j>> \in B /\ <<j, i>> \in B)
    /\ \A i, j, k \in W : <<i, j>> \in B /\ <<j, k>> \in B => <<i, k>> \in B

(* One more element has its place in a list: behind the last before it.    *)
LEMMA PutIn ==
    ASSUME NEW V, IsFiniteSet(V), NEW B, IsPartialOrderOf(B, V),
           NEW x \in V, NEW s, Lists(s, V \ {x}, B)
    PROVE  \E t : Lists(t, V, B)
<1> DEFINE U == V \ {x}
           n == Cardinality(U)
           before == {k \in 1 .. n : <<s[k], x>> \in B}
<1>1. IsFiniteSet(U) /\ n \in Nat BY FS_Subset, FS_CardinalityType
<1>2. Cardinality(V) = n + 1
  <2>1. Cardinality(U) = Cardinality(V) - 1 BY FS_RemoveElement
  <2>2. Cardinality(V) \in Nat BY FS_CardinalityType
  <2> QED BY <2>1, <2>2, <1>1
<1>3. /\ \A k \in 1 .. n : s[k] \in V /\ s[k] # x
      /\ \A k, l \in 1 .. n : k # l => s[k] # s[l]
      /\ \A k, l \in 1 .. n : k < l => <<s[l], s[k]>> \notin B
  BY DEF Lists
<1> HIDE DEF n, U
<1>4. \E p \in 0 .. n : /\ p > 0 => <<s[p], x>> \in B
                        /\ \A k \in 1 .. n : k > p => <<s[k], x>> \notin B
  <2>1. CASE before = {}
    <3>1. 0 \in 0 .. n BY <1>1
    <3> QED BY <2>1, <3>1
  <2>2. CASE before # {}
    <3>1. before \in SUBSET Nat /\ \A k \in before : k <= n BY <1>1
    <3>2. PICK p \in before : \A k \in before : p >= k
      BY <2>2, <3>1, <1>1, GreatestNumber
    <3>3. p \in 0 .. n /\ <<s[p], x>> \in B BY <1>1
    <3>4. \A k \in 1 .. n : k > p => <<s[k], x>> \notin B
      <4> SUFFICES ASSUME NEW k \in 1 .. n, k > p, <<s[k], x>> \in B PROVE FALSE
        OBVIOUS
      <4>1. k \in before OBVIOUS
      <4> QED BY <4>1, <3>2, <3>3, <1>1
    <3> QED BY <3>3, <3>4
  <2> QED BY <2>1, <2>2
<1>5. PICK p \in 0 .. n : /\ p > 0 => <<s[p], x>> \in B
                          /\ \A k \in 1 .. n : k > p => <<s[k], x>> \notin B
  BY <1>4
<1> HIDE DEF before
<1> DEFINE t == [k \in 1 .. n + 1 |-> IF k <= p THEN s[k]
                                      ELSE IF k = p + 1 THEN x ELSE s[k - 1]]
<1>6. \A k \in 1 .. n + 1 :
        \/ k <= p /\ k \in 1 .. n /\ t[k] = s[k]
        \/ k = p + 1 /\ t[k] = x
        \/ k > p + 1 /\ k - 1 \in 1 .. n /\ t[k] = s[k - 1]
  BY <1>1
<1>7. t \in [1 .. n + 1 -> V]
  <2>1. \A k \in 1 .. n + 1 : t[k] \in V BY <1>3, <1>6
  <2>2. DOMAIN t = 1 .. n + 1 OBVIOUS
  <2> QED BY <2>1
<1>8. ASSUME NEW k \in 1 .. n + 1, NEW l \in 1 .. n + 1, k < l
      PROVE  t[k] # t[l] /\ <<t[l], t[k]>> \notin B
  <2>0. p \in Nat /\ n \in Nat /\ p <= n BY <1>1
  <2>1. CASE k <= p /\ l <= p
    <3>1. /\ k \in 1 .. n /\ l \in 1 .. n /\ t[k] = s[k] /\ t[l] = s[l] /\ k # l
      BY <2>0, <2>1, <1>6, <1>8
    <3> QED BY <3>1, <1>3, <1>8
  <2>2. CASE k <= p /\ l = p + 1
    <3>1. k \in 1 .. n /\ t[k] = s[k] /\ t[l] = x BY <2>0, <2>2, <1>6
    <3>2. p \in 1 .. n /\ <<s[p], x>> \in B BY <2>0, <2>2, <1>5
    <3>3. <<x, s[k]>> \notin B
      <4> SUFFICES ASSUME <<x, s[k]>> \in B PROVE FALSE
        OBVIOUS
      <4>1. <<s[p], s[k]>> \in B
        BY <3>1, <3>2, <1>3 DEF IsPartialOrderOf
      <4>2. CASE k < p BY <4>1, <4>2, <3>1, <3>2, <1>3
      <4>3. CASE k = p BY <4>1, <4>3, <3>1, <1>3 DEF IsPartialOrderOf
      <4> QED BY <4>2, <4>3, <2>0, <2>2
    <3> QED BY <3>1, <3>3, <1>3
  <2>3. CASE k <= p /\ l > p + 1
    <3>1. /\ k \in 1 .. n /\ l - 1 \in 1 .. n
          /\ t[k] = s[k] /\ t[l] = s[l - 1] /\ k < l - 1 /\ k # l - 1
      BY <2>0, <2>3, <1>6
    <3> QED BY <3>1, <1>3
  <2>4. CASE k = p + 1
    <3>1. /\ l - 1 \in 1 .. n /\ l - 1 > p
          /\ t[k] = x /\ t[l] = s[l - 1]
      BY <2>0, <2>4, <1>6, <1>8
    <3> QED BY <3>1, <1>3, <1>5
  <2>5. CASE k > p + 1
    <3>1. /\ k - 1 \in 1 .. n /\ l - 1 \in 1 .. n
          /\ t[k] = s[k - 1] /\ t[l] = s[l - 1] /\ k - 1 < l - 1 /\ k - 1 # l - 1
      BY <2>0, <2>5, <1>6, <1>8
    <3> QED BY <3>1, <1>3
  <2> QED BY <2>0, <2>1, <2>2, <2>3, <2>4, <2>5
<1> HIDE DEF t
<1>9. \A k, l \in 1 .. n + 1 : k # l => t[k] # t[l]
  <2> SUFFICES ASSUME NEW k \in 1 .. n + 1, NEW l \in 1 .. n + 1, k # l
               PROVE  t[k] # t[l]
    OBVIOUS
  <2>1. k < l \/ l < k BY <1>1
  <2> QED BY <2>1, <1>8
<1>10. Lists(t, V, B) BY <1>2, <1>7, <1>8, <1>9 DEF Lists
<1> QED BY <1>10

(* Every finite set can be listed. *)
LEMMA ListsExist ==
    ASSUME NEW W, IsFiniteSet(W), NEW B, IsPartialOrderOf(B, W)
    PROVE  \E s : Lists(s, W, B)
<1> DEFINE bad == {n \in Nat : \E V \in SUBSET W :
                     Cardinality(V) = n /\ \A s : ~Lists(s, V, B)}
<1>1. bad = {}
  <2> SUFFICES ASSUME bad # {} PROVE FALSE
    OBVIOUS
  <2>1. PICK n \in bad : \A m \in bad : n <= m
    <3>1. bad \in SUBSET Nat OBVIOUS
    <3> HIDE DEF bad
    <3> QED BY <3>1, LeastNumber
  <2>2. PICK V \in SUBSET W : Cardinality(V) = n /\ \A s : ~Lists(s, V, B)
    OBVIOUS
  <2>3. IsFiniteSet(V) /\ IsPartialOrderOf(B, V)
    BY FS_Subset DEF IsPartialOrderOf
  <2>4. CASE V = {}
    <3>1. Cardinality(V) = 0 BY <2>4, FS_EmptySet
    <3>2. <<>> \in [1 .. 0 -> V] /\ 1 .. 0 = {} OBVIOUS
    <3>3. Lists(<<>>, V, B) BY <3>1, <3>2 DEF Lists
    <3> QED BY <3>3, <2>2
  <2>5. CASE V # {}
    <3>1. PICK x \in V : TRUE BY <2>5
    <3>2. /\ Cardinality(V \ {x}) = Cardinality(V) - 1
          /\ Cardinality(V) \in Nat /\ Cardinality(V \ {x}) \in Nat
      BY <2>3, FS_RemoveElement, FS_Subset, FS_CardinalityType
    <3>3. Cardinality(V \ {x}) \notin bad
      <4> SUFFICES ASSUME Cardinality(V \ {x}) \in bad PROVE FALSE
        OBVIOUS
      <4>1. n <= Cardinality(V \ {x}) BY <2>1
      <4> QED BY <4>1, <3>2, <2>2
    <3>4. PICK s : Lists(s, V \ {x}, B) BY <3>2, <3>3
    <3>5. \E t : Lists(t, V, B) BY <3>4, <2>3, PutIn
    <3> QED BY <3>5, <2>2
  <2> QED BY <2>4, <2>5
<1>2. Cardinality(W) \in Nat BY FS_CardinalityType
<1>3. Cardinality(W) \notin bad BY <1>1
<1> QED BY <1>2, <1>3

(* No two: each begins with the other.                                     *)
LEMMA ListsAreUnique ==
    ASSUME NEW W, IsFiniteSet(W), NEW B, IsOrderOf(B, W),
           NEW s, Lists(s, W, B), NEW t, Lists(t, W, B)
    PROVE  s = t
<1> DEFINE n == Cardinality(W)
           g == SubSeq(s, 1, n)
<1>1. /\ n \in Nat /\ s \in Seq(W) /\ Len(s) = n /\ t \in Seq(W) /\ Len(t) = n
  BY ListsAreComplete
<1>2. n \in 0 .. Cardinality(W) BY <1>1
<1>3. IsFront(g, W, B) /\ Len(g) = n BY <1>2, ListHasFronts
<1> HIDE DEF n, g
<1>4. /\ \A k \in 1 .. Len(g) : g[k] = s[k]
      /\ \A k \in 1 .. Len(g) : g[k] = t[k]
  BY <1>3, ListBeginsWithFront
<1>5. \A k \in 1 .. n : s[k] = t[k] BY <1>3, <1>4
<1> QED BY <1>1, <1>5, SeqEqual

(* One sequence, and no other, puts W in order. *)
HasOneList(W, B) == \E s : \A t : Lists(t, W, B) <=> t = s

(* A set of which any two are ordered has one list. *)
LEMMA OneList ==
    ASSUME NEW W, IsFiniteSet(W), NEW B, IsOrderOf(B, W), IsPartialOrderOf(B, W)
    PROVE  HasOneList(W, B)
<1>1. PICK s : Lists(s, W, B) BY ListsExist
<1>2. \A t : Lists(t, W, B) => t = s BY <1>1, ListsAreUnique
<1> QED BY <1>1, <1>2 DEF HasOneList

(* Fractions, as pairs of a number and a positive one.                     *)
IsFraction(x) == \E a \in Nat : \E b \in Nat \ {0} : x = <<a, b>>

LEMMA FractionOrder ==
    ASSUME NEW x, NEW y, NEW z, IsFraction(x), IsFraction(y), IsFraction(z)
    PROVE  /\ ~(Above(x, y) /\ Above(y, x))
           /\ Above(x, y) /\ ~Above(z, y) => Above(x, z)
           /\ ~Above(y, x) /\ ~Above(z, y) => ~Above(z, x)
           /\ ~Above(y, x) /\ Above(y, z) => Above(x, z)
<1>1. PICK a \in Nat, b \in Nat \ {0} : x = <<a, b>> BY DEF IsFraction
<1>2. PICK c \in Nat, d \in Nat \ {0} : y = <<c, d>> BY DEF IsFraction
<1>3. PICK e \in Nat, f \in Nat \ {0} : z = <<e, f>> BY DEF IsFraction
<1>4. /\ Above(x, y) <=> a * d > c * b
      /\ Above(y, x) <=> c * b > a * d
      /\ Above(x, z) <=> a * f > e * b
      /\ Above(z, x) <=> e * b > a * f
      /\ Above(y, z) <=> c * f > e * d
      /\ Above(z, y) <=> e * d > c * f
  BY <1>1, <1>2, <1>3 DEF Above
<1> DEFINE ad == a * d
           cb == c * b
           af == a * f
           eb == e * b
           cf == c * f
           ed == e * d
<1>5. /\ ad \in Nat /\ cb \in Nat /\ af \in Nat /\ eb \in Nat /\ cf \in Nat
      /\ ed \in Nat
  OBVIOUS
(* Everything times the third denominator. *)
<1>6. /\ ad * f = af * d /\ cb * f = cf * b /\ ed * b = eb * d
  OBVIOUS
<1>7. \A m, n \in Nat : \A k \in Nat \ {0} :
        /\ m > n <=> m * k > n * k
        /\ m * k \in Nat
  OBVIOUS
<1> HIDE DEF ad, cb, af, eb, cf, ed
<1>8. /\ ad > cb <=> ad * f > cb * f
      /\ cb > ad <=> cb * f > ad * f
      /\ af > eb <=> af * d > eb * d
      /\ eb > af <=> eb * d > af * d
      /\ cf > ed <=> cf * b > ed * b
      /\ ed > cf <=> ed * b > cf * b
  BY <1>5, <1>7
<1> DEFINE X == ad * f
           Y == cb * f
           Z == ed * b
<1>9. X \in Nat /\ Y \in Nat /\ Z \in Nat BY <1>5, <1>7
<1>10. /\ ad > cb <=> X > Y
       /\ cb > ad <=> Y > X
       /\ af > eb <=> X > Z
       /\ eb > af <=> Z > X
       /\ cf > ed <=> Y > Z
       /\ ed > cf <=> Z > Y
  BY <1>6, <1>8
<1> HIDE DEF X, Y, Z
<1> QED BY <1>4, <1>9, <1>10 DEF ad, cb, af, eb, cf, ed

Ranked == [row : Nat, vector : (Nat \ {0}) \cup {None},
           lexical : (Nat \ {0}) \cup {None}]

LEMMA ScoreType ==
    ASSUME NEW v \in (Nat \ {0}) \cup {None}, NEW l \in (Nat \ {0}) \cup {None}
    PROVE  IsFraction(Score(v, l))
<1>1. \A r \in (Nat \ {0}) \cup {None} :
        \E a \in Nat : \E b \in Nat \ {0} : Reciprocal(r) = <<a, b>>
  <2> SUFFICES ASSUME NEW r \in (Nat \ {0}) \cup {None}
               PROVE  \E a \in Nat : \E b \in Nat \ {0} : Reciprocal(r) = <<a, b>>
    OBVIOUS
  <2>1. CASE r = None BY <2>1 DEF Reciprocal
  <2>2. CASE r # None
    <3>1. RankOffset + r \in Nat \ {0} BY <2>2, RankOffsetAssumption
    <3> QED BY <2>2, <3>1 DEF Reciprocal
  <2> QED BY <2>1, <2>2
<1>2. PICK a \in Nat, b \in Nat \ {0} : Reciprocal(v) = <<a, b>> BY <1>1
<1>3. PICK c \in Nat, d \in Nat \ {0} : Reciprocal(l) = <<c, d>> BY <1>1
<1>4. Score(v, l) = <<a * d + c * b, b * d>> BY <1>2, <1>3 DEF Score
<1>5. a * d + c * b \in Nat /\ b * d \in Nat \ {0}
  <2>1. a * d \in Nat /\ c * b \in Nat /\ b * d \in Nat OBVIOUS
  <2>2. b * d > 0 OBVIOUS
  <2> QED BY <2>1, <2>2
<1> QED BY <1>4, <1>5 DEF IsFraction

(* Score, rank by meaning, rank by words and id leave nothing undecided:   *)
(* of candidates that are different rows exactly one ranks above the other, *)
(* and ranking is transitive, whatever the ranks.                          *)
THEOREM RankingIsTotal ==
    ASSUME NEW a \in Ranked, NEW b \in Ranked, NEW c \in Ranked
    PROVE  /\ ~(RanksAbove(a, b) /\ RanksAbove(b, a))
           /\ a.row # b.row => RanksAbove(a, b) \/ RanksAbove(b, a)
           /\ RanksAbove(a, b) /\ RanksAbove(b, c) => RanksAbove(a, c)
<1> DEFINE x == Score(a.vector, a.lexical)
           y == Score(b.vector, b.lexical)
           z == Score(c.vector, c.lexical)
           later(p, q) ==
             \/ OrLast(p.vector) < OrLast(q.vector)
             \/ /\ OrLast(p.vector) = OrLast(q.vector)
                /\ \/ OrLast(p.lexical) < OrLast(q.lexical)
                   \/ /\ OrLast(p.lexical) = OrLast(q.lexical)
                      /\ p.row < q.row
<1>1. /\ RanksAbove(a, b) <=> Above(x, y) \/ (~Above(y, x) /\ later(a, b))
      /\ RanksAbove(b, a) <=> Above(y, x) \/ (~Above(x, y) /\ later(b, a))
      /\ RanksAbove(b, c) <=> Above(y, z) \/ (~Above(z, y) /\ later(b, c))
      /\ RanksAbove(a, c) <=> Above(x, z) \/ (~Above(z, x) /\ later(a, c))
  BY DEF RanksAbove
<1>2. IsFraction(x) /\ IsFraction(y) /\ IsFraction(z)
  BY ScoreType DEF Ranked
<1>3. \A p \in Ranked : /\ OrLast(p.vector) \in Nat /\ OrLast(p.lexical) \in Nat
                        /\ p.row \in Nat
  BY DEF Ranked, OrLast
<1>4. /\ ~(later(a, b) /\ later(b, a))
      /\ a.row # b.row => later(a, b) \/ later(b, a)
      /\ later(a, b) /\ later(b, c) => later(a, c)
  BY <1>3
<1> HIDE DEF x, y, z, later
<1>5. /\ ~(Above(x, y) /\ Above(y, x))
      /\ Above(x, y) /\ ~Above(z, y) => Above(x, z)
      /\ ~Above(y, x) /\ ~Above(z, y) => ~Above(z, x)
      /\ ~Above(y, x) /\ Above(y, z) => Above(x, z)
  BY <1>2, FractionOrder
<1>6. ~(Above(y, z) /\ Above(z, y)) BY <1>2, FractionOrder
<1> QED BY <1>1, <1>4, <1>5, <1>6

WordsAhead(r, i, j) ==
    IF r.scope = None THEN AheadAmong(table[i], table[j])
    ELSE Ahead(table[i], table[j], None, FALSE)

(* No query leaves the order of its rows to the database. *)
OneAnswerEach ==
    read # None =>
      /\ read.kind = "pages" => \E s : Rows(read) = {s}
      /\ read.kind = "search" =>
           /\ LET ahead(i, j) == WordsAhead(read, i, j) IN
              \E s : Orders(ByWords(read), ahead) = {s}
           /\ \A ids \in SUBSET CandidatesOf(read) : \E s :
                Rankings(ids, read.hits, read.allowed, read.lexical) = {s}

LEMMA RowsAreOneList ==
    ASSUME TypeInv, NEW r \in PagesRead
    PROVE  \E s : Rows(r) = {s}
<1> DEFINE W == WantedIn(table, r)
           B == Pairs(table, r)
<1>1. IsFiniteSet(W) /\ W \subseteq Live BY WantedIsFinite DEF TypeInv
<1>2. IsOrderOf(B, W) BY ListingIsOrdered DEF TypeInv
<1>3. IsPartialOrderOf(B, W)
  <2>1. r.dataset \in Datasets /\ r.descending \in BOOLEAN BY DEF PagesRead
  <2>2. \A i \in W : IsRowOf(table[i], r.dataset)
    <3>1. \A i \in W : table[i].dataset = r.dataset
      BY KindsOfReads DEF WantedIn, Wanted, InScope
    <3> QED BY <3>1, <1>1, LiveRows DEF TypeInv
  <2>3. \A i, j \in W : <<i, j>> \in B <=>
                          Ahead(table[i], table[j], r.sort, r.descending)
    BY <1>1 DEF Pairs, Live
  <2> HIDE DEF W, B
  <2>4. ASSUME NEW i \in W, NEW j \in W, NEW k \in W,
               <<i, j>> \in B, <<j, k>> \in B
        PROVE  <<i, k>> \in B
    <3> DEFINE x == table[i]
               y == table[j]
               z == table[k]
               d == r.dataset
    <3>1. IsRowOf(x, d) /\ IsRowOf(y, d) /\ IsRowOf(z, d) /\ d \in Datasets
      BY <2>1, <2>2
    <3>2. /\ Ahead(x, y, r.sort, r.descending) /\ Ahead(y, z, r.sort, r.descending)
          /\ Ahead(x, z, r.sort, r.descending) => <<i, k>> \in B
      BY <2>3, <2>4
    <3> HIDE DEF x, y, z, d
    <3>3. /\ ~(Ahead(x, y, r.sort, r.descending) /\ Ahead(y, x, r.sort, r.descending))
          /\ x.number # y.number =>
               Ahead(x, y, r.sort, r.descending) \/ Ahead(y, x, r.sort, r.descending)
          /\ Ahead(x, y, r.sort, r.descending) /\ Ahead(y, z, r.sort, r.descending)
               => Ahead(x, z, r.sort, r.descending)
      BY <2>1, <3>1, ListingOrderIsTotal
    <3> QED BY <3>2, <3>3
  <2> QED BY <2>4, <1>2 DEF IsPartialOrderOf, IsOrderOf
<1>4. IsFiniteSet(W) BY <1>1
<1>5. \A t : t \in Rows(r) <=> Lists(t, W, B) BY RowsAreLists
<1> DEFINE R == Rows(r)
<1> HIDE DEF W, B, R
<1>6. \E s : \A t : Lists(t, W, B) <=> t = s
  <2>1. HasOneList(W, B) BY <1>4, <1>2, <1>3, OneList
  <2> QED BY <2>1 DEF HasOneList
<1>7. \E s : \A t : t \in R <=> t = s BY <1>5, <1>6 DEF R
<1>8. \E s : R = {s} BY <1>7
<1> QED BY <1>8 DEF R

LEMMA WordsAreOneList ==
    ASSUME TypeInv, SearchInv, read # None, read \in SearchRead
    PROVE  LET ahead(i, j) == WordsAhead(read, i, j) IN
           \E s : Orders(ByWords(read), ahead) = {s}
<1> DEFINE W == ByWords(read)
           n == Cardinality(W)
           B == {p \in W \X W : WordsAhead(read, p[1], p[2])}
           ahead(i, j) == WordsAhead(read, i, j)
<1>1. IsFiniteSet(W) /\ W \subseteq Live BY ByWordsIsFinite DEF TypeInv
<1>2. \A i, j \in W : <<i, j>> \in B <=> WordsAhead(read, i, j) OBVIOUS
<1>3. \A s : s \in Orders(W, ahead) <=>
               /\ s \in [1 .. n -> W]
               /\ \A k, l \in 1 .. n : k # l => s[k] # s[l]
               /\ \A k, l \in DOMAIN s : k < l => ~WordsAhead(read, s[l], s[k])
  BY DEF Orders, SetToSeqs
<1>4. /\ read.kind = "search"
      /\ read.scope # None => \A i \in W : table[i].dataset = read.scope
  <2>1. read.kind = "search" BY DEF SearchRead
  <2>2. read.scope # None => \A i \in W : table[i].dataset \in read.datasets
    BY <2>1 DEF ByWords, WantedIn, Wanted, InScope
  <2> QED BY <2>1, <2>2 DEF SearchInv
<1>5. \A i \in W : /\ i \in Nat /\ table[i].number \in Nat
                   /\ table[i].dataset \in Datasets /\ table[i].dataset \in Nat
                   /\ IsRowOf(table[i], table[i].dataset)
  BY <1>1, LiveRows, SchemaAssumption DEF TypeInv, RowsOK, IsRowOf
<1>6. \A i, j \in W : i # j /\ table[i].dataset = table[j].dataset
                        => table[i].number # table[j].number
  <2> SUFFICES ASSUME NEW i \in W, NEW j \in W, i # j,
                      table[i].dataset = table[j].dataset
               PROVE  table[i].number # table[j].number
    OBVIOUS
  <2>1. i \in Live /\ j \in Live BY <1>1
  <2>2. i < j \/ j < i BY <1>5
  <2>3. table[i].number < table[j].number \/ table[j].number < table[i].number
    BY <2>1, <2>2 DEF TypeInv, RowsOK
  <2> QED BY <2>3, <1>5
<1> HIDE DEF W, n, B
<1>7. ASSUME NEW i \in W, NEW j \in W, NEW k \in W
      PROVE  /\ ~(WordsAhead(read, i, j) /\ WordsAhead(read, j, i))
             /\ i # j => WordsAhead(read, i, j) \/ WordsAhead(read, j, i)
             /\ WordsAhead(read, i, j) /\ WordsAhead(read, j, k)
                  => WordsAhead(read, i, k)
  <2> DEFINE x == table[i]
             y == table[j]
             z == table[k]
  <2>1. /\ x.number \in Nat /\ y.number \in Nat /\ z.number \in Nat
        /\ x.dataset \in Nat /\ y.dataset \in Nat /\ z.dataset \in Nat
        /\ i # j /\ x.dataset = y.dataset => x.number # y.number
    BY <1>5, <1>6
  <2>2. CASE read.scope = None
    <3>1. /\ WordsAhead(read, i, j) <=> AheadAmong(x, y)
          /\ WordsAhead(read, j, i) <=> AheadAmong(y, x)
          /\ WordsAhead(read, j, k) <=> AheadAmong(y, z)
          /\ WordsAhead(read, i, k) <=> AheadAmong(x, z)
      BY <2>2 DEF WordsAhead
    <3> HIDE DEF x, y, z
    <3>2. /\ ~(AheadAmong(x, y) /\ AheadAmong(y, x))
          /\ i # j => AheadAmong(x, y) \/ AheadAmong(y, x)
          /\ AheadAmong(x, y) /\ AheadAmong(y, z) => AheadAmong(x, z)
      BY <2>1 DEF AheadAmong, ByNumber
    <3> QED BY <3>1, <3>2
  <2>3. CASE read.scope # None
    <3> DEFINE d == read.scope
    <3>1. /\ WordsAhead(read, i, j) <=> Ahead(x, y, None, FALSE)
          /\ WordsAhead(read, j, i) <=> Ahead(y, x, None, FALSE)
          /\ WordsAhead(read, j, k) <=> Ahead(y, z, None, FALSE)
          /\ WordsAhead(read, i, k) <=> Ahead(x, z, None, FALSE)
      BY <2>3 DEF WordsAhead
    <3>2. /\ IsRowOf(x, d) /\ IsRowOf(y, d) /\ IsRowOf(z, d) /\ d \in Datasets
          /\ x.dataset = y.dataset
      BY <2>3, <1>4, <1>5
    <3> HIDE DEF x, y, z, d
    <3>3. /\ ~(Ahead(x, y, None, FALSE) /\ Ahead(y, x, None, FALSE))
          /\ x.number # y.number => Ahead(x, y, None, FALSE) \/ Ahead(y, x, None, FALSE)
          /\ Ahead(x, y, None, FALSE) /\ Ahead(y, z, None, FALSE)
               => Ahead(x, z, None, FALSE)
      BY <3>2, ListingOrderIsTotal
    <3> QED BY <3>1, <3>2, <3>3, <2>1
  <2> QED BY <2>2, <2>3
<1>8. IsOrderOf(B, W) /\ IsPartialOrderOf(B, W)
  BY <1>2, <1>7 DEF IsOrderOf, IsPartialOrderOf
<1>9. \E s : \A t : Lists(t, W, B) <=> t = s
  <2>1. IsFiniteSet(W) BY <1>1
  <2>2. HasOneList(W, B) BY <2>1, <1>8, OneList
  <2> QED BY <2>2 DEF HasOneList
<1>10. \A t : t \in Orders(W, ahead) <=> Lists(t, W, B)
  <2>1. \A t \in [1 .. n -> W] : /\ DOMAIN t = 1 .. n
                                 /\ \A k \in 1 .. n : t[k] \in W
    OBVIOUS
  <2> QED BY <2>1, <1>2, <1>3 DEF Lists, n
<1> DEFINE R == Orders(W, ahead)
<1>11. \A t : t \in R <=> Lists(t, W, B) BY <1>10
<1> HIDE DEF R
<1>12. \E s : \A t : t \in R <=> t = s BY <1>9, <1>11
<1>13. \E s : R = {s} BY <1>12
<1> QED BY <1>13 DEF R, W

LEMMA RankingsAreOneList ==
    ASSUME TypeInv, read # None, read \in SearchRead,
           NEW ids \in SUBSET CandidatesOf(read)
    PROVE  \E s : Rankings(ids, read.hits, read.allowed, read.lexical) = {s}
<1> DEFINE n == Cardinality(ids)
           B == {p \in ids \X ids :
                   RanksAbove(Scored(read, p[1]), Scored(read, p[2]))}
           R == Rankings(ids, read.hits, read.allowed, read.lexical)
<1>1. read.hits \in Seq(Ids) /\ read.lexical \in Seq(Ids) BY DEF SearchRead
<1>2. ids \subseteq Ids /\ IsFiniteSet(ids)
  <2>1. CandidatesOf(read) \subseteq Ids
    BY <1>1, RangeOfSeq DEF CandidatesOf, Candidates
  <2> QED BY <2>1, IdsAreFinite
<1>3. \A i, j \in ids : <<i, j>> \in B <=>
                          RanksAbove(Scored(read, i), Scored(read, j))
  OBVIOUS
<1>4. \A s : s \in R <=>
               /\ s \in [1 .. n -> ids]
               /\ \A k, l \in 1 .. n : k # l => s[k] # s[l]
               /\ \A k, l \in DOMAIN s : k < l =>
                    ~RanksAbove(Scored(read, s[l]), Scored(read, s[k]))
  BY DEF Rankings, Orders, SetToSeqs, Scored
<1>5. \A i \in ids : Scored(read, i) \in Ranked /\ Scored(read, i).row = i
  <2> SUFFICES ASSUME NEW i \in ids
               PROVE  Scored(read, i) \in Ranked /\ Scored(read, i).row = i
    OBVIOUS
  <2>1. \A s \in Seq(Ids) : RankIn(s, i) \in (Nat \ {0}) \cup {None}
    <3> SUFFICES ASSUME NEW s \in Seq(Ids)
                 PROVE  RankIn(s, i) \in (Nat \ {0}) \cup {None}
      OBVIOUS
    <3>1. /\ i \in Range(s) => RankIn(s, i) \in 1 .. Len(s)
          /\ i \notin Range(s) => RankIn(s, i) = None
      BY RankType
    <3>2. Len(s) \in Nat OBVIOUS
    <3> QED BY <3>1, <3>2
  <2>2. i \in Nat BY <1>2 DEF Ids
  <2> QED BY <2>1, <2>2, <1>1 DEF Scored, Found, Ranked
<1> HIDE DEF n, B, R
<1>6. ASSUME NEW i \in ids, NEW j \in ids, NEW k \in ids
      PROVE  /\ ~(<<i, j>> \in B /\ <<j, i>> \in B)
             /\ i # j => <<i, j>> \in B \/ <<j, i>> \in B
             /\ <<i, j>> \in B /\ <<j, k>> \in B => <<i, k>> \in B
  <2> DEFINE a == Scored(read, i)
             b == Scored(read, j)
             c == Scored(read, k)
  <2>1. /\ a \in Ranked /\ b \in Ranked /\ c \in Ranked
        /\ i # j => a.row # b.row
    BY <1>5
  <2>2. /\ <<i, j>> \in B <=> RanksAbove(a, b)
        /\ <<j, i>> \in B <=> RanksAbove(b, a)
        /\ <<j, k>> \in B <=> RanksAbove(b, c)
        /\ <<i, k>> \in B <=> RanksAbove(a, c)
    BY <1>3
  <2> HIDE DEF a, b, c
  <2>3. /\ ~(RanksAbove(a, b) /\ RanksAbove(b, a))
        /\ a.row # b.row => RanksAbove(a, b) \/ RanksAbove(b, a)
        /\ RanksAbove(a, b) /\ RanksAbove(b, c) => RanksAbove(a, c)
    BY <2>1, RankingIsTotal
  <2> QED BY <2>1, <2>2, <2>3
<1>7. IsOrderOf(B, ids) /\ IsPartialOrderOf(B, ids)
  BY <1>6 DEF IsOrderOf, IsPartialOrderOf
<1>8. \E s : \A t : Lists(t, ids, B) <=> t = s
  <2>1. IsFiniteSet(ids) BY <1>2
  <2>2. HasOneList(ids, B) BY <2>1, <1>7, OneList
  <2> QED BY <2>2 DEF HasOneList
<1>9. \A t : t \in R <=> Lists(t, ids, B)
  <2>1. \A t \in [1 .. n -> ids] : /\ DOMAIN t = 1 .. n
                                   /\ \A k \in 1 .. n : t[k] \in ids
    OBVIOUS
  <2> QED BY <2>1, <1>3, <1>4 DEF Lists, n
<1>10. \E s : \A t : t \in R <=> t = s BY <1>8, <1>9
<1>11. \E s : R = {s} BY <1>10
<1> QED BY <1>11 DEF R

(* In every state a query has an answer, and only one: pages are cut from  *)
(* one sequence, and a search ranks its candidates in one way, so that no  *)
(* read ever stops for want of an order and none depends on how the         *)
(* database or the program breaks a tie.                                   *)
THEOREM QueriesAreDetermined == Spec => []OneAnswerEach
<1>1. Spec => [](TypeInv /\ SearchInv)
  <2>1. Init => TypeInv /\ SearchInv
    <3>1. Init => SearchInv BY DEF Init, SearchInv
    <3> QED BY <3>1, TypeInit
  <2>2. TypeInv /\ SearchInv /\ [Next]_vars => TypeInv' /\ SearchInv'
    BY TypeStep, SearchStep
  <2> QED BY <2>1, <2>2, PTL DEF Spec
<1>2. TypeInv /\ SearchInv => OneAnswerEach
  <2> SUFFICES ASSUME TypeInv, SearchInv, read # None PROVE OneAnswerEach
    BY DEF OneAnswerEach
  <2>1. read.kind = "pages" => read \in PagesRead BY KindsOfReads DEF TypeInv
  <2>2. read.kind = "search" => read \in SearchRead BY KindsOfReads DEF TypeInv
  <2>3. read.kind = "pages" => \E s : Rows(read) = {s}
    BY <2>1, RowsAreOneList
  <2>4. read.kind = "search" =>
          LET ahead(i, j) == WordsAhead(read, i, j) IN
          \E s : Orders(ByWords(read), ahead) = {s}
    BY <2>2, WordsAreOneList
  <2>5. read.kind = "search" =>
          \A ids \in SUBSET CandidatesOf(read) : \E s :
            Rankings(ids, read.hits, read.allowed, read.lexical) = {s}
    BY <2>2, RankingsAreOneList
  <2> QED BY <2>3, <2>4, <2>5 DEF OneAnswerEach
<1> QED BY <1>1, <1>2, PTL

=============================================================================
