---------------------------- MODULE StoresProofs -----------------------------
(***************************************************************************)
(* Proofs about the stores that follow the database: the points in Qdrant  *)
(* (VectorIndex), for any number of requests, workers and rows, and the    *)
(* files of assets (Assets), for any rows, columns, keys and requests.     *)
(* The two share no state, and each keeps its specification.               *)
(***************************************************************************)
EXTENDS VectorIndex, Assets, FiniteSetTheorems, SequenceTheorems, TLAPS

-----------------------------------------------------------------------------
(* The inductive invariant of the index.                                   *)

(* Tasks under way: committed and not enqueued, queued, or taken.          *)
Queued == {queue[n] : n \in 1 .. Len(queue)}
Announced == {pending[q] : q \in Waiting}
Coming == Queued \cup Announced
Taken == {workers[w].task : w \in Busy}

(* An index task is about one row.  A task that deletes points names rows  *)
(* that are gone, and no row made later will have their ids.               *)
TaskOK(t) ==
    /\ t.kind = "index" => \E r \in RowIds : t.rows = {r}
    /\ t.kind = "reindex" => t.rows = RowIds
    /\ t.kind = "delete" => t.rows \cap Live = {} /\ \A r \in t.rows : r <= lastId
TasksOK == \A t \in Coming \cup Taken : TaskOK(t)

(* What a worker holds: it has read the documents it is to write, unless   *)
(* it runs a reindex and has read the dataset only, or deletes.            *)
WorkerOK(w) ==
    /\ workers[w].task.kind = "index" =>
         /\ DOMAIN workers[w].copy # {} /\ DOMAIN workers[w].copy \subseteq workers[w].task.rows
    /\ workers[w].task.kind = "reindex" =>
         IF workers[w].copy = <<>> THEN workers[w].dataset \in Datasets
         ELSE DOMAIN workers[w].copy # {}
    /\ workers[w].task.kind = "delete" => workers[w].copy = <<>>
WorkersOK == \A w \in Busy : WorkerOK(w)

(* The rows there are have ids handed out; a dataset that is gone has none *)
(* and left all points behind.                                             *)
RowsOK ==
    /\ \A r \in Live : r <= lastId
    /\ dataset = None => Live = {} /\ lost = RowIds

(* Of tasks that run at once, a row that is not raced is in one.           *)
AloneOK ==
    \A r \in RowIds \ raced : \A v, w \in Busy :
        r \in workers[v].task.rows /\ r \in workers[w].task.rows => v = w

(* A task still to be taken that will set the point of a row right.        *)
Heals(t, r) ==
    r \in t.rows /\ IF r \in Live THEN t.kind \in {"index", "reindex"} ELSE t.kind = "delete"
OnItsWay(r) == \E t \in Coming : Heals(t, r)

(* A worker that will write the point of a row, and whether rightly.       *)
Unread(w) == workers[w].task.kind = "reindex" /\ workers[w].copy = <<>>
Holds(w, r) ==
    \/ Unread(w) /\ r \in Live
    \/ r \in DOMAIN workers[w].copy
    \/ workers[w].task.kind = "delete" /\ r \in workers[w].task.rows
Writes(w, r) ==
    IF workers[w].task.kind = "delete" THEN None
    ELSE IF Unread(w) THEN Document(rows[r], workers[w].dataset)
    ELSE workers[w].copy[r]

(* What is neither lost nor raced is right, or is being set right: by a    *)
(* task to be taken, or by the workers that have it in hand.               *)
Followed(r) ==
    \/ OnItsWay(r)
    \/ /\ \A w \in Busy : Holds(w, r) => Writes(w, r) = Current(r)
       /\ (\A w \in Busy : ~Holds(w, r)) => points[r] = Current(r)
AllFollowed == \A r \in RowIds \ (lost \cup raced) : Followed(r)

(* And every row that is not lost has a point or gets one, raced or not.   *)
Indexed(r) == points[r] # None \/ OnItsWay(r) \/ \E w \in Busy : Holds(w, r)
AllIndexed == \A r \in Live \ lost : Indexed(r)

BoundOK == Outstanding <= MaxTasks

IInv == /\ TypeOK /\ BoundOK /\ TasksOK /\ WorkersOK /\ RowsOK /\ AloneOK
        /\ AllFollowed /\ AllIndexed

-----------------------------------------------------------------------------
(* What the types say, in the form the steps use them.                     *)

LEMMA LiveRows ==
    ASSUME TypeOK
    PROVE  /\ Live \subseteq RowIds
           /\ \A r \in Live : rows[r] \in Values
           /\ rows \in [Live -> Values]
<1>1. PICK R \in SUBSET RowIds : rows \in [R -> Values]
  BY DEF TypeOK
<1> QED
  BY <1>1 DEF Live

LEMMA RowsType ==
    ASSUME NEW R \in SUBSET RowIds, NEW f \in [R -> Values]
    PROVE  f \in UNION {[Q -> Values] : Q \in SUBSET RowIds}
OBVIOUS

LEMMA CopiesType ==
    ASSUME NEW R \in SUBSET RowIds, NEW f \in [R -> Documents]
    PROVE  f \in Copies
BY DEF Copies

LEMMA NoCopy == <<>> \in Copies /\ DOMAIN <<>> = {}
<1>1. <<>> \in [{} -> Documents]
  OBVIOUS
<1> QED
  BY <1>1, CopiesType

LEMMA CopyType ==
    ASSUME NEW c \in Copies
    PROVE  DOMAIN c \subseteq RowIds /\ \A r \in DOMAIN c : c[r] \in Documents
<1>1. PICK R \in SUBSET RowIds : c \in [R -> Documents]
  BY DEF Copies
<1> QED
  BY <1>1

LEMMA DocumentType ==
    ASSUME NEW text \in Values, NEW d \in Datasets
    PROVE  Document(text, d) \in Documents /\ Document(text, d) # None
BY NoneAssumption DEF Document, Documents, Datasets

LEMMA TasksAre ==
    ASSUME NEW R \in SUBSET RowIds
    PROVE  /\ \A r \in RowIds : Index(r) \in Tasks
           /\ Delete(R) \in Tasks
           /\ Reindex \in Tasks
           /\ None \notin Tasks
BY NoneAssumption DEF Index, Delete, Reindex, Tasks

(* Sets of members: what Append and Tail do to them. *)
LEMMA AppendMembers ==
    ASSUME NEW S, NEW s \in Seq(S), NEW e \in S
    PROVE  {Append(s, e)[n] : n \in 1 .. Len(Append(s, e))}
             = {s[n] : n \in 1 .. Len(s)} \cup {e}
<1>1. Len(Append(s, e)) = Len(s) + 1 /\ Append(s, e)[Len(s) + 1] = e
      /\ \A n \in 1 .. Len(s) : Append(s, e)[n] = s[n]
  OBVIOUS
<1> QED
  BY <1>1

LEMMA TailMembers ==
    ASSUME NEW S, NEW s \in Seq(S), s # <<>>
    PROVE  /\ Head(s) \in S /\ Tail(s) \in Seq(S) /\ Len(Tail(s)) = Len(s) - 1
           /\ {s[n] : n \in 1 .. Len(s)}
                = {Tail(s)[n] : n \in 1 .. Len(Tail(s))} \cup {Head(s)}
<1>1. /\ Head(s) \in S /\ Tail(s) \in Seq(S) /\ Len(Tail(s)) = Len(s) - 1
      /\ Len(s) \in Nat \ {0} /\ Head(s) = s[1]
  <2>1. Len(s) \in Nat \ {0} /\ Head(s) = s[1]
    OBVIOUS
  <2> QED
    BY <2>1, HeadTailProperties
<1>2. \A n \in 1 .. Len(Tail(s)) : Tail(s)[n] = s[n + 1]
  BY HeadTailProperties
<1>3. ASSUME NEW n \in 1 .. Len(s)
      PROVE  n = 1 \/ (n - 1 \in 1 .. Len(Tail(s)) /\ s[n] = Tail(s)[n - 1])
  BY <1>1, <1>2
<1>4. \A n \in 1 .. Len(Tail(s)) : n + 1 \in 1 .. Len(s)
  BY <1>1
<1>5. \A n \in 1 .. Len(s) :
        s[n] \in {Tail(s)[m] : m \in 1 .. Len(Tail(s))} \cup {Head(s)}
  BY <1>1, <1>3
<1>6. \A n \in 1 .. Len(Tail(s)) : Tail(s)[n] \in {s[m] : m \in 1 .. Len(s)}
  BY <1>2, <1>4
<1>7. Head(s) \in {s[m] : m \in 1 .. Len(s)}
  BY <1>1
<1>8. {s[n] : n \in 1 .. Len(s)}
        = {Tail(s)[n] : n \in 1 .. Len(Tail(s))} \cup {Head(s)}
  BY <1>5, <1>6, <1>7
<1> QED
  BY <1>1, <1>8

(* The sizes that Outstanding adds up. *)
LEMMA Sizes ==
    ASSUME TypeOK
    PROVE  /\ IsFiniteSet(Busy) /\ Cardinality(Busy) \in Nat
           /\ IsFiniteSet(Waiting) /\ Cardinality(Waiting) \in Nat
           /\ Len(queue) \in Nat
           /\ Outstanding \in Nat
<1>1. Busy \subseteq Workers /\ Waiting \subseteq Requests
  BY DEF Busy, Waiting
<1>2. IsFiniteSet(Busy) /\ IsFiniteSet(Waiting)
  BY <1>1, FS_Subset, VectorAssumption
<1>3. Cardinality(Busy) \in Nat /\ Cardinality(Waiting) \in Nat
  BY <1>2, FS_CardinalityType
<1>4. Len(queue) \in Nat
  BY DEF TypeOK
<1> QED
  BY <1>2, <1>3, <1>4 DEF Outstanding

-----------------------------------------------------------------------------
(* What a step does to the tasks under way and to their number.            *)

LEMMA CommittedRows ==
    ASSUME IInv, NEW q \in Requests, NEW task \in Tasks, OnCommit(q, task)
    PROVE  /\ pending' \in [Requests -> Tasks \cup {None}]
           /\ Coming' = Coming \cup {task} /\ Taken' = Taken
           /\ BoundOK'
<1>1. pending \in [Requests -> Tasks \cup {None}]
  BY DEF IInv, TypeOK
<1>2. pending' \in [Requests -> Tasks \cup {None}]
  BY <1>1 DEF OnCommit
<1>3. pending'[q] = task /\ \A p \in Requests \ {q} : pending'[p] = pending[p]
  BY <1>1 DEF OnCommit
<1>4. task # None /\ q \notin Waiting
  BY TasksAre DEF OnCommit, Waiting
<1>5. Waiting' = Waiting \cup {q}
  BY <1>3, <1>4 DEF Waiting
<1>6. Announced' = Announced \cup {task}
  <2>1. \A p \in Waiting : p # q /\ p \in Requests \ {q}
    BY <1>4 DEF Waiting
  <2>2. \A p \in Waiting : pending'[p] = pending[p]
    BY <1>3, <2>1
  <2>3. Announced' = {pending'[p] : p \in Waiting'}
    BY DEF Announced
  <2> QED
    BY <1>3, <1>5, <2>2, <2>3 DEF Announced
<1>7. Queued' = Queued /\ Busy' = Busy /\ Taken' = Taken /\ queue' = queue
  BY DEF OnCommit, Queued, Busy, Taken
<1>8. Cardinality(Waiting') = Cardinality(Waiting) + 1
  BY <1>4, <1>5, Sizes, FS_AddElement DEF IInv
<1>9. Outstanding' <= MaxTasks
  BY <1>7, <1>8, Sizes, VectorAssumption DEF IInv, OnCommit, Outstanding
<1> QED
  BY <1>2, <1>6, <1>7, <1>9 DEF Coming, BoundOK

LEMMA CalledBack ==
    ASSUME IInv, NEW q \in Requests, pending[q] # None,
           pending' = [pending EXCEPT ![q] = None]
    PROVE  /\ pending[q] \in Tasks
           /\ pending' \in [Requests -> Tasks \cup {None}]
           /\ Announced' \subseteq Announced
           /\ Announced = Announced' \cup {pending[q]}
           /\ Cardinality(Waiting') = Cardinality(Waiting) - 1
<1>1. pending \in [Requests -> Tasks \cup {None}] /\ pending[q] \in Tasks
  BY DEF IInv, TypeOK
<1>2. pending' \in [Requests -> Tasks \cup {None}]
  BY <1>1
<1>3. pending'[q] = None /\ \A p \in Requests \ {q} : pending'[p] = pending[p]
  BY <1>1
<1>4. q \in Waiting /\ Waiting' = Waiting \ {q}
  BY <1>3 DEF Waiting
<1>5. Announced' \subseteq Announced /\ Announced = Announced' \cup {pending[q]}
  BY <1>3, <1>4 DEF Announced
<1>6. Cardinality(Waiting') = Cardinality(Waiting) - 1
  BY <1>4, Sizes, FS_RemoveElement DEF IInv
<1> QED
  BY <1>1, <1>2, <1>5, <1>6

LEMMA Dequeued ==
    ASSUME IInv, queue # <<>>, queue' = Tail(queue), UNCHANGED pending
    PROVE  /\ Head(queue) \in Tasks /\ Head(queue) # None /\ Head(queue) \in Coming
           /\ queue' \in Seq(Tasks) /\ Len(queue') = Len(queue) - 1
           /\ Coming' \subseteq Coming /\ Coming = Coming' \cup {Head(queue)}
<1>1. queue \in Seq(Tasks)
  BY DEF IInv, TypeOK
<1>2. /\ Head(queue) \in Tasks /\ queue' \in Seq(Tasks)
      /\ Len(queue') = Len(queue) - 1
      /\ Queued = Queued' \cup {Head(queue)}
  BY <1>1, TailMembers DEF Queued
<1>3. Announced' = Announced
  BY DEF Announced, Waiting
<1> QED
  BY <1>2, <1>3, TasksAre DEF Coming

(* A worker puts its task down, or goes on with it. *)
LEMMA StillRunning ==
    ASSUME IInv, NEW w \in Busy, NEW new \in [task: Tasks \cup {None},
                                              dataset: Datasets \cup {None},
                                              copy: Copies],
           workers' = [workers EXCEPT ![w] = new],
           new.task \in {workers[w].task, None}
    PROVE  /\ workers' \in [Workers -> [task: Tasks \cup {None},
                                        dataset: Datasets \cup {None},
                                        copy: Copies]]
           /\ workers'[w] = new
           /\ \A v \in Workers \ {w} : workers'[v] = workers[v]
           /\ Busy' \subseteq Busy /\ (w \in Busy' <=> new.task # None)
           /\ \A v \in Workers \ {w} : v \in Busy' <=> v \in Busy
           /\ \A v \in Busy' : workers'[v].task = workers[v].task
           /\ Taken' \subseteq Taken
           /\ Cardinality(Busy') <= Cardinality(Busy)
           /\ Cardinality(Busy') \in Nat
<1>1. workers \in [Workers -> [task: Tasks \cup {None},
                               dataset: Datasets \cup {None}, copy: Copies]]
  BY DEF IInv, TypeOK
<1>2. w \in Workers
  BY DEF Busy
<1>3. workers' \in [Workers -> [task: Tasks \cup {None},
                                dataset: Datasets \cup {None}, copy: Copies]]
  BY <1>1
<1>4. workers'[w] = new /\ \A v \in Workers \ {w} : workers'[v] = workers[v]
  BY <1>1, <1>2
<1>5. /\ w \in Busy' <=> new.task # None
      /\ \A v \in Workers \ {w} : v \in Busy' <=> v \in Busy
  BY <1>2, <1>4 DEF Busy
<1>6. Busy' \subseteq Busy
  BY <1>5 DEF Busy
<1>7. \A v \in Busy' : workers'[v].task = workers[v].task
  BY <1>4, <1>5, <1>6 DEF Busy
<1>8. Taken' \subseteq Taken
  BY <1>6, <1>7 DEF Taken
<1>9. Cardinality(Busy') <= Cardinality(Busy) /\ Cardinality(Busy') \in Nat
  <2>1. IsFiniteSet(Busy) /\ Cardinality(Busy) \in Nat
    BY Sizes DEF IInv
  <2> QED
    BY <1>6, <2>1, FS_Subset, FS_CardinalityType
<1> QED
  BY <1>3, <1>4, <1>5, <1>6, <1>7, <1>8, <1>9

-----------------------------------------------------------------------------
(* What a step keeps of the rows that are right, or being set right.       *)

(* A write that leaves a row alone leaves what is to become of its point.  *)
LEMMA WritesFollowed ==
    ASSUME IInv, UNCHANGED <<workers, points, raced>>, lost \subseteq lost',
           NEW touched \in SUBSET RowIds, Live' \subseteq RowIds,
           \A r \in RowIds \ (touched \cup lost') : OnItsWay(r) => OnItsWay(r)',
           \A r \in RowIds \ touched :
             \/ /\ r \in Live /\ r \in Live'
                /\ rows'[r] = rows[r] /\ dataset' = dataset
             \/ r \notin Live /\ r \notin Live',
           \A r \in touched : r \in lost' \/ OnItsWay(r)'
    PROVE  AllFollowed' /\ AllIndexed' /\ AloneOK'
<1>1. Busy' = Busy
  BY DEF Busy
<1>2. ASSUME NEW r \in RowIds \ touched
      PROVE  /\ r \in Live' <=> r \in Live
             /\ Current(r)' = Current(r)
             /\ \A w \in Busy : Holds(w, r)' <=> Holds(w, r)
             /\ \A w \in Busy : Holds(w, r) => Writes(w, r)' = Writes(w, r)
  <2>1. r \in Live' <=> r \in Live
    BY <1>2
  <2>2. Current(r)' = Current(r)
    BY <1>2 DEF Current
  <2>4. \A w \in Busy : Unread(w)' <=> Unread(w)
    BY DEF Unread
  <2>5. \A w \in Busy : Holds(w, r)' <=> Holds(w, r)
    BY <2>1, <2>4 DEF Holds
  <2>6. ASSUME NEW w \in Busy, Holds(w, r)
        PROVE  Writes(w, r)' = Writes(w, r)
    <3>1. CASE Unread(w)
      <4>1. r \in Live
        BY <2>6, <3>1, NoCopy DEF Unread, Holds
      <4>2. rows'[r] = rows[r]
        BY <1>2, <4>1
      <4> QED
        BY <2>4, <3>1, <4>2 DEF Writes, Unread, Document
    <3>2. CASE ~Unread(w)
      BY <2>4, <3>2 DEF Writes
    <3> QED
      BY <3>1, <3>2
  <2> QED
    BY <2>1, <2>2, <2>5, <2>6
<1>3. ASSUME NEW r \in RowIds, r \notin lost' \cup raced'
      PROVE  Followed(r)'
  <2>1. CASE r \in touched
    BY <1>3, <2>1 DEF Followed
  <2>2. CASE r \notin touched
    <3>1. Followed(r)
      BY <1>3 DEF IInv, AllFollowed
    <3>2. CASE OnItsWay(r)
      BY <1>3, <2>2, <3>2 DEF Followed
    <3>3. CASE ~OnItsWay(r)
      <4>1. /\ \A w \in Busy : Holds(w, r) => Writes(w, r) = Current(r)
            /\ (\A w \in Busy : ~Holds(w, r)) => points[r] = Current(r)
        BY <3>1, <3>3 DEF Followed
      <4>2. \A w \in Busy' : Holds(w, r)' => Writes(w, r)' = Current(r)'
        BY <1>1, <1>2, <2>2, <4>1
      <4>3. (\A w \in Busy' : ~Holds(w, r)') => points'[r] = Current(r)'
        BY <1>1, <1>2, <2>2, <4>1
      <4> QED
        BY <4>2, <4>3 DEF Followed
    <3> QED
      BY <3>2, <3>3
  <2> QED
    BY <2>1, <2>2
<1>4. ASSUME NEW r \in Live', r \notin lost'
      PROVE  Indexed(r)'
  <2>1. CASE r \in touched
    BY <1>4, <2>1 DEF Indexed
  <2>2. CASE r \notin touched
    <3>1. r \in RowIds \ touched
      BY <1>4, <2>2
    <3>2. r \in Live /\ r \notin lost
      BY <1>2, <1>4, <3>1
    <3>3. Indexed(r)
      BY <3>2 DEF IInv, AllIndexed
    <3>4. OnItsWay(r) => OnItsWay(r)'
      BY <1>4, <3>1
    <3> QED
      BY <1>1, <1>2, <3>1, <3>3, <3>4 DEF Indexed
  <2> QED
    BY <2>1, <2>2
<1>5. AloneOK'
  BY <1>1 DEF IInv, AloneOK
<1> QED
  BY <1>3, <1>4, <1>5 DEF AllFollowed, AllIndexed

(* What a worker holds is in its task; rows in one task only, in one hand. *)
LEMMA HeldInTask ==
    ASSUME IInv, NEW w \in Busy, NEW r \in RowIds, Holds(w, r)
    PROVE  r \in workers[w].task.rows
<1>1. workers[w].task \in Tasks /\ workers[w].task \in Coming \cup Taken
  BY DEF Busy, IInv, TypeOK, Taken
<1>2. TaskOK(workers[w].task) /\ WorkerOK(w)
  BY <1>1 DEF IInv, TasksOK, WorkersOK
<1>3. workers[w].task.kind \in {"index", "delete", "reindex"}
  BY <1>1 DEF Tasks
<1>4. CASE workers[w].task.kind = "index"
  BY <1>2, <1>4 DEF WorkerOK, Holds, Unread
<1>5. CASE workers[w].task.kind = "reindex"
  BY <1>2, <1>5 DEF TaskOK
<1>6. CASE workers[w].task.kind = "delete"
  BY <1>2, <1>6, NoCopy DEF WorkerOK, Holds, Unread
<1> QED
  BY <1>3, <1>4, <1>5, <1>6

LEMMA HeldAlone ==
    ASSUME IInv, NEW r \in RowIds \ raced, NEW v \in Busy, NEW w \in Busy,
           Holds(v, r), r \in workers[w].task.rows
    PROVE  v = w
BY HeldInTask DEF IInv, AloneOK

(* A worker puts a row down either as it was, or with its point written. *)
LEMMA WorkFollowed ==
    ASSUME IInv, UNCHANGED <<database, raced>>, lost \subseteq lost',
           Coming' = Coming, NEW w \in Busy, Busy' \subseteq Busy,
           \A v \in Workers \ {w} : v \in Busy' <=> v \in Busy,
           \A v \in Workers \ {w} : workers'[v] = workers[v],
           w \in Busy' => workers'[w].task = workers[w].task,
           \A r \in RowIds \ lost' :
             \/ /\ points'[r] = points[r]
                /\ w \in Busy' /\ Holds(w, r)' <=> Holds(w, r)
                /\ Holds(w, r) => Writes(w, r)' = Writes(w, r)
             \/ /\ Holds(w, r) /\ ~(w \in Busy' /\ Holds(w, r)')
                /\ points'[r] = Writes(w, r)
                /\ r \in Live => Writes(w, r) # None
    PROVE  AllFollowed' /\ AllIndexed' /\ AloneOK'
<1>1. Live' = Live /\ Busy \subseteq Workers
  BY DEF Live, database, Busy
<1>2. ASSUME NEW r \in RowIds
      PROVE  /\ Current(r)' = Current(r)
             /\ OnItsWay(r)' <=> OnItsWay(r)
             /\ \A v \in Busy \ {w} : Holds(v, r)' <=> Holds(v, r)
             /\ \A v \in Busy \ {w} : Writes(v, r)' = Writes(v, r)
  <2>1. Current(r)' = Current(r)
    BY <1>1 DEF Current, database
  <2>2. OnItsWay(r)' <=> OnItsWay(r)
    BY <1>1 DEF OnItsWay, Heals
  <2>3. \A v \in Busy \ {w} : Unread(v)' <=> Unread(v)
    BY <1>1 DEF Unread
  <2>4. \A v \in Busy \ {w} : Holds(v, r)' <=> Holds(v, r)
    BY <1>1, <2>3 DEF Holds
  <2>5. \A v \in Busy \ {w} : Writes(v, r)' = Writes(v, r)
    BY <1>1, <2>3 DEF Writes, database
  <2> QED
    BY <2>1, <2>2, <2>4, <2>5
<1>3. ASSUME NEW r \in RowIds, r \notin lost' \cup raced'
      PROVE  Followed(r)'
  <2>1. Followed(r) /\ r \in RowIds \ raced /\ r \in RowIds \ lost'
    BY <1>3 DEF IInv, AllFollowed
  <2>2. CASE OnItsWay(r)
    BY <1>2, <2>2 DEF Followed
  <2>3. CASE ~OnItsWay(r)
    <3>1. /\ \A v \in Busy : Holds(v, r) => Writes(v, r) = Current(r)
          /\ (\A v \in Busy : ~Holds(v, r)) => points[r] = Current(r)
      BY <2>1, <2>3 DEF Followed
    <3>2. CASE /\ points'[r] = points[r]
               /\ w \in Busy' /\ Holds(w, r)' <=> Holds(w, r)
               /\ Holds(w, r) => Writes(w, r)' = Writes(w, r)
      <4>1. \A v \in Busy' : Holds(v, r)' => Writes(v, r)' = Current(r)'
        BY <1>2, <3>1, <3>2
      <4>2. (\A v \in Busy' : ~Holds(v, r)') => points'[r] = Current(r)'
        BY <1>1, <1>2, <3>1, <3>2
      <4> QED
        BY <4>1, <4>2 DEF Followed
    <3>3. CASE /\ Holds(w, r) /\ ~(w \in Busy' /\ Holds(w, r)')
               /\ points'[r] = Writes(w, r)
      <4>1. points'[r] = Current(r)'
        BY <1>2, <3>1, <3>3
      <4>2. \A v \in Busy \ {w} : ~Holds(v, r)
        BY <2>1, <3>3, HeldAlone, HeldInTask
      <4>3. \A v \in Busy' : ~Holds(v, r)'
        BY <1>2, <3>3, <4>2
      <4> QED
        BY <4>1, <4>3 DEF Followed
    <3> QED
      BY <2>1, <3>2, <3>3
  <2> QED
    BY <2>2, <2>3
<1>4. ASSUME NEW r \in Live', r \notin lost'
      PROVE  Indexed(r)'
  <2>1. r \in RowIds \ lost' /\ r \in Live
    BY <1>1, <1>4, LiveRows DEF IInv
  <2>2. Indexed(r)
    BY <1>4, <2>1 DEF IInv, AllIndexed
  <2>3. CASE /\ points'[r] = points[r]
             /\ w \in Busy' /\ Holds(w, r)' <=> Holds(w, r)
    BY <1>1, <1>2, <2>1, <2>2, <2>3 DEF Indexed
  <2>4. CASE points'[r] = Writes(w, r) /\ Writes(w, r) # None
    BY <2>4 DEF Indexed
  <2> QED
    BY <2>1, <2>3, <2>4
<1>5. \A v \in Busy' : workers'[v].task = workers[v].task
  BY <1>1
<1>6. AloneOK'
  BY <1>5 DEF IInv, AloneOK
<1> QED
  BY <1>3, <1>4, <1>6 DEF AllFollowed, AllIndexed

LEMMA TasksUnderWay ==
    ASSUME TypeOK
    PROVE  Coming \cup Taken \subseteq Tasks
<1>1. Queued \subseteq Tasks
  BY DEF TypeOK, Queued
<1>2. Announced \subseteq Tasks /\ Taken \subseteq Tasks
  BY DEF TypeOK, Announced, Waiting, Taken, Busy
<1> QED
  BY <1>1, <1>2 DEF Coming

LEMMA TasksKept ==
    ASSUME IInv, lastId' \in 0 .. MaxRows, lastId <= lastId',
           \A r \in Live' : r \in Live \/ r > lastId
    PROVE  \A t \in Coming \cup Taken : TaskOK(t)'
<1> SUFFICES ASSUME NEW t \in Coming \cup Taken PROVE TaskOK(t)'
  OBVIOUS
<1>1. t \in Tasks /\ TaskOK(t) /\ lastId \in 0 .. MaxRows
  BY TasksUnderWay DEF IInv, TasksOK, TypeOK
<1>2. t.rows \subseteq RowIds
  BY <1>1 DEF Tasks
<1>3. ASSUME t.kind = "delete"
      PROVE  t.rows \cap Live' = {} /\ \A r \in t.rows : r <= lastId'
  <2>1. t.rows \cap Live = {} /\ \A r \in t.rows : r <= lastId
    BY <1>1, <1>3 DEF TaskOK
  <2>2. \A r \in t.rows : r \in Nat /\ ~(r > lastId) /\ r <= lastId'
    BY <1>1, <1>2, <2>1, VectorAssumption DEF RowIds
  <2> QED
    BY <2>1, <2>2
<1> QED
  BY <1>1, <1>3 DEF TaskOK

-----------------------------------------------------------------------------
(* Writes.                                                                 *)

LEMMA CommitInv ==
    ASSUME IInv, NEW q \in Requests, NEW task \in Tasks, OnCommit(q, task),
           rows' \in UNION {[R -> Values] : R \in SUBSET RowIds},
           lastId' \in 0 .. MaxRows, lastId <= lastId', dataset' \in Datasets,
           \A r \in Live' : r \in Live \/ (r > lastId /\ r <= lastId'),
           TaskOK(task)', NEW touched \in SUBSET RowIds,
           \A r \in RowIds \ touched :
             \/ /\ r \in Live /\ r \in Live'
                /\ rows'[r] = rows[r] /\ dataset' = dataset
             \/ r \notin Live /\ r \notin Live',
           \A r \in touched : Heals(task, r)'
    PROVE  IInv'
<1>1. /\ pending' \in [Requests -> Tasks \cup {None}]
      /\ Coming' = Coming \cup {task} /\ Taken' = Taken /\ BoundOK'
  BY CommittedRows
<1>2. UNCHANGED <<queue, workers, points, lost, raced>>
  BY DEF OnCommit
<1>3. TypeOK'
  BY <1>1, <1>2 DEF IInv, TypeOK
<1>4. TasksOK'
  BY <1>1, TasksKept DEF TasksOK
<1>5. WorkersOK'
  BY <1>2 DEF IInv, WorkersOK, WorkerOK, Busy
<1>6. RowsOK'
  <2>1. \A r \in Live : r <= lastId'
    <3>1. \A r \in Live : r \in RowIds /\ r <= lastId
      BY LiveRows DEF IInv, RowsOK
    <3>2. lastId \in 0 .. MaxRows
      BY DEF IInv, TypeOK
    <3> QED
      BY <3>1, <3>2, VectorAssumption DEF RowIds
  <2> QED
    BY <2>1, NoneAssumption DEF RowsOK
<1>7. \A r \in touched : OnItsWay(r)'
  BY <1>1 DEF OnItsWay
<1>8. Live' \subseteq RowIds
  <2>1. PICK R \in SUBSET RowIds : rows' \in [R -> Values]
    OBVIOUS
  <2> QED
    BY <2>1 DEF Live
<1>9. \A r \in RowIds \ touched : OnItsWay(r) => OnItsWay(r)'
  BY <1>1 DEF OnItsWay, Heals
<1>10. AllFollowed' /\ AllIndexed' /\ AloneOK'
  BY <1>2, <1>7, <1>8, <1>9, WritesFollowed
<1> QED
  BY <1>1, <1>3, <1>4, <1>5, <1>6, <1>10 DEF IInv

LEMMA IdsKept ==
    ASSUME IInv
    PROVE  /\ lastId \in 0 .. MaxRows /\ lastId <= lastId
           /\ \A r \in Live : r \in RowIds /\ r \in Nat /\ r <= lastId
BY LiveRows, VectorAssumption DEF IInv, TypeOK, RowsOK, RowIds

LEMMA CreateRowStep ==
    ASSUME IInv, NEW q \in Requests, NEW text \in Values, CreateRow(q, text)
    PROVE  IInv'
<1>0. PICK new \in RowIds : new = lastId + 1
  BY IdsKept, VectorAssumption DEF CreateRow, RowIds
<1>1. lastId' = new /\ new \in 0 .. MaxRows /\ lastId <= new /\ new > lastId
      /\ new <= lastId'
  BY <1>0, IdsKept, VectorAssumption DEF CreateRow, RowIds
<1>2. /\ Live' = Live \cup {new}
      /\ rows'[new] = text /\ \A r \in Live \ {new} : rows'[r] = rows[r]
  BY <1>0 DEF CreateRow, Live
<1>3. new \notin Live
  BY <1>1, IdsKept
<1>4. rows' \in UNION {[R -> Values] : R \in SUBSET RowIds}
  <2>1. Live \cup {new} \in SUBSET RowIds
    BY <1>1, LiveRows DEF IInv
  <2>2. rows' \in [Live \cup {new} -> Values]
    BY <1>0, LiveRows DEF CreateRow, IInv
  <2> QED
    BY <2>1, <2>2, RowsType
<1>5. dataset' = dataset /\ dataset \in Datasets
  BY DEF CreateRow, Active, IInv, TypeOK
<1>6. Index(new) \in Tasks /\ OnCommit(q, Index(new))
  BY <1>0, TasksAre DEF CreateRow
<1>7. TaskOK(Index(new))'
  BY <1>1 DEF TaskOK, Index
<1>8. Heals(Index(new), new)'
  BY <1>2 DEF Heals, Index
<1>9. \A r \in Live' : r \in Live \/ (r > lastId /\ r <= lastId')
  BY <1>1, <1>2
<1>10. \A r \in RowIds \ {new} :
         \/ r \in Live /\ r \in Live' /\ rows'[r] = rows[r] /\ dataset' = dataset
         \/ r \notin Live /\ r \notin Live'
  BY <1>2, <1>5
<1>11. {new} \in SUBSET RowIds /\ \A r \in {new} : Heals(Index(new), r)'
  BY <1>1, <1>8
<1> QED
  BY <1>1, <1>4, <1>5, <1>6, <1>7, <1>9, <1>10, <1>11, CommitInv

LEMMA PatchRowStep ==
    ASSUME IInv, NEW q \in Requests, NEW r \in Live, NEW text \in Values,
           PatchRow(q, r, text)
    PROVE  IInv'
<1>1. rows \in [Live -> Values] /\ Live \subseteq RowIds
  BY LiveRows DEF IInv
<1>2. rows' \in [Live -> Values] /\ Live' = Live
      /\ \A p \in Live \ {r} : rows'[p] = rows[p]
  BY <1>1 DEF PatchRow, Live
<1>3. rows' \in UNION {[R -> Values] : R \in SUBSET RowIds}
  BY <1>1, <1>2, RowsType
<1>4. dataset' = dataset /\ dataset \in Datasets /\ lastId' = lastId
  BY DEF PatchRow, Active, IInv, TypeOK
<1>5. Index(r) \in Tasks /\ OnCommit(q, Index(r))
  BY <1>1, TasksAre DEF PatchRow
<1>6. TaskOK(Index(r))' /\ Heals(Index(r), r)'
  BY <1>1, <1>2 DEF TaskOK, Heals, Index
<1>7. \A p \in RowIds \ {r} :
        \/ p \in Live /\ p \in Live' /\ rows'[p] = rows[p] /\ dataset' = dataset
        \/ p \notin Live /\ p \notin Live'
  BY <1>2, <1>4
<1>8. {r} \in SUBSET RowIds /\ \A p \in {r} : Heals(Index(r), p)'
  BY <1>1, <1>6
<1> QED
  BY <1>2, <1>3, <1>4, <1>5, <1>6, <1>7, <1>8, IdsKept, CommitInv

LEMMA DeleteRowsStep ==
    ASSUME IInv, NEW q \in Requests, NEW R \in SUBSET Live, DeleteRows(q, R)
    PROVE  IInv'
<1>1. rows \in [Live -> Values] /\ Live \subseteq RowIds
  BY LiveRows DEF IInv
<1>2. rows' \in [Live \ R -> Values] /\ Live' = Live \ R
      /\ \A p \in Live \ R : rows'[p] = rows[p]
  BY <1>1 DEF DeleteRows, Live
<1>3. rows' \in UNION {[Q -> Values] : Q \in SUBSET RowIds}
  BY <1>1, <1>2, RowsType
<1>4. dataset' = dataset /\ dataset \in Datasets /\ lastId' = lastId
  BY DEF DeleteRows, Active, IInv, TypeOK
<1>5. R \in SUBSET RowIds /\ Delete(R) \in Tasks /\ OnCommit(q, Delete(R))
  BY <1>1, TasksAre DEF DeleteRows
<1>6. TaskOK(Delete(R))' /\ \A p \in R : Heals(Delete(R), p)'
  BY <1>2, <1>4, IdsKept DEF TaskOK, Heals, Delete
<1>7. \A p \in RowIds \ R :
        \/ p \in Live /\ p \in Live' /\ rows'[p] = rows[p] /\ dataset' = dataset
        \/ p \notin Live /\ p \notin Live'
  BY <1>2, <1>4
<1> QED
  BY <1>2, <1>3, <1>4, <1>5, <1>6, <1>7, IdsKept, CommitInv

(* Columns change, or the archive flag does: every document changes. *)
LEMMA ReindexStep ==
    ASSUME IInv, NEW q \in Requests, UNCHANGED <<rows, lastId>>,
           dataset' \in Datasets, OnCommit(q, Reindex)
    PROVE  IInv'
<1>1. Live' = Live /\ Live \subseteq RowIds
  BY LiveRows DEF Live, IInv
<1>2. rows' \in UNION {[Q -> Values] : Q \in SUBSET RowIds}
  BY DEF IInv, TypeOK
<1>3. Reindex \in Tasks /\ TaskOK(Reindex)' /\ \A r \in Live : Heals(Reindex, r)'
  BY <1>1, TasksAre DEF TaskOK, Heals, Reindex
<1>4. \A r \in RowIds \ Live : r \notin Live /\ r \notin Live'
  BY <1>1
<1> QED
  BY <1>1, <1>2, <1>3, <1>4, IdsKept, CommitInv

LEMMA SilentInv ==
    ASSUME IInv, UNCHANGED <<lastId, pending, queue, workers, points, raced>>,
           rows' \in UNION {[R -> Values] : R \in SUBSET RowIds},
           dataset' \in Datasets \cup {None}, Live' \subseteq Live,
           lost \subseteq lost', lost' \subseteq RowIds,
           dataset' = None => Live' = {} /\ lost' = RowIds,
           \A r \in RowIds \ lost' :
             \/ /\ r \in Live /\ r \in Live'
                /\ rows'[r] = rows[r] /\ dataset' = dataset
             \/ r \notin Live /\ r \notin Live'
    PROVE  IInv'
<1>1. TypeOK'
  BY DEF IInv, TypeOK
<1>2. Coming' = Coming /\ Taken' = Taken /\ BoundOK'
  BY DEF Coming, Queued, Announced, Waiting, Taken, Busy, IInv, BoundOK,
         Outstanding
<1>3. TasksOK'
  BY <1>2, IdsKept, TasksKept DEF TasksOK
<1>4. WorkersOK'
  BY DEF IInv, WorkersOK, WorkerOK, Busy
<1>5. RowsOK'
  BY DEF IInv, RowsOK
<1>6. Live' \subseteq RowIds
  BY LiveRows DEF IInv
<1>7. \A r \in RowIds \ lost' : OnItsWay(r) => OnItsWay(r)'
  BY <1>2 DEF OnItsWay, Heals
<1>8. AllFollowed' /\ AllIndexed' /\ AloneOK'
  BY <1>6, <1>7, WritesFollowed
<1> QED
  BY <1>1, <1>2, <1>3, <1>4, <1>5, <1>8 DEF IInv

LEMMA AttachAssetStep ==
    ASSUME IInv, NEW r \in Live, NEW text \in Values, AttachAsset(r, text)
    PROVE  IInv'
<1>1. rows \in [Live -> Values] /\ Live \subseteq RowIds
  BY LiveRows DEF IInv
<1>2. rows' \in [Live -> Values] /\ Live' = Live
      /\ \A p \in Live \ {r} : rows'[p] = rows[p]
  BY <1>1 DEF AttachAsset, Live
<1>3. rows' \in UNION {[R -> Values] : R \in SUBSET RowIds}
  BY <1>1, <1>2, RowsType
<1>4. dataset' = dataset /\ dataset \in Datasets /\ dataset # None
  BY DEF AttachAsset, Active, IInv, TypeOK
<1>5. lost' = lost \cup {r} /\ lost' \subseteq RowIds
  BY <1>1 DEF AttachAsset, Unannounced, IInv, TypeOK
<1>6. \A p \in RowIds \ lost' :
        \/ p \in Live /\ p \in Live' /\ rows'[p] = rows[p] /\ dataset' = dataset
        \/ p \notin Live /\ p \notin Live'
  BY <1>2, <1>4, <1>5
<1>7. UNCHANGED <<lastId, pending, queue, workers, points, raced>>
  BY DEF AttachAsset, Unannounced
<1> QED
  BY <1>2, <1>3, <1>4, <1>5, <1>6, <1>7, SilentInv

LEMMA ReorderColumnsStep ==
    ASSUME IInv, NEW l \in Labels, ReorderColumns(l)
    PROVE  IInv'
<1>1. Live' = Live /\ Live \subseteq RowIds
  BY LiveRows DEF ReorderColumns, Live, IInv
<1>2. dataset' \in Datasets /\ dataset' # None
  BY NoneAssumption DEF ReorderColumns, Active, IInv, TypeOK, Datasets
<1>3. lost' = lost \cup Live /\ lost' \subseteq RowIds
  BY <1>1 DEF ReorderColumns, Unannounced, IInv, TypeOK
<1>4. rows' \in UNION {[R -> Values] : R \in SUBSET RowIds}
  BY DEF ReorderColumns, IInv, TypeOK
<1>5. UNCHANGED <<lastId, pending, queue, workers, points, raced>>
  BY DEF ReorderColumns, Unannounced
<1> QED
  BY <1>1, <1>2, <1>3, <1>4, <1>5, SilentInv

LEMMA DeleteDatasetStep ==
    ASSUME IInv, DeleteDataset
    PROVE  IInv'
<1>1. Live' = {}
  BY NoCopy DEF DeleteDataset, Live
<1>2. rows' \in UNION {[R -> Values] : R \in SUBSET RowIds}
  <2>1. <<>> \in [{} -> Values]
    OBVIOUS
  <2> QED
    BY <2>1, RowsType DEF DeleteDataset
<1>3. lost' = RowIds /\ lost \subseteq lost'
  BY DEF DeleteDataset, Unannounced, IInv, TypeOK
<1>4. UNCHANGED <<lastId, pending, queue, workers, points, raced>>
      /\ dataset' = None
  BY DEF DeleteDataset, Unannounced
<1> QED
  BY <1>1, <1>2, <1>3, <1>4, SilentInv

-----------------------------------------------------------------------------
(* Callbacks, and tasks that find nothing to do.                           *)

(* A task leaves the ones under way, the stores stay as they are. *)
LEMMA TaskGone ==
    ASSUME IInv, UNCHANGED <<database, workers, points, raced>>,
           pending' \in [Requests -> Tasks \cup {None}], queue' \in Seq(Tasks),
           BoundOK', Coming' \subseteq Coming,
           lost \subseteq lost', lost' \subseteq RowIds,
           \A r \in RowIds \ lost' : OnItsWay(r) => OnItsWay(r)'
    PROVE  IInv'
<1>1. Live' = Live /\ Busy' = Busy /\ Taken' = Taken
  BY DEF database, Live, Busy, Taken
<1>2. Len(queue') <= MaxTasks
  <2>1. Cardinality(Busy') \in Nat
    BY <1>1, Sizes DEF IInv
  <2>2. Cardinality(Waiting') \in Nat
    <3>1. Waiting' \subseteq Requests
      BY DEF Waiting
    <3> QED
      BY <3>1, FS_Subset, FS_CardinalityType, VectorAssumption
  <2>3. Len(queue') \in Nat
    OBVIOUS
  <2> QED
    BY <2>1, <2>2, <2>3, VectorAssumption DEF BoundOK, Outstanding
<1>3. TypeOK'
  BY <1>2 DEF IInv, TypeOK, database
<1>4. TasksOK'
  BY <1>1, IdsKept, TasksKept DEF TasksOK, database
<1>5. WorkersOK'
  BY <1>1 DEF IInv, WorkersOK, WorkerOK
<1>6. RowsOK'
  BY <1>1 DEF IInv, RowsOK, database
<1>7. AllFollowed' /\ AllIndexed' /\ AloneOK'
  <2>1. \A r \in RowIds : \/ /\ r \in Live /\ r \in Live'
                             /\ rows'[r] = rows[r] /\ dataset' = dataset
                          \/ r \notin Live /\ r \notin Live'
    BY <1>1 DEF database
  <2>2. {} \in SUBSET RowIds /\ Live' \subseteq RowIds
    BY <1>1, LiveRows DEF IInv
  <2> QED
    BY <2>1, <2>2, WritesFollowed
<1> QED
  BY <1>3, <1>4, <1>5, <1>6, <1>7 DEF IInv

LEMMA EnqueueStep ==
    ASSUME IInv, NEW q \in Requests, Enqueue(q)
    PROVE  IInv'
<1>1. /\ pending[q] \in Tasks
      /\ pending' \in [Requests -> Tasks \cup {None}]
      /\ Announced' \subseteq Announced
      /\ Announced = Announced' \cup {pending[q]}
      /\ Cardinality(Waiting') = Cardinality(Waiting) - 1
  BY CalledBack DEF Enqueue
<1>2. queue \in Seq(Tasks) /\ queue' = Append(queue, pending[q])
  BY DEF Enqueue, IInv, TypeOK
<1>3. queue' \in Seq(Tasks) /\ Len(queue') = Len(queue) + 1
  BY <1>1, <1>2
<1>4. Queued' = Queued \cup {pending[q]}
  <2>1. Queued' = {Append(queue, pending[q])[n] :
                     n \in 1 .. Len(Append(queue, pending[q]))}
    BY <1>2 DEF Queued
  <2> QED
    BY <1>1, <1>2, <2>1, AppendMembers DEF Queued
<1>5. Coming' = Coming
  BY <1>1, <1>4 DEF Coming
<1>6. Busy' = Busy
  BY DEF Enqueue, Busy
<1>7. BoundOK'
  BY <1>1, <1>3, <1>6, Sizes DEF IInv, BoundOK, Outstanding
<1>8. UNCHANGED <<database, workers, points, lost, raced>>
  BY DEF Enqueue
<1>9. \A r \in RowIds : OnItsWay(r) => OnItsWay(r)'
  BY <1>5, <1>8 DEF OnItsWay, Heals, database, Live
<1>10. lost \subseteq lost' /\ lost' \subseteq RowIds
  BY <1>8 DEF IInv, TypeOK
<1> QED
  BY <1>1, <1>3, <1>5, <1>7, <1>8, <1>9, <1>10, TaskGone

LEMMA LoseTaskStep ==
    ASSUME IInv, NEW q \in Requests, LoseTask(q)
    PROVE  IInv'
<1>1. /\ pending[q] \in Tasks
      /\ pending' \in [Requests -> Tasks \cup {None}]
      /\ Announced' \subseteq Announced
      /\ Announced = Announced' \cup {pending[q]}
      /\ Cardinality(Waiting') = Cardinality(Waiting) - 1
  BY CalledBack DEF LoseTask
<1>2. UNCHANGED <<database, queue, workers, points, raced>>
      /\ lost' = lost \cup pending[q].rows
  BY DEF LoseTask
<1>3. Queued' = Queued /\ Busy' = Busy /\ Live' = Live
  BY <1>2 DEF Queued, Busy, database, Live
<1>4. Coming' \subseteq Coming /\ Coming \subseteq Coming' \cup {pending[q]}
  BY <1>1, <1>3 DEF Coming
<1>5. BoundOK'
  BY <1>1, <1>2, <1>3, Sizes, VectorAssumption DEF IInv, BoundOK, Outstanding
<1>6. lost' \subseteq RowIds
  BY <1>1, <1>2 DEF IInv, TypeOK, Tasks
<1>7. \A r \in RowIds \ lost' : OnItsWay(r) => OnItsWay(r)'
  BY <1>2, <1>3, <1>4 DEF OnItsWay, Heals
<1>8. queue' \in Seq(Tasks)
  BY <1>2 DEF IInv, TypeOK
<1> QED
  BY <1>1, <1>2, <1>4, <1>5, <1>6, <1>7, <1>8, TaskGone

LEMMA SkipStep ==
    ASSUME IInv, NEW w \in Workers, Skip(w)
    PROVE  IInv'
<1> DEFINE task == Head(queue)
<1>1. queue # <<>> /\ queue' = Tail(queue) /\ ~Needed(task)
      /\ UNCHANGED <<database, pending, workers, points, lost, raced>>
  BY DEF Skip
<1>2. /\ task \in Tasks /\ task \in Coming
      /\ queue' \in Seq(Tasks) /\ Len(queue') = Len(queue) - 1
      /\ Coming' \subseteq Coming /\ Coming = Coming' \cup {task}
  BY <1>1, Dequeued
<1> HIDE DEF task
<1>3. TaskOK(task)
  BY <1>2 DEF IInv, TasksOK
<1>4. Busy' = Busy /\ Waiting' = Waiting
  BY <1>1 DEF Busy, Waiting
<1>5. BoundOK'
  BY <1>2, <1>4, Sizes, VectorAssumption DEF IInv, BoundOK, Outstanding
<1>6. ASSUME NEW r \in RowIds \ lost PROVE ~Heals(task, r)
  <2>1. CASE task.kind = "index"
    <3>1. PICK p \in RowIds : task.rows = {p}
      BY <1>3, <2>1 DEF TaskOK
    <3> QED
      BY <1>1, <2>1, <3>1 DEF Needed, Heals
  <2>2. CASE task.kind # "index"
    BY <1>1, <2>2, <1>6 DEF Needed, IInv, RowsOK
  <2> QED
    BY <2>1, <2>2
<1>7. \A r \in RowIds \ lost : OnItsWay(r) => OnItsWay(r)'
  BY <1>1, <1>2, <1>6 DEF OnItsWay, Heals, database, Live
<1>8. pending' \in [Requests -> Tasks \cup {None}] /\ lost' \subseteq RowIds
  BY <1>1 DEF IInv, TypeOK
<1> QED
  BY <1>1, <1>2, <1>5, <1>7, <1>8, TaskGone

-----------------------------------------------------------------------------
(* Workers.                                                                *)

WorkerTypes == [task: Tasks \cup {None}, dataset: Datasets \cup {None},
                copy: Copies]

LEMMA WorkInv ==
    ASSUME IInv, UNCHANGED <<database, pending, queue, raced>>,
           lost \subseteq lost', lost' \subseteq RowIds,
           NEW w \in Busy, NEW new \in WorkerTypes,
           workers' = [workers EXCEPT ![w] = new],
           new.task \in {workers[w].task, None},
           points' \in [RowIds -> Documents \cup {None}],
           new.task # None => WorkerOK(w)',
           \A r \in RowIds \ lost' :
             \/ /\ points'[r] = points[r]
                /\ new.task # None /\ Holds(w, r)' <=> Holds(w, r)
                /\ Holds(w, r) => Writes(w, r)' = Writes(w, r)
             \/ /\ Holds(w, r) /\ ~(new.task # None /\ Holds(w, r)')
                /\ points'[r] = Writes(w, r)
                /\ r \in Live => Writes(w, r) # None
    PROVE  IInv'
<1>1. /\ workers' \in [Workers -> WorkerTypes]
      /\ \A v \in Workers \ {w} : workers'[v] = workers[v]
      /\ Busy' \subseteq Busy /\ (w \in Busy' <=> new.task # None)
      /\ \A v \in Workers \ {w} : v \in Busy' <=> v \in Busy
      /\ \A v \in Busy' : workers'[v].task = workers[v].task
      /\ Taken' \subseteq Taken
      /\ Cardinality(Busy') <= Cardinality(Busy)
      /\ Cardinality(Busy') \in Nat
  BY StillRunning DEF WorkerTypes
<1>2. TypeOK'
  BY <1>1 DEF IInv, TypeOK, database, WorkerTypes
<1>3. Coming' = Coming /\ Waiting' = Waiting /\ Live' = Live
  BY DEF Coming, Queued, Announced, Waiting, database, Live
<1>4. BoundOK'
  BY <1>1, <1>3, Sizes, VectorAssumption DEF IInv, BoundOK, Outstanding
<1>5. TasksOK'
  BY <1>1, <1>3, IdsKept, TasksKept DEF TasksOK, database
<1>6. ASSUME NEW v \in Busy' PROVE WorkerOK(v)'
  <2>1. CASE v = w
    BY <1>1, <1>6, <2>1
  <2>2. CASE v # w
    BY <1>1, <1>6, <2>2 DEF IInv, WorkersOK, WorkerOK, Busy
  <2> QED
    BY <2>1, <2>2
<1>7. RowsOK'
  BY <1>3 DEF IInv, RowsOK, database
<1>8. AllFollowed' /\ AllIndexed' /\ AloneOK'
  BY <1>1, <1>3, WorkFollowed
<1> QED
  BY <1>2, <1>4, <1>5, <1>6, <1>7, <1>8 DEF IInv, WorkersOK

LEMMA IdleType == Idle \in WorkerTypes /\ Idle.task = None
BY NoCopy DEF Idle, WorkerTypes

(* What a worker at work is known to be. *)
LEMMA AtWork ==
    ASSUME IInv, NEW w \in Busy
    PROVE  /\ w \in Workers /\ workers[w] \in WorkerTypes
           /\ workers[w].task \in Tasks /\ workers[w].task # None
           /\ workers[w].task.rows \subseteq RowIds
           /\ workers[w].task.kind \in {"index", "delete", "reindex"}
           /\ TaskOK(workers[w].task) /\ WorkerOK(w)
<1>1. /\ w \in Workers /\ workers[w] \in WorkerTypes
      /\ workers[w].task \in Tasks /\ workers[w].task # None
  BY DEF Busy, IInv, TypeOK, WorkerTypes
<1>2. workers[w].task \in Taken
  BY DEF Taken
<1> QED
  BY <1>1, <1>2 DEF IInv, TasksOK, WorkersOK, Tasks

LEMMA ReadRowsStep ==
    ASSUME IInv, NEW w \in Workers, ReadRows(w)
    PROVE  IInv'
<1>1. /\ w \in Busy /\ workers[w].task.kind = "reindex" /\ workers[w].copy = <<>>
      /\ UNCHANGED <<database, pending, queue, points, lost, raced>>
  BY DEF ReadRows
<1>2. /\ workers[w] \in WorkerTypes /\ workers[w].task \in Tasks
      /\ workers[w].task # None /\ workers[w].dataset \in Datasets
  BY <1>1, AtWork DEF WorkerOK
<1>3. Live \subseteq RowIds /\ Live' = Live /\ \A r \in Live : rows[r] \in Values
  BY <1>1, LiveRows DEF IInv, Live, database
<1>4. lost \subseteq lost' /\ lost' \subseteq RowIds
      /\ points' = points /\ points' \in [RowIds -> Documents \cup {None}]
  BY <1>1 DEF IInv, TypeOK
<1>5. \A r \in RowIds : Holds(w, r) <=> r \in Live
  BY <1>1, NoCopy DEF Holds, Unread
<1>6. \A r \in RowIds : Writes(w, r) = Document(rows[r], workers[w].dataset)
  BY <1>1 DEF Writes, Unread
<1>7. CASE Live = {}
  <2>1. workers' = [workers EXCEPT ![w] = Idle]
    BY <1>7 DEF ReadRows
  <2> QED
    BY <1>1, <1>4, <1>5, <1>7, <2>1, IdleType, WorkInv
<1>8. CASE Live # {}
  <2> DEFINE copy == [r \in Live |-> Document(rows[r], workers[w].dataset)]
             new == [task |-> workers[w].task, dataset |-> None, copy |-> copy]
  <2>1. copy \in [Live -> Documents]
    BY <1>2, <1>3, DocumentType
  <2>2. copy \in Copies /\ DOMAIN copy = Live /\ copy # <<>>
    BY <1>3, <1>8, <2>1, NoCopy, CopiesType
  <2>3. \A r \in Live : copy[r] = Document(rows[r], workers[w].dataset)
    OBVIOUS
  <2>4. workers' = [workers EXCEPT ![w] = new]
    BY <1>8 DEF ReadRows
  <2> HIDE DEF copy
  <2>5. new \in WorkerTypes
    BY <1>2, <2>2 DEF WorkerTypes
  <2>6. new.task = workers[w].task /\ new.copy = copy
    OBVIOUS
  <2> HIDE DEF new
  <2>7. workers'[w] = new
    BY <2>4 DEF IInv, TypeOK
  <2>8. WorkerOK(w)'
    BY <1>1, <1>8, <2>2, <2>6, <2>7 DEF WorkerOK
  <2>9. \A r \in RowIds : Holds(w, r)' <=> r \in Live
    BY <1>1, <2>2, <2>6, <2>7 DEF Holds, Unread
  <2>10. \A r \in Live : Writes(w, r)' = Document(rows[r], workers[w].dataset)
    BY <1>1, <2>2, <2>3, <2>6, <2>7 DEF Writes, Unread
  <2>11. \A r \in RowIds \ lost' :
           /\ points'[r] = points[r]
           /\ new.task # None /\ Holds(w, r)' <=> Holds(w, r)
           /\ Holds(w, r) => Writes(w, r)' = Writes(w, r)
    BY <1>2, <1>4, <1>5, <1>6, <2>6, <2>9, <2>10
  <2> QED
    BY <1>1, <1>4, <2>4, <2>5, <2>6, <2>8, <2>11, WorkInv
<1> QED
  BY <1>7, <1>8

(* After a batch a worker holds the rows it has still to write, as before. *)
LEMMA BatchDone ==
    ASSUME IInv, NEW w \in Busy, workers[w].copy # <<>>,
           workers' = [workers EXCEPT ![w] = AfterBatch(@)]
    PROVE  \E new \in WorkerTypes :
             /\ workers' = [workers EXCEPT ![w] = new]
             /\ new.task \in {workers[w].task, None}
             /\ new.task # None => WorkerOK(w)'
             /\ Batch(workers[w].copy) \subseteq DOMAIN workers[w].copy
             /\ DOMAIN workers[w].copy \subseteq RowIds
             /\ \A r \in RowIds :
                  /\ Holds(w, r) <=> r \in DOMAIN workers[w].copy
                  /\ Holds(w, r) => Writes(w, r) = workers[w].copy[r]
                  /\ new.task # None /\ Holds(w, r)'
                       <=> r \in DOMAIN workers[w].copy \ Batch(workers[w].copy)
                  /\ new.task # None /\ Holds(w, r)' =>
                       Writes(w, r)' = workers[w].copy[r]
<1> DEFINE copy == workers[w].copy
           task == workers[w].task
           left == DOMAIN copy \ Batch(copy)
           rest == [r \in left |-> copy[r]]
           more == [task |-> task, dataset |-> workers[w].dataset, copy |-> rest]
           new == IF left = {} THEN Idle ELSE more
<1>1. /\ workers[w] \in WorkerTypes /\ task \in Tasks /\ task # None
      /\ task.kind \in {"index", "delete", "reindex"} /\ WorkerOK(w)
  BY AtWork
<1>2. copy \in Copies /\ DOMAIN copy \subseteq RowIds
      /\ \A r \in DOMAIN copy : copy[r] \in Documents
  BY <1>1, CopyType DEF WorkerTypes
<1>3. Batch(copy) \subseteq DOMAIN copy
  BY DEF Batch
<1>4. task.kind # "delete"
  BY <1>1 DEF WorkerOK
<1>5. rest \in [left -> Documents] /\ DOMAIN rest = left
      /\ \A r \in left : rest[r] = copy[r]
  BY <1>2
<1>6. rest \in Copies /\ left \subseteq RowIds
  <2> HIDE DEF rest
  <2> QED
    BY <1>2, <1>5, CopiesType
<1>7. AfterBatch(workers[w]) =
        IF left = {} THEN Idle ELSE [workers[w] EXCEPT !.copy = rest]
  BY DEF AfterBatch
<1> HIDE DEF rest
<1>8. more \in WorkerTypes /\ [workers[w] EXCEPT !.copy = rest] = more
  BY <1>1, <1>6 DEF WorkerTypes
<1>9. more.task = task /\ more.copy = rest
  OBVIOUS
<1> HIDE DEF more
<1>10. new \in WorkerTypes /\ AfterBatch(workers[w]) = new
  BY <1>7, <1>8, IdleType
<1>11. /\ left = {} => new.task = None
       /\ left # {} => new.task = task /\ new.copy = rest
  BY <1>9, IdleType
<1> HIDE DEF new
<1>12. workers' = [workers EXCEPT ![w] = new]
  BY <1>10
<1>13. workers'[w] = new
  BY <1>12 DEF IInv, TypeOK, Busy
<1>14. left # {} => rest # <<>>
  BY <1>5, NoCopy
<1>15. left # {} => WorkerOK(w)'
  BY <1>1, <1>3, <1>4, <1>5, <1>11, <1>13, <1>14 DEF WorkerOK
<1>16. \A r \in RowIds : /\ Holds(w, r) <=> r \in DOMAIN copy
                         /\ Holds(w, r) => Writes(w, r) = copy[r]
  BY <1>4 DEF Holds, Writes, Unread
<1>17. ASSUME left # {}, NEW r \in RowIds
       PROVE  /\ Holds(w, r)' <=> r \in left
              /\ Holds(w, r)' => Writes(w, r)' = copy[r]
  <2>1. workers'[w].task = task /\ workers'[w].copy = rest /\ rest # <<>>
    BY <1>11, <1>13, <1>14, <1>17
  <2>2. ~Unread(w)'
    BY <2>1 DEF Unread
  <2>3. Holds(w, r)' <=> r \in left
    BY <1>4, <1>5, <2>1, <2>2 DEF Holds
  <2>4. Writes(w, r)' = rest[r]
    BY <1>4, <2>1, <2>2 DEF Writes
  <2> QED
    BY <1>5, <2>3, <2>4
<1>18. \A r \in RowIds :
         /\ new.task # None /\ Holds(w, r)' <=> r \in left
         /\ new.task # None /\ Holds(w, r)' => Writes(w, r)' = copy[r]
  BY <1>1, <1>11, <1>17
<1>19. new.task \in {task, None} /\ (new.task # None => WorkerOK(w)')
  BY <1>11, <1>15
<1> QED
  BY <1>2, <1>3, <1>10, <1>12, <1>16, <1>18, <1>19

LEMMA UpsertStep ==
    ASSUME IInv, NEW w \in Workers, Upsert(w)
    PROVE  IInv'
<1> DEFINE copy == workers[w].copy
<1>1. /\ w \in Busy /\ copy # <<>>
      /\ workers' = [workers EXCEPT ![w] = AfterBatch(@)]
      /\ UNCHANGED <<database, pending, queue, lost, raced>>
      /\ points' = [r \in RowIds |->
                      IF r \in Batch(copy) THEN copy[r] ELSE points[r]]
  BY DEF Upsert
<1>2. PICK new \in WorkerTypes :
        /\ workers' = [workers EXCEPT ![w] = new]
        /\ new.task \in {workers[w].task, None}
        /\ new.task # None => WorkerOK(w)'
        /\ Batch(copy) \subseteq DOMAIN copy
        /\ DOMAIN copy \subseteq RowIds
        /\ \A r \in RowIds :
             /\ Holds(w, r) <=> r \in DOMAIN copy
             /\ Holds(w, r) => Writes(w, r) = copy[r]
             /\ new.task # None /\ Holds(w, r)' <=> r \in DOMAIN copy \ Batch(copy)
             /\ new.task # None /\ Holds(w, r)' => Writes(w, r)' = copy[r]
  BY <1>1, BatchDone
<1>3. \A r \in DOMAIN copy : copy[r] \in Documents /\ copy[r] # None
  <2>1. copy \in Copies
    BY <1>1, AtWork DEF WorkerTypes
  <2> QED
    BY <2>1, CopyType, NoneAssumption
<1>4. points' \in [RowIds -> Documents \cup {None}]
  BY <1>1, <1>2, <1>3 DEF IInv, TypeOK
<1>5. lost \subseteq lost' /\ lost' \subseteq RowIds
  BY <1>1 DEF IInv, TypeOK
<1>6. ASSUME NEW r \in RowIds
      PROVE  \/ /\ points'[r] = points[r]
                /\ new.task # None /\ Holds(w, r)' <=> Holds(w, r)
                /\ Holds(w, r) => Writes(w, r)' = Writes(w, r)
             \/ /\ Holds(w, r) /\ ~(new.task # None /\ Holds(w, r)')
                /\ points'[r] = Writes(w, r)
                /\ r \in Live => Writes(w, r) # None
  <2>1. CASE r \in Batch(copy)
    <3>1. points'[r] = copy[r]
      BY <1>1, <2>1
    <3> QED
      BY <1>2, <1>3, <2>1, <3>1
  <2>2. CASE r \notin Batch(copy)
    <3>1. points'[r] = points[r]
      BY <1>1, <2>2
    <3> QED
      BY <1>2, <2>2, <3>1
  <2> QED
    BY <2>1, <2>2
<1> QED
  BY <1>1, <1>2, <1>4, <1>5, <1>6, WorkInv

LEMMA FailBatchStep ==
    ASSUME IInv, NEW w \in Workers, FailBatch(w)
    PROVE  IInv'
<1> DEFINE copy == workers[w].copy
<1>1. /\ w \in Busy /\ copy # <<>>
      /\ workers' = [workers EXCEPT ![w] = AfterBatch(@)]
      /\ UNCHANGED <<database, pending, queue, points, raced>>
      /\ lost' = lost \cup Batch(copy)
  BY DEF FailBatch
<1>2. PICK new \in WorkerTypes :
        /\ workers' = [workers EXCEPT ![w] = new]
        /\ new.task \in {workers[w].task, None}
        /\ new.task # None => WorkerOK(w)'
        /\ Batch(copy) \subseteq DOMAIN copy
        /\ DOMAIN copy \subseteq RowIds
        /\ \A r \in RowIds :
             /\ Holds(w, r) <=> r \in DOMAIN copy
             /\ Holds(w, r) => Writes(w, r) = copy[r]
             /\ new.task # None /\ Holds(w, r)' <=> r \in DOMAIN copy \ Batch(copy)
             /\ new.task # None /\ Holds(w, r)' => Writes(w, r)' = copy[r]
  BY <1>1, BatchDone
<1>3. points' \in [RowIds -> Documents \cup {None}]
  BY <1>1 DEF IInv, TypeOK
<1>4. lost \subseteq lost' /\ lost' \subseteq RowIds
  BY <1>1, <1>2 DEF IInv, TypeOK
<1>5. \A r \in RowIds \ lost' :
        /\ points'[r] = points[r]
        /\ new.task # None /\ Holds(w, r)' <=> Holds(w, r)
        /\ Holds(w, r) => Writes(w, r)' = Writes(w, r)
  BY <1>1, <1>2
<1> QED
  BY <1>1, <1>2, <1>3, <1>4, <1>5, WorkInv

(* The rows of a task that deletes are gone: their points go too. *)
LEMMA DropPointsStep ==
    ASSUME IInv, NEW w \in Workers, DropPoints(w)
    PROVE  IInv'
<1> DEFINE R == workers[w].task.rows
<1>1. /\ w \in Busy /\ workers[w].task.kind = "delete"
      /\ workers' = [workers EXCEPT ![w] = Idle]
      /\ UNCHANGED <<database, pending, queue, lost, raced>>
      /\ points' = [r \in RowIds |-> IF r \in R THEN None ELSE points[r]]
  BY DEF DropPoints
<1>2. R \cap Live = {} /\ workers[w].copy = <<>>
  BY <1>1, AtWork DEF TaskOK, WorkerOK
<1>3. \A r \in RowIds : Holds(w, r) <=> r \in R
  BY <1>1, <1>2, NoCopy DEF Holds, Unread
<1>4. \A r \in RowIds : Writes(w, r) = None
  BY <1>1 DEF Writes
<1>5. points' \in [RowIds -> Documents \cup {None}]
  BY <1>1 DEF IInv, TypeOK
<1>6. lost \subseteq lost' /\ lost' \subseteq RowIds
  BY <1>1 DEF IInv, TypeOK
<1>7. \A r \in RowIds :
        \/ points'[r] = points[r] /\ ~Holds(w, r)
        \/ /\ Holds(w, r) /\ points'[r] = Writes(w, r)
           /\ r \in Live => Writes(w, r) # None
  BY <1>1, <1>2, <1>3, <1>4
<1> QED
  BY <1>1, <1>5, <1>6, <1>7, IdleType, WorkInv

LEMMA FailTaskStep ==
    ASSUME IInv, NEW w \in Workers, FailTask(w)
    PROVE  IInv'
<1>1. /\ w \in Busy /\ workers' = [workers EXCEPT ![w] = Idle]
      /\ UNCHANGED <<database, pending, queue, points, raced>>
      /\ lost' = lost \cup workers[w].task.rows
  BY DEF FailTask
<1>2. lost \subseteq lost' /\ lost' \subseteq RowIds
      /\ points' \in [RowIds -> Documents \cup {None}]
  BY <1>1, AtWork DEF IInv, TypeOK
<1>3. \A r \in RowIds \ lost' : points'[r] = points[r] /\ ~Holds(w, r)
  BY <1>1, HeldInTask
<1> QED
  BY <1>1, <1>2, <1>3, IdleType, WorkInv

(* A worker takes the task at the head of the queue: it holds the rows the *)
(* task heals, and will write what they are now.                           *)
LEMMA Started ==
    ASSUME IInv, NEW w \in Workers, Start(w)
    PROVE  \E task \in Tasks :
             /\ task \in Coming /\ TaskOK(task)
             /\ queue' \in Seq(Tasks) /\ Len(queue') = Len(queue) - 1
             /\ Coming' \subseteq Coming /\ Coming = Coming' \cup {task}
             /\ workers' \in [Workers -> WorkerTypes]
             /\ workers'[w].task = task
             /\ \A v \in Workers \ {w} : workers'[v] = workers[v]
             /\ w \notin Busy /\ Busy' = Busy \cup {w}
             /\ Cardinality(Busy') = Cardinality(Busy) + 1
             /\ Needed(task) /\ WorkerOK(w)'
             /\ \A r \in RowIds : /\ Holds(w, r)' <=> Heals(task, r)
                                  /\ Holds(w, r)' => Writes(w, r)' = Current(r)
             /\ lost' = lost \ MadeGood(task)
             /\ raced' = (raced \ MadeGood(task)) \cup Overlapped(task)
             /\ UNCHANGED <<database, pending, points>>
<1> DEFINE task == Head(queue)
           copy == IF task.kind = "index" THEN ReadForIndex(task) ELSE <<>>
           seen == IF task.kind = "reindex" THEN dataset ELSE None
           new == [task |-> task, dataset |-> seen, copy |-> copy]
<1>1. /\ queue # <<>> /\ queue' = Tail(queue) /\ w \notin Busy
      /\ Needed(task)
      /\ workers' = [workers EXCEPT ![w] = new]
      /\ lost' = lost \ MadeGood(task)
      /\ raced' = (raced \ MadeGood(task)) \cup Overlapped(task)
      /\ UNCHANGED <<database, pending, points>>
  BY DEF Start
<1>2. /\ task \in Tasks /\ task # None /\ task \in Coming
      /\ queue' \in Seq(Tasks) /\ Len(queue') = Len(queue) - 1
      /\ Coming' \subseteq Coming /\ Coming = Coming' \cup {task}
  BY <1>1, Dequeued
<1> HIDE DEF task
<1>3. /\ TaskOK(task) /\ task.rows \subseteq RowIds
      /\ task.kind \in {"index", "delete", "reindex"}
  BY <1>2 DEF IInv, TasksOK, Tasks
<1>4. Live \subseteq RowIds /\ \A r \in Live : rows[r] \in Values
  BY LiveRows DEF IInv
<1>5. dataset \in Datasets \cup {None} /\ (dataset = None => Live = {})
  BY DEF IInv, TypeOK, RowsOK
<1>6. /\ copy \in Copies
      /\ task.kind = "index" =>
           /\ DOMAIN copy = task.rows /\ task.rows # {} /\ task.rows \subseteq Live
           /\ \A r \in task.rows : copy[r] = Document(rows[r], dataset)
      /\ task.kind # "index" => copy = <<>>
  <2>1. CASE task.kind = "index"
    <3>1. PICK p \in RowIds : task.rows = {p}
      BY <1>3, <2>1 DEF TaskOK
    <3>2. p \in Live /\ dataset \in Datasets
      BY <1>1, <1>5, <2>1, <3>1 DEF Needed
    <3>3. task.rows \cap Live = {p}
      BY <3>1, <3>2
    <3>4. copy = [r \in {p} |-> Document(rows[r], dataset)]
      BY <2>1, <3>3 DEF ReadForIndex
    <3>5. copy \in [{p} -> Documents] /\ DOMAIN copy = {p}
          /\ copy[p] = Document(rows[p], dataset)
      BY <1>4, <3>2, <3>4, DocumentType
    <3>6. copy \in Copies
      <4> HIDE DEF copy
      <4> QED
        BY <3>5, CopiesType
    <3> QED
      BY <2>1, <3>1, <3>2, <3>5, <3>6
  <2>2. CASE task.kind # "index"
    BY <2>2, NoCopy
  <2> QED
    BY <2>1, <2>2
<1> HIDE DEF copy
<1>7. seen \in Datasets \cup {None}
      /\ (task.kind = "reindex" => seen = dataset /\ seen \in Datasets)
  BY <1>1, <1>5 DEF Needed
<1> HIDE DEF seen
<1>8. /\ new \in WorkerTypes
      /\ new.task = task /\ new.copy = copy /\ new.dataset = seen
  BY <1>2, <1>6, <1>7 DEF WorkerTypes
<1> HIDE DEF new
<1>9. workers \in [Workers -> WorkerTypes]
  BY DEF IInv, TypeOK, WorkerTypes
<1>10. /\ workers' \in [Workers -> WorkerTypes] /\ workers'[w] = new
       /\ \A v \in Workers \ {w} : workers'[v] = workers[v]
  BY <1>1, <1>8, <1>9
<1>11. Busy' = Busy \cup {w}
  BY <1>2, <1>8, <1>10 DEF Busy
<1>12. Cardinality(Busy') = Cardinality(Busy) + 1
  BY <1>1, <1>11, Sizes, FS_AddElement DEF IInv
<1>13. WorkerOK(w)'
  BY <1>3, <1>6, <1>7, <1>8, <1>10 DEF WorkerOK
<1>14. ASSUME NEW r \in RowIds
       PROVE  /\ Holds(w, r)' <=> Heals(task, r)
              /\ Holds(w, r)' => Writes(w, r)' = Current(r)
  <2>1. Live' = Live /\ rows' = rows
    BY <1>1 DEF database, Live
  <2>2. /\ workers'[w].task = task /\ workers'[w].copy = copy
        /\ workers'[w].dataset = seen
    BY <1>8, <1>10
  <2>3. CASE task.kind = "index"
    <3>1. ~Unread(w)'
      BY <2>2, <2>3 DEF Unread
    <3>2. Holds(w, r)' <=> r \in task.rows
      BY <1>6, <2>2, <2>3, <3>1 DEF Holds
    <3>3. r \in task.rows => Writes(w, r)' = Current(r)
      BY <1>6, <2>2, <2>3, <3>1 DEF Writes, Current
    <3> QED
      BY <1>6, <2>3, <3>2, <3>3 DEF Heals
  <2>4. CASE task.kind = "reindex"
    <3>1. Unread(w)' /\ task.rows = RowIds
      BY <1>3, <1>6, <2>2, <2>4 DEF Unread, TaskOK
    <3>2. Holds(w, r)' <=> r \in Live
      BY <1>6, <2>1, <2>2, <2>4, <3>1, NoCopy DEF Holds
    <3>3. r \in Live => Writes(w, r)' = Current(r)
      BY <1>7, <2>1, <2>2, <2>4, <3>1 DEF Writes, Current
    <3> QED
      BY <2>4, <3>1, <3>2, <3>3 DEF Heals
  <2>5. CASE task.kind = "delete"
    <3>1. ~Unread(w)' /\ task.rows \cap Live = {}
      BY <1>3, <2>2, <2>5 DEF Unread, TaskOK
    <3>2. Holds(w, r)' <=> r \in task.rows
      BY <1>6, <2>2, <2>5, <3>1, NoCopy DEF Holds
    <3>3. r \in task.rows => Writes(w, r)' = Current(r)
      BY <2>2, <2>5, <3>1 DEF Writes, Current
    <3> QED
      BY <2>5, <3>1, <3>2, <3>3 DEF Heals
  <2> QED
    BY <1>3, <2>3, <2>4, <2>5
<1> QED
  BY <1>1, <1>2, <1>3, <1>8, <1>10, <1>11, <1>12, <1>13, <1>14

LEMMA StartStep ==
    ASSUME IInv, NEW w \in Workers, Start(w)
    PROVE  IInv'
<1>1. PICK task \in Tasks :
        /\ task \in Coming /\ TaskOK(task)
        /\ queue' \in Seq(Tasks) /\ Len(queue') = Len(queue) - 1
        /\ Coming' \subseteq Coming /\ Coming = Coming' \cup {task}
        /\ workers' \in [Workers -> WorkerTypes]
        /\ workers'[w].task = task
        /\ \A v \in Workers \ {w} : workers'[v] = workers[v]
        /\ w \notin Busy /\ Busy' = Busy \cup {w}
        /\ Cardinality(Busy') = Cardinality(Busy) + 1
        /\ Needed(task) /\ WorkerOK(w)'
        /\ \A r \in RowIds : /\ Holds(w, r)' <=> Heals(task, r)
                             /\ Holds(w, r)' => Writes(w, r)' = Current(r)
        /\ lost' = lost \ MadeGood(task)
        /\ raced' = (raced \ MadeGood(task)) \cup Overlapped(task)
        /\ UNCHANGED <<database, pending, points>>
  BY Started
<1>2. Live' = Live /\ Waiting' = Waiting /\ Busy \subseteq Workers \ {w}
  BY <1>1 DEF database, Live, Waiting, Busy
<1>3. task.rows \subseteq RowIds
  BY DEF Tasks
<1>4. Outstanding' = Outstanding /\ BoundOK' /\ Len(queue') <= MaxTasks
  <2>1. Outstanding' = Cardinality(Busy) + 1 + Cardinality(Waiting) + (Len(queue) - 1)
    BY <1>1, <1>2 DEF Outstanding
  <2>2. /\ Cardinality(Busy) \in Nat /\ Cardinality(Waiting) \in Nat
        /\ Len(queue) \in Nat /\ Len(queue) <= MaxTasks
    BY Sizes DEF IInv, TypeOK
  <2> QED
    BY <1>1, <2>1, <2>2, VectorAssumption DEF Outstanding, IInv, BoundOK
<1>5. lost' \subseteq RowIds /\ raced' \subseteq RowIds
  BY <1>1, <1>3 DEF IInv, TypeOK, Overlapped
<1>6. TypeOK'
  BY <1>1, <1>4, <1>5 DEF IInv, TypeOK, database, WorkerTypes
<1>7. \A v \in Busy : workers'[v].task = workers[v].task
  BY <1>1, <1>2
<1>8. Taken' = Taken \cup {task}
  <2>1. Taken' = {workers'[v].task : v \in Busy'}
    BY DEF Taken
  <2> QED
    BY <1>1, <1>7, <2>1 DEF Taken
<1>9. TasksOK'
  BY <1>1, <1>2, <1>8, IdsKept, TasksKept DEF TasksOK, database
<1>10. ASSUME NEW v \in Busy' PROVE WorkerOK(v)'
  <2>1. CASE v = w
    BY <1>1, <2>1
  <2>2. CASE v # w
    BY <1>1, <1>2, <1>10, <2>2 DEF IInv, WorkersOK, WorkerOK
  <2> QED
    BY <2>1, <2>2
<1>11. RowsOK'
  <2>1. dataset # None
    <3>1. CASE task.kind = "index"
      BY <1>1, <3>1 DEF Needed, TaskOK, IInv, RowsOK
    <3>2. CASE task.kind # "index"
      BY <1>1, <3>2 DEF Needed
    <3> QED
      BY <3>1, <3>2
  <2> QED
    BY <1>1, <1>2, <2>1 DEF IInv, RowsOK, database
<1>12. ASSUME NEW r \in MadeGood(task) PROVE Busy = {} /\ Heals(task, r)
  BY <1>1, <1>12 DEF MadeGood, TaskOK, Heals, Tasks
<1>13. ASSUME NEW r \in RowIds, r \notin raced', NEW v \in Busy,
              r \in workers[v].task.rows
       PROVE  r \notin task.rows
  BY <1>1, <1>13 DEF Overlapped
<1>14. AloneOK'
  <2> SUFFICES ASSUME NEW r \in RowIds \ raced', NEW u \in Busy', NEW v \in Busy',
                      r \in workers'[u].task.rows, r \in workers'[v].task.rows
               PROVE  u = v
    BY DEF AloneOK
  <2>1. CASE u \in Busy /\ v \in Busy
    <3>1. r \notin raced
      BY <1>1, <1>12, <2>1
    <3> QED
      BY <1>7, <2>1, <3>1 DEF IInv, AloneOK
  <2>2. CASE u = w /\ v \in Busy
    BY <1>1, <1>7, <1>13, <2>2
  <2>3. CASE u \in Busy /\ v = w
    BY <1>1, <1>7, <1>13, <2>3
  <2> QED
    BY <1>1, <2>1, <2>2, <2>3
<1>15. ASSUME NEW r \in RowIds
       PROVE  /\ Current(r)' = Current(r)
              /\ OnItsWay(r) => OnItsWay(r)' \/ Heals(task, r)
              /\ \A v \in Busy : Holds(v, r)' <=> Holds(v, r)
              /\ \A v \in Busy : Writes(v, r)' = Writes(v, r)
  <2>1. Current(r)' = Current(r)
    BY <1>1, <1>2 DEF Current, database
  <2>2. OnItsWay(r) => OnItsWay(r)' \/ Heals(task, r)
    BY <1>1, <1>2 DEF OnItsWay, Heals
  <2>3. \A v \in Busy : Unread(v)' <=> Unread(v)
    BY <1>1, <1>2 DEF Unread
  <2>4. \A v \in Busy : Holds(v, r)' <=> Holds(v, r)
    BY <1>1, <1>2, <2>3 DEF Holds
  <2>5. \A v \in Busy : Writes(v, r)' = Writes(v, r)
    BY <1>1, <1>2, <2>3 DEF Writes, database
  <2> QED
    BY <2>1, <2>2, <2>4, <2>5
<1>16. ASSUME NEW r \in RowIds, r \notin lost' \cup raced'
       PROVE  Followed(r)'
  <2>1. CASE Heals(task, r)
    <3>1. Holds(w, r)' /\ Writes(w, r)' = Current(r)'
      BY <1>1, <1>15, <2>1
    <3>2. \A v \in Busy : ~Holds(v, r)
      BY <1>13, <1>16, <2>1, HeldInTask DEF Heals
    <3> QED
      BY <1>1, <1>15, <3>1, <3>2 DEF Followed
  <2>2. CASE ~Heals(task, r)
    <3>1. r \notin lost \cup raced
      BY <1>1, <1>12, <1>16, <2>2
    <3>2. Followed(r)
      BY <3>1 DEF IInv, AllFollowed
    <3>3. CASE OnItsWay(r)
      BY <1>15, <2>2, <3>3 DEF Followed
    <3>4. CASE ~OnItsWay(r)
      <4>1. /\ \A v \in Busy : Holds(v, r) => Writes(v, r) = Current(r)
            /\ (\A v \in Busy : ~Holds(v, r)) => points[r] = Current(r)
        BY <3>2, <3>4 DEF Followed
      <4>2. ~Holds(w, r)'
        BY <1>1, <2>2
      <4>3. \A v \in Busy' : Holds(v, r)' => Writes(v, r)' = Current(r)'
        BY <1>1, <1>15, <4>1, <4>2
      <4>4. (\A v \in Busy' : ~Holds(v, r)') => points'[r] = Current(r)'
        BY <1>1, <1>15, <4>1
      <4> QED
        BY <4>3, <4>4 DEF Followed
    <3> QED
      BY <3>3, <3>4
  <2> QED
    BY <2>1, <2>2
<1>17. ASSUME NEW r \in Live', r \notin lost'
       PROVE  Indexed(r)'
  <2>1. r \in Live /\ r \in RowIds
    BY <1>2, LiveRows DEF IInv
  <2>2. CASE Heals(task, r)
    BY <1>1, <2>1, <2>2 DEF Indexed
  <2>3. CASE ~Heals(task, r)
    <3>1. r \notin lost
      BY <1>1, <1>12, <1>17, <2>3
    <3>2. Indexed(r)
      BY <2>1, <3>1 DEF IInv, AllIndexed
    <3> QED
      BY <1>1, <1>15, <2>1, <2>3, <3>2 DEF Indexed
  <2> QED
    BY <2>2, <2>3
<1> QED
  BY <1>4, <1>6, <1>9, <1>10, <1>11, <1>14, <1>16, <1>17
    DEF IInv, WorkersOK, AllFollowed, AllIndexed

-----------------------------------------------------------------------------
(* Init, and the step that changes nothing.                                *)

LEMMA StutterInv == IInv /\ UNCHANGED vars => IInv'
<1> SUFFICES ASSUME IInv, UNCHANGED vars PROVE IInv'
  OBVIOUS
<1>1. UNCHANGED <<database, pending, queue, workers, points, lost, raced>>
  BY DEF vars, database
<1>2. TypeOK'
  BY <1>1 DEF IInv, TypeOK, database
<1>3. /\ Live' = Live /\ Busy' = Busy /\ Waiting' = Waiting
      /\ Coming' = Coming /\ Taken' = Taken
  BY <1>1 DEF database, Live, Busy, Waiting, Coming, Queued, Announced, Taken
<1>4. BoundOK' /\ AloneOK' /\ RowsOK'
  BY <1>1, <1>3 DEF IInv, BoundOK, Outstanding, AloneOK, RowsOK, database
<1>5. WorkersOK'
  BY <1>1, <1>3 DEF IInv, WorkersOK, WorkerOK
<1>6. TasksOK'
  BY <1>1, <1>3 DEF IInv, TasksOK, TaskOK, database
<1>7. AllFollowed' /\ AllIndexed'
  <2>1. ASSUME NEW r \in RowIds
        PROVE  /\ OnItsWay(r)' <=> OnItsWay(r)
               /\ Current(r)' = Current(r)
               /\ \A w \in Busy : (Holds(w, r)' <=> Holds(w, r)) /\ Writes(w, r)' = Writes(w, r)
    BY <1>1, <1>3 DEF OnItsWay, Heals, Current, Holds, Unread, Writes, database
  <2>2. Live \subseteq RowIds /\ points' = points /\ lost' = lost /\ raced' = raced
    BY <1>1, LiveRows DEF IInv
  <2> QED
    BY <1>3, <2>1, <2>2 DEF IInv, AllFollowed, AllIndexed, Followed, Indexed
<1> QED
  BY <1>2, <1>4, <1>5, <1>6, <1>7 DEF IInv

LEMMA InitIInv == Init => IInv
<1> SUFFICES ASSUME Init PROVE IInv
  OBVIOUS
<1>1. PICK creator \in Requests :
        pending = [q \in Requests |->
                     IF q = creator /\ lastId > 0 THEN Reindex ELSE None]
  BY DEF Init
<1>2. /\ lastId \in 0 .. MaxRows /\ rows \in [1 .. lastId -> Values]
      /\ 1 .. lastId \subseteq RowIds /\ Live = 1 .. lastId
  BY VectorAssumption DEF Init, RowIds, Live
<1>3. rows \in UNION {[R -> Values] : R \in SUBSET RowIds}
  <2>1. 1 .. lastId \in SUBSET RowIds
    BY <1>2
  <2> QED
    BY <1>2, <2>1, RowsType
<1>4. dataset \in Datasets /\ dataset # None
  <2>1. PICK l \in Labels : dataset = [archived |-> FALSE, labels |-> l]
    BY DEF Init
  <2>2. dataset \in Datasets
    BY <2>1 DEF Datasets
  <2> QED
    BY <2>2, NoneAssumption
<1>5. Reindex \in Tasks /\ Reindex # None /\ TaskOK(Reindex)
  BY TasksAre DEF TaskOK, Reindex
<1>6. /\ queue = <<>> /\ workers = [w \in Workers |-> Idle]
      /\ points = [r \in RowIds |-> None]
      /\ lost = {} /\ raced = {}
  BY DEF Init
<1>7. TypeOK
  <2>1. queue \in Seq(Tasks) /\ Len(queue) <= MaxTasks
    BY <1>6, VectorAssumption
  <2>2. pending \in [Requests -> Tasks \cup {None}]
    BY <1>1, <1>5
  <2>3. workers \in [Workers -> WorkerTypes]
    BY <1>6, IdleType
  <2> QED
    BY <1>2, <1>3, <1>4, <1>6, <2>1, <2>2, <2>3 DEF TypeOK, WorkerTypes
<1>8. Busy = {} /\ Taken = {} /\ Queued = {}
  BY <1>6, IdleType DEF Busy, Taken, Queued
<1>9. /\ Waiting \subseteq {creator} /\ Announced \subseteq {Reindex}
      /\ lastId > 0 => Announced = {Reindex}
  BY <1>1, <1>5 DEF Waiting, Announced
<1>10. BoundOK
  <2>1. Cardinality(Busy) = 0
    BY <1>8, FS_EmptySet
  <2>2. Cardinality(Waiting) <= 1
    <3>1. IsFiniteSet({creator}) /\ Cardinality({creator}) = 1
      BY FS_Singleton
    <3> QED
      BY <1>9, <3>1, FS_Subset
  <2>3. Len(queue) = 0 /\ Cardinality(Waiting) \in Nat
    BY <1>6, <1>7, Sizes
  <2> QED
    BY <2>1, <2>2, <2>3, VectorAssumption DEF BoundOK, Outstanding
<1>11. TasksOK
  BY <1>5, <1>8, <1>9 DEF TasksOK, Coming
<1>12. WorkersOK /\ AloneOK
  BY <1>8 DEF WorkersOK, AloneOK
<1>13. RowsOK
  BY <1>2, <1>4 DEF RowsOK
<1>14. \A r \in Live : OnItsWay(r)
  <2>1. ASSUME NEW r \in Live PROVE Reindex \in Coming /\ Heals(Reindex, r)
    BY <1>2, <1>9, <2>1 DEF Coming, Heals, Reindex
  <2> QED
    BY <2>1 DEF OnItsWay
<1>15. AllFollowed /\ AllIndexed
  BY <1>6, <1>8, <1>14 DEF AllFollowed, AllIndexed, Followed, Indexed, Current
<1> QED
  BY <1>7, <1>10, <1>11, <1>12, <1>13, <1>15 DEF IInv

LEMMA NextIInv == IInv /\ [Next]_vars => IInv'
<1> SUFFICES ASSUME IInv, [Next]_vars PROVE IInv'
  OBVIOUS
<1>1. CASE Commit
  <2>1. PICK q \in Requests :
          \/ \E text \in Values : CreateRow(q, text)
          \/ \E r \in Live, text \in Values : PatchRow(q, r, text)
          \/ \E R \in SUBSET Live : DeleteRows(q, R)
          \/ \E l \in Labels : ChangeColumns(q, l)
          \/ Archive(q)
          \/ Restore(q)
    BY <1>1 DEF Commit
  <2>2. dataset \in Datasets \cup {None}
    BY DEF IInv, TypeOK
  <2>3. CASE \E l \in Labels : ChangeColumns(q, l)
    <3>1. dataset' \in Datasets
      BY <2>2, <2>3 DEF ChangeColumns, Active, Datasets
    <3> QED
      BY <2>3, <3>1, ReindexStep DEF ChangeColumns
  <2>4. CASE Archive(q)
    <3>1. dataset' \in Datasets
      BY <2>2, <2>4 DEF Archive, Active, Datasets
    <3> QED
      BY <2>4, <3>1, ReindexStep DEF Archive
  <2>5. CASE Restore(q)
    <3>1. dataset' \in Datasets
      BY <2>2, <2>5 DEF Restore, Active, Datasets
    <3> QED
      BY <2>5, <3>1, ReindexStep DEF Restore
  <2> QED
    BY <2>1, <2>3, <2>4, <2>5, CreateRowStep, PatchRowStep, DeleteRowsStep
<1>2. CASE Silent
  BY <1>2, AttachAssetStep, ReorderColumnsStep, DeleteDatasetStep DEF Silent
<1>3. CASE \E q \in Requests : Callback(q)
  BY <1>3, EnqueueStep, LoseTaskStep DEF Callback
<1>4. CASE \E w \in Workers : Work(w)
  BY <1>4, StartStep, SkipStep, ReadRowsStep, UpsertStep, FailBatchStep,
     DropPointsStep, FailTaskStep DEF Work
<1>5. CASE UNCHANGED vars
  BY <1>5, StutterInv
<1> QED
  BY <1>1, <1>2, <1>3, <1>4, <1>5 DEF Next

-----------------------------------------------------------------------------
(* The theorems.                                                           *)

LEMMA Invariance == Spec => []IInv
<1> QED
  BY InitIInv, NextIInv, PTL DEF Spec

(* The database, the queue, what workers hold and the points keep their    *)
(* shape, and no more tasks are under way than the bound allows.           *)
THEOREM IndexTypeCorrect == Spec => []TypeOK
<1>1. IInv => TypeOK
  BY DEF IInv
<1> QED
  BY <1>1, Invariance, PTL

(* When nothing is left to do, Qdrant holds exactly the current documents  *)
(* of the rows that are neither lost nor raced: nothing is on its way, no  *)
(* worker holds anything, so the point of such a row is right already.     *)
THEOREM IndexIsFresh == Spec => []IndexFresh
<1>1. ASSUME IInv PROVE IndexFresh
  <2> SUFFICES ASSUME Settled, NEW r \in RowIds \ (lost \cup raced)
               PROVE  points[r] = Current(r)
    BY DEF IndexFresh
  <2>1. Coming = {} /\ Busy = {}
    BY DEF Settled, Coming, Queued, Announced
  <2>2. Followed(r)
    BY <1>1 DEF IInv, AllFollowed
  <2> QED
    BY <2>1, <2>2 DEF Followed, OnItsWay
<1> QED
  BY <1>1, Invariance, PTL

(* When nothing is left to do, every live row whose tasks were not lost    *)
(* has a point, raced or not: tasks that delete name rows gone for good.   *)
THEOREM NoLiveRowMissing == Spec => []LiveRowsIndexed
<1>1. ASSUME IInv PROVE LiveRowsIndexed
  <2> SUFFICES ASSUME Settled, NEW r \in Live \ lost
               PROVE  points[r] # None
    BY DEF LiveRowsIndexed
  <2>1. Coming = {} /\ Busy = {}
    BY DEF Settled, Coming, Queued, Announced
  <2>2. Indexed(r)
    BY <1>1 DEF IInv, AllIndexed
  <2> QED
    BY <2>1, <2>2 DEF Indexed, OnItsWay
<1> QED
  BY <1>1, Invariance, PTL

-----------------------------------------------------------------------------
(* The files of assets.                                                    *)

Calls == [phase: {"idle", "saving", "committed", "cleanup"},
          slot: Slots \cup {Nothing}, key: Keys \cup {Nothing},
          todo: SUBSET Files, saved: SUBSET Files]

(* The types; and what there is in columns that are not there: nothing, so *)
(* a column that is added or renamed to their names starts blank.          *)
NoneBlank == \A s \in Slots : type[s[2]] = "none" => cell[s] = Blank
CellsInv ==
    /\ AssetsTypeOK /\ request \in [Clients -> Calls]
    /\ NoneBlank /\ RefsResolve

Saving(c) == request[c].phase = "saving"
Cleaning(c) == request[c].phase \in {"committed", "cleanup"}

(* Files to be deleted, files a request still has to see to, and files an  *)
(* asset names.                                                            *)
Doomed(f) == f \in Pending \/ \E c \in Clients : Cleaning(c) /\ f \in request[c].todo
Held(f) ==
    \E c \in Clients : f \in request[c].todo \/ (Saving(c) /\ f \in request[c].saved)
HasAsset(f) == \E s \in Attached : f \in FilesOf(asset[s])

(* A request is done with its files, or has saved them, or remembers those *)
(* of the asset it has committed.                                          *)
RequestHolds(c) ==
    /\ request[c].key \in used \cup {Nothing}
    /\ request[c].phase = "idle" => request[c] = AtRest
    /\ request[c].phase = "cleanup" => request[c].saved = {}
    /\ request[c].phase = "committed" =>
         /\ request[c].saved \cup request[c].todo # {}
         /\ request[c].saved # {} =>
              /\ request[c].key \in Keys
              /\ request[c].saved \subseteq FilesOf(request[c].key)
    /\ Saving(c) => /\ request[c].saved \subseteq stored
                    /\ request[c].todo \cap stored = {}
RequestsHold == \A c \in Clients : RequestHolds(c)

(* The key of an attach under way is in nobody else's hands, and no other  *)
(* attach is under way: the lock.                                          *)
Fresh ==
    \A c \in Clients : Saving(c) =>
      /\ \A s \in Slots : asset[s] # request[c].key
      /\ \A f \in Files : Doomed(f) => f[1] # request[c].key
      /\ \A d \in Clients \ {c} : request[d].key # request[c].key /\ ~Saving(d)

KeysUsed ==
    /\ \A f \in Files : f \in stored \/ Doomed(f) => f[1] \in used
    /\ \A s \in Attached : asset[s] \in used

(* No asset is at two places, and what is to be deleted belongs to none,   *)
(* unless its attach failed after its commit.                              *)
OneEach == \A s, t \in Attached : asset[s] = asset[t] => s = t
Spared ==
    \A f \in Files, s \in Attached :
        Doomed(f) /\ f[1] = asset[s] => f[1] \in undone

(* Every stored file is named, held, to be retried or forgotten.           *)
Accounted ==
    \A f \in stored : HasAsset(f) \/ f \in Pending \/ Held(f) \/ f \in forgotten

FilesInv == /\ RequestsHold /\ Fresh /\ KeysUsed /\ OneEach /\ Spared
            /\ Accounted /\ AssetsKeepFiles
AssetsInv == CellsInv /\ FilesInv

LEMMA KeyFiles ==
    ASSUME AssetsAssumption, NEW k \in Keys
    PROVE  /\ FilesOf(k) \subseteq Files /\ FilesOf(k) # {}
           /\ \A f \in FilesOf(k) : f[1] = k
<1>1. Named[k] \in {{"original"}, Parts}
  BY DEF AssetsAssumption
<1>2. "original" \in Named[k] /\ Named[k] \subseteq Parts
  BY <1>1 DEF Parts
<1>3. <<k, "original">> \in FilesOf(k)
  BY <1>2 DEF FilesOf
<1>4. FilesOf(k) \subseteq Files /\ \A f \in FilesOf(k) : f[1] = k
  BY <1>2 DEF FilesOf, Files
<1> QED
  BY <1>3, <1>4

LEMMA AttachedAre ==
    ASSUME AssetsInv, NEW s \in Attached
    PROVE  s \in Slots /\ asset[s] \in Keys /\ asset[s] # Nothing
BY DEF AssetsInv, CellsInv, AssetsTypeOK, Attached

(* One request changes: the others are as they were. *)
LEMMA OneRequest ==
    ASSUME AssetsInv, NEW c \in Clients, NEW q \in Calls,
           request' = [request EXCEPT ![c] = q],
           q.phase = "saving" =>
             /\ q.slot \in Slots /\ q.key \in Keys
             /\ q.slot[1] \in present' /\ type'[q.slot[2]] = "asset"
             /\ q.todo \cup q.saved = FilesOf(q.key),
           \A d \in Clients \ {c} : Saving(d) => UNCHANGED <<present, type>>
    PROVE  /\ request' \in [Clients -> Calls] /\ request'[c] = q
           /\ \A d \in Clients \ {c} : request'[d] = request[d]
           /\ DOMAIN request' = Clients
           /\ \A d \in Clients : RequestOK(request[d])'
<1>1. request \in [Clients -> Calls] /\ \A d \in Clients : RequestOK(request[d])
  BY DEF AssetsInv, CellsInv, AssetsTypeOK
<1>2. /\ request' \in [Clients -> Calls] /\ request'[c] = q
      /\ \A d \in Clients \ {c} : request'[d] = request[d]
      /\ DOMAIN request' = Clients
  BY <1>1
<1>3. ASSUME NEW d \in Clients \ {c} PROVE RequestOK(request[d])'
  <2>1. request'[d] = request[d] /\ RequestOK(request[d])
    BY <1>1, <1>2
  <2> QED
    BY <2>1 DEF RequestOK, Saving
<1>4. RequestOK(request[c])'
  BY <1>2 DEF RequestOK, Calls
<1> QED
  BY <1>2, <1>3, <1>4

(* A request that attaches no more hands on what it has: to a callback, to *)
(* the outbox or to nobody; files of its key and doomed ones, no others.   *)
LEMMA HandsOn ==
    ASSUME AssetsAssumption, AssetsInv, NEW c \in Clients, NEW q \in Calls,
           UNCHANGED <<type, present, cell, asset, used>>,
           request' = [request EXCEPT ![c] = q], q.phase # "saving",
           q.key \in {request[c].key, Nothing},
           RequestHolds(c)',
           outbox' \in Seq(Files), stored' \subseteq Files,
           forgotten \subseteq forgotten', forgotten' \subseteq Files,
           undone \subseteq undone', undone' \subseteq Keys,
           \A f \in Pending' \cup q.todo :
             \/ Doomed(f)
             \/ /\ f[1] = request[c].key /\ request[c].key \in Keys
                /\ Saving(c) \/ request[c].key \in undone',
           \A f \in stored' : f \in stored \/ (Saving(c) /\ f[1] = request[c].key),
           \A f \in stored \ stored' : Doomed(f),
           \A f \in stored' :
             IF f \in stored
             THEN f \in Pending \/ f \in request[c].todo
                    \/ (Saving(c) /\ f \in request[c].saved)
                  => f \in Pending' \/ f \in q.todo \/ f \in forgotten'
             ELSE f \in forgotten'
    PROVE  AssetsInv'
<1>1. /\ request' \in [Clients -> Calls] /\ request'[c] = q
      /\ \A d \in Clients \ {c} : request'[d] = request[d]
      /\ DOMAIN request' = Clients
      /\ \A d \in Clients : RequestOK(request[d])'
  BY OneRequest
<1>2. Attached' = Attached
  BY DEF Attached
<1>3. CellsInv'
  BY <1>1, <1>2
    DEF AssetsInv, CellsInv, AssetsTypeOK, NoneBlank, RefsResolve, CellFits
<1>4. /\ AssetsTypeOK /\ request \in [Clients -> Calls] /\ request[c] \in Calls
      /\ RequestsHold /\ Fresh /\ KeysUsed /\ OneEach /\ Spared /\ Accounted
      /\ AssetsKeepFiles
  BY DEF AssetsInv, CellsInv, FilesInv
<1>5. \A d \in Clients : Saving(d)' => d # c /\ Saving(d) /\ ~Saving(c)
  BY <1>1, <1>4 DEF Saving, Fresh
<1>6. ASSUME NEW f \in Files, Doomed(f)'
      PROVE  \/ Doomed(f)
             \/ /\ f[1] = request[c].key /\ request[c].key \in Keys
                /\ Saving(c) \/ request[c].key \in undone'
  <2>1. \/ f \in Pending' \cup q.todo
        \/ \E d \in Clients \ {c} : Cleaning(d) /\ f \in request[d].todo
    BY <1>1, <1>6 DEF Doomed, Cleaning
  <2> QED
    BY <2>1 DEF Doomed
<1>7. request[c].key \in used \cup {Nothing} /\ Nothing \notin Keys /\ used \subseteq Keys
  BY <1>4 DEF RequestsHold, RequestHolds, AssetsAssumption, AssetsTypeOK
<1>8. ASSUME NEW d \in Clients PROVE RequestHolds(d)'
  <2>1. CASE d = c
    BY <2>1
  <2>2. CASE d # c
    <3>1. request'[d] = request[d] /\ RequestHolds(d)
      BY <1>1, <1>4, <2>2 DEF RequestsHold
    <3>2. Saving(d)' <=> Saving(d)
      BY <3>1 DEF Saving
    <3>3. ASSUME Saving(d)
          PROVE  request[d].saved \subseteq stored' /\ request[d].todo \cap stored' = {}
      <4>1. stored' \subseteq stored
        BY <1>5, <3>2, <3>3
      <4>2. request[d].saved \subseteq FilesOf(request[d].key) /\ request[d].key \in Keys
        BY <1>4, <3>3 DEF AssetsTypeOK, RequestOK, Saving
      <4>3. \A f \in request[d].saved : f \in Files /\ f[1] = request[d].key
        BY <4>2, KeyFiles
      <4>4. \A f \in request[d].saved : ~Doomed(f)
        BY <1>4, <3>3, <4>3 DEF Fresh
      <4> QED
        BY <3>1, <3>3, <4>1, <4>4 DEF RequestHolds
    <3> QED
      BY <3>1, <3>2, <3>3 DEF RequestHolds
  <2> QED
    BY <2>1, <2>2
<1>9. Fresh'
  <2> SUFFICES ASSUME NEW d \in Clients, Saving(d)'
               PROVE  /\ \A s \in Slots : asset'[s] # request'[d].key
                      /\ \A f \in Files : Doomed(f)' => f[1] # request'[d].key
                      /\ \A e \in Clients \ {d} :
                           request'[e].key # request'[d].key /\ ~Saving(e)'
    BY DEF Fresh
  <2>1. /\ d # c /\ Saving(d) /\ ~Saving(c) /\ request'[d] = request[d]
        /\ request[c].key # request[d].key
        /\ request[d].key \in Keys
    BY <1>1, <1>4, <1>5 DEF Fresh, AssetsTypeOK, RequestOK, Saving
  <2>2. \A f \in Files : Doomed(f)' => f[1] # request[d].key
    BY <1>4, <1>6, <2>1 DEF Fresh
  <2>3. q.key # request[d].key
    BY <1>7, <2>1
  <2> QED
    BY <1>1, <1>4, <1>5, <2>1, <2>2, <2>3 DEF Fresh
<1>10. KeysUsed'
  <2>1. \A s \in Attached' : asset'[s] \in used'
    BY <1>2, <1>4 DEF KeysUsed
  <2>2. ASSUME NEW f \in Files, f \in stored' \/ Doomed(f)' PROVE f[1] \in used'
    <3>1. f[1] \in Keys
      BY DEF Files
    <3>2. f \in stored \/ Doomed(f) \/ f[1] = request[c].key
      BY <1>6, <2>2
    <3> QED
      BY <1>4, <1>7, <3>1, <3>2 DEF KeysUsed
  <2> QED
    BY <2>1, <2>2 DEF KeysUsed
<1>11. OneEach'
  BY <1>2, <1>4 DEF OneEach
<1>12. Spared'
  <2> SUFFICES ASSUME NEW f \in Files, NEW s \in Attached, Doomed(f)',
                      f[1] = asset[s]
               PROVE  f[1] \in undone'
    BY <1>2 DEF Spared
  <2>1. CASE Doomed(f)
    BY <1>4, <2>1 DEF Spared
  <2>2. CASE ~Doomed(f)
    BY <1>4, <1>6, <2>2, AttachedAre DEF Fresh
  <2> QED
    BY <2>1, <2>2
<1>13. AssetsKeepFiles'
  <2> SUFFICES ASSUME NEW s \in Attached, asset[s] \notin undone',
                      NEW f \in FilesOf(asset[s])
               PROVE  f \in stored'
    BY <1>2 DEF AssetsKeepFiles, FilesOf
  <2>1. asset[s] \in Keys /\ asset[s] \notin undone
    BY AttachedAre
  <2>2. f \in Files /\ f[1] = asset[s]
    BY <2>1, KeyFiles
  <2>3. f \in stored /\ ~Doomed(f)
    BY <1>4, <2>1, <2>2 DEF AssetsKeepFiles, Spared
  <2> QED
    BY <2>3
<1>14. Accounted'
  <2> SUFFICES ASSUME NEW f \in stored'
               PROVE  HasAsset(f) \/ f \in Pending' \/ Held(f)' \/ f \in forgotten'
    BY <1>2 DEF Accounted, HasAsset, FilesOf
  <2>1. q.todo \subseteq {g \in Files : Held(g)'}
    BY <1>1 DEF Held, Calls
  <2>2. CASE f \in stored
    <3>1. HasAsset(f) \/ f \in Pending \/ Held(f) \/ f \in forgotten
      BY <1>4, <2>2 DEF Accounted
    <3>2. CASE Held(f)
      <4>1. PICK d \in Clients :
              f \in request[d].todo \/ (Saving(d) /\ f \in request[d].saved)
        BY <3>2 DEF Held
      <4>2. CASE d = c
        BY <2>1, <2>2, <4>1, <4>2
      <4>3. CASE d # c
        BY <1>1, <4>1, <4>3 DEF Held, Saving
      <4> QED
        BY <4>2, <4>3
    <3> QED
      BY <2>1, <2>2, <3>1, <3>2
  <2> QED
    BY <2>2
<1> QED
  BY <1>3, <1>8, <1>9, <1>10, <1>11, <1>12, <1>13, <1>14
    DEF AssetsInv, FilesInv, RequestsHold

(* What a request goes on with: the files left, or nothing. *)
LEMMA IdleIs ==
    /\ AtRest \in Calls /\ AtRest.phase = "idle" /\ AtRest.key = Nothing
    /\ AtRest.todo = {} /\ AtRest.saved = {}
BY DEF AtRest, Calls

LEMMA CleanupIs ==
    ASSUME NEW todo \in SUBSET Files
    PROVE  /\ Cleanup(todo) \in Calls
           /\ Cleanup(todo).todo = todo /\ Cleanup(todo).saved = {}
           /\ Cleanup(todo).key = Nothing
           /\ IF todo = {} THEN Cleanup(todo) = AtRest
              ELSE Cleanup(todo).phase = "cleanup"
BY IdleIs DEF Cleanup, Calls

LEMMA RequestIs ==
    ASSUME AssetsInv, NEW c \in Clients
    PROVE  /\ request[c] \in Calls /\ request \in [Clients -> Calls]
           /\ RequestHolds(c)
           /\ request[c].todo \in SUBSET Files /\ request[c].saved \in SUBSET Files
           /\ request[c].key \in Keys \cup {Nothing}
BY DEF AssetsInv, CellsInv, FilesInv, RequestsHold, Calls

LEMMA NextIsTodo ==
    ASSUME NEW todo \in SUBSET Files, todo # {}
    PROVE  NextFile(todo) \in todo
<1>1. \E f \in todo : f[2] = "original" \/ \A g \in todo : g[2] # "original"
  OBVIOUS
<1> QED
  BY <1>1 DEF NextFile

(* Of a request that attaches: its files bear its key. *)
LEMMA SavingIs ==
    ASSUME AssetsAssumption, AssetsInv, NEW c \in Clients, Saving(c)
    PROVE  /\ request[c].slot \in Slots /\ request[c].key \in Keys
           /\ request[c].slot[1] \in present
           /\ type[request[c].slot[2]] = "asset"
           /\ request[c].todo \cup request[c].saved = FilesOf(request[c].key)
           /\ \A f \in request[c].todo \cup request[c].saved :
                f \in Files /\ f[1] = request[c].key
           /\ request[c].saved \subseteq stored /\ request[c].todo \cap stored = {}
<1>1. RequestOK(request[c]) /\ RequestHolds(c)
  BY DEF AssetsInv, CellsInv, AssetsTypeOK, FilesInv, RequestsHold
<1>2. /\ request[c].slot \in Slots /\ request[c].key \in Keys
      /\ request[c].slot[1] \in present
      /\ type[request[c].slot[2]] = "asset"
      /\ request[c].todo \cup request[c].saved = FilesOf(request[c].key)
  BY <1>1 DEF RequestOK, Saving
<1>3. \A f \in request[c].todo \cup request[c].saved :
        f \in Files /\ f[1] = request[c].key
  BY <1>2, KeyFiles
<1> QED
  BY <1>1, <1>2, <1>3 DEF RequestHolds

LEMMA StoresAre ==
    ASSUME AssetsInv
    PROVE  /\ stored \subseteq Files /\ outbox \in Seq(Files)
           /\ forgotten \subseteq Files /\ undone \subseteq Keys /\ used \subseteq Keys
           /\ Pending \subseteq Files
BY DEF AssetsInv, CellsInv, AssetsTypeOK, Pending

LEMMA SaveFailsStep ==
    ASSUME AssetsAssumption, AssetsInv, NEW c \in Clients, SaveFails(c)
    PROVE  AssetsInv'
<1>1. PICK f : f = NextFile(request[c].todo)
  OBVIOUS
<1>2. PICK q : q = Cleanup(request[c].saved)
  OBVIOUS
<1>3. /\ Saving(c) /\ request[c].todo # {}
      /\ UNCHANGED <<type, present, cell, asset, used, outbox, undone>>
      /\ \/ stored' = stored /\ forgotten' = forgotten
         \/ stored' = stored \cup {f} /\ forgotten' = forgotten \cup {f}
      /\ request' = [request EXCEPT ![c] = q]
  BY <1>1, <1>2 DEF SaveFails, tables, Saving
<1>4. f \in request[c].todo /\ f \in Files /\ f[1] = request[c].key
  BY <1>1, <1>3, NextIsTodo, RequestIs, SavingIs
<1>5. /\ q \in Calls /\ q.todo = request[c].saved /\ q.saved = {} /\ q.key = Nothing
      /\ IF request[c].saved = {} THEN q = AtRest ELSE q.phase = "cleanup"
      /\ AtRest.phase = "idle"
  BY <1>2, RequestIs, CleanupIs, IdleIs
<1>6. request'[c] = q
  BY <1>3, RequestIs
<1>7. RequestHolds(c)'
  BY <1>5, <1>6 DEF RequestHolds, Saving
<1>8. Pending' = Pending
  BY <1>3 DEF Pending
<1>9. \A g \in Pending' \cup q.todo :
        \/ Doomed(g)
        \/ /\ g[1] = request[c].key /\ request[c].key \in Keys
           /\ Saving(c) \/ request[c].key \in undone'
  BY <1>3, <1>5, <1>8, SavingIs DEF Doomed
<1>10. \A g \in stored' : g \in stored \/ (Saving(c) /\ g[1] = request[c].key)
  BY <1>3, <1>4
<1>11. stored \subseteq stored'
  BY <1>3
<1>12. \A g \in stored' :
         IF g \in stored
         THEN g \in Pending \/ g \in request[c].todo
                \/ (Saving(c) /\ g \in request[c].saved)
              => g \in Pending' \/ g \in q.todo \/ g \in forgotten'
         ELSE g \in forgotten'
  BY <1>3, <1>5, <1>8, SavingIs
<1>13. /\ outbox' \in Seq(Files) /\ stored' \subseteq Files
       /\ forgotten \subseteq forgotten' /\ forgotten' \subseteq Files
       /\ undone \subseteq undone' /\ undone' \subseteq Keys
  BY <1>3, <1>4, StoresAre
<1>14. q.phase # "saving"
  BY <1>5
<1> QED
  BY <1>3, <1>5, <1>7, <1>9, <1>10, <1>11, <1>12, <1>13, <1>14, HandsOn

LEMMA EnqueueFailsStep ==
    ASSUME AssetsAssumption, AssetsInv, NEW c \in Clients, EnqueueFails(c)
    PROVE  AssetsInv'
<1>1. PICK q : q = Cleanup(request[c].saved)
  OBVIOUS
<1>2. /\ request[c].phase = "committed" /\ request[c].todo = {}
      /\ UNCHANGED <<type, present, cell, asset, used, stored, outbox, forgotten>>
      /\ request' = [request EXCEPT ![c] = q]
      /\ undone' = undone \cup {request[c].key}
  BY <1>1 DEF EnqueueFails, tables
<1>3. /\ request[c].saved # {} /\ request[c].key \in Keys
      /\ request[c].saved \subseteq FilesOf(request[c].key)
  BY <1>2, RequestIs DEF RequestHolds
<1>4. /\ q \in Calls /\ q.todo = request[c].saved /\ q.saved = {} /\ q.key = Nothing
      /\ q.phase = "cleanup"
  BY <1>1, <1>3, RequestIs, CleanupIs
<1>5. request'[c] = q
  BY <1>2, RequestIs
<1>6. RequestHolds(c)'
  BY <1>4, <1>5 DEF RequestHolds, Saving
<1>7. Pending' = Pending
  BY <1>2 DEF Pending
<1>8. \A g \in Pending' \cup q.todo :
        \/ Doomed(g)
        \/ /\ g[1] = request[c].key /\ request[c].key \in Keys
           /\ Saving(c) \/ request[c].key \in undone'
  BY <1>2, <1>3, <1>4, <1>7, KeyFiles DEF Doomed
<1>9. \A g \in stored' :
        /\ g \in stored
        /\ g \in Pending \/ g \in request[c].todo
             \/ (Saving(c) /\ g \in request[c].saved)
           => g \in Pending' \/ g \in q.todo \/ g \in forgotten'
  BY <1>2, <1>4, <1>7
<1>10. /\ outbox' \in Seq(Files) /\ stored' \subseteq Files
       /\ forgotten \subseteq forgotten' /\ forgotten' \subseteq Files
       /\ undone \subseteq undone' /\ undone' \subseteq Keys
  BY <1>2, <1>3, StoresAre
<1> QED
  BY <1>2, <1>4, <1>6, <1>8, <1>9, <1>10, HandsOn

LEMMA PutDownStep ==
    ASSUME AssetsAssumption, AssetsInv, NEW c \in Clients,
           TrackMutation(c) \/ Crash(c)
    PROVE  AssetsInv'
<1>1. /\ UNCHANGED <<type, present, cell, asset, used, stored, outbox, undone>>
      /\ request' = [request EXCEPT ![c] = AtRest]
      /\ request[c].phase # "idle"
  BY DEF TrackMutation, Crash, tables
<1>2. /\ AtRest \in Calls /\ AtRest.phase = "idle" /\ AtRest.key = Nothing
      /\ AtRest.todo = {} /\ AtRest.saved = {}
  BY IdleIs
<1>3. request'[c] = AtRest
  BY <1>1, RequestIs
<1>4. RequestHolds(c)'
  BY <1>2, <1>3 DEF RequestHolds, Saving, AtRest
<1>5. Pending' = Pending
  BY <1>1 DEF Pending
<1>6. \A g \in Pending' : Doomed(g)
  BY <1>5 DEF Doomed
<1>7. forgotten \subseteq forgotten' /\ forgotten' \subseteq Files
  BY RequestIs, StoresAre DEF TrackMutation, Crash
<1>8. ASSUME NEW g \in stored,
             g \in request[c].todo \/ (Saving(c) /\ g \in request[c].saved)
      PROVE  g \in forgotten'
  <2>1. CASE TrackMutation(c)
    BY <1>8, <2>1 DEF TrackMutation, Saving
  <2>2. CASE Crash(c) /\ Saving(c)
    BY <1>8, <2>2, SavingIs DEF Crash, Saving
  <2>3. CASE Crash(c) /\ ~Saving(c)
    BY <1>8, <2>3 DEF Crash, Saving
  <2> QED
    BY <2>1, <2>2, <2>3
<1>9. \A g \in stored' :
        /\ g \in stored
        /\ g \in Pending \/ g \in request[c].todo
             \/ (Saving(c) /\ g \in request[c].saved)
           => g \in Pending' \/ g \in AtRest.todo \/ g \in forgotten'
  BY <1>1, <1>5, <1>8
<1>10. /\ outbox' \in Seq(Files) /\ stored' \subseteq Files
       /\ undone \subseteq undone' /\ undone' \subseteq Keys
  BY <1>1, StoresAre
<1> QED
  BY <1>1, <1>2, <1>4, <1>6, <1>7, <1>9, <1>10, HandsOn

(* A deletion that succeeds, or fails and is recorded. *)
LEMMA DeleteStep ==
    ASSUME AssetsAssumption, AssetsInv, NEW c \in Clients, NEW f \in Files,
           DeleteFile(c, f) \/ DeleteFails(c, f)
    PROVE  AssetsInv'
<1> DEFINE rest == request[c].todo \ {f}
<1>1. PICK q : q = IF request[c].phase = "cleanup" THEN Cleanup(rest)
                   ELSE Committed(request[c].key, request[c].saved, rest)
  OBVIOUS
<1>2. /\ Cleaning(c) /\ f \in request[c].todo
      /\ UNCHANGED <<type, present, cell, asset, used, forgotten, undone>>
      /\ request' = [request EXCEPT ![c] = q]
      /\ stored' \in {stored, stored \ {f}}
      /\ outbox' = outbox \/ outbox' = Append(outbox, f)
      /\ f \in stored' => f \in Pending'
  <2>1. request' = [request EXCEPT ![c] = q]
    BY <1>1 DEF DeleteFile, DeleteFails, Finished
  <2>2. ASSUME DeleteFails(c, f) PROVE f \in Pending'
    <3>1. outbox \in Seq(Files)
      BY StoresAre
    <3>2. CASE f \in Pending
      BY <2>2, <3>2 DEF DeleteFails, Pending
    <3>3. CASE f \notin Pending
      <4>1. outbox' = Append(outbox, f)
        BY <2>2, <3>3 DEF DeleteFails
      <4>2. Len(outbox) + 1 \in DOMAIN outbox' /\ outbox'[Len(outbox) + 1] = f
        BY <3>1, <4>1
      <4> QED
        BY <4>2 DEF Pending
    <3> QED
      BY <3>2, <3>3
  <2> QED
    BY <2>1, <2>2 DEF DeleteFile, DeleteFails, tables, Cleaning
<1>3. outbox' \in Seq(Files) /\ Pending \subseteq Pending'
      /\ Pending' \subseteq Pending \cup {f}
  <2>1. outbox \in Seq(Files)
    BY StoresAre
  <2>2. CASE outbox' = outbox
    BY <2>1, <2>2 DEF Pending
  <2>3. CASE outbox' = Append(outbox, f)
    <3>1. Pending = {outbox[n] : n \in 1 .. Len(outbox)}
      BY <2>1 DEF Pending
    <3>2. Pending' = {outbox'[n] : n \in 1 .. Len(outbox')}
      BY <2>1, <2>3 DEF Pending
    <3>3. Pending' = Pending \cup {f}
      BY <2>1, <2>3, <3>1, <3>2, AppendMembers
    <3> QED
      BY <2>1, <2>3, <3>3
  <2> QED
    BY <1>2, <2>2, <2>3
<1>4. /\ rest \in SUBSET Files /\ request[c].saved \in SUBSET Files
      /\ request[c].key \in Keys \cup {Nothing} /\ RequestHolds(c) /\ ~Saving(c)
  BY <1>2, RequestIs DEF Cleaning, Saving
<1>5. request'[c] = q
  BY <1>2, RequestIs
<1>6. /\ q \in Calls /\ q.todo = rest /\ q.phase # "saving"
      /\ q.key \in {request[c].key, Nothing} /\ RequestHolds(c)'
  <2>1. CASE request[c].phase = "cleanup"
    <3>1. q = Cleanup(rest)
      BY <1>1, <2>1
    <3>2. /\ q \in Calls /\ q.todo = rest /\ q.saved = {} /\ q.key = Nothing
          /\ IF rest = {} THEN q = AtRest ELSE q.phase = "cleanup"
      BY <1>4, <3>1, CleanupIs
    <3>3. RequestHolds(c)' /\ q.phase # "saving"
      BY <1>5, <3>2, IdleIs DEF RequestHolds, Saving
    <3> QED
      BY <3>2, <3>3
  <2>2. CASE request[c].phase = "committed"
    <3>1. q = Committed(request[c].key, request[c].saved, rest)
      BY <1>1, <2>2
    <3>2. /\ q \in Calls /\ q.todo = rest /\ q.saved = request[c].saved
          /\ q.key \in {request[c].key, Nothing}
          /\ q = AtRest \/ (q.phase = "committed" /\ q.key = request[c].key)
          /\ q = AtRest <=> request[c].saved \cup rest = {}
      <4> HIDE DEF rest
      <4>1. CASE request[c].saved \cup rest = {}
        <5>1. q = AtRest /\ request[c].saved = {} /\ rest = {}
          BY <3>1, <4>1 DEF Committed
        <5> QED
          BY <4>1, <5>1, IdleIs
      <4>2. CASE request[c].saved \cup rest # {}
        BY <1>4, <3>1, <4>2, IdleIs DEF Committed, Calls
      <4> QED
        BY <4>1, <4>2
    <3>3. q.saved # {} => q.key \in Keys /\ q.saved \subseteq FilesOf(q.key)
      BY <1>4, <2>2, <3>2 DEF RequestHolds
    <3>4. q.key \in used \cup {Nothing}
      BY <1>4, <3>2 DEF RequestHolds
    <3>5. RequestHolds(c)' /\ q.phase # "saving"
      <4>1. CASE q = AtRest
        BY <1>5, <4>1, IdleIs DEF RequestHolds, Saving
      <4>2. CASE q # AtRest
        <5>1. q.phase = "committed" /\ q.saved \cup q.todo # {}
          BY <3>2, <4>2
        <5>2. used' = used /\ \A k : FilesOf(k)' = FilesOf(k)
          BY <1>2 DEF FilesOf
        <5> QED
          BY <1>5, <3>3, <3>4, <5>1, <5>2 DEF RequestHolds, Saving
      <4> QED
        BY <4>1, <4>2
    <3> QED
      BY <3>2, <3>5
  <2> QED
    BY <1>2, <2>1, <2>2 DEF Cleaning
<1>7. Doomed(f) /\ \A g \in Pending' \cup q.todo : Doomed(g)
  BY <1>2, <1>3, <1>6 DEF Doomed
<1>8. \A g \in stored' :
        /\ g \in stored
        /\ g \in Pending \/ g \in request[c].todo
             \/ (Saving(c) /\ g \in request[c].saved)
           => g \in Pending' \/ g \in q.todo \/ g \in forgotten'
  BY <1>2, <1>3, <1>4, <1>6
<1>9. /\ stored' \subseteq Files
      /\ forgotten \subseteq forgotten' /\ forgotten' \subseteq Files
      /\ undone \subseteq undone' /\ undone' \subseteq Keys
  BY <1>2, StoresAre
<1>10. \A g \in stored \ stored' : Doomed(g)
  BY <1>2, <1>7
<1> QED
  BY <1>2, <1>3, <1>6, <1>7, <1>8, <1>9, <1>10, HandsOn

(* The retry command: only doomed files go. *)
LEMMA RetryDeletionStep ==
    ASSUME AssetsAssumption, AssetsInv, NEW f \in Files, RetryDeletion(f)
    PROVE  AssetsInv'
<1>1. PICK n \in DOMAIN outbox :
        /\ outbox[n] = f /\ stored' = stored \ {f}
        /\ outbox' = SubSeq(outbox, 1, n - 1) \o SubSeq(outbox, n + 1, Len(outbox))
        /\ UNCHANGED <<type, present, cell, asset, used, request, forgotten, undone>>
  BY DEF RetryDeletion, tables
<1>2. outbox \in Seq(Files) /\ DOMAIN outbox = 1 .. Len(outbox)
      /\ n \in 1 .. Len(outbox)
  BY <1>1, StoresAre
<1>3. outbox' \in Seq(Files) /\ Len(outbox') = Len(outbox) - 1
      /\ \A m \in 1 .. Len(outbox') :
           outbox'[m] = IF m < n THEN outbox[m] ELSE outbox[m + 1]
  <2>1. /\ SubSeq(outbox, 1, n - 1) \in Seq(Files)
        /\ Len(SubSeq(outbox, 1, n - 1)) = n - 1
        /\ \A m \in 1 .. n - 1 : SubSeq(outbox, 1, n - 1)[m] = outbox[m]
    BY <1>2
  <2>2. /\ SubSeq(outbox, n + 1, Len(outbox)) \in Seq(Files)
        /\ Len(SubSeq(outbox, n + 1, Len(outbox))) = Len(outbox) - n
        /\ \A m \in 1 .. Len(outbox) - n :
             SubSeq(outbox, n + 1, Len(outbox))[m] = outbox[n + m]
    BY <1>2
  <2>3. PICK before, after : /\ before = SubSeq(outbox, 1, n - 1)
                             /\ after = SubSeq(outbox, n + 1, Len(outbox))
    OBVIOUS
  <2>4. /\ before \in Seq(Files) /\ Len(before) = n - 1
        /\ \A m \in 1 .. n - 1 : before[m] = outbox[m]
    BY <2>1, <2>3
  <2>5. /\ after \in Seq(Files) /\ Len(after) = Len(outbox) - n
        /\ \A m \in 1 .. Len(outbox) - n : after[m] = outbox[n + m]
    BY <2>2, <2>3
  <2>6. /\ outbox' \in Seq(Files) /\ Len(outbox') = Len(before) + Len(after)
        /\ \A m \in 1 .. Len(outbox') :
             outbox'[m] = IF m <= Len(before) THEN before[m] ELSE after[m - Len(before)]
    <3>1. PICK both : both = before \o after
      OBVIOUS
    <3>2. both \in Seq(Files) /\ Len(both) = Len(before) + Len(after)
      BY <2>4, <2>5, <3>1, ConcatProperties
    <3>3. \A m \in 1 .. Len(both) :
            both[m] = IF m <= Len(before) THEN before[m] ELSE after[m - Len(before)]
      BY <2>4, <2>5, <3>1
    <3>4. outbox' = both
      BY <1>1, <2>3, <3>1
    <3> QED
      BY <3>2, <3>3, <3>4
  <2>7. Len(outbox) \in Nat /\ n \in Nat /\ Len(outbox') = Len(outbox) - 1
    BY <1>2, <2>4, <2>5, <2>6
  <2>8. ASSUME NEW m \in 1 .. Len(outbox')
        PROVE  outbox'[m] = IF m < n THEN outbox[m] ELSE outbox[m + 1]
    <3>1. CASE m < n
      BY <2>4, <2>6, <2>7, <3>1
    <3>2. CASE m >= n
      <4>1. m - (n - 1) \in 1 .. Len(outbox) - n /\ n + (m - (n - 1)) = m + 1
        BY <2>7, <3>2
      <4>2. outbox'[m] = after[m - (n - 1)]
        BY <2>4, <2>6, <2>7, <3>2
      <4> QED
        BY <2>5, <2>7, <3>2, <4>1, <4>2
    <3> QED
      BY <2>7, <3>1, <3>2
  <2> QED
    BY <2>6, <2>7, <2>8
<1>4. Pending' \subseteq Pending /\ Pending \subseteq Pending' \cup {f}
  <2>1. DOMAIN outbox' = 1 .. Len(outbox')
    BY <1>3
  <2>2. Pending' \subseteq Pending
    BY <1>2, <1>3, <2>1 DEF Pending
  <2>3. ASSUME NEW m \in 1 .. Len(outbox), m # n
        PROVE  \E p \in 1 .. Len(outbox') : outbox'[p] = outbox[m]
    <3>1. CASE m < n
      BY <1>2, <1>3, <3>1
    <3>2. CASE m > n
      <4>1. m - 1 \in 1 .. Len(outbox') /\ ~(m - 1 < n) /\ (m - 1) + 1 = m
        BY <1>2, <1>3, <3>2
      <4> QED
        BY <1>3, <4>1
    <3> QED
      BY <1>2, <2>3, <3>1, <3>2
  <2>4. Pending \subseteq Pending' \cup {f}
    BY <1>1, <1>2, <2>1, <2>3 DEF Pending
  <2> QED
    BY <2>2, <2>4
<1>5. Doomed(f) /\ \A g : Doomed(g)' => Doomed(g)
  BY <1>1, <1>2, <1>4 DEF Doomed, Cleaning, Pending
<1>6. Attached' = Attached
  BY <1>1 DEF Attached
<1>7. CellsInv'
  BY <1>1, <1>3, <1>6 DEF AssetsInv, CellsInv, AssetsTypeOK, RequestOK, NoneBlank,
                          RefsResolve, CellFits, FilesOf
<1>8. ASSUME NEW d \in Clients PROVE RequestHolds(d)'
  <2>1. RequestHolds(d)
    BY RequestIs
  <2>2. Saving(d) => f \notin request[d].saved
    BY <1>5, SavingIs DEF AssetsInv, FilesInv, Fresh
  <2> QED
    BY <1>1, <2>1, <2>2 DEF RequestHolds, Saving, FilesOf
<1>9. Fresh' /\ KeysUsed' /\ OneEach' /\ Spared'
  BY <1>1, <1>5, <1>6
    DEF AssetsInv, FilesInv, Fresh, KeysUsed, OneEach, Spared, Saving
<1>10. AssetsKeepFiles'
  <2> SUFFICES ASSUME NEW s \in Attached, asset[s] \notin undone
               PROVE  FilesOf(asset[s]) \subseteq stored'
    BY <1>1, <1>6 DEF AssetsKeepFiles, FilesOf
  <2>1. f \notin FilesOf(asset[s])
    BY <1>5, AttachedAre, KeyFiles DEF AssetsInv, FilesInv, Spared
  <2> QED
    BY <1>1, <2>1 DEF AssetsInv, FilesInv, AssetsKeepFiles
<1>11. Accounted'
  BY <1>1, <1>4, <1>6
    DEF AssetsInv, FilesInv, Accounted, HasAsset, Held, Saving, FilesOf
<1> QED
  BY <1>7, <1>8, <1>9, <1>10, <1>11 DEF AssetsInv, FilesInv, RequestsHold

-----------------------------------------------------------------------------
(* An attach.                                                              *)

(* While it saves its files: its key stays its own. *)
LEMMA AttachGoesOn ==
    ASSUME AssetsAssumption, AssetsInv, NEW c \in Clients, NEW q \in Calls,
           UNCHANGED <<type, present, cell, asset, outbox, forgotten, undone>>,
           request' = [request EXCEPT ![c] = q],
           q.phase = "saving" /\ q.slot \in Slots /\ q.key \in Keys,
           q.slot[1] \in present /\ type[q.slot[2]] = "asset",
           q.todo \cup q.saved = FilesOf(q.key),
           q.saved \subseteq stored' /\ q.todo \cap stored' = {},
           used \subseteq used' /\ used' \subseteq Keys /\ q.key \in used',
           stored \subseteq stored' /\ stored' \subseteq stored \cup q.saved,
           request[c].todo = {} \/ request[c].todo \subseteq q.todo \cup q.saved,
           request[c].saved \subseteq q.saved,
           ~Cleaning(c),
           \A s \in Slots : asset[s] # q.key,
           \A f \in Files : Doomed(f) => f[1] # q.key,
           \A d \in Clients \ {c} : request[d].key # q.key /\ ~Saving(d)
    PROVE  AssetsInv'
<1>1. /\ request' \in [Clients -> Calls] /\ request'[c] = q
      /\ \A d \in Clients \ {c} : request'[d] = request[d]
      /\ DOMAIN request' = Clients
      /\ \A d \in Clients : RequestOK(request[d])'
  BY OneRequest
<1>2. Attached' = Attached /\ Pending' = Pending
  BY DEF Attached, Pending
<1>3. \A f \in q.saved : f \in Files /\ f[1] = q.key
  BY KeyFiles
<1>4. CellsInv'
  <2>1. stored' \subseteq Files
    BY <1>3, StoresAre
  <2> QED
    BY <1>1, <1>2, <2>1
      DEF AssetsInv, CellsInv, AssetsTypeOK, NoneBlank, RefsResolve, CellFits
<1>5. \A f : Doomed(f)' <=> Doomed(f)
  BY <1>1, <1>2 DEF Doomed, Cleaning
<1>6. ASSUME NEW d \in Clients PROVE RequestHolds(d)'
  <2>1. CASE d = c
    BY <1>1, <2>1 DEF RequestHolds, Saving
  <2>2. CASE d # c
    <3>1. request'[d] = request[d] /\ RequestHolds(d) /\ ~Saving(d)
      BY <1>1, <2>2, RequestIs
    <3> QED
      BY <3>1 DEF RequestHolds, Saving, FilesOf
  <2> QED
    BY <2>1, <2>2
<1>7. Fresh'
  <2> SUFFICES ASSUME NEW d \in Clients, Saving(d)'
               PROVE  /\ \A s \in Slots : asset'[s] # request'[d].key
                      /\ \A f \in Files : Doomed(f)' => f[1] # request'[d].key
                      /\ \A e \in Clients \ {d} :
                           request'[e].key # request'[d].key /\ ~Saving(e)'
    BY DEF Fresh
  <2>1. d = c
    BY <1>1 DEF Saving
  <2> QED
    BY <1>1, <1>5, <2>1 DEF Saving
<1>8. KeysUsed'
  <2>1. ASSUME NEW f \in Files, f \in stored' \/ Doomed(f)' PROVE f[1] \in used'
    BY <1>3, <1>5, <2>1 DEF AssetsInv, FilesInv, KeysUsed
  <2> QED
    BY <1>2, <2>1 DEF AssetsInv, FilesInv, KeysUsed
<1>9. OneEach' /\ Spared'
  BY <1>2, <1>5 DEF AssetsInv, FilesInv, OneEach, Spared
<1>10. AssetsKeepFiles'
  BY <1>2 DEF AssetsInv, FilesInv, AssetsKeepFiles, FilesOf
<1>11. Accounted'
  <2> SUFFICES ASSUME NEW f \in stored'
               PROVE  HasAsset(f) \/ f \in Pending \/ Held(f)' \/ f \in forgotten
    BY <1>2 DEF Accounted, HasAsset, FilesOf
  <2>1. f \in q.todo \cup q.saved => Held(f)'
    BY <1>1 DEF Held, Saving
  <2>2. Held(f) => Held(f)'
    <3> SUFFICES ASSUME NEW d \in Clients,
                        f \in request[d].todo \/ (Saving(d) /\ f \in request[d].saved)
                 PROVE  Held(f)'
      BY DEF Held
    <3>1. CASE d = c
      BY <2>1, <3>1
    <3>2. CASE d # c
      BY <1>1, <3>2 DEF Held, Saving
    <3> QED
      BY <3>1, <3>2
  <2> QED
    BY <2>1, <2>2 DEF AssetsInv, FilesInv, Accounted
<1> QED
  BY <1>4, <1>6, <1>7, <1>8, <1>9, <1>10, <1>11 DEF AssetsInv, FilesInv, RequestsHold

LEMMA BeginAttachStep ==
    ASSUME AssetsAssumption, AssetsInv, NEW c \in Clients, NEW s \in Slots,
           NEW k \in Keys, BeginAttach(c, s, k)
    PROVE  AssetsInv'
<1>1. PICK q : q = [phase |-> "saving", slot |-> s, key |-> k,
                    todo |-> FilesOf(k), saved |-> {}]
  OBVIOUS
<1>2. /\ request[c].phase = "idle" /\ \A d \in Clients : ~Saving(d)
      /\ s[1] \in present /\ type[s[2]] = "asset"
      /\ k \notin used /\ used' = used \cup {k}
      /\ request' = [request EXCEPT ![c] = q]
      /\ UNCHANGED <<type, present, cell, asset, stored, outbox, forgotten, undone>>
  BY <1>1 DEF BeginAttach, tables, Unlocked, Saving
<1>3. /\ q \in Calls /\ q.phase = "saving" /\ q.slot = s /\ q.key = k
      /\ q.todo = FilesOf(k) /\ q.saved = {}
  BY <1>1, KeyFiles DEF Calls
<1>4. request[c].todo = {} /\ request[c].saved = {} /\ ~Cleaning(c)
  BY <1>2, RequestIs, IdleIs DEF RequestHolds, Cleaning
<1>5. \A f \in Files : f \in stored \/ Doomed(f) => f[1] # k
  BY <1>2 DEF AssetsInv, FilesInv, KeysUsed
<1>6. q.todo \cap stored' = {}
  BY <1>2, <1>3, <1>5, KeyFiles
<1>7. k # Nothing
  BY DEF AssetsAssumption
<1>8. \A t \in Slots : asset[t] # k
  BY <1>2, <1>7 DEF AssetsInv, FilesInv, KeysUsed, Attached
<1>9. \A d \in Clients \ {c} : request[d].key # k /\ ~Saving(d)
  BY <1>2, <1>7, RequestIs DEF RequestHolds
<1> QED
  BY <1>2, <1>3, <1>4, <1>5, <1>6, <1>8, <1>9, StoresAre, AttachGoesOn

LEMMA SaveFileStep ==
    ASSUME AssetsAssumption, AssetsInv, NEW c \in Clients, SaveFile(c)
    PROVE  AssetsInv'
<1>1. PICK f : f = NextFile(request[c].todo)
  OBVIOUS
<1>2. PICK q : q = [phase |-> "saving", slot |-> request[c].slot,
                    key |-> request[c].key, todo |-> request[c].todo \ {f},
                    saved |-> request[c].saved \cup {f}]
  OBVIOUS
<1>3. /\ Saving(c) /\ request[c].todo # {} /\ stored' = stored \cup {f}
      /\ request' = [request EXCEPT ![c] = q]
      /\ UNCHANGED <<type, present, cell, asset, used, outbox, forgotten, undone>>
  BY <1>1, <1>2 DEF SaveFile, tables, Saving
<1>4. f \in request[c].todo
  BY <1>1, <1>3, NextIsTodo, RequestIs
<1>5. /\ request[c].slot \in Slots /\ request[c].key \in Keys
      /\ request[c].slot[1] \in present
      /\ type[request[c].slot[2]] = "asset"
      /\ request[c].todo \cup request[c].saved = FilesOf(request[c].key)
      /\ request[c].saved \subseteq stored /\ request[c].todo \cap stored = {}
  BY <1>3, SavingIs
<1>6. /\ q \in Calls /\ q.phase = "saving" /\ q.slot = request[c].slot
      /\ q.key = request[c].key /\ q.todo = request[c].todo \ {f}
      /\ q.saved = request[c].saved \cup {f}
  BY <1>2, <1>4, <1>5, RequestIs DEF Calls
<1>7. q.key \in used
  BY <1>5, <1>6, RequestIs DEF RequestHolds, AssetsAssumption
<1>8. /\ \A s \in Slots : asset[s] # q.key
      /\ \A g \in Files : Doomed(g) => g[1] # q.key
      /\ \A d \in Clients \ {c} : request[d].key # q.key /\ ~Saving(d)
  BY <1>3, <1>6 DEF AssetsInv, FilesInv, Fresh
<1>9. ~Cleaning(c)
  BY <1>3 DEF Saving, Cleaning
<1>10. /\ q.todo \cup q.saved = FilesOf(q.key)
       /\ q.saved \subseteq stored' /\ q.todo \cap stored' = {}
       /\ stored' \subseteq stored \cup q.saved
       /\ request[c].todo \subseteq q.todo \cup q.saved
       /\ request[c].saved \subseteq q.saved
  BY <1>3, <1>4, <1>5, <1>6
<1> QED
  BY <1>3, <1>5, <1>6, <1>7, <1>8, <1>9, <1>10, StoresAre, AttachGoesOn

-----------------------------------------------------------------------------
(* The transactions of one step, and the commit of an attach.              *)

(* The assets there are, by key; and of the database, what has its type,   *)
(* stands in a live row, and resolves.                                     *)
AssetKeys == {asset[s] : s \in Attached}
TableInv ==
    /\ type \in [Columns -> {"asset", "text", "none"}]
    /\ present \subseteq Rows
    /\ cell \in [Slots -> Keys \cup {Blank, Space}]
    /\ asset \in [Slots -> Keys \cup {Nothing}]
    /\ \A s \in Attached : s[1] \in present /\ type[s[2]] # "none"
    /\ NoneBlank /\ RefsResolve

LEMMA TableIs ==
    ASSUME AssetsInv
    PROVE  TableInv
BY DEF AssetsInv, CellsInv, AssetsTypeOK, TableInv

LEMMA AssetKeysAre ==
    ASSUME AssetsAssumption, AssetsInv, NEW k \in AssetKeys
    PROVE  /\ k \in Keys /\ k \in used
           /\ FilesOf(k) \subseteq stored \/ k \in undone
           /\ FilesOf(k) \subseteq Files /\ \A f \in FilesOf(k) : f[1] = k
           /\ \A f \in Files : Doomed(f) /\ f[1] = k => k \in undone
<1>1. PICK s \in Attached : k = asset[s]
  BY DEF AssetKeys
<1>2. k \in Keys
  BY <1>1, AttachedAre
<1> QED
  BY <1>1, <1>2, KeyFiles DEF AssetsInv, FilesInv, KeysUsed, Spared, AssetsKeepFiles

(* What commits names the asset of its own key, and asks for the files of  *)
(* every asset that went.                                                  *)
LEMMA CommitStep ==
    ASSUME AssetsAssumption, AssetsInv, NEW c \in Clients, NEW q \in Calls,
           request' = [request EXCEPT ![c] = q],
           UNCHANGED <<used, stored, outbox, forgotten, undone>>,
           request[c].phase \in {"idle", "saving"}, request[c].todo = {},
           \A d \in Clients \ {c} : ~Saving(d),
           \/ q = AtRest
           \/ /\ q.phase = "committed" /\ q.key = request[c].key
              /\ q.saved \cup q.todo # {},
           q.saved = request[c].saved,
           q.todo = UNION {FilesOf(k) : k \in AssetKeys \ AssetKeys'},
           \A k \in AssetKeys' : k \in AssetKeys \/ (Saving(c) /\ k = request[c].key),
           Saving(c) => request[c].key \in AssetKeys',
           TableInv', OneEach'
    PROVE  AssetsInv'
<1>1. /\ request' \in [Clients -> Calls] /\ request'[c] = q
      /\ \A d \in Clients \ {c} : request'[d] = request[d]
      /\ DOMAIN request' = Clients
      /\ \A d \in Clients : RequestOK(request[d])'
  BY OneRequest, IdleIs
<1>2. \A d \in Clients : ~Saving(d)'
  BY <1>1, IdleIs DEF Saving
<1>3. Pending' = Pending
  BY DEF Pending
<1>4. CellsInv'
  BY <1>1, StoresAre DEF CellsInv, TableInv, AssetsTypeOK
<1>5. \A f \in q.todo : \E k \in AssetKeys \ AssetKeys' : f \in FilesOf(k)
  OBVIOUS
<1>6. \A f \in q.todo : f \in Files /\ f[1] \in AssetKeys \ AssetKeys'
  BY <1>5, AssetKeysAre
<1>7. \A f : Doomed(f)' => Doomed(f) \/ f \in q.todo
  BY <1>1, <1>3 DEF Doomed, Cleaning
<1>8. ASSUME Saving(c)
      PROVE  /\ request[c].key \in Keys /\ request[c].key \in used
             /\ request[c].saved = FilesOf(request[c].key)
             /\ request[c].saved \subseteq stored
             /\ \A f \in Files : Doomed(f) => f[1] # request[c].key
  <2>1. /\ request[c].key \in Keys
        /\ request[c].todo \cup request[c].saved = FilesOf(request[c].key)
        /\ request[c].saved \subseteq stored
    BY <1>8, SavingIs
  <2>2. request[c].key \in used
    BY <2>1, RequestIs DEF RequestHolds, AssetsAssumption
  <2>3. \A f \in Files : Doomed(f) => f[1] # request[c].key
    BY <1>8 DEF AssetsInv, FilesInv, Fresh
  <2> QED
    BY <2>1, <2>2, <2>3
<1>9. \A d \in Clients : RequestHolds(d)'
  <2>1. RequestHolds(c)'
    <3>1. CASE q = AtRest
      BY <1>1, <3>1, IdleIs DEF RequestHolds, Saving
    <3>2. CASE q # AtRest
      <4>1. q.phase = "committed" /\ q.key = request[c].key /\ q.saved \cup q.todo # {}
        BY <3>2
      <4>2. RequestHolds(c)
        BY RequestIs
      <4>3. q.saved # {} => q.key \in Keys /\ q.saved \subseteq FilesOf(q.key)
        <5>1. CASE Saving(c)
          BY <1>8, <4>1, <5>1
        <5>2. CASE request[c].phase = "idle"
          BY <4>2, <5>2, IdleIs DEF RequestHolds
        <5> QED
          BY <5>1, <5>2 DEF Saving
      <4>4. FilesOf(q.key)' = FilesOf(q.key) /\ q.key \in used' \cup {Nothing}
        BY <4>1, <4>2 DEF RequestHolds, FilesOf
      <4> QED
        BY <1>1, <4>1, <4>3, <4>4 DEF RequestHolds, Saving, FilesOf
    <3> QED
      BY <3>1, <3>2
  <2>2. ASSUME NEW d \in Clients \ {c} PROVE RequestHolds(d)'
    BY <1>1, RequestIs DEF RequestHolds, Saving, FilesOf
  <2> QED
    BY <2>1, <2>2
<1>10. Fresh'
  BY <1>2 DEF Fresh
<1>11. \A k \in AssetKeys' : k \in Keys /\ k \in used
  BY <1>8, AssetKeysAre
<1>12. KeysUsed'
  <2>1. ASSUME NEW f \in Files, f \in stored \/ Doomed(f)' PROVE f[1] \in used
    <3>1. CASE f \in q.todo
      BY <1>6, <3>1, AssetKeysAre
    <3>2. CASE f \notin q.todo
      BY <1>7, <2>1, <3>2 DEF AssetsInv, FilesInv, KeysUsed
    <3> QED
      BY <3>1, <3>2
  <2> QED
    BY <1>11, <2>1 DEF KeysUsed, AssetKeys
<1>13. Spared'
  <2>1. ASSUME NEW f \in Files, NEW k \in AssetKeys', Doomed(f)', f[1] = k
        PROVE  k \in undone
    <3>1. Doomed(f)
      BY <1>6, <1>7, <2>1
    <3> QED
      BY <1>8, <2>1, <3>1, AssetKeysAre
  <2> QED
    BY <2>1 DEF Spared, AssetKeys
<1>14. AssetsKeepFiles'
  <2>1. \A k \in AssetKeys' : FilesOf(k) \subseteq stored \/ k \in undone
    BY <1>8, AssetKeysAre
  <2> QED
    BY <2>1 DEF AssetsKeepFiles, AssetKeys, FilesOf
<1>15. Accounted'
  <2>1. \A f : HasAsset(f) <=> \E k \in AssetKeys : f \in FilesOf(k)
    BY DEF HasAsset, AssetKeys
  <2>2. \A f : HasAsset(f)' <=> \E k \in AssetKeys' : f \in FilesOf(k)
    BY DEF HasAsset, AssetKeys, FilesOf
  <2> SUFFICES ASSUME NEW f \in stored
               PROVE  HasAsset(f)' \/ f \in Pending \/ Held(f)' \/ f \in forgotten
    BY <1>3 DEF Accounted
  <2>3. HasAsset(f) \/ f \in Pending \/ Held(f) \/ f \in forgotten
    BY DEF AssetsInv, FilesInv, Accounted
  <2>4. f \in q.todo => Held(f)'
    BY <1>1 DEF Held
  <2>5. HasAsset(f) => HasAsset(f)' \/ f \in q.todo
    BY <2>1, <2>2
  <2>6. ASSUME Held(f) PROVE HasAsset(f)' \/ Held(f)'
    <3>1. PICK d \in Clients :
            f \in request[d].todo \/ (Saving(d) /\ f \in request[d].saved)
      BY <2>6 DEF Held
    <3>2. CASE d = c
      BY <1>8, <2>2, <3>1, <3>2
    <3>3. CASE d # c
      BY <1>1, <3>1, <3>3 DEF Held
    <3> QED
      BY <3>2, <3>3
  <2> QED
    BY <2>3, <2>4, <2>5, <2>6
<1> QED
  BY <1>4, <1>9, <1>10, <1>12, <1>13, <1>14, <1>15 DEF AssetsInv, FilesInv, RequestsHold

(* An edit waits for the lock and begins with nothing to do. *)
LEMMA EditIs ==
    ASSUME AssetsInv, NEW c \in Clients, Edit(c)
    PROVE  /\ request[c] = AtRest /\ \A d \in Clients : ~Saving(d)
           /\ request[c].phase = "idle" /\ request[c].key = Nothing
           /\ request[c].todo = {} /\ request[c].saved = {}
BY RequestIs, IdleIs DEF Edit, Unlocked, Saving, RequestHolds

(* An edit under which no asset goes. *)
LEMMA QuietEdit ==
    ASSUME AssetsAssumption, AssetsInv, NEW c \in Clients, Edit(c),
           UNCHANGED <<used, stored, outbox, request, forgotten, undone>>,
           AssetKeys' \subseteq AssetKeys, AssetKeys \subseteq AssetKeys',
           TableInv', OneEach'
    PROVE  AssetsInv'
<1>1. PICK q : q = AtRest
  OBVIOUS
<1>2. request' = [request EXCEPT ![c] = q]
  BY <1>1, EditIs, RequestIs
<1>3. q.todo = UNION {FilesOf(k) : k \in AssetKeys \ AssetKeys'}
  BY <1>1, IdleIs
<1>4. q \in Calls /\ q.saved = {}
  BY <1>1, IdleIs
<1>5. /\ request[c].phase = "idle" /\ request[c].todo = {} /\ request[c].saved = {}
      /\ \A d \in Clients : ~Saving(d)
  BY EditIs
<1>6. /\ UNCHANGED <<used, stored, outbox, forgotten, undone>>
      /\ ~Saving(c) /\ \A k \in AssetKeys' : k \in AssetKeys
  BY <1>5
<1> QED
  BY <1>1, <1>2, <1>3, <1>4, <1>5, <1>6, CommitStep

LEMMA NewRowStep ==
    ASSUME AssetsAssumption, AssetsInv, NEW c \in Clients, NEW r \in Rows,
           AddRow(c, r)
    PROVE  AssetsInv'
<1>1. /\ r \notin present /\ present' = present \cup {r}
      /\ cell' = [s \in Slots |-> IF s[1] = r THEN Blank ELSE cell[s]]
      /\ UNCHANGED <<type, asset>>
  BY DEF AddRow
<1>2. Attached' = Attached
  BY <1>1 DEF Attached
<1>3. AssetKeys' = AssetKeys /\ OneEach'
  BY <1>1, <1>2 DEF AssetKeys, OneEach, AssetsInv, FilesInv
<1>4. TableInv'
  BY <1>1, <1>2, TableIs DEF TableInv, NoneBlank, RefsResolve, CellFits
<1>5. /\ Edit(c)
      /\ UNCHANGED <<used, stored, outbox, request, forgotten, undone>>
  BY DEF AddRow
<1> QED
  BY <1>3, <1>4, <1>5, QuietEdit

(* A column that is added finds its cells blank. *)
LEMMA AddColumnStep ==
    ASSUME AssetsAssumption, AssetsInv, NEW c \in Clients, NEW col \in Columns,
           NEW t \in {"asset", "text"}, AddColumn(c, col, t)
    PROVE  AssetsInv'
<1>1. /\ Edit(c) /\ type[col] = "none"
      /\ type' = [type EXCEPT ![col] = t]
      /\ UNCHANGED <<present, cell, asset, used, stored, outbox, request,
                     forgotten, undone>>
  BY DEF AddColumn
<1>2. Attached' = Attached
  BY <1>1 DEF Attached
<1>3. AssetKeys' = AssetKeys /\ OneEach'
  BY <1>1, <1>2 DEF AssetKeys, OneEach, AssetsInv, FilesInv
<1>4. \A other \in Columns : type'[other] = IF other = col THEN t ELSE type[other]
  BY <1>1, TableIs DEF TableInv
<1>5. \A s \in Slots : s[1] \in Rows /\ s[2] \in Columns
  BY DEF Slots
<1>6. TableInv'
  BY <1>1, <1>2, <1>4, <1>5, TableIs DEF TableInv, NoneBlank, RefsResolve, CellFits
<1> QED
  BY <1>1, <1>3, <1>6, QuietEdit

(* A column that becomes one of assets has cells that fit. *)
LEMMA RetypeColumnStep ==
    ASSUME AssetsAssumption, AssetsInv, NEW c \in Clients, NEW col \in Columns,
           NEW t \in {"asset", "text"}, RetypeColumn(c, col, t)
    PROVE  AssetsInv'
<1>1. /\ Edit(c) /\ type[col] # "none"
      /\ t = "asset" => \A r \in present : CellFits(<<r, col>>)
      /\ type' = [type EXCEPT ![col] = t]
      /\ UNCHANGED <<present, cell, asset, used, stored, outbox, request,
                     forgotten, undone>>
  BY DEF RetypeColumn
<1>2. Attached' = Attached
  BY <1>1 DEF Attached
<1>3. AssetKeys' = AssetKeys /\ OneEach'
  BY <1>1, <1>2 DEF AssetKeys, OneEach, AssetsInv, FilesInv
<1>4. \A other \in Columns : type'[other] = IF other = col THEN t ELSE type[other]
  BY <1>1, TableIs DEF TableInv
<1>5. \A s \in Slots : s[2] \in Columns /\ s = <<s[1], s[2]>>
  BY DEF Slots
<1>6. /\ type' \in [Columns -> {"asset", "text", "none"}] /\ NoneBlank'
      /\ \A s \in Attached' : s[1] \in present' /\ type'[s[2]] # "none"
  BY <1>1, <1>2, <1>4, <1>5, TableIs DEF TableInv, NoneBlank
<1>7. RefsResolve'
  <2> SUFFICES ASSUME NEW s \in Slots, s[1] \in present, type'[s[2]] = "asset"
               PROVE  CellFits(s)'
    BY <1>1 DEF RefsResolve
  <2>1. CellFits(s)
    <3>1. CASE s[2] = col
      BY <1>1, <1>4, <1>5, <3>1
    <3>2. CASE s[2] # col
      BY <1>4, <1>5, <3>2, TableIs DEF TableInv, RefsResolve
    <3> QED
      BY <3>1, <3>2
  <2> QED
    BY <1>1, <2>1 DEF CellFits
<1>8. TableInv'
  BY <1>1, <1>6, <1>7, TableIs DEF TableInv
<1> QED
  BY <1>1, <1>3, <1>8, QuietEdit

(* A transaction that removes the assets of some slots asks for their      *)
(* files to be deleted.                                                    *)
LEMMA RemoveEdit ==
    ASSUME AssetsAssumption, AssetsInv, NEW c \in Clients, Edit(c),
           NEW slots \in SUBSET Slots,
           UNCHANGED <<used, stored, outbox, forgotten, undone>>,
           asset' = [s \in Slots |-> IF s \in slots THEN Nothing ELSE asset[s]],
           After(c, slots, Nothing, {}),
           TableInv'
    PROVE  AssetsInv'
<1>1. PICK todo : todo = UNION {FilesOf(asset[s]) : s \in slots \cap Attached}
  OBVIOUS
<1>2. PICK q : q = Committed(Nothing, {}, todo)
  OBVIOUS
<1>3. request' = [request EXCEPT ![c] = q]
  BY <1>1, <1>2 DEF After
<1>4. Attached' = Attached \ slots
  BY DEF Attached
<1>5. OneEach'
  BY <1>4 DEF AssetsInv, FilesInv, OneEach, Attached
<1>6. \A s \in Attached' : s \in Attached /\ s \in Slots /\ asset'[s] = asset[s]
  BY <1>4, AttachedAre
<1>7. AssetKeys' \subseteq AssetKeys
  BY <1>6 DEF AssetKeys
<1>8. ASSUME NEW s \in slots \cap Attached PROVE asset[s] \in AssetKeys \ AssetKeys'
  <2>1. asset[s] \in AssetKeys
    BY DEF AssetKeys
  <2>2. ASSUME NEW t \in Attached', asset'[t] = asset[s] PROVE FALSE
    <3>1. t \in Attached /\ asset[t] = asset[s] /\ t \notin slots
      BY <1>4, <1>6, <2>2
    <3>2. t = s
      BY <3>1 DEF AssetsInv, FilesInv, OneEach
    <3> QED
      BY <3>1, <3>2
  <2> QED
    BY <2>1, <2>2 DEF AssetKeys
<1>9. ASSUME NEW k \in AssetKeys \ AssetKeys'
      PROVE  \E s \in slots \cap Attached : k = asset[s]
  <2>1. PICK s \in Attached : k = asset[s]
    BY DEF AssetKeys
  <2>2. s \in slots
    <3> SUFFICES ASSUME s \notin slots PROVE FALSE
      OBVIOUS
    <3>1. s \in Attached' /\ asset'[s] = k
      BY <1>4, <1>6, <2>1
    <3> QED
      BY <3>1 DEF AssetKeys
  <2> QED
    BY <2>1, <2>2
<1>10. todo = UNION {FilesOf(k) : k \in AssetKeys \ AssetKeys'}
  <2>1. ASSUME NEW f PROVE f \in todo <=> \E s \in slots \cap Attached : f \in FilesOf(asset[s])
    BY <1>1
  <2>2. ASSUME NEW f
        PROVE  f \in todo <=> \E k \in AssetKeys \ AssetKeys' : f \in FilesOf(k)
    BY <1>8, <1>9, <2>1
  <2> QED
    BY <2>2
<1>11. todo \in SUBSET Files
  <2>1. \A f \in todo : \E k \in AssetKeys : f \in FilesOf(k)
    BY <1>10
  <2> QED
    BY <2>1, AssetKeysAre
<1>12. /\ q \in Calls /\ q.todo = todo /\ q.saved = {}
       /\ q = AtRest \/ (q.phase = "committed" /\ q.key = Nothing)
       /\ q = AtRest <=> q.saved \cup q.todo = {}
  <2>1. CASE todo = {}
    <3>1. q = AtRest
      BY <1>2, <2>1 DEF Committed
    <3> QED
      BY <2>1, <3>1, IdleIs
  <2>2. CASE todo # {}
    <3>1. q = [phase |-> "committed", slot |-> Nothing, key |-> Nothing,
               todo |-> todo, saved |-> {}]
      BY <1>2, <2>2 DEF Committed
    <3> QED
      BY <1>11, <2>2, <3>1, IdleIs DEF Calls
  <2> QED
    BY <2>1, <2>2
<1>13. /\ request[c].phase = "idle" /\ request[c].key = Nothing
       /\ request[c].todo = {} /\ request[c].saved = {} /\ \A d \in Clients : ~Saving(d)
  BY EditIs
<1> QED
  BY <1>3, <1>5, <1>7, <1>10, <1>12, <1>13, CommitStep

LEMMA PatchCellStep ==
    ASSUME AssetsAssumption, AssetsInv, NEW c \in Clients, NEW s \in Slots,
           NEW v \in Keys \cup {Blank, Space}, PatchCell(c, s, v)
    PROVE  AssetsInv'
<1>1. PICK cleared : cleared = IF type[s[2]] = "asset" /\ v = Blank THEN {s} ELSE {}
  OBVIOUS
<1>2. /\ type[s[2]] # "none" /\ (type[s[2]] = "asset" => v \notin Keys)
      /\ cell' = [cell EXCEPT ![s] = v]
      /\ asset' = [t \in Slots |-> IF t \in cleared THEN Nothing ELSE asset[t]]
      /\ UNCHANGED <<type, present>>
  BY <1>1 DEF PatchCell
<1>3. /\ Edit(c) /\ After(c, cleared, Nothing, {}) /\ cleared \in SUBSET Slots
      /\ UNCHANGED <<used, stored, outbox, forgotten, undone>>
  BY <1>1 DEF PatchCell
<1>4. /\ Attached' \subseteq Attached
      /\ \A t \in Slots : t # s => cell'[t] = cell[t] /\ asset'[t] = asset[t]
      /\ cell'[s] = v
  BY <1>1, <1>2, TableIs DEF Attached, TableInv
<1>5. RefsResolve'
  <2> SUFFICES ASSUME NEW t \in Slots, t[1] \in present, type[t[2]] = "asset"
               PROVE  cell'[t] \in {Blank, Space} \/ cell'[t] = asset'[t]
    BY <1>2 DEF RefsResolve, CellFits
  <2>1. CASE t = s
    BY <1>2, <1>4, <2>1
  <2>2. CASE t # s
    BY <1>4, <2>2, TableIs DEF TableInv, RefsResolve, CellFits
  <2> QED
    BY <2>1, <2>2
<1>6. NoneBlank'
  BY <1>2, <1>4, TableIs DEF TableInv, NoneBlank
<1>7. TableInv'
  BY <1>2, <1>4, <1>5, <1>6, TableIs DEF TableInv
<1> QED
  BY <1>2, <1>3, <1>7, RemoveEdit

(* What deletes a row or a column blanks what it removes. *)
LEMMA RemoveStep ==
    ASSUME AssetsAssumption, AssetsInv, NEW c \in Clients, Edit(c),
           NEW slots \in SUBSET Slots, Remove(c, slots),
           type' \in [Columns -> {"asset", "text", "none"}], present' \subseteq present,
           \A s \in Slots : s \in slots \/ type'[s[2]] = type[s[2]],
           \A s \in Slots : s \in slots => s[1] \notin present' \/ type'[s[2]] = "none",
           \A s \in Slots : s \notin slots /\ s[1] \in present => s[1] \in present'
    PROVE  AssetsInv'
<1>1. /\ asset' = [s \in Slots |-> IF s \in slots THEN Nothing ELSE asset[s]]
      /\ cell' = [s \in Slots |-> IF s \in slots THEN Blank ELSE cell[s]]
      /\ After(c, slots, Nothing, {})
      /\ UNCHANGED <<used, stored, outbox, forgotten, undone>>
  BY DEF Remove
<1>2. \A s \in Attached' : s \in Attached /\ s \notin slots
  BY <1>1 DEF Attached
<1>3. \A s \in Slots : /\ s \in slots => cell'[s] = Blank /\ asset'[s] = Nothing
                       /\ s \notin slots => cell'[s] = cell[s] /\ asset'[s] = asset[s]
  BY <1>1
<1>4. NoneBlank'
  BY <1>3, TableIs DEF TableInv, NoneBlank
<1>5. RefsResolve'
  BY <1>3, TableIs DEF TableInv, RefsResolve, CellFits
<1>6. /\ cell' \in [Slots -> Keys \cup {Blank, Space}]
      /\ asset' \in [Slots -> Keys \cup {Nothing}]
  BY <1>1, TableIs DEF TableInv
<1>7. \A s \in Attached' : s[1] \in present' /\ type'[s[2]] # "none"
  BY <1>2, TableIs, AttachedAre DEF TableInv
<1>8. TableInv'
  BY <1>4, <1>5, <1>6, <1>7, TableIs DEF TableInv
<1> QED
  BY <1>1, <1>8, RemoveEdit

LEMMA DeleteRowStep ==
    ASSUME AssetsAssumption, AssetsInv, NEW c \in Clients, NEW r \in Rows,
           DeleteRow(c, r)
    PROVE  AssetsInv'
<1>1. PICK slots : slots = {r} \X Columns
  OBVIOUS
<1>2. Edit(c) /\ present' = present \ {r} /\ Remove(c, slots) /\ type' = type
  BY <1>1 DEF DeleteRow
<1>3. slots \in SUBSET Slots /\ \A s \in Slots : s \in slots <=> s[1] = r
  BY <1>1 DEF Slots
<1>4. type' \in [Columns -> {"asset", "text", "none"}]
  BY <1>2, TableIs DEF TableInv
<1> QED
  BY <1>2, <1>3, <1>4, RemoveStep

LEMMA DropColumnStep ==
    ASSUME AssetsAssumption, AssetsInv, NEW c \in Clients, NEW col \in Columns,
           DropColumn(c, col)
    PROVE  AssetsInv'
<1>1. PICK slots : slots = Rows \X {col}
  OBVIOUS
<1>2. /\ Edit(c) /\ type' = [type EXCEPT ![col] = "none"] /\ Remove(c, slots)
      /\ present' = present
  BY <1>1 DEF DropColumn
<1>3. slots \in SUBSET Slots /\ \A s \in Slots : s \in slots <=> s[2] = col
  BY <1>1 DEF Slots
<1>4. /\ type' \in [Columns -> {"asset", "text", "none"}]
      /\ \A other \in Columns : type'[other] = IF other = col THEN "none" ELSE type[other]
  BY <1>2, TableIs DEF TableInv
<1>5. \A s \in Slots : s[2] \in Columns
  BY DEF Slots
<1> QED
  BY <1>2, <1>3, <1>4, <1>5, RemoveStep

(* A rename takes what there is in one column to the other, and what there *)
(* is in the other, which is nothing, to the first.                        *)
Moved(s, old, new) ==
    IF s[2] = new THEN <<s[1], old>> ELSE IF s[2] = old THEN <<s[1], new>> ELSE s

LEMMA MovedIs ==
    ASSUME NEW s \in Slots, NEW old \in Columns, NEW new \in Columns
    PROVE  /\ Moved(s, old, new) \in Slots /\ Moved(s, old, new)[1] = s[1]
           /\ Moved(Moved(s, old, new), old, new) = s
           /\ Moved(s, old, new)[2] = IF s[2] = new THEN old
                                      ELSE IF s[2] = old THEN new ELSE s[2]
<1>1. s = <<s[1], s[2]>> /\ s[1] \in Rows /\ s[2] \in Columns
  BY DEF Slots
<1> QED
  BY <1>1 DEF Moved, Slots

LEMMA RenameColumnStep ==
    ASSUME AssetsAssumption, AssetsInv, NEW c \in Clients, NEW old \in Columns,
           NEW new \in Columns, RenameColumn(c, old, new)
    PROVE  AssetsInv'
<1> DEFINE to(s) == Moved(s, old, new)
<1>1. /\ type[old] # "none" /\ type[new] = "none"
      /\ type' = [type EXCEPT ![new] = type[old], ![old] = "none"]
      /\ UNCHANGED present
  BY DEF RenameColumn
<1>2. Edit(c) /\ UNCHANGED <<used, stored, outbox, request, forgotten, undone>>
  BY DEF RenameColumn
<1>3. \A s \in Slots : cell'[s] = cell[to(s)] /\ asset'[s] = asset[to(s)]
  BY DEF RenameColumn, Moved
<1>4. \A s \in Slots : to(s) \in Slots /\ to(s)[1] = s[1] /\ to(to(s)) = s
  BY MovedIs
<1>5. /\ type' \in [Columns -> {"asset", "text", "none"}]
      /\ \A col \in Columns :
           type'[col] = IF col = new THEN type[old] ELSE IF col = old THEN "none" ELSE type[col]
  BY <1>1, TableIs DEF TableInv
<1>6. \A s \in Slots : type'[s[2]] = type[to(s)[2]]
  <2> SUFFICES ASSUME NEW s \in Slots PROVE type'[s[2]] = type[to(s)[2]]
    OBVIOUS
  <2>1. s[2] \in Columns
    BY DEF Slots
  <2>2. to(s)[2] = IF s[2] = new THEN old ELSE IF s[2] = old THEN new ELSE s[2]
    BY MovedIs
  <2> QED
    BY <1>1, <1>5, <2>1, <2>2
<1> HIDE DEF to
<1>7. \A s : s \in Attached' <=> s \in Slots /\ to(s) \in Attached
  BY <1>3, <1>4 DEF Attached
<1>8. AssetKeys' \subseteq AssetKeys
  BY <1>3, <1>4, <1>7 DEF AssetKeys, Attached
<1>9. AssetKeys \subseteq AssetKeys'
  <2> SUFFICES ASSUME NEW s \in Attached PROVE asset[s] \in AssetKeys'
    BY DEF AssetKeys
  <2>1. to(s) \in Attached' /\ asset'[to(s)] = asset[s]
    BY <1>3, <1>4, <1>7, AttachedAre
  <2> QED
    BY <2>1 DEF AssetKeys
<1>10. OneEach'
  <2> SUFFICES ASSUME NEW s \in Attached', NEW t \in Attached', asset'[s] = asset'[t]
               PROVE  s = t
    BY DEF OneEach
  <2>1. /\ to(s) \in Attached /\ to(t) \in Attached
        /\ asset[to(s)] = asset[to(t)] /\ s \in Slots /\ t \in Slots
    BY <1>3, <1>7
  <2>2. to(s) = to(t)
    BY <2>1 DEF AssetsInv, FilesInv, OneEach
  <2> QED
    BY <1>4, <2>1, <2>2
<1>11. /\ cell' \in [Slots -> Keys \cup {Blank, Space}]
       /\ asset' \in [Slots -> Keys \cup {Nothing}]
  <2>1. /\ \A s \in Slots : cell'[s] \in Keys \cup {Blank, Space}
        /\ \A s \in Slots : asset'[s] \in Keys \cup {Nothing}
    BY <1>3, <1>4, TableIs DEF TableInv
  <2>2. cell' = [s \in Slots |-> cell'[s]] /\ asset' = [s \in Slots |-> asset'[s]]
    BY DEF RenameColumn
  <2> QED
    BY <2>1, <2>2
<1>12. /\ \A s \in Attached' : s[1] \in present' /\ type'[s[2]] # "none"
       /\ NoneBlank' /\ RefsResolve'
  <2>1. /\ \A s \in Attached : s[1] \in present /\ type[s[2]] # "none"
        /\ NoneBlank /\ RefsResolve
    BY TableIs DEF TableInv
  <2>2. \A s \in Attached' : s[1] \in present' /\ type'[s[2]] # "none"
    BY <1>1, <1>4, <1>6, <1>7, <2>1
  <2>3. NoneBlank'
    BY <1>3, <1>4, <1>6, <2>1 DEF NoneBlank
  <2>4. RefsResolve'
    BY <1>1, <1>3, <1>4, <1>6, <2>1 DEF RefsResolve, CellFits
  <2> QED
    BY <2>2, <2>3, <2>4
<1>13. TableInv'
  BY <1>1, <1>5, <1>11, <1>12, TableIs DEF TableInv
<1> QED
  BY <1>2, <1>8, <1>9, <1>10, <1>13, QuietEdit

(* The commit of an attach: its asset takes the place of the one before,   *)
(* whose files are to go.                                                  *)
LEMMA CommitAttachStep ==
    ASSUME AssetsAssumption, AssetsInv, NEW c \in Clients, CommitAttach(c)
    PROVE  AssetsInv'
<1>1. PICK s, k, saved : /\ s = request[c].slot /\ k = request[c].key
                         /\ saved = request[c].saved
  OBVIOUS
<1>2. PICK todo : todo = UNION {FilesOf(asset[t]) : t \in {s} \cap Attached}
  OBVIOUS
<1>3. PICK q : q = Committed(k, saved, todo)
  OBVIOUS
<1>4. /\ Saving(c) /\ request[c].todo = {}
      /\ asset' = [asset EXCEPT ![s] = k] /\ cell' = [cell EXCEPT ![s] = k]
      /\ request' = [request EXCEPT ![c] = q]
      /\ UNCHANGED <<type, present>>
  BY <1>1, <1>2, <1>3 DEF CommitAttach, After, Saving
<1>5. UNCHANGED <<used, stored, outbox, forgotten, undone>>
  BY DEF CommitAttach
<1>6. /\ s \in Slots /\ k \in Keys /\ k # Nothing
      /\ s[1] \in present /\ type[s[2]] = "asset"
      /\ saved = FilesOf(k)
  <2>1. /\ s \in Slots /\ k \in Keys
        /\ s[1] \in present /\ type[s[2]] = "asset"
        /\ request[c].todo \cup saved = FilesOf(k)
    BY <1>1, <1>4, SavingIs
  <2>2. k # Nothing
    BY <2>1 DEF AssetsAssumption
  <2> QED
    BY <1>4, <2>1, <2>2
<1>7. /\ \A t \in Slots : asset[t] # k
      /\ \A d \in Clients \ {c} : ~Saving(d)
  BY <1>1, <1>4 DEF AssetsInv, FilesInv, Fresh
<1>8. \A t \in Slots : /\ asset'[t] = IF t = s THEN k ELSE asset[t]
                       /\ cell'[t] = IF t = s THEN k ELSE cell[t]
  BY <1>4, TableIs DEF TableInv
<1>9. Attached' = Attached \cup {s}
  BY <1>6, <1>8 DEF Attached
<1>10. OneEach'
  BY <1>6, <1>7, <1>8, <1>9 DEF AssetsInv, FilesInv, OneEach, Attached
<1>11. TableInv'
  <2>1. RefsResolve'
    BY <1>4, <1>8, TableIs DEF TableInv, RefsResolve, CellFits
  <2>2. NoneBlank'
    BY <1>4, <1>6, <1>8, TableIs DEF TableInv, NoneBlank
  <2>3. /\ cell' \in [Slots -> Keys \cup {Blank, Space}]
        /\ asset' \in [Slots -> Keys \cup {Nothing}]
    BY <1>4, <1>6, TableIs DEF TableInv
  <2> QED
    BY <1>4, <1>6, <1>9, <2>1, <2>2, <2>3, TableIs DEF TableInv
<1>12. \A j \in AssetKeys' : j \in AssetKeys \/ j = k
  BY <1>6, <1>8, <1>9 DEF AssetKeys, Attached
<1>13. k \in AssetKeys'
  BY <1>6, <1>8, <1>9 DEF AssetKeys
<1>14. ASSUME NEW j
       PROVE  j \in AssetKeys \ AssetKeys' <=> s \in Attached /\ j = asset[s]
  <2>1. ASSUME j \in AssetKeys, j \notin AssetKeys' PROVE s \in Attached /\ j = asset[s]
    <3>1. PICK t \in Attached : j = asset[t]
      BY <2>1 DEF AssetKeys
    <3>2. t = s
      <4> SUFFICES ASSUME t # s PROVE FALSE
        OBVIOUS
      <4>1. t \in Attached' /\ asset'[t] = j
        BY <1>8, <1>9, <3>1, AttachedAre
      <4> QED
        BY <2>1, <4>1 DEF AssetKeys
    <3> QED
      BY <3>1, <3>2
  <2>2. ASSUME s \in Attached, j = asset[s] PROVE j \in AssetKeys /\ j \notin AssetKeys'
    <3>1. j \in AssetKeys
      BY <2>2 DEF AssetKeys
    <3>2. ASSUME NEW t \in Attached', asset'[t] = j PROVE FALSE
      <4>1. t # s
        BY <1>6, <1>7, <1>8, <2>2, <3>2
      <4>2. t \in Attached /\ asset[t] = asset[s]
        BY <1>8, <1>9, <2>2, <3>2, <4>1, AttachedAre
      <4> QED
        BY <2>2, <4>1, <4>2 DEF AssetsInv, FilesInv, OneEach
    <3> QED
      BY <3>1, <3>2 DEF AssetKeys
  <2> QED
    BY <2>1, <2>2
<1>15. todo = UNION {FilesOf(j) : j \in AssetKeys \ AssetKeys'}
  <2>1. ASSUME NEW f PROVE f \in todo <=> s \in Attached /\ f \in FilesOf(asset[s])
    BY <1>2
  <2>2. ASSUME NEW f
        PROVE  f \in todo <=> \E j \in AssetKeys \ AssetKeys' : f \in FilesOf(j)
    BY <1>14, <2>1
  <2> QED
    BY <2>2
<1>16. todo \in SUBSET Files
  <2>1. \A f \in todo : \E j \in AssetKeys : f \in FilesOf(j)
    BY <1>15
  <2> QED
    BY <2>1, AssetKeysAre
<1>17. saved \in SUBSET Files /\ saved # {}
  BY <1>6, KeyFiles
<1>18. /\ q \in Calls /\ q.phase = "committed" /\ q.key = k
       /\ q.saved = saved /\ q.todo = todo
  <2>1. q = [phase |-> "committed", slot |-> Nothing, key |-> k, todo |-> todo,
             saved |-> saved]
    BY <1>3, <1>17 DEF Committed
  <2> QED
    BY <1>6, <1>16, <1>17, <2>1 DEF Calls
<1>19. /\ request[c].phase \in {"idle", "saving"} /\ q.saved \cup q.todo # {}
       /\ q.saved = request[c].saved /\ q.key = request[c].key
       /\ \A j \in AssetKeys' : j \in AssetKeys \/ (Saving(c) /\ j = request[c].key)
       /\ Saving(c) => request[c].key \in AssetKeys'
  BY <1>1, <1>4, <1>12, <1>13, <1>17, <1>18 DEF Saving
<1> QED
  BY <1>4, <1>5, <1>7, <1>10, <1>11, <1>15, <1>18, <1>19, CommitStep

-----------------------------------------------------------------------------
LEMMA InitAssetsInv ==
    ASSUME AssetsAssumption, AssetsInit
    PROVE  AssetsInv
<1>1. /\ type \in [Columns -> {"asset", "none"}] /\ present = {}
      /\ cell = [s \in Slots |-> Blank] /\ asset = [s \in Slots |-> Nothing]
      /\ used = {} /\ stored = {} /\ outbox = <<>> /\ forgotten = {} /\ undone = {}
      /\ request = [c \in Clients |-> AtRest]
  BY DEF AssetsInit
<1>2. request \in [Clients -> Calls] /\ \A c \in Clients : request[c] = AtRest
  BY <1>1, IdleIs
<1>3. Attached = {} /\ Pending = {}
  BY <1>1 DEF Attached, Pending
<1>4. \A c \in Clients : RequestOK(request[c])
  BY <1>2, IdleIs DEF RequestOK, Calls
<1>5. AssetsTypeOK
  <2>1. outbox \in Seq(Files) /\ type \in [Columns -> {"asset", "text", "none"}]
    BY <1>1
  <2>2. /\ cell \in [Slots -> Keys \cup {Blank, Space}]
        /\ asset \in [Slots -> Keys \cup {Nothing}]
    BY <1>1
  <2>3. DOMAIN request = Clients
    BY <1>2
  <2> QED
    BY <1>1, <1>3, <1>4, <2>1, <2>2, <2>3 DEF AssetsTypeOK
<1>6. NoneBlank /\ RefsResolve
  BY <1>1 DEF NoneBlank, RefsResolve
<1>7. \A c \in Clients : RequestHolds(c) /\ ~Saving(c) /\ ~Cleaning(c)
  BY <1>2, IdleIs DEF RequestHolds, Saving, Cleaning
<1>8. \A f : ~Doomed(f)
  BY <1>3, <1>7 DEF Doomed
<1>9. FilesInv
  BY <1>1, <1>3, <1>7, <1>8
    DEF FilesInv, RequestsHold, Fresh, KeysUsed, OneEach, Spared, Accounted,
        AssetsKeepFiles
<1> QED
  BY <1>2, <1>5, <1>6, <1>9 DEF AssetsInv, CellsInv

LEMMA StutterAssetsInv ==
    ASSUME AssetsInv, UNCHANGED assetsVars
    PROVE  AssetsInv'
<1>1. UNCHANGED <<type, present, cell, asset, used, stored, outbox, request,
                  forgotten, undone>>
  BY DEF assetsVars
<1>2. Attached' = Attached /\ Pending' = Pending
  BY <1>1 DEF Attached, Pending
<1>3. CellsInv'
  BY <1>1, <1>2 DEF AssetsInv, CellsInv, AssetsTypeOK, RequestOK, FilesOf, NoneBlank,
                    RefsResolve, CellFits
<1>4. \A f : Doomed(f)' <=> Doomed(f)
  BY <1>1, <1>2 DEF Doomed, Cleaning
<1>5. RequestsHold'
  BY <1>1 DEF AssetsInv, FilesInv, RequestsHold, RequestHolds, Saving, FilesOf
<1>6. Fresh' /\ KeysUsed' /\ OneEach' /\ Spared' /\ AssetsKeepFiles'
  BY <1>1, <1>2, <1>4
    DEF AssetsInv, FilesInv, Fresh, KeysUsed, OneEach, Spared, Saving,
        AssetsKeepFiles, FilesOf
<1>7. Accounted'
  BY <1>1, <1>2
    DEF AssetsInv, FilesInv, Accounted, HasAsset, Held, Saving, FilesOf
<1> QED
  BY <1>3, <1>5, <1>6, <1>7 DEF AssetsInv, FilesInv

LEMMA NextAssetsInv ==
    ASSUME AssetsAssumption, AssetsInv, [AssetsNext]_assetsVars
    PROVE  AssetsInv'
<1>1. CASE UNCHANGED assetsVars
  BY <1>1, StutterAssetsInv
<1>2. ASSUME NEW f \in Files, RetryDeletion(f) PROVE AssetsInv'
  BY <1>2, RetryDeletionStep
<1>3. ASSUME NEW c \in Clients, Operation(c) PROVE AssetsInv'
  <2>1. ASSUME NEW s \in Slots, NEW k \in Keys, BeginAttach(c, s, k) PROVE AssetsInv'
    BY <2>1, BeginAttachStep
  <2>2. ASSUME NEW r \in Rows, AddRow(c, r) \/ DeleteRow(c, r) PROVE AssetsInv'
    BY <2>2, NewRowStep, DeleteRowStep
  <2>3. ASSUME NEW s \in Slots, NEW v \in Keys \cup {Blank, Space},
               PatchCell(c, s, v)
        PROVE  AssetsInv'
    BY <2>3, PatchCellStep
  <2>4. ASSUME NEW col \in Columns, DropColumn(c, col) PROVE AssetsInv'
    BY <2>4, DropColumnStep
  <2>5. ASSUME NEW col \in Columns, NEW t \in {"asset", "text"},
               AddColumn(c, col, t) \/ RetypeColumn(c, col, t)
        PROVE  AssetsInv'
    BY <2>5, AddColumnStep, RetypeColumnStep
  <2>6. ASSUME NEW old \in Columns, NEW new \in Columns, RenameColumn(c, old, new)
        PROVE  AssetsInv'
    BY <2>6, RenameColumnStep
  <2> QED
    BY <1>3, <2>1, <2>2, <2>3, <2>4, <2>5, <2>6 DEF Operation
<1>4. ASSUME NEW c \in Clients, Proceed(c) PROVE AssetsInv'
  <2>1. CASE SaveFile(c)
    BY <2>1, SaveFileStep
  <2>2. CASE SaveFails(c)
    BY <2>2, SaveFailsStep
  <2>3. CASE CommitAttach(c)
    BY <2>3, CommitAttachStep
  <2>4. ASSUME NEW f \in Files, DeleteFile(c, f) \/ DeleteFails(c, f)
        PROVE  AssetsInv'
    BY <2>4, DeleteStep
  <2>5. CASE TrackMutation(c)
    BY <2>5, PutDownStep
  <2>6. CASE EnqueueFails(c)
    BY <2>6, EnqueueFailsStep
  <2> QED
    BY <1>4, <2>1, <2>2, <2>3, <2>4, <2>5, <2>6 DEF Proceed
<1>5. ASSUME NEW c \in Clients, Crash(c) PROVE AssetsInv'
  BY <1>5, PutDownStep
<1> QED
  BY <1>1, <1>2, <1>3, <1>4, <1>5 DEF AssetsNext

LEMMA AssetsInvariance ==
    AssetsSpec => []AssetsInv
<1>1. AssetsInit => AssetsInv
  BY InitAssetsInv, AssetsAssumption
<1>2. AssetsInv /\ [AssetsNext]_assetsVars => AssetsInv'
  BY NextAssetsInv, AssetsAssumption
<1> QED
  BY <1>1, <1>2, PTL DEF AssetsSpec

(* Rows, cells, assets, the store, the outbox and what requests hold have  *)
(* their types; an asset stands in a live row and in a column there is.    *)
THEOREM AssetsTypeCorrect ==
    AssetsSpec => []AssetsTypeOK
<1>1. AssetsInv => AssetsTypeOK
  BY DEF AssetsInv, CellsInv
<1> QED
  BY <1>1, AssetsInvariance, PTL

(* The reference a cell of an asset column holds is that of the asset of   *)
(* its row and column, through every rename, retype, patch and drop        *)
(* (validate_row_data_for_dataset, _validate_existing_image_values).       *)
THEOREM ReferencesResolve ==
    AssetsSpec => []RefsResolve
<1>1. AssetsInv => RefsResolve
  BY DEF AssetsInv, CellsInv
<1> QED
  BY <1>1, AssetsInvariance, PTL

(* No file in the object store is forgotten: an asset names it, a request  *)
(* holds it, or it waits for the retry command; what a crash or an unclear *)
(* failure of the store leaves behind is the exception, and the only one.  *)
THEOREM NoFileForgotten ==
    AssetsSpec => []FilesAccountedFor
<1>1. ASSUME AssetsInv PROVE FilesAccountedFor
  <2> SUFFICES ASSUME NEW f \in stored
               PROVE  f \in Owned \cup Pending \cup InHand \cup forgotten
    BY DEF FilesAccountedFor
  <2>1. HasAsset(f) => f \in Owned
    BY DEF HasAsset, Owned
  <2>2. Held(f) => f \in InHand
    BY DEF Held, InHand
  <2> QED
    BY <1>1, <2>1, <2>2 DEF AssetsInv, FilesInv, Accounted
<1> QED
  BY <1>1, AssetsInvariance, PTL

(* No deletion, whether by callback, by cleanup or by retry, ever takes a  *)
(* file of an asset there is, but for the cleanup of an attach whose       *)
(* callback failed after its commit.                                       *)
THEOREM FilesOutliveDeletions ==
    AssetsSpec => []AssetsKeepFiles
<1>1. AssetsInv => AssetsKeepFiles
  BY DEF AssetsInv, FilesInv
<1> QED
  BY <1>1, AssetsInvariance, PTL

=============================================================================
