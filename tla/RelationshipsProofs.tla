------------------------ MODULE RelationshipsProofs -------------------------
(***************************************************************************)
(* Proofs about Relationships, for every number of requests and rows and   *)
(* all cell values.  The inductive invariant says of each open transaction *)
(* what its checks have established so far, and which of it still holds    *)
(* now: all of it while no transaction on the other dataset has been open, *)
(* and of the settled references in any case.                              *)
(***************************************************************************)
EXTENDS Relationships, TLAPS

(* No transaction has come between, and trimming is unambiguous.           *)
Clear == TrimsAgree /\ ~overlapped

OpenOK(p) ==
    /\ tx[p].stage # "idle" => holder[tx[p].side] = p
    /\ tx[p].stage = "locked" => tx[p] = Opened(tx[p].side)

SourceOK(p) ==
    LET t == tx[p]
    IN  /\ t.side = "source" /\ t.stage = "related" =>
             t.relation = "kept" /\ t.row \in SourceRows
        /\ t.side = "source" /\ t.stage = "ready" =>
             /\ t.relation = "kept" => t.row \in SourceRows
             /\ t.relation # "kept" => t.row = None
             /\ Clear /\ t.relation = "kept" /\ relation = "enforced" =>
                  t.value \in AssetRefs \/ Resolves(t.value)
             /\ Clear /\ t.relation = "enforced" =>
                  \A s \in SourceRows : Resolves(refs[s])

TargetOK(p) ==
    LET t == tx[p]
        checked == t.gone \ t.unchecked
    IN  /\ t.side = "target" /\ t.stage = "ready" => t.gone = {}
        /\ t.side = "target" /\ t.stage \in {"selected", "incoming"} =>
             /\ Clear /\ relation = "enforced" =>
                  \A s \in Present : Strip[refs[s]] \notin checked
             /\ TrimsAgree =>
                  \A s \in settled : Strip[refs[s]] \notin checked
        /\ t.side = "target" /\ t.stage = "incoming" =>
             /\ Clear /\ relation = "enforced" => t.enforced
             /\ settled # {} => t.enforced

SettledOK ==
    /\ settled # {} => relation = "enforced" /\ holder["target"] # None
    /\ \A s \in settled : refs[s] # None /\ Strip[refs[s]] \in targets

OverlapOK == ~overlapped => holder["source"] = None \/ holder["target"] = None

IInv ==
    /\ TypeOK
    /\ \A p \in Requests : OpenOK(p) /\ SourceOK(p) /\ TargetOK(p)
    /\ SettledOK
    /\ OverlapOK
    /\ IntegrityWithoutOverlap

-----------------------------------------------------------------------------
LEMMA InitIInv == Init => IInv
  <1> SUFFICES ASSUME Init PROVE IInv
    OBVIOUS
  <1>1. TypeOK
    BY CellsAssumption DEF Init, TypeOK, Transaction, Idle, Sides
  <1>2. \A p \in Requests : OpenOK(p) /\ SourceOK(p) /\ TargetOK(p)
    BY DEF Init, OpenOK, SourceOK, TargetOK, Idle
  <1>3. SettledOK /\ OverlapOK /\ IntegrityWithoutOverlap
    BY DEF Init, SettledOK, OverlapOK, IntegrityWithoutOverlap, Sides
  <1> QED
    BY <1>1, <1>2, <1>3 DEF IInv

(* A statement of p inside its transaction changes nothing but its record. *)
LEMMA StatementIInv ==
    ASSUME IInv, NEW p \in Requests, NEW t \in Transaction,
           UNCHANGED <<stored, holder, overlapped, settled>>,
           tx' = [tx EXCEPT ![p] = t],
           tx'[p] = t => OpenOK(p)' /\ SourceOK(p)' /\ TargetOK(p)'
    PROVE  IInv'
  <1> USE DEF stored
  <1>1. tx'[p] = t /\ \A q \in Requests : q # p => tx'[q] = tx[q]
    BY DEF IInv, TypeOK
  <1>2. TypeOK'
    BY DEF IInv, TypeOK
  <1>3. \A q \in Requests : OpenOK(q)' /\ SourceOK(q)' /\ TargetOK(q)'
    BY <1>1 DEF IInv, OpenOK, SourceOK, TargetOK, Clear, Resolves, Present
  <1>4. SettledOK' /\ OverlapOK' /\ IntegrityWithoutOverlap'
    BY DEF IInv, SettledOK, OverlapOK, IntegrityWithoutOverlap, Resolves
  <1> QED
    BY <1>2, <1>3, <1>4 DEF IInv

(* Open transactions on the two sides have overlapped; on one side there   *)
(* is at most one.                                                         *)
LEMMA OneOpen ==
    ASSUME IInv, NEW p \in Requests, NEW q \in Requests, p # q,
           tx[p].stage # "idle", tx[q].stage # "idle"
    PROVE  tx[p].side # tx[q].side /\ overlapped
  <1>1. tx[p].side \in Sides /\ tx[q].side \in Sides
    BY DEF IInv, TypeOK, Transaction
  <1> QED
    BY <1>1, CellsAssumption DEF IInv, OpenOK, OverlapOK, Sides

LEMMA LockIInv ==
    ASSUME IInv, NEW p \in Requests, NEW side \in Sides, Lock(p, side)
    PROVE  IInv'
  <1> USE DEF Lock, stored
  <1>1. Opened(side) \in Transaction
    BY DEF Opened, Transaction
  <1>2. TypeOK'
    BY <1>1 DEF IInv, TypeOK, Present
  <1>3. tx'[p] = Opened(side) /\ \A q \in Requests : q # p => tx'[q] = tx[q]
    BY DEF IInv, TypeOK
  <1>4. ASSUME NEW q \in Requests, q # p, tx[q].stage # "idle"
        PROVE  tx[q].side # side /\ overlapped'
    <2>1. tx[q].side \in Sides /\ holder[tx[q].side] = q /\ q # None
      BY <1>4, CellsAssumption DEF IInv, TypeOK, Transaction, OpenOK
    <2> QED
      BY <2>1 DEF Sides, Other
  <1>5. ASSUME NEW q \in Requests PROVE OpenOK(q)' /\ SourceOK(q)' /\ TargetOK(q)'
    <2>1. CASE q = p
      BY <1>2, <1>3, <2>1 DEF Opened, OpenOK, SourceOK, TargetOK, IInv, TypeOK
    <2>2. CASE q # p
      <3>1. OpenOK(q)'
        BY <1>3, <1>4, <2>2 DEF IInv, TypeOK, OpenOK
      <3>2. SourceOK(q)'
        BY <1>3, <1>4, <2>2 DEF IInv, SourceOK, Clear, Resolves
      <3>3. TargetOK(q)'
        BY <1>3, <1>4, <2>2 DEF IInv, TargetOK, Clear, Present, Sides
      <3> QED
        BY <3>1, <3>2, <3>3
    <2> QED
      BY <2>1, <2>2
  <1>6. SettledOK'
    BY CellsAssumption DEF IInv, TypeOK, SettledOK, Present, Sides
  <1>7. OverlapOK'
    BY DEF IInv, TypeOK, OverlapOK, Other, Sides
  <1>8. IntegrityWithoutOverlap'
    BY DEF IInv, IntegrityWithoutOverlap, Resolves
  <1> QED
    BY <1>2, <1>5, <1>6, <1>7, <1>8 DEF IInv

-----------------------------------------------------------------------------
(* Statements on the source.                                               *)

LEMMA WriteRowIInv ==
    ASSUME IInv, NEW p \in Requests, WriteRow(p)
    PROVE  IInv'
  <1>1. PICK s \in SourceRows, cell \in Writable :
          tx' = [tx EXCEPT
            ![p] = [@ EXCEPT !.stage = "related", !.row = s, !.value = cell]]
    BY DEF WriteRow
  <1> DEFINE t == [tx[p] EXCEPT !.stage = "related", !.row = s, !.value = cell]
  <1>2. /\ tx[p] \in Transaction /\ holder["source"] = p
        /\ tx[p].side = "source" /\ tx[p].relation = "kept"
        /\ tx[p].row = None /\ tx[p].value = None
    BY DEF Opened, WriteRow, At, IInv, TypeOK, OpenOK
  <1>3. /\ t \in Transaction /\ t.stage = "related" /\ t.side = "source"
        /\ t.relation = "kept" /\ t.row = s
    BY <1>2, CellsAssumption DEF Transaction
  <1>4. tx' = [tx EXCEPT ![p] = t]
    BY <1>1
  <1> HIDE DEF t
  <1>5. tx'[p] = t => OpenOK(p)' /\ SourceOK(p)' /\ TargetOK(p)'
    BY <1>2, <1>3 DEF OpenOK, SourceOK, TargetOK, WriteRow, stored
  <1> QED
    BY <1>3, <1>4, <1>5, StatementIInv DEF WriteRow

LEMMA ValidateReferenceIInv ==
    ASSUME IInv, NEW p \in Requests, ValidateReference(p)
    PROVE  IInv'
  <1> DEFINE t == [tx[p] EXCEPT !.stage = "ready"]
  <1>2. /\ tx[p] \in Transaction /\ holder["source"] = p
        /\ tx[p].side = "source" /\ tx[p].relation = "kept"
        /\ tx[p].row \in SourceRows
        /\ relation = "enforced" => Resolves(tx[p].value)
    BY DEF ValidateReference, At, IInv, TypeOK, OpenOK, SourceOK
  <1>3. /\ t \in Transaction /\ t.stage = "ready" /\ t.side = "source"
        /\ t.relation = "kept" /\ t.row = tx[p].row /\ t.value = tx[p].value
    BY <1>2 DEF Transaction
  <1>4. tx' = [tx EXCEPT ![p] = t]
    BY DEF ValidateReference
  <1> HIDE DEF t
  <1>5. tx'[p] = t => OpenOK(p)' /\ SourceOK(p)' /\ TargetOK(p)'
    BY <1>2, <1>3 DEF OpenOK, SourceOK, TargetOK, ValidateReference, stored, Resolves
  <1> QED
    BY <1>3, <1>4, <1>5, StatementIInv DEF ValidateReference

LEMMA DeleteSourceRowIInv ==
    ASSUME IInv, NEW p \in Requests, DeleteSourceRow(p)
    PROVE  IInv'
  <1>1. PICK s \in Present :
          tx' = [tx EXCEPT ![p] = [@ EXCEPT !.stage = "ready", !.row = s]]
    BY DEF DeleteSourceRow
  <1> DEFINE t == [tx[p] EXCEPT !.stage = "ready", !.row = s]
  <1>2. /\ tx[p] \in Transaction /\ holder["source"] = p
        /\ tx[p].side = "source" /\ tx[p].relation = "kept"
        /\ tx[p].row = None /\ tx[p].value = None
    BY DEF Opened, DeleteSourceRow, At, IInv, TypeOK, OpenOK
  <1>3. /\ t \in Transaction /\ t.stage = "ready" /\ t.side = "source"
        /\ t.relation = "kept" /\ t.row \in SourceRows /\ t.value = None
    BY <1>2 DEF Transaction, Present
  <1>4. tx' = [tx EXCEPT ![p] = t]
    BY <1>1
  <1> HIDE DEF t
  <1>5. tx'[p] = t => OpenOK(p)' /\ SourceOK(p)' /\ TargetOK(p)'
    BY <1>2, <1>3 DEF OpenOK, SourceOK, TargetOK, DeleteSourceRow, stored, Resolves,
       IsBlank
  <1> QED
    BY <1>3, <1>4, <1>5, StatementIInv DEF DeleteSourceRow

LEMMA AttachAssetIInv ==
    ASSUME IInv, NEW p \in Requests, AttachAsset(p)
    PROVE  IInv'
  <1>1. PICK s \in Present, cell \in AssetRefs :
          tx' = [tx EXCEPT
            ![p] = [@ EXCEPT !.stage = "ready", !.row = s, !.value = cell]]
    BY DEF AttachAsset
  <1> DEFINE t == [tx[p] EXCEPT !.stage = "ready", !.row = s, !.value = cell]
  <1>2. /\ tx[p] \in Transaction /\ holder["source"] = p
        /\ tx[p].side = "source" /\ tx[p].relation = "kept"
        /\ tx[p].row = None /\ tx[p].value = None
    BY DEF Opened, AttachAsset, At, IInv, TypeOK, OpenOK
  <1>3. /\ t \in Transaction /\ t.stage = "ready" /\ t.side = "source"
        /\ t.relation = "kept" /\ t.row \in SourceRows /\ t.value = cell
    BY <1>2, CellsAssumption DEF Transaction, Present
  <1>4. tx' = [tx EXCEPT ![p] = t]
    BY <1>1
  <1> HIDE DEF t
  <1>5. tx'[p] = t => OpenOK(p)' /\ SourceOK(p)' /\ TargetOK(p)'
    BY <1>2, <1>3 DEF OpenOK, SourceOK, TargetOK, AttachAsset, stored
  <1> QED
    BY <1>3, <1>4, <1>5, StatementIInv DEF AttachAsset

LEMMA CreateRelationshipIInv ==
    ASSUME IInv, NEW p \in Requests, CreateRelationship(p)
    PROVE  IInv'
  <1>1. PICK kind \in {"lax", "enforced"} :
          /\ kind = "enforced" =>
               \A s \in Present : Trim[refs[s]] \in targets \cup {Blank}
          /\ tx' = [tx EXCEPT ![p] = [@ EXCEPT !.stage = "ready", !.relation = kind]]
    BY DEF CreateRelationship
  <1> DEFINE t == [tx[p] EXCEPT !.stage = "ready", !.relation = kind]
  <1>2. /\ tx[p] \in Transaction /\ holder["source"] = p
        /\ tx[p].side = "source" /\ tx[p].relation = "kept"
        /\ tx[p].row = None /\ tx[p].value = None
    BY DEF Opened, CreateRelationship, At, IInv, TypeOK, OpenOK
  <1>3. /\ t \in Transaction /\ t.stage = "ready" /\ t.side = "source"
        /\ t.relation = kind /\ t.row = None
    BY <1>2 DEF Transaction
  <1>4. tx' = [tx EXCEPT ![p] = t]
    BY <1>1
  <1> HIDE DEF t
  <1>5. TrimsAgree /\ kind = "enforced" => \A s \in SourceRows : Resolves(refs[s])
    BY <1>1 DEF TrimsAgree, Resolves, IsBlank, Present, IInv, TypeOK
  <1>6. tx'[p] = t => OpenOK(p)' /\ SourceOK(p)' /\ TargetOK(p)'
    BY <1>2, <1>3, <1>5 DEF OpenOK, SourceOK, TargetOK, CreateRelationship, stored,
       Resolves, Clear
  <1> QED
    BY <1>3, <1>4, <1>6, StatementIInv DEF CreateRelationship

LEMMA DeleteRelationshipIInv ==
    ASSUME IInv, NEW p \in Requests, DeleteRelationship(p)
    PROVE  IInv'
  <1> DEFINE t == [tx[p] EXCEPT !.stage = "ready", !.relation = "none"]
  <1>2. /\ tx[p] \in Transaction /\ holder["source"] = p
        /\ tx[p].side = "source" /\ tx[p].relation = "kept"
        /\ tx[p].row = None /\ tx[p].value = None
    BY DEF Opened, DeleteRelationship, At, IInv, TypeOK, OpenOK
  <1>3. /\ t \in Transaction /\ t.stage = "ready" /\ t.side = "source"
        /\ t.relation = "none" /\ t.row = None
    BY <1>2 DEF Transaction
  <1>4. tx' = [tx EXCEPT ![p] = t]
    BY DEF DeleteRelationship
  <1> HIDE DEF t
  <1>5. tx'[p] = t => OpenOK(p)' /\ SourceOK(p)' /\ TargetOK(p)'
    BY <1>2, <1>3 DEF OpenOK, SourceOK, TargetOK, DeleteRelationship, stored
  <1> QED
    BY <1>3, <1>4, <1>5, StatementIInv DEF DeleteRelationship

LEMMA CommitSourceIInv ==
    ASSUME IInv, NEW p \in Requests, CommitSource(p)
    PROVE  IInv'
  <1> DEFINE t == tx[p]
             cells == IF t.row = None THEN refs ELSE [refs EXCEPT ![t.row] = t.value]
             kind == IF t.relation = "kept" THEN relation ELSE t.relation
  <1>1. /\ t \in Transaction /\ t.side = "source" /\ t.stage = "ready"
        /\ holder["source"] = p /\ SourceOK(p) /\ p # None
    BY CellsAssumption DEF CommitSource, At, IInv, TypeOK, OpenOK
  <1>2. /\ refs' = cells /\ relation' = kind
        /\ settled' = IF t.relation = "kept" THEN settled \ {t.row} ELSE {}
        /\ holder' = [holder EXCEPT !["source"] = None]
        /\ tx' = [tx EXCEPT ![p] = Idle]
        /\ UNCHANGED <<targets, archived, overlapped>>
    BY DEF CommitSource
  <1>3. /\ cells \in [SourceRows -> Cells \cup {None}]
        /\ kind \in {"none", "lax", "enforced"}
        /\ t.relation = "kept" => t.row \in SourceRows /\ kind = relation
        /\ t.relation # "kept" => cells = refs
    BY <1>1, CellsAssumption DEF SourceOK, IInv, TypeOK, Transaction
  <1>4. Idle \in Transaction
    BY DEF Idle, Transaction, Sides
  <1>5. TypeOK'
    BY <1>2, <1>3, <1>4 DEF IInv, TypeOK
  <1>6. \A s \in SourceRows : s \in settled' => s \in settled /\ refs'[s] = refs[s]
    BY <1>2, <1>3 DEF IInv, TypeOK
  <1>7. SettledOK'
    BY <1>2, <1>3, <1>6 DEF IInv, TypeOK, SettledOK, Sides
  <1>8. OverlapOK'
    BY <1>2 DEF IInv, TypeOK, OverlapOK, Sides
  <1>9. IntegrityWithoutOverlap'
    BY <1>1, <1>2, <1>3 DEF IInv, TypeOK, IntegrityWithoutOverlap, SourceOK, Clear,
       Resolves
  <1>10. ASSUME NEW q \in Requests PROVE OpenOK(q)' /\ SourceOK(q)' /\ TargetOK(q)'
    <2>1. CASE q = p
      BY <1>2, <2>1 DEF IInv, TypeOK, Idle, OpenOK, SourceOK, TargetOK
    <2>2. CASE q # p
      <3>1. tx'[q] = tx[q]
        BY <1>2, <2>2 DEF IInv, TypeOK
      <3>2. tx[q].stage # "idle" => tx[q].side = "target" /\ overlapped
        BY <1>1, <2>2, OneOpen DEF IInv, TypeOK, Transaction, Sides
      <3>3. OpenOK(q)' /\ SourceOK(q)'
        BY <1>2, <3>1, <3>2 DEF IInv, TypeOK, OpenOK, SourceOK
      <3>4. TargetOK(q)'
        BY <1>2, <1>6, <3>1, <3>2, <1>5 DEF IInv, TypeOK, TargetOK, Clear
      <3> QED
        BY <3>3, <3>4
    <2> QED
      BY <2>1, <2>2
  <1> QED
    BY <1>5, <1>7, <1>8, <1>9, <1>10 DEF IInv

-----------------------------------------------------------------------------
(* Statements on the target.                                               *)

LEMMA InsertTargetIInv ==
    ASSUME IInv, NEW p \in Requests, InsertTarget(p)
    PROVE  IInv'
  <1>1. PICK k \in Keys \ targets :
          tx' = [tx EXCEPT ![p] = [@ EXCEPT !.stage = "ready", !.to = k]]
    BY DEF InsertTarget
  <1> DEFINE t == [tx[p] EXCEPT !.stage = "ready", !.to = k]
  <1>2. /\ tx[p] \in Transaction /\ holder["target"] = p
        /\ tx[p].side = "target" /\ tx[p].gone = {}
    BY DEF Opened, InsertTarget, At, IInv, TypeOK, OpenOK
  <1>3. /\ t \in Transaction /\ t.stage = "ready" /\ t.side = "target"
        /\ t.gone = {}
    BY <1>2 DEF Transaction
  <1>4. tx' = [tx EXCEPT ![p] = t]
    BY <1>1
  <1> HIDE DEF t
  <1>5. tx'[p] = t => OpenOK(p)' /\ SourceOK(p)' /\ TargetOK(p)'
    BY <1>2, <1>3 DEF OpenOK, SourceOK, TargetOK, InsertTarget, stored
  <1> QED
    BY <1>3, <1>4, <1>5, StatementIInv DEF InsertTarget

LEMMA SelectTargetsIInv ==
    ASSUME IInv, NEW p \in Requests, SelectTargets(p)
    PROVE  IInv'
  <1>1. PICK gone \in SUBSET targets, to \in (Keys \ targets) \cup {None} :
          tx' = [tx EXCEPT
            ![p] = [@ EXCEPT !.stage = "selected", !.gone = gone, !.to = to,
                             !.unchecked = gone]]
    BY DEF SelectTargets
  <1> DEFINE t == [tx[p] EXCEPT !.stage = "selected", !.gone = gone, !.to = to,
                                !.unchecked = gone]
  <1>2. /\ tx[p] \in Transaction /\ holder["target"] = p
        /\ tx[p].side = "target" /\ targets \in SUBSET Keys
    BY DEF Opened, SelectTargets, At, IInv, TypeOK, OpenOK
  <1>3. /\ t \in Transaction /\ t.stage = "selected" /\ t.side = "target"
        /\ t.gone = gone /\ t.unchecked = gone
    BY <1>2 DEF Transaction
  <1>4. tx' = [tx EXCEPT ![p] = t]
    BY <1>1
  <1> HIDE DEF t
  <1>5. tx'[p] = t => OpenOK(p)' /\ SourceOK(p)' /\ TargetOK(p)'
    BY <1>2, <1>3 DEF OpenOK, SourceOK, TargetOK, SelectTargets, stored
  <1> QED
    BY <1>3, <1>4, <1>5, StatementIInv DEF SelectTargets

LEMMA ReadIncomingIInv ==
    ASSUME IInv, NEW p \in Requests, ReadIncoming(p)
    PROVE  IInv'
  <1> DEFINE t == [tx[p] EXCEPT !.stage = "incoming",
                                !.enforced = (relation = "enforced")]
  <1>2. /\ tx[p] \in Transaction /\ holder["target"] = p
        /\ tx[p].side = "target" /\ tx[p].stage = "selected" /\ TargetOK(p)
        /\ settled # {} => relation = "enforced"
    BY DEF ReadIncoming, At, IInv, TypeOK, OpenOK, SettledOK
  <1>3. /\ t \in Transaction /\ t.stage = "incoming" /\ t.side = "target"
        /\ t.gone = tx[p].gone /\ t.unchecked = tx[p].unchecked
        /\ t.enforced = (relation = "enforced")
    BY <1>2, Zenon DEF Transaction
  <1>4. tx' = [tx EXCEPT ![p] = t]
    BY DEF ReadIncoming
  <1> HIDE DEF t
  <1>5. tx'[p] = t => OpenOK(p)' /\ SourceOK(p)' /\ TargetOK(p)'
    BY <1>2, <1>3 DEF OpenOK, SourceOK, TargetOK, ReadIncoming, stored, Present, Clear
  <1> QED
    BY <1>3, <1>4, <1>5, StatementIInv DEF ReadIncoming

LEMMA CheckReferencedIInv ==
    ASSUME IInv, NEW p \in Requests, CheckReferenced(p)
    PROVE  IInv'
  <1>1. PICK k \in tx[p].unchecked :
          /\ tx[p].enforced => \A s \in Present : Trim[refs[s]] # k
          /\ tx' = [tx EXCEPT
               ![p] = [@ EXCEPT !.stage = "selected", !.unchecked = tx[p].unchecked \ {k}]]
    BY DEF CheckReferenced
  <1> DEFINE t == [tx[p] EXCEPT !.stage = "selected", !.unchecked = tx[p].unchecked \ {k}]
  <1>2. /\ tx[p] \in Transaction /\ holder["target"] = p
        /\ tx[p].side = "target" /\ tx[p].stage = "incoming" /\ TargetOK(p)
    BY DEF CheckReferenced, At, IInv, TypeOK, OpenOK
  <1>3. /\ t \in Transaction /\ t.stage = "selected" /\ t.side = "target"
        /\ t.gone = tx[p].gone /\ t.unchecked = tx[p].unchecked \ {k}
    BY <1>2 DEF Transaction
  <1>4. tx' = [tx EXCEPT ![p] = t]
    BY <1>1
  <1> HIDE DEF t
  <1>5. TrimsAgree /\ tx[p].enforced => \A s \in Present : Strip[refs[s]] # k
    BY <1>1 DEF TrimsAgree, Present, IInv, TypeOK
  <1>6. settled \subseteq Present
    BY DEF IInv, SettledOK, TypeOK, Present
  <1>7. TargetOK(p)' \/ tx'[p] # t
    BY <1>2, <1>3, <1>5, <1>6 DEF TargetOK, CheckReferenced, stored, Clear, Present
  <1>8. tx'[p] = t => OpenOK(p)' /\ SourceOK(p)'
    BY <1>2, <1>3 DEF OpenOK, SourceOK, CheckReferenced, stored
  <1> QED
    BY <1>3, <1>4, <1>7, <1>8, StatementIInv DEF CheckReferenced

(* The rows that go are rows no settled reference, and without overlap no  *)
(* reference at all, points to.                                            *)
LEMMA GoneUnreferenced ==
    ASSUME IInv, NEW p \in Requests, CommitTarget(p)
    PROVE  /\ Clear /\ relation = "enforced" =>
                \A s \in Present : Strip[refs[s]] \notin tx[p].gone
           /\ TrimsAgree => \A s \in settled : Strip[refs[s]] \notin tx[p].gone
  BY DEF IInv, CommitTarget, At, TargetOK

LEMMA CommitTargetIInv ==
    ASSUME IInv, NEW p \in Requests, CommitTarget(p)
    PROVE  IInv'
  <1> USE DEF CommitTarget, At
  <1>1. /\ tx[p] \in Transaction /\ tx[p].side = "target" /\ tx[p].stage # "idle"
        /\ holder["target"] = p
    BY DEF IInv, TypeOK, OpenOK
  <1>2. Idle \in Transaction
    BY DEF Idle, Transaction, Sides
  <1>3. TypeOK'
    BY <1>1, <1>2 DEF IInv, TypeOK, Transaction
  <1>4. SettledOK'
    BY DEF SettledOK
  <1>5. OverlapOK'
    BY DEF IInv, TypeOK, OverlapOK, Sides
  <1>6. IntegrityWithoutOverlap'
    BY GoneUnreferenced
       DEF IInv, IntegrityWithoutOverlap, Clear, Resolves, IsBlank, Present
  <1>7. ASSUME NEW q \in Requests PROVE OpenOK(q)' /\ SourceOK(q)' /\ TargetOK(q)'
    <2>1. CASE q = p
      BY <2>1 DEF IInv, TypeOK, Idle, OpenOK, SourceOK, TargetOK
    <2>2. CASE q # p
      <3>1. tx'[q] = tx[q]
        BY <2>2 DEF IInv, TypeOK
      <3>2. tx[q].stage # "idle" => tx[q].side = "source" /\ overlapped
        BY <1>1, <2>2, OneOpen DEF IInv, TypeOK, Transaction, Sides
      <3>3. OpenOK(q)' /\ TargetOK(q)'
        BY <3>1, <3>2 DEF IInv, TypeOK, OpenOK, TargetOK
      <3>4. SourceOK(q)'
        BY <3>1, <3>2 DEF IInv, SourceOK, Clear
      <3> QED
        BY <3>3, <3>4
    <2> QED
      BY <2>1, <2>2
  <1> QED
    BY <1>3, <1>4, <1>5, <1>6, <1>7 DEF IInv

-----------------------------------------------------------------------------
LEMMA AbortIInv ==
    ASSUME IInv, NEW p \in Requests, Abort(p)
    PROVE  IInv'
  <1> USE DEF Abort, stored
  <1>1. tx[p] \in Transaction /\ tx[p].side \in Sides /\ holder[tx[p].side] = p
    BY DEF IInv, TypeOK, OpenOK, Transaction
  <1>2. Idle \in Transaction
    BY DEF Idle, Transaction, Sides
  <1>3. TypeOK'
    BY <1>1, <1>2 DEF IInv, TypeOK
  <1>4. SettledOK'
    BY <1>1 DEF IInv, TypeOK, SettledOK, Sides
  <1>5. OverlapOK'
    BY <1>1 DEF IInv, TypeOK, OverlapOK, Sides
  <1>6. IntegrityWithoutOverlap'
    BY DEF IInv, IntegrityWithoutOverlap, Resolves
  <1>7. ASSUME NEW q \in Requests PROVE OpenOK(q)' /\ SourceOK(q)' /\ TargetOK(q)'
    <2>1. CASE q = p
      BY <2>1 DEF IInv, TypeOK, Idle, OpenOK, SourceOK, TargetOK
    <2>2. CASE q # p
      <3>1. tx'[q] = tx[q]
        BY <2>2 DEF IInv, TypeOK
      <3>2. tx[q].stage # "idle" => tx[q].side # tx[p].side
        BY <1>1, <2>2, OneOpen
      <3>3. OpenOK(q)' /\ SourceOK(q)'
        BY <1>1, <3>1, <3>2 DEF IInv, TypeOK, OpenOK, SourceOK, Clear, Resolves
      <3>4. TargetOK(q)'
        BY <1>1, <3>1, <3>2 DEF IInv, TargetOK, Clear, Present
      <3> QED
        BY <3>3, <3>4
    <2> QED
      BY <2>1, <2>2
  <1> QED
    BY <1>3, <1>4, <1>5, <1>6, <1>7 DEF IInv

LEMMA ArchivingIInv ==
    ASSUME IInv, NEW side \in Sides, Archive(side) \/ Restore(side)
    PROVE  IInv'
  <1> USE DEF Archive, Restore
  <1>1. TypeOK'
    BY DEF IInv, TypeOK
  <1>2. \A q \in Requests : OpenOK(q)' /\ SourceOK(q)' /\ TargetOK(q)'
    BY DEF IInv, OpenOK, SourceOK, TargetOK, Clear, Resolves, Present
  <1>3. SettledOK' /\ OverlapOK' /\ IntegrityWithoutOverlap'
    BY DEF IInv, SettledOK, OverlapOK, IntegrityWithoutOverlap, Resolves
  <1> QED
    BY <1>1, <1>2, <1>3 DEF IInv

LEMMA NextIInv ==
    ASSUME IInv, [Next]_vars
    PROVE  IInv'
  <1>1. CASE UNCHANGED vars
    BY <1>1 DEF vars, IInv, TypeOK, OpenOK, SourceOK, TargetOK, Clear, Resolves,
       Present, SettledOK, OverlapOK, IntegrityWithoutOverlap
  <1>2. ASSUME NEW p \in Requests, SourceStep(p) PROVE IInv'
    BY <1>2, WriteRowIInv, ValidateReferenceIInv, DeleteSourceRowIInv,
       AttachAssetIInv, CreateRelationshipIInv, DeleteRelationshipIInv,
       CommitSourceIInv DEF SourceStep
  <1>3. ASSUME NEW p \in Requests, TargetStep(p) PROVE IInv'
    BY <1>3, InsertTargetIInv, SelectTargetsIInv, ReadIncomingIInv,
       CheckReferencedIInv, CommitTargetIInv DEF TargetStep
  <1> QED
    BY <1>1, <1>2, <1>3, LockIInv, AbortIInv, ArchivingIInv DEF Next

LEMMA Invariance == Spec => []IInv
  BY InitIInv, NextIInv, PTL DEF Spec

-----------------------------------------------------------------------------
(* Every variable and every open transaction keeps its type.               *)
THEOREM TypeCorrect == Spec => []TypeOK
  <1>1. IInv => TypeOK
    BY DEF IInv
  <1> QED
    BY <1>1, Invariance, PTL

(* Where trimming is unambiguous, dangling references come from overlap    *)
(* and assets alone.                                                       *)
THEOREM OnlyOverlapDangles == Spec => []IntegrityWithoutOverlap
  <1>1. IInv => IntegrityWithoutOverlap
    BY DEF IInv
  <1> QED
    BY <1>1, Invariance, PTL

(* A reference that was in place before a target transaction began, and    *)
(* is left alone, survives that transaction.                               *)
THEOREM SettledSurvive == Spec => SettledReferencesSurvive
  <1> DEFINE Survive == TrimsAgree /\ targets' # targets =>
                          \A s \in settled : Strip[refs[s]] \in targets'
  <1>1. ASSUME IInv, NEW p \in Requests, CommitTarget(p)
        PROVE  Survive
    BY <1>1, GoneUnreferenced DEF IInv, SettledOK, CommitTarget
  <1>2. ASSUME IInv, Next PROVE Survive
    BY <1>1, <1>2 DEF Next, Lock, SourceStep, TargetStep, Abort, Archive, Restore,
       WriteRow, ValidateReference, DeleteSourceRow, AttachAsset, CreateRelationship,
       DeleteRelationship, CommitSource, InsertTarget, SelectTargets, ReadIncoming,
       CheckReferenced, stored
  <1>3. IInv /\ [Next]_vars => [Survive]_vars
    BY <1>2
  <1> QED
    BY <1>3, Invariance, PTL DEF Spec, SettledReferencesSurvive

=============================================================================
