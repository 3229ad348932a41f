--------------------------- MODULE ProjectsProofs ----------------------------
(***************************************************************************)
(* Proofs about Projects, for any number of projects, sections, datasets   *)
(* and clients.  The inductive invariant adds to the properties what a     *)
(* request remembers of the section it read and what a creation that holds *)
(* the lock of a project knows of the names in it.                         *)
(***************************************************************************)
EXTENDS Projects, FiniteSetTheorems, TLAPS

-----------------------------------------------------------------------------
(* The inductive invariant.                                                *)

Ops == {"idle", "group", "move", "create", "guarded", "locked"}
Creating == {"create", "guarded", "locked"}

(* What is in hand is of the kind its operation needs.                     *)
RequestOK(r) ==
    /\ r \in [op : Ops, target : Groups \cup Datasets \cup {None},
             project : Projects \cup {None}, section : Sections \cup {None},
             name : Names \cup GroupNames \cup {None}]
    /\ r.op = "group" =>
         /\ r.target \in Groups /\ r.name \in GroupNames /\ r.section = None
         /\ r.target \in Projects <=> r.project = None
    /\ r.op \in {"move"} \cup Creating => r.target \in Datasets
    /\ r.op \in Creating => r.name \in Names
    /\ r.op \in {"guarded", "locked"} => r.project # None
RequestsOK ==
    /\ DOMAIN request = Clients /\ request = [c \in Clients |-> request[c]]
    /\ \A c \in Clients : RequestOK(request[c])

(* A section that was read belongs to the project that was read, unless it *)
(* was deleted since; it cannot be made again.                             *)
Seen(r) ==
    r.section # None =>
        /\ group[r.section].state # "none"
        /\ Exists(group[r.section]) => group[r.section].parent = r.project
SectionsSeen == \A c \in Clients : Seen(request[c])

(* So a dataset is in the project of its section.                          *)
Linked(d) == dataset[d].section # None =>
                 dataset[d].project = group[dataset[d].section].parent
SectionsOfProject == \A d \in Datasets : Linked(d)

(* Of the active groups of a parent each has a name of its own.            *)
GroupNamesUnique ==
    \A g, h \in Groups :
        g # h /\ group[g].state = "active" /\ group[h].state = "active"
          /\ group[g].parent = group[h].parent => group[g].name # group[h].name

(* Who holds a project's lock holds it alone, and no guarded dataset in    *)
(* the project has the name that is to be given.  A guarded dataset was    *)
(* made, so it is not made again without the guard.                        *)
Vacant(r) ==
    \A d \in sole : IsActive(d) /\ dataset[d].project = r.project
                      => dataset[d].name # r.name
LocksOK ==
    /\ \A d \in sole : dataset[d].state # "none"
    /\ \A c \in Clients : request[c].op = "locked" =>
         ~LockedByOther(request[c].project, c) /\ Vacant(request[c])

IInv ==
    /\ TypeOK /\ RequestsOK /\ SectionsSeen /\ SectionsOfProject /\ GroupNamesUnique
    /\ ArchivedSectionsEmpty /\ LocksOK /\ GuardedNamesUnique

-----------------------------------------------------------------------------
LEMMA InitIInv == Init => IInv
<1> SUFFICES ASSUME Init PROVE IInv
  OBVIOUS
<1>1. TypeOK
  BY ProjectsAssumption DEF Init, TypeOK, Absent, NoDataset, GroupOK, DatasetOK, Exists, Holds, Groups
<1>2. RequestsOK
  BY DEF Init, RequestsOK, RequestOK, Idle, Ops, Creating
<1>3. SectionsSeen
  BY DEF Init, SectionsSeen, Seen, Idle
<1>4. SectionsOfProject /\ ArchivedSectionsEmpty
  BY ProjectsAssumption DEF Init, SectionsOfProject, Linked, ArchivedSectionsEmpty, NoDataset, Absent, Groups
<1>5. GroupNamesUnique
  BY DEF Init, GroupNamesUnique, Absent
<1>6. LocksOK /\ GuardedNamesUnique
  BY DEF Init, LocksOK, GuardedNamesUnique, Idle
<1> QED
  BY <1>1, <1>2, <1>3, <1>4, <1>5, <1>6 DEF IInv

-----------------------------------------------------------------------------
(* What the parts of a step keep.                                          *)

Sub(c) == request' = request \/ request' = [request EXCEPT ![c] = Idle]

(* A group that was made keeps its parent until it is deleted.             *)
GroupsKeep ==
    \A g \in Groups : group[g].state # "none" =>
        /\ group'[g].state # "none"
        /\ Exists(group'[g]) => Exists(group[g]) /\ group'[g].parent = group[g].parent

LEMMA IdleOK == RequestOK(Idle)
  BY DEF RequestOK, Idle, Ops, Creating

LEMMA RequestsKept ==
    ASSUME IInv, NEW c \in Clients, Sub(c), GroupsKeep
    PROVE  (RequestsOK /\ SectionsSeen)'
<1>1. RequestsOK'
  BY IdleOK DEF IInv, RequestsOK, Sub, RequestOK
<1>2. ASSUME NEW b \in Clients PROVE Seen(request[b])'
  <2>1. request'[b] = request[b] \/ request'[b] = Idle
    BY DEF Sub, IInv, RequestsOK
  <2>2. CASE request'[b] = Idle
    BY <2>2 DEF Seen, Idle
  <2>3. CASE request'[b] = request[b]
    <3>1. request[b].section # None => request[b].section \in Groups
      BY DEF IInv, RequestsOK, RequestOK, Groups
    <3> QED
      BY <2>3, <3>1 DEF IInv, SectionsSeen, Seen, GroupsKeep
  <2> QED
    BY <2>1, <2>2, <2>3
<1> QED
  BY <1>1, <1>2 DEF SectionsSeen

(* Guarded names stay apart while no guarded dataset comes into sight.     *)
LEMMA GuardKept ==
    ASSUME IInv, NEW c \in Clients, Sub(c), sole' \subseteq sole,
           \A d \in sole' :
               /\ dataset'[d].state = "none" => dataset[d].state = "none"
               /\ IsActive(d)' => /\ IsActive(d)
                                  /\ dataset'[d].project = dataset[d].project
                                  /\ dataset'[d].name = dataset[d].name
    PROVE  (LocksOK /\ GuardedNamesUnique)'
<1>1. GuardedNamesUnique'
  BY DEF IInv, GuardedNamesUnique
<1>2. ASSUME NEW b \in Clients, request'[b].op = "locked"
      PROVE  request'[b] = request[b]
  BY <1>2 DEF Sub, Idle, IInv, RequestsOK
<1>3. ASSUME NEW b \in Clients, request'[b].op = "locked"
      PROVE  (~LockedByOther(request[b].project, b) /\ Vacant(request[b]))'
  BY <1>2, <1>3 DEF IInv, LocksOK, LockedByOther, Vacant
<1>4. \A d \in sole' : dataset'[d].state # "none"
  BY DEF IInv, LocksOK
<1> QED
  BY <1>1, <1>3, <1>4, <1>2 DEF LocksOK

(* A request takes the place of another and nothing else changes.          *)
LEMMA RequestReplaced ==
    ASSUME IInv, NEW c \in Clients, NEW r, RequestOK(r), Seen(r),
           r.op = "locked" => ~LockedByOther(r.project, c) /\ Vacant(r),
           request' = [request EXCEPT ![c] = r], UNCHANGED <<group, dataset, late, sole>>
    PROVE  IInv'
<1>1. request'[c] = r /\ \A b \in Clients \ {c} : request'[b] = request[b]
  BY DEF IInv, RequestsOK
<1>2. RequestsOK'
  BY <1>1 DEF IInv, RequestsOK, RequestOK
<1>3. SectionsSeen'
  BY <1>1 DEF IInv, SectionsSeen, Seen, Exists
<1>4. ASSUME NEW b \in Clients, request'[b].op = "locked"
      PROVE  (~LockedByOther(request[b].project, b) /\ Vacant(request[b]))'
  <2>1. CASE b = c
    BY <2>1, <1>1, <1>4 DEF LockedByOther, Vacant, IsActive
  <2>2. CASE b # c
    <3>1. request'[b] = request[b] /\ Vacant(request[b])'
      BY <2>2, <1>1, <1>4 DEF IInv, LocksOK, Vacant, IsActive
    <3>2. ~(r.op = "locked" /\ r.project = request[b].project)
      BY <2>2, <1>4, <3>1 DEF LockedByOther
    <3> QED
      BY <2>2, <1>1, <1>4, <3>1, <3>2 DEF IInv, LocksOK, LockedByOther
  <2> QED
    BY <2>1, <2>2
<1>5. (TypeOK /\ SectionsOfProject /\ GroupNamesUnique /\ ArchivedSectionsEmpty
        /\ GuardedNamesUnique)'
  BY DEF IInv, TypeOK, GroupOK, DatasetOK, Exists, Holds, SectionsOfProject, Linked,
         GroupNamesUnique, ArchivedSectionsEmpty, GuardedNamesUnique, IsActive
<1> QED
  BY <1>2, <1>3, <1>4, <1>5 DEF IInv, LocksOK

-----------------------------------------------------------------------------
(* Requests that look before they write, or end.                           *)

LEMMA BeginGroupKeeps ==
    ASSUME IInv, NEW c \in Clients, NEW g \in Groups, NEW parent \in Projects \cup {None},
           NEW n \in GroupNames, BeginGroup(c, g, parent, n)
    PROVE  IInv'
<1> DEFINE r == [op |-> "group", target |-> g, project |-> parent, section |-> None, name |-> n]
<1>1. RequestOK(r)
  BY ProjectsAssumption DEF RequestOK, Ops, Creating, BeginGroup, Groups
<1>2. Seen(r)
  BY DEF Seen
<1>3. request' = [request EXCEPT ![c] = r] /\ UNCHANGED <<group, dataset, late, sole>>
  BY DEF BeginGroup, Begin
<1> QED
  BY <1>1, <1>2, <1>3, RequestReplaced

LEMMA AssignableSeen ==
    ASSUME NEW p, NEW s, NEW r, r.project = p, r.section = s, Assignable(p, s)
    PROVE  Seen(r)
  BY DEF Assignable, Seen, Active

LEMMA BeginMoveKeeps ==
    ASSUME IInv, NEW c \in Clients, NEW d \in Datasets, NEW p \in Projects \cup {None},
           NEW s \in Sections \cup {None}, BeginMove(c, d, p, s)
    PROVE  IInv'
<1> DEFINE r == [op |-> "move", target |-> d, project |-> p, section |-> s, name |-> None]
<1>1. RequestOK(r)
  BY DEF RequestOK, Ops, Creating
<1>2. Seen(r)
  BY AssignableSeen DEF BeginMove
<1>3. request' = [request EXCEPT ![c] = r] /\ UNCHANGED <<group, dataset, late, sole>>
  BY DEF BeginMove, Begin
<1> QED
  BY <1>1, <1>2, <1>3, RequestReplaced

LEMMA BeginCreateKeeps ==
    ASSUME IInv, NEW c \in Clients, NEW d \in Datasets, NEW p \in Projects \cup {None},
           NEW s \in Sections \cup {None}, NEW n \in Names, NEW guarded \in BOOLEAN,
           BeginCreate(c, d, p, s, n, guarded)
    PROVE  IInv'
<1> DEFINE r == [op |-> IF guarded THEN "guarded" ELSE "create",
                 target |-> d, project |-> p, section |-> s, name |-> n]
<1>1. RequestOK(r)
  BY DEF RequestOK, Ops, Creating, BeginCreate
<1>2. Seen(r)
  BY AssignableSeen DEF BeginCreate
<1>3. request' = [request EXCEPT ![c] = r] /\ UNCHANGED <<group, dataset, late, sole>>
  BY DEF BeginCreate, Begin
<1>4. r.op # "locked"
  OBVIOUS
<1> QED
  BY <1>1, <1>2, <1>3, <1>4, RequestReplaced

(* The lock is taken only when nobody holds it, and kept only when the     *)
(* name is free among all datasets of the project.                         *)
LEMMA LockProjectKeeps ==
    ASSUME IInv, NEW c \in Clients, LockProject(c)
    PROVE  IInv'
<1> DEFINE r == [request[c] EXCEPT !.op = "locked"]
<1>1. RequestOK(request[c]) /\ Seen(request[c]) /\ request[c].op = "guarded"
  BY DEF IInv, RequestsOK, SectionsSeen, LockProject
<1>2. UNCHANGED <<group, dataset, late, sole>>
  BY DEF LockProject
<1>3. CASE request' = [request EXCEPT ![c] = Idle]
  <2>1. Seen(Idle) /\ Idle.op # "locked"
    BY DEF Seen, Idle
  <2> QED
    BY <1>2, <1>3, <2>1, IdleOK, RequestReplaced
<1>4. CASE request' # [request EXCEPT ![c] = Idle]
  <2>1. request' = [request EXCEPT ![c] = r]
    BY <1>4, <1>1 DEF LockProject, Finish, RequestOK, IInv, RequestsOK
  <2>2. \A d \in In(request[c].project) : dataset[d].name # request[c].name
    BY <1>4 DEF LockProject, Finish
  <2>3. RequestOK(r)
    BY <1>1 DEF RequestOK, Ops, Creating
  <2>4. r.project = request[c].project /\ r.section = request[c].section
          /\ r.name = request[c].name
    BY <1>1 DEF RequestOK
  <2>5. Seen(r) /\ ~LockedByOther(r.project, c)
    BY <1>1, <2>4 DEF Seen, LockProject
  <2>6. Vacant(r)
    BY <2>2, <2>4 DEF Vacant, In, IInv, TypeOK
  <2> QED
    BY <1>2, <2>1, <2>3, <2>5, <2>6, RequestReplaced
<1> QED
  BY <1>3, <1>4

LEMMA AbortKeeps ==
    ASSUME IInv, NEW c \in Clients, Abort(c)
    PROVE  IInv'
<1>1. Seen(Idle) /\ Idle.op # "locked"
  BY DEF Seen, Idle
<1> QED
  BY <1>1, IdleOK, RequestReplaced DEF Abort, Finish

-----------------------------------------------------------------------------
(* Groups are made, renamed and archived.                                  *)

LEMMA CommitGroupKeeps ==
    ASSUME IInv, NEW c \in Clients, CommitGroup(c)
    PROVE  IInv'
<1> DEFINE r == request[c]
<1>1. /\ RequestOK(r) /\ r.op = "group" /\ Sub(c) /\ UNCHANGED <<dataset, late, sole>>
      /\ r.target \in Groups /\ r.name \in GroupNames /\ r.project \in Projects \cup {None}
      /\ r.target \in Projects <=> r.project = None
  BY DEF CommitGroup, Finish, IInv, RequestsOK, RequestOK, Sub
<1>2. CASE group' = group
  <2>1. Seen(Idle) /\ Idle.op # "locked"
    BY DEF Seen, Idle
  <2> QED
    BY <1>1, <1>2, <2>1, IdleOK, RequestReplaced DEF CommitGroup, Finish
<1>3. CASE group' # group
  <2> DEFINE new == [state |-> "active", parent |-> r.project, name |-> r.name]
  <2>1. /\ group[r.target].state = "none" /\ Holds(r.project) /\ NameFree(r.target, r.project, r.name)
        /\ group' = [group EXCEPT ![r.target] = new]
    BY <1>3 DEF CommitGroup
  <2>2. /\ group'[r.target] = new
        /\ \A g \in Groups \ {r.target} : group'[g] = group[g]
        /\ group' \in [Groups -> [state : {"none", "active", "archived", "deleted"},
                                 parent : Projects \cup {None}, name : GroupNames \cup {None}]]
    BY <1>1, <2>1 DEF IInv, TypeOK
  <2>3. GroupsKeep
    BY <2>1, <2>2 DEF GroupsKeep
  <2>4. \A g \in Groups : Exists(group[g]) => Exists(group'[g]) /\ group'[g] = group[g]
    BY <2>1, <2>2 DEF Exists
  <2>5. TypeOK'
    <3>1. ASSUME NEW g \in Groups PROVE GroupOK(g)'
      <4>1. GroupOK(g)
        BY DEF IInv, TypeOK
      <4>2. CASE g = r.target
        <5>1. Exists(group'[g]) /\ group'[g] = new
          BY <4>2, <2>2 DEF Exists
        <5>2. r.project \in Projects => Exists(group'[r.project])
          BY <2>1, <2>4, ProjectsAssumption DEF Holds, Groups
        <5> QED
          BY <4>2, <5>1, <5>2, <1>1, ProjectsAssumption DEF GroupOK, Groups
      <4>3. CASE g # r.target
        BY <4>1, <4>3, <2>2, <2>4 DEF GroupOK, Groups, Exists, Absent
      <4> QED
        BY <4>2, <4>3
    <3>2. ASSUME NEW d \in Datasets PROVE DatasetOK(d)'
      BY <1>1, <2>4 DEF IInv, TypeOK, DatasetOK, Holds, Groups, Exists, NoDataset
    <3> QED
      BY <1>1, <2>2, <3>1, <3>2 DEF IInv, TypeOK
  <2>6. SectionsOfProject'
    BY <1>1, <2>4 DEF IInv, SectionsOfProject, Linked, TypeOK, DatasetOK, Holds, Groups
  <2>7. GroupNamesUnique'
    BY <2>1, <2>2 DEF IInv, GroupNamesUnique, NameFree
  <2>8. ArchivedSectionsEmpty'
    BY <1>1, <2>2 DEF IInv, ArchivedSectionsEmpty, Groups
  <2>9. (RequestsOK /\ SectionsSeen)'
    BY <1>1, <2>3, RequestsKept
  <2>10. (LocksOK /\ GuardedNamesUnique)'
    BY <1>1, GuardKept DEF IsActive
  <2> QED
    BY <2>5, <2>6, <2>7, <2>8, <2>9, <2>10 DEF IInv
<1> QED
  BY <1>2, <1>3

LEMMA RenameGroupKeeps ==
    ASSUME IInv, NEW c \in Clients, NEW g \in Groups, NEW n \in GroupNames, RenameGroup(c, g, n)
    PROVE  IInv'
<1>1. /\ Sub(c) /\ UNCHANGED <<dataset, late, sole>> /\ Active(g) /\ NameFree(g, group[g].parent, n)
      /\ group' = [group EXCEPT ![g].name = n]
  BY DEF RenameGroup, Sub
<1>2. /\ group'[g] = [group[g] EXCEPT !.name = n]
      /\ \A h \in Groups \ {g} : group'[h] = group[h]
      /\ group' \in [Groups -> [state : {"none", "active", "archived", "deleted"},
                               parent : Projects \cup {None}, name : GroupNames \cup {None}]]
  BY <1>1 DEF IInv, TypeOK
<1>3. \A h \in Groups : group'[h].state = group[h].state /\ group'[h].parent = group[h].parent
  BY <1>1, <1>2 DEF IInv, TypeOK
<1>4. TypeOK'
  <2>1. ASSUME NEW h \in Groups PROVE GroupOK(h)'
    <3>1. GroupOK(h)
      BY DEF IInv, TypeOK
    <3>2. CASE h = g
      BY <3>1, <3>2, <1>1, <1>2, <1>3 DEF GroupOK, Groups, Exists, Active, IInv, TypeOK
    <3>3. CASE h # g
      BY <3>1, <3>3, <1>2, <1>3 DEF GroupOK, Groups, Exists, Absent
    <3> QED
      BY <3>2, <3>3
  <2>2. ASSUME NEW d \in Datasets PROVE DatasetOK(d)'
    BY <1>1, <1>3 DEF IInv, TypeOK, DatasetOK, Holds, Groups, Exists, NoDataset
  <2> QED
    BY <1>1, <1>2, <2>1, <2>2 DEF IInv, TypeOK
<1>5. GroupsKeep
  BY <1>3 DEF GroupsKeep, Exists
<1>6. (SectionsOfProject /\ ArchivedSectionsEmpty)'
  BY <1>1, <1>3 DEF IInv, SectionsOfProject, Linked, ArchivedSectionsEmpty, TypeOK, DatasetOK, Groups
<1>7. GroupNamesUnique'
  BY <1>1, <1>2, <1>3 DEF IInv, GroupNamesUnique, NameFree, TypeOK
<1>8. (RequestsOK /\ SectionsSeen)'
  BY <1>1, <1>5, RequestsKept
<1>9. (LocksOK /\ GuardedNamesUnique)'
  BY <1>1, GuardKept DEF IsActive
<1> QED
  BY <1>4, <1>6, <1>7, <1>8, <1>9 DEF IInv

LEMMA ArchiveProjectKeeps ==
    ASSUME IInv, NEW c \in Clients, NEW p \in Projects, ArchiveProject(c, p)
    PROVE  IInv'
<1>1. /\ Sub(c) /\ UNCHANGED <<dataset, late, sole>> /\ p \in Groups /\ group[p].state = "active"
      /\ group' = [group EXCEPT ![p].state = "archived"]
  BY DEF ArchiveProject, Sub, Groups
<1>2. /\ group'[p] = [group[p] EXCEPT !.state = "archived"]
      /\ \A h \in Groups \ {p} : group'[h] = group[h]
      /\ group' \in [Groups -> [state : {"none", "active", "archived", "deleted"},
                               parent : Projects \cup {None}, name : GroupNames \cup {None}]]
  BY <1>1 DEF IInv, TypeOK
<1>3. \A h \in Groups : /\ Exists(group'[h]) <=> Exists(group[h])
                        /\ group'[h].parent = group[h].parent /\ group'[h].name = group[h].name
                        /\ group'[h].state = "active" => group[h].state = "active"
  BY <1>1, <1>2 DEF IInv, TypeOK, Exists
<1>4. TypeOK'
  <2>1. ASSUME NEW h \in Groups PROVE GroupOK(h)'
    BY <1>1, <1>2, <1>3, ProjectsAssumption DEF IInv, TypeOK, GroupOK, Groups, Exists, Absent
  <2>2. ASSUME NEW d \in Datasets PROVE DatasetOK(d)'
    BY <1>1, <1>3 DEF IInv, TypeOK, DatasetOK, Holds, Groups, Exists, NoDataset
  <2> QED
    BY <1>1, <1>2, <2>1, <2>2 DEF IInv, TypeOK
<1>5. GroupsKeep
  BY <1>1, <1>2, <1>3 DEF GroupsKeep, Exists
<1>6. (SectionsOfProject /\ ArchivedSectionsEmpty)'
  BY <1>1, <1>2, <1>3, ProjectsAssumption
     DEF IInv, SectionsOfProject, Linked, ArchivedSectionsEmpty, TypeOK, DatasetOK, Groups
<1>7. GroupNamesUnique'
  BY <1>3 DEF IInv, GroupNamesUnique
<1>8. (RequestsOK /\ SectionsSeen)'
  BY <1>1, <1>5, RequestsKept
<1>9. (LocksOK /\ GuardedNamesUnique)'
  BY <1>1, GuardKept DEF IsActive
<1> QED
  BY <1>4, <1>6, <1>7, <1>8, <1>9 DEF IInv

(* The section's datasets are those of its project, so all of them leave.  *)
LEMMA ArchiveSectionKeeps ==
    ASSUME IInv, NEW c \in Clients, NEW s \in Sections, ArchiveSection(c, s)
    PROVE  IInv'
<1>1. /\ Sub(c) /\ UNCHANGED <<late, sole>> /\ s \in Groups /\ group[s].state = "active"
      /\ group' = [group EXCEPT ![s].state = "archived"]
  BY DEF ArchiveSection, Active, Sub, Groups
<1>2. /\ group'[s] = [group[s] EXCEPT !.state = "archived"]
      /\ \A h \in Groups \ {s} : group'[h] = group[h]
      /\ group' \in [Groups -> [state : {"none", "active", "archived", "deleted"},
                               parent : Projects \cup {None}, name : GroupNames \cup {None}]]
  BY <1>1 DEF IInv, TypeOK
<1>3. \A h \in Groups : /\ Exists(group'[h]) <=> Exists(group[h])
                        /\ group'[h].parent = group[h].parent /\ group'[h].name = group[h].name
                        /\ group'[h].state = "active" => group[h].state = "active"
  BY <1>1, <1>2 DEF IInv, TypeOK, Exists
<1>4. \A d \in Datasets :
        dataset'[d] = IF dataset[d].section = s THEN [dataset[d] EXCEPT !.section = None]
                      ELSE dataset[d]
  BY ProjectsAssumption DEF ArchiveSection, IInv, SectionsOfProject, Linked, Groups
<1>5. /\ dataset' \in [Datasets -> [state : {"none", "active", "archived", "deleted"},
                                   project : Projects \cup {None},
                                   section : Sections \cup {None}, name : Names \cup {None}]]
      /\ \A d \in Datasets :
           /\ dataset'[d].state = dataset[d].state /\ dataset'[d].name = dataset[d].name
           /\ dataset'[d].project = dataset[d].project
           /\ dataset'[d].section \in {None, dataset[d].section} \ {s}
  <2>1. s # None
    BY ProjectsAssumption DEF Groups
  <2>2. DOMAIN dataset' = Datasets /\ dataset' = [d \in Datasets |-> dataset'[d]]
    BY DEF ArchiveSection
  <2> QED
    BY <1>4, <2>1, <2>2 DEF IInv, TypeOK
<1>6. TypeOK'
  <2>1. ASSUME NEW h \in Groups PROVE GroupOK(h)'
    <3>1. GroupOK(h)
      BY DEF IInv, TypeOK
    <3>2. CASE h = s
      BY <3>1, <3>2, <1>1, <1>2, <1>3 DEF GroupOK, Groups, Exists, IInv, TypeOK
    <3>3. CASE h # s
      BY <3>1, <3>3, <1>2, <1>3 DEF GroupOK, Groups, Exists, Absent
    <3> QED
      BY <3>2, <3>3
  <2>2. ASSUME NEW d \in Datasets PROVE DatasetOK(d)'
    <3>1. DatasetOK(d)
      BY DEF IInv, TypeOK
    <3>2. (Holds(dataset[d].project) /\ Holds(dataset[d].section))'
      BY <3>1, <1>3, <1>5 DEF DatasetOK, Holds, Groups
    <3>3. CASE Exists(dataset[d])
      BY <3>1, <3>2, <3>3, <1>5 DEF DatasetOK, Exists
    <3>4. CASE ~Exists(dataset[d])
      <4>1. dataset'[d] = dataset[d]
        BY <3>1, <3>4, <1>4, ProjectsAssumption DEF DatasetOK, NoDataset, Groups
      <4> QED
        BY <3>1, <3>2, <3>4, <4>1 DEF DatasetOK, Exists, NoDataset
    <3> QED
      BY <3>3, <3>4
  <2> QED
    BY <1>1, <1>2, <1>5, <2>1, <2>2 DEF IInv, TypeOK
<1>7. GroupsKeep
  BY <1>1, <1>2, <1>3 DEF GroupsKeep, Exists
<1>8. SectionsOfProject'
  BY <1>3, <1>5 DEF IInv, SectionsOfProject, Linked, TypeOK, DatasetOK, Groups
<1>9. ArchivedSectionsEmpty'
  <2>1. ASSUME NEW d \in Datasets, NEW t \in Sections,
               dataset'[d].section = t, group'[t].state = "archived"
        PROVE  d \in late'
    <3>1. t # s /\ t \in Groups /\ dataset[d].section = t
      BY <2>1, <1>5, ProjectsAssumption DEF Groups
    <3>2. group[t].state = "archived"
      BY <2>1, <3>1, <1>2
    <3> QED
      BY <3>1, <3>2, <1>1 DEF IInv, ArchivedSectionsEmpty
  <2> QED
    BY <2>1 DEF ArchivedSectionsEmpty
<1>10. GroupNamesUnique'
  BY <1>3 DEF IInv, GroupNamesUnique
<1>11. (RequestsOK /\ SectionsSeen)'
  BY <1>1, <1>7, RequestsKept
<1>12. (LocksOK /\ GuardedNamesUnique)'
  <2>1. sole' \subseteq sole /\ sole \subseteq Datasets
    BY <1>1 DEF IInv, TypeOK
  <2> QED
    BY <1>1, <1>5, <2>1, GuardKept DEF IsActive
<1> QED
  BY <1>6, <1>8, <1>9, <1>10, <1>11, <1>12 DEF IInv

(* Where there are no keys there are none to take away.                    *)
LEMMA NothingToTake ==
    ASSUME NEW S, NEW P, NEW T, NEW N,
           NEW r \in [state : S, project : P, section : T, name : N],
           r.project = None, r.section = None
    PROVE  [r EXCEPT !.project = None, !.section = None] = r
  OBVIOUS

LEMMA DeleteProjectKeeps ==
    ASSUME IInv, NEW c \in Clients, NEW p \in Projects, DeleteProject(c, p)
    PROVE  IInv'
<1> DEFINE gone == {p} \cup {s \in Sections : group[s].parent = p}
           keep(g) == IF g \in gone THEN None ELSE g
<1>1. /\ Sub(c) /\ UNCHANGED <<request, late>> /\ p \in Groups /\ gone \subseteq Groups
      /\ Exists(group[p]) /\ None \notin gone
      /\ group' = [g \in Groups |-> IF g \in gone THEN Absent("deleted") ELSE group[g]]
      /\ dataset' = [d \in Datasets |->
             [dataset[d] EXCEPT !.project = keep(@), !.section = keep(@)]]
      /\ sole' = sole \ {d \in Datasets : dataset[d].project = p}
  BY ProjectsAssumption DEF DeleteProject, Sub, Groups
<1> HIDE DEF keep
<1>2. \A d \in Datasets :
        /\ dataset'[d].state = dataset[d].state /\ dataset'[d].name = dataset[d].name
        /\ dataset'[d].project = keep(dataset[d].project)
        /\ dataset'[d].section = keep(dataset[d].section)
        /\ dataset'[d] = [dataset[d] EXCEPT !.project = keep(@), !.section = keep(@)]
  BY <1>1 DEF IInv, TypeOK
<1>3. \A g \in Groups : /\ g \in gone => group'[g] = Absent("deleted")
                        /\ g \notin gone => group'[g] = group[g]
  BY <1>1
<1>4. \A g \in Groups : group'[g] = group[g] \/ group'[g].state = "deleted"
  BY <1>3 DEF Absent
<1>5. GroupsKeep
  BY <1>4 DEF GroupsKeep, Exists
<1>6. TypeOK'
  <2>1. group' \in [Groups -> [state : {"none", "active", "archived", "deleted"},
                               parent : Projects \cup {None}, name : GroupNames \cup {None}]]
    BY <1>1 DEF IInv, TypeOK, Absent
  <2>2. ASSUME NEW g \in Groups PROVE GroupOK(g)'
    <3>1. GroupOK(g)
      BY DEF IInv, TypeOK
    <3>2. CASE g \in gone
      <4>1. group'[g] = Absent("deleted")
        BY <3>2, <1>3
      <4> QED
        BY <4>1 DEF GroupOK, Absent, Exists
    <3>3. CASE g \notin gone
      <4>1. group'[g] = group[g]
        BY <3>3, <1>3
      <4>2. g \in Sections /\ Exists(group[g]) =>
              Exists(group'[group[g].parent]) /\ group[g].parent \in Projects
        BY <3>1, <3>3, <1>3, ProjectsAssumption DEF GroupOK, Groups
      <4> QED
        BY <3>1, <4>1, <4>2, ProjectsAssumption DEF GroupOK, Groups, Exists, Absent
    <3> QED
      BY <3>2, <3>3
  <2>3. \A g : keep(g) \notin gone /\ keep(g) \in {g, None}
    BY <1>1 DEF keep
  <2>4. dataset' \in [Datasets -> [state : {"none", "active", "archived", "deleted"},
                                   project : Projects \cup {None},
                                   section : Sections \cup {None}, name : Names \cup {None}]]
    BY <2>3, <1>1 DEF IInv, TypeOK
  <2>5. ASSUME NEW d \in Datasets PROVE DatasetOK(d)'
    <3>1. DatasetOK(d)
      BY DEF IInv, TypeOK
    <3>2. \A g \in Groups \cup {None} :
            Holds(g) => keep(g) = None \/ Exists(group'[keep(g)])
      BY <2>3, <1>3 DEF Holds, Exists
    <3>3. /\ (dataset[d].project \in Projects \cup {None} /\ Holds(dataset[d].project))'
          /\ (dataset[d].section \in Sections \cup {None} /\ Holds(dataset[d].section))'
      BY <3>1, <3>2, <2>3, <1>2 DEF DatasetOK, Groups, Holds
    <3>4. CASE Exists(dataset[d])
      BY <3>1, <3>3, <3>4, <1>2 DEF DatasetOK, Exists
    <3>5. CASE ~Exists(dataset[d])
      <4>1. dataset[d].project = None /\ dataset[d].section = None /\ keep(None) = None
        BY <3>1, <3>5, <2>3 DEF DatasetOK, NoDataset
      <4>2. dataset[d] \in [state : {"none", "active", "archived", "deleted"},
                            project : Projects \cup {None},
                            section : Sections \cup {None}, name : Names \cup {None}]
        BY DEF IInv, TypeOK
      <4>3. dataset'[d] = [dataset[d] EXCEPT !.project = None, !.section = None]
        <5>1. dataset'[d] = [dataset[d] EXCEPT !.project = keep(@), !.section = keep(@)]
          BY <1>2
        <5> QED
          BY <5>1, <4>1
      <4>4. dataset'[d] = dataset[d]
        BY <4>1, <4>2, <4>3, NothingToTake
      <4> QED
        BY <3>1, <3>3, <3>5, <4>4 DEF DatasetOK, Exists, NoDataset
    <3> QED
      BY <3>4, <3>5
  <2> QED
    BY <1>1, <2>1, <2>2, <2>4, <2>5 DEF IInv, TypeOK
<1>7. SectionsOfProject'
  <2>1. ASSUME NEW d \in Datasets, dataset'[d].section # None PROVE Linked(d)'
    <3>1. dataset[d].section \notin gone /\ dataset'[d].section = dataset[d].section
            /\ dataset[d].section \in Sections /\ Exists(group[dataset[d].section])
      BY <2>1, <1>2 DEF keep, IInv, TypeOK, DatasetOK, Holds
    <3>2. dataset[d].project = group[dataset[d].section].parent /\ dataset[d].project # p
            /\ dataset[d].project \in Projects
      BY <3>1, ProjectsAssumption DEF IInv, SectionsOfProject, Linked, TypeOK, GroupOK, Groups
    <3>3. dataset'[d].project = dataset[d].project
      BY <3>2, <1>2, ProjectsAssumption DEF keep
    <3> QED
      BY <3>1, <3>2, <3>3, <1>3 DEF Linked, Groups
  <2> QED
    BY <2>1 DEF SectionsOfProject, Linked
<1>8. ArchivedSectionsEmpty'
  <2>1. ASSUME NEW d \in Datasets, NEW t \in Sections,
               dataset'[d].section = t, group'[t].state = "archived"
        PROVE  d \in late'
    <3>1. t \in Groups /\ t # None
      BY ProjectsAssumption DEF Groups
    <3>2. dataset[d].section = t /\ group[t].state = "archived"
      BY <2>1, <3>1, <1>2, <1>4 DEF keep
    <3> QED
      BY <3>2, <1>1 DEF IInv, ArchivedSectionsEmpty
  <2> QED
    BY <2>1 DEF ArchivedSectionsEmpty
<1>9. GroupNamesUnique'
  BY <1>4 DEF IInv, GroupNamesUnique
<1>10. (RequestsOK /\ SectionsSeen)'
  BY <1>1, <1>5, RequestsKept
<1>11. (LocksOK /\ GuardedNamesUnique)'
  <2>1. sole' \subseteq sole /\ sole \subseteq Datasets
    BY <1>1 DEF IInv, TypeOK
  <2>2. ASSUME NEW d \in sole' PROVE keep(dataset[d].project) = dataset[d].project
    BY <2>1, <2>2, <1>1, ProjectsAssumption DEF keep, IInv, TypeOK
  <2> QED
    BY <1>1, <1>2, <2>1, <2>2, GuardKept DEF IsActive
<1> QED
  BY <1>6, <1>7, <1>8, <1>9, <1>10, <1>11 DEF IInv

-----------------------------------------------------------------------------
(* Datasets are placed, made, archived, restored and deleted.              *)

(* One dataset changes: what is to be shown of it alone.                   *)
LEMMA DatasetReplaced ==
    ASSUME IInv, NEW c \in Clients, Sub(c), UNCHANGED group, NEW d \in Datasets,
           NEW r \in [state : {"active", "archived", "deleted"}, project : Projects \cup {None},
                      section : Sections \cup {None}, name : Names \cup {None}],
           dataset' = [dataset EXCEPT ![d] = r],
           Holds(r.project), Holds(r.section),
           IF Exists(r) THEN r.name \in Names ELSE r = NoDataset(r.state),
           r.section # None => r.project = group[r.section].parent,
           late' \subseteq Datasets, late \ {d} \subseteq late',
           r.section # None /\ group[r.section].state = "archived" => d \in late',
           sole' \subseteq Datasets, (LocksOK /\ GuardedNamesUnique)'
    PROVE  IInv'
<1>1. /\ dataset'[d] = r
      /\ \A e \in Datasets \ {d} : dataset'[e] = dataset[e]
      /\ dataset' \in [Datasets -> [state : {"none", "active", "archived", "deleted"},
                                   project : Projects \cup {None},
                                   section : Sections \cup {None}, name : Names \cup {None}]]
  BY DEF IInv, TypeOK
<1>2. TypeOK'
  <2>1. ASSUME NEW e \in Datasets PROVE DatasetOK(e)'
    <3>1. CASE e = d
      BY <3>1, <1>1 DEF DatasetOK, Holds, Exists, NoDataset
    <3>2. CASE e # d
      BY <3>2, <1>1 DEF IInv, TypeOK, DatasetOK, Holds, Exists, NoDataset
    <3> QED
      BY <3>1, <3>2
  <2>2. \A g \in Groups : GroupOK(g)'
    BY DEF IInv, TypeOK, GroupOK, Exists, Absent
  <2> QED
    BY <1>1, <2>1, <2>2 DEF IInv, TypeOK
<1>3. SectionsOfProject'
  BY <1>1 DEF IInv, SectionsOfProject, Linked
<1>4. ArchivedSectionsEmpty'
  <2>1. \A s \in Sections : s # None
    BY ProjectsAssumption DEF Groups
  <2> QED
    BY <1>1, <2>1 DEF IInv, ArchivedSectionsEmpty
<1>5. GroupNamesUnique'
  BY DEF IInv, GroupNamesUnique
<1>6. (RequestsOK /\ SectionsSeen)'
  BY RequestsKept DEF GroupsKeep
<1> QED
  BY <1>2, <1>3, <1>4, <1>5, <1>6 DEF IInv

LEMMA ArchiveDatasetKeeps ==
    ASSUME IInv, NEW c \in Clients, NEW d \in Datasets, ArchiveDataset(c, d)
    PROVE  IInv'
<1> DEFINE r == [dataset[d] EXCEPT !.state = "archived"]
<1>1. /\ Sub(c) /\ UNCHANGED <<group, late, sole>> /\ IsActive(d)
      /\ dataset' = [dataset EXCEPT ![d] = r]
  BY DEF ArchiveDataset, Sub
<1>2. /\ r \in [state : {"active", "archived", "deleted"}, project : Projects \cup {None},
                section : Sections \cup {None}, name : Names \cup {None}]
      /\ r.state = "archived" /\ r.project = dataset[d].project
      /\ r.section = dataset[d].section /\ r.name = dataset[d].name
  BY DEF IInv, TypeOK
<1>3. Holds(r.project) /\ Holds(r.section) /\ Exists(r) /\ r.name \in Names
  BY <1>1, <1>2 DEF IInv, TypeOK, DatasetOK, IsActive, Exists
<1>4. r.section # None => r.project = group[r.section].parent
  BY <1>2 DEF IInv, SectionsOfProject, Linked
<1>5. r.section # None /\ group[r.section].state = "archived" => d \in late
  BY <1>2 DEF IInv, ArchivedSectionsEmpty, TypeOK
<1>6. \A e \in Datasets :
        /\ dataset'[e].state = "none" => dataset[e].state = "none"
        /\ IsActive(e)' => dataset'[e] = dataset[e] /\ IsActive(e)
  BY <1>1, <1>2 DEF IsActive, IInv, TypeOK
<1>7. (LocksOK /\ GuardedNamesUnique)'
  BY <1>1, <1>6, GuardKept DEF IInv, TypeOK
<1>8. late \subseteq Datasets /\ sole \subseteq Datasets
  BY DEF IInv, TypeOK
<1> QED
  BY <1>1, <1>2, <1>3, <1>4, <1>5, <1>7, <1>8, DatasetReplaced

LEMMA RestoreDatasetKeeps ==
    ASSUME IInv, NEW c \in Clients, NEW d \in Datasets, RestoreDataset(c, d)
    PROVE  IInv'
<1> DEFINE r == [dataset[d] EXCEPT !.state = "active"]
<1>1. /\ Sub(c) /\ UNCHANGED <<group, late>> /\ dataset[d].state = "archived"
      /\ dataset' = [dataset EXCEPT ![d] = r] /\ sole' = sole \ {d}
  BY DEF RestoreDataset, Sub
<1>2. /\ r \in [state : {"active", "archived", "deleted"}, project : Projects \cup {None},
                section : Sections \cup {None}, name : Names \cup {None}]
      /\ r.state = "active" /\ r.project = dataset[d].project
      /\ r.section = dataset[d].section /\ r.name = dataset[d].name
  BY DEF IInv, TypeOK
<1>3. Holds(r.project) /\ Holds(r.section) /\ Exists(r) /\ r.name \in Names
  BY <1>1, <1>2 DEF IInv, TypeOK, DatasetOK, Exists
<1>4. r.section # None => r.project = group[r.section].parent
  BY <1>2 DEF IInv, SectionsOfProject, Linked
<1>5. r.section # None /\ group[r.section].state = "archived" => d \in late
  BY <1>2 DEF IInv, ArchivedSectionsEmpty, TypeOK
<1>6. \A e \in Datasets \ {d} : dataset'[e] = dataset[e]
  BY <1>1 DEF IInv, TypeOK
<1>7. (LocksOK /\ GuardedNamesUnique)'
  BY <1>1, <1>6, GuardKept DEF IInv, TypeOK, IsActive
<1>8. late \subseteq Datasets /\ sole' \subseteq Datasets
  BY <1>1 DEF IInv, TypeOK
<1> QED
  BY <1>1, <1>2, <1>3, <1>4, <1>5, <1>7, <1>8, DatasetReplaced

LEMMA DeleteDatasetKeeps ==
    ASSUME IInv, NEW c \in Clients, NEW d \in Datasets, DeleteDataset(c, d)
    PROVE  IInv'
<1> DEFINE r == NoDataset("deleted")
<1>1. /\ Sub(c) /\ UNCHANGED group
      /\ dataset' = [dataset EXCEPT ![d] = r] /\ sole' = sole \ {d} /\ late' = late \ {d}
  BY DEF DeleteDataset, Sub
<1>2. /\ r \in [state : {"active", "archived", "deleted"}, project : Projects \cup {None},
                section : Sections \cup {None}, name : Names \cup {None}]
      /\ Holds(r.project) /\ Holds(r.section) /\ ~Exists(r) /\ r = NoDataset(r.state)
      /\ r.section = None
  BY DEF NoDataset, Holds, Exists
<1>3. \A e \in Datasets \ {d} : dataset'[e] = dataset[e]
  BY <1>1 DEF IInv, TypeOK
<1>4. (LocksOK /\ GuardedNamesUnique)'
  BY <1>1, <1>3, GuardKept DEF IInv, TypeOK, IsActive
<1>5. late' \subseteq Datasets /\ sole' \subseteq Datasets
  BY <1>1 DEF IInv, TypeOK
<1> QED
  BY <1>1, <1>2, <1>4, <1>5, DatasetReplaced

(* What a move or a creation writes: the project and section that were     *)
(* read, if they are still there.                                          *)
LEMMA PlacedKeeps ==
    ASSUME IInv, NEW c \in Clients, Sub(c), UNCHANGED group, NEW d \in Datasets,
           NEW p \in Projects \cup {None}, NEW s \in Sections \cup {None}, NEW n \in Names,
           Holds(p), Holds(s), s # None => p = group[s].parent,
           dataset' = [dataset EXCEPT ![d] =
                         [state |-> "active", project |-> p, section |-> s, name |-> n]],
           Placed(d, s), sole' \subseteq Datasets, (LocksOK /\ GuardedNamesUnique)'
    PROVE  IInv'
<1> DEFINE r == [state |-> "active", project |-> p, section |-> s, name |-> n]
<1>1. /\ r \in [state : {"active", "archived", "deleted"}, project : Projects \cup {None},
                section : Sections \cup {None}, name : Names \cup {None}]
      /\ Exists(r) /\ r.name \in Names /\ r.project = p /\ r.section = s
  BY DEF Exists
<1>2. /\ late' \subseteq Datasets /\ late \ {d} \subseteq late'
      /\ s # None /\ group[s].state = "archived" => d \in late'
  BY DEF Placed, IInv, TypeOK
<1> HIDE DEF r
<1>3. dataset' = [dataset EXCEPT ![d] = r]
  BY DEF r
<1> QED
  BY <1>1, <1>2, <1>3, DatasetReplaced

LEMMA CommitMoveKeeps ==
    ASSUME IInv, NEW c \in Clients, CommitMove(c)
    PROVE  IInv'
<1> DEFINE r == request[c]
           d == r.target
<1>1. /\ RequestOK(r) /\ Seen(r) /\ r.op = "move" /\ Sub(c) /\ UNCHANGED group
      /\ request' = [request EXCEPT ![c] = Idle]
      /\ d \in Datasets /\ r.project \in Projects \cup {None} /\ r.section \in Sections \cup {None}
  BY DEF CommitMove, Finish, IInv, RequestsOK, SectionsSeen, RequestOK, Sub
<1>2. CASE UNCHANGED <<dataset, late, sole>>
  <2>1. Seen(Idle) /\ Idle.op # "locked"
    BY DEF Seen, Idle
  <2> QED
    BY <1>1, <1>2, <2>1, IdleOK, RequestReplaced
<1>3. CASE ~UNCHANGED <<dataset, late, sole>>
  <2>1. /\ IsActive(d) /\ Holds(r.project) /\ Holds(r.section)
        /\ dataset' = [dataset EXCEPT ![d].project = r.project, ![d].section = r.section]
        /\ Placed(d, r.section) /\ sole' = sole \ {d}
    BY <1>3 DEF CommitMove
  <2>2. dataset[d] \in [state : {"none", "active", "archived", "deleted"},
                        project : Projects \cup {None},
                        section : Sections \cup {None}, name : Names \cup {None}]
          /\ dataset[d].state = "active" /\ dataset[d].name \in Names
    BY <1>1, <2>1 DEF IInv, TypeOK, DatasetOK, IsActive, Exists
  <2>3. dataset' = [dataset EXCEPT ![d] = [state |-> "active", project |-> r.project,
                                           section |-> r.section, name |-> dataset[d].name]]
    <3> DEFINE moved == [state |-> "active", project |-> r.project,
                         section |-> r.section, name |-> dataset[d].name]
    <3>1. /\ dataset' \in [Datasets -> [state : {"none", "active", "archived", "deleted"},
                                        project : Projects \cup {None},
                                        section : Sections \cup {None}, name : Names \cup {None}]]
          /\ \A e \in Datasets \ {d} : dataset'[e] = dataset[e]
          /\ dataset'[d].state = "active" /\ dataset'[d].project = r.project
          /\ dataset'[d].section = r.section /\ dataset'[d].name = dataset[d].name
      BY <1>1, <2>1, <2>2 DEF IInv, TypeOK
    <3>2. dataset'[d] = moved
      BY <1>1, <2>2, <3>1
    <3> HIDE DEF moved
    <3>3. dataset' = [dataset EXCEPT ![d] = moved]
      BY <1>1, <3>1, <3>2 DEF IInv, TypeOK
    <3> QED
      BY <3>3 DEF moved
  <2>4. r.section # None => r.project = group[r.section].parent
    BY <1>1, <2>1 DEF Seen, Holds
  <2>5. (LocksOK /\ GuardedNamesUnique)' /\ sole' \subseteq Datasets
    BY <1>1, <2>1, GuardKept DEF IInv, TypeOK, IsActive
  <2> QED
    BY <1>1, <2>1, <2>2, <2>3, <2>4, <2>5, PlacedKeeps
<1> QED
  BY <1>2, <1>3

(* Under the lock no other request gives a guarded name in the project.    *)
LEMMA CommitCreateKeeps ==
    ASSUME IInv, NEW c \in Clients, CommitCreate(c)
    PROVE  IInv'
<1> DEFINE r == request[c]
           d == r.target
           p == r.project
<1>1. /\ RequestOK(r) /\ Seen(r) /\ r.op \in {"create", "locked"} /\ Sub(c) /\ UNCHANGED group
      /\ request' = [request EXCEPT ![c] = Idle]
      /\ p # None => ~LockedByOther(p, c)
      /\ d \in Datasets /\ p \in Projects \cup {None} /\ r.section \in Sections \cup {None}
      /\ r.name \in Names
  BY DEF CommitCreate, Finish, IInv, RequestsOK, SectionsSeen, RequestOK, Sub, Creating
<1>2. CASE UNCHANGED <<dataset, late, sole>>
  <2>1. Seen(Idle) /\ Idle.op # "locked"
    BY DEF Seen, Idle
  <2> QED
    BY <1>1, <1>2, <2>1, IdleOK, RequestReplaced
<1>3. CASE ~UNCHANGED <<dataset, late, sole>>
  <2> DEFINE made == [state |-> "active", project |-> p, section |-> r.section, name |-> r.name]
  <2>1. /\ dataset[d].state = "none" /\ Holds(p) /\ Holds(r.section)
        /\ dataset' = [dataset EXCEPT ![d] = made]
        /\ Placed(d, r.section) /\ sole' = IF r.op = "locked" THEN sole \cup {d} ELSE sole
    BY <1>3 DEF CommitCreate
  <2>2. /\ dataset'[d].state = "active" /\ dataset'[d].project = p /\ dataset'[d].name = r.name
        /\ \A e \in Datasets \ {d} : dataset'[e] = dataset[e]
    BY <1>1, <2>1 DEF IInv, TypeOK
  <2>3. sole \subseteq Datasets /\ d \notin sole
    BY <2>1 DEF IInv, TypeOK, LocksOK
  <2>4. r.section # None => p = group[r.section].parent
    BY <1>1, <2>1 DEF Seen, Holds
  <2>5. GuardedNamesUnique'
    <3>1. CASE r.op = "create"
      BY <3>1, <2>1, <2>2, <2>3 DEF IInv, GuardedNamesUnique, IsActive
    <3>2. CASE r.op = "locked"
      <4>1. Vacant(r) /\ sole' = sole \cup {d}
        BY <3>2, <2>1 DEF IInv, LocksOK
      <4> QED
        BY <4>1, <2>2, <2>3 DEF IInv, GuardedNamesUnique, Vacant, IsActive
    <3> QED
      BY <1>1, <3>1, <3>2
  <2>6. LocksOK'
    <3>1. \A e \in sole' : dataset'[e].state # "none"
      BY <2>1, <2>2, <2>3 DEF IInv, LocksOK
    <3>2. ASSUME NEW b \in Clients, request'[b].op = "locked"
          PROVE  (~LockedByOther(request[b].project, b) /\ Vacant(request[b]))'
      <4>1. b # c /\ request'[b] = request[b] /\ request[b].project # None
        BY <3>2, <1>1 DEF IInv, RequestsOK, RequestOK, Idle
      <4>2. ~LockedByOther(request[b].project, b)'
        BY <3>2, <4>1, <1>1 DEF IInv, LocksOK, LockedByOther, RequestsOK, Idle
      <4>3. p # request[b].project
        BY <3>2, <4>1, <1>1 DEF LockedByOther
      <4>4. Vacant(request[b])
        BY <3>2, <4>1 DEF IInv, LocksOK
      <4>5. Vacant(request[b])'
        BY <4>1, <4>3, <4>4, <2>1, <2>2, <2>3 DEF Vacant, IsActive
      <4> QED
        BY <4>2, <4>5
    <3> QED
      BY <3>1, <3>2 DEF LocksOK
  <2>7. sole' \subseteq Datasets
    BY <1>1, <2>1, <2>3
  <2> QED
    BY <1>1, <2>1, <2>4, <2>5, <2>6, <2>7, PlacedKeeps
<1> QED
  BY <1>2, <1>3

-----------------------------------------------------------------------------
LEMMA StutterKeeps == IInv /\ UNCHANGED vars => IInv'
  BY DEF vars, IInv, TypeOK, GroupOK, DatasetOK, Exists, Holds, NoDataset, Absent, RequestsOK,
         SectionsSeen, Seen, SectionsOfProject, Linked, GroupNamesUnique,
         ArchivedSectionsEmpty, LocksOK, LockedByOther, Vacant, IsActive, GuardedNamesUnique

LEMMA NextKeeps ==
    ASSUME IInv, [Next]_vars
    PROVE  IInv'
<1>1. CASE UNCHANGED vars
  BY <1>1, StutterKeeps
<1>2. ASSUME NEW c \in Clients, OnGroups(c) PROVE IInv'
  BY <1>2, BeginGroupKeeps, RenameGroupKeeps, ArchiveProjectKeeps, DeleteProjectKeeps,
     ArchiveSectionKeeps, CommitGroupKeeps DEF OnGroups
<1>3. ASSUME NEW c \in Clients, OnDatasets(c) PROVE IInv'
  BY <1>3, BeginMoveKeeps, BeginCreateKeeps, LockProjectKeeps, CommitMoveKeeps,
     CommitCreateKeeps, ArchiveDatasetKeeps, RestoreDatasetKeeps, DeleteDatasetKeeps DEF OnDatasets
<1> QED
  BY <1>1, <1>2, <1>3, AbortKeeps DEF Next

LEMMA Inductive == Spec => []IInv
<1>1. Init => IInv
  BY InitIInv
<1>2. IInv /\ [Next]_vars => IInv'
  BY NextKeeps
<1> QED
  BY <1>1, <1>2, PTL DEF Spec

(* Every key names a row that is there, whatever was archived or deleted   *)
(* between the look at a project or section and the write that uses it.    *)
THEOREM TypeCorrect == Spec => []TypeOK
<1>1. IInv => TypeOK
  BY DEF IInv
<1> QED
  BY <1>1, Inductive, PTL

(* The page of an active project shows each of its active datasets in one  *)
(* group, and no other dataset, for any requests of any clients meanwhile. *)
THEOREM PagesAlwaysAddUp == Spec => []PagesAddUp
<1>1. IInv => PagesAddUp
  <2> SUFFICES ASSUME IInv, NEW p \in Projects, Active(p)
               PROVE  /\ \A d \in Datasets :
                           Cardinality({s \in Shown(p) \cup {None} : d \in GroupOf(p, s)})
                             = IF d \in In(p) THEN 1 ELSE 0
                      /\ \A s, t \in Shown(p) : s # t => group[s].name # group[t].name
    BY DEF PagesAddUp
  <2>1. \A s \in Sections : s # None /\ s \in Groups
    BY ProjectsAssumption DEF Groups
  <2>2. ASSUME NEW d \in Datasets
        PROVE  Cardinality({s \in Shown(p) \cup {None} : d \in GroupOf(p, s)})
                 = IF d \in In(p) THEN 1 ELSE 0
    <3> DEFINE groups == {s \in Shown(p) \cup {None} : d \in GroupOf(p, s)}
    <3>1. CASE d \notin In(p)
      <4>1. groups = {}
        BY <3>1, <2>1 DEF GroupOf, In, Shown, IInv, SectionsOfProject, Linked
      <4> QED
        BY <3>1, <4>1, FS_EmptySet
    <3>2. CASE d \in In(p)
      <4>1. groups = {IF dataset[d].section \in Shown(p) THEN dataset[d].section ELSE None}
        BY <3>2, <2>1 DEF GroupOf, In, Shown
      <4> QED
        BY <3>2, <4>1, FS_Singleton
    <3> QED
      BY <3>1, <3>2
  <2>3. \A s, t \in Shown(p) : s # t => group[s].name # group[t].name
    BY <2>1 DEF Shown, IInv, GroupNamesUnique
  <2> QED
    BY <2>2, <2>3
<1> QED
  BY <1>1, Inductive, PTL

(* Only a request that read a section before it was archived puts a        *)
(* dataset in it afterwards.                                               *)
THEOREM ArchivedSectionsStayEmpty == Spec => []ArchivedSectionsEmpty
<1>1. IInv => ArchivedSectionsEmpty
  BY DEF IInv
<1> QED
  BY <1>1, Inductive, PTL

(* Creations that guard one name in one project leave one dataset of it,   *)
(* however many clients and retries there are.                             *)
THEOREM GuardedNamesStayUnique == Spec => []GuardedNamesUnique
<1>1. IInv => GuardedNamesUnique
  BY DEF IInv
<1> QED
  BY <1>1, Inductive, PTL

=============================================================================
