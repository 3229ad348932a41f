------------------------------ MODULE Projects ------------------------------
(***************************************************************************)
(* Projects, their sections, and the datasets placed in them               *)
(* (apps/api/services.py, apps/datasets/models.py and the project views of *)
(* apps/datasets/views.py).  Placing and creating a dataset read the       *)
(* project and the section first and write in a later transaction, so      *)
(* either may be archived or deleted in between.  Only a creation that     *)
(* must not repeat a name locks the project.                               *)
(*                                                                         *)
(* A project and a section are both a group: the parent of a project is    *)
(* None.  Names are equal here when they are equal but for case.           *)
(***************************************************************************)
EXTENDS Naturals, FiniteSets

CONSTANTS
    Projects, Sections, Datasets, Clients, GroupNames, Names, None,
    MaxGroups     \* bound: projects and sections ever made

Groups == Projects \cup Sections

ASSUME ProjectsAssumption ==
    /\ Projects \cap Sections = {}
    /\ MaxGroups \in Nat
    /\ None \notin Groups \cup Datasets \cup Names \cup GroupNames

VARIABLES
    group,      \* of each group its state, parent and name
    dataset,    \* of each dataset its state, project, section and name
    request,    \* what each client has read and is about to write
    late,       \* ghost: datasets put in a section archived since it was read
    sole        \* ghost: datasets where a creation that guards its name left them

vars == <<group, dataset, request, late, sole>>

Idle == [op |-> "idle", target |-> None, project |-> None, section |-> None, name |-> None]
Absent(state) == [state |-> state, parent |-> None, name |-> None]
NoDataset(state) == [state |-> state, project |-> None, section |-> None, name |-> None]

(* A row that is there; deleted ones are never used again.                 *)
Exists(record) == record.state \in {"active", "archived"}

(* _active_project_queryset, _active_project_section_queryset              *)
Active(g) ==
    /\ group[g].state = "active"
    /\ group[g].parent # None => group[group[g].parent].state = "active"

(* unique_active_profile_project_name_ci,                                  *)
(* unique_active_project_section_name_ci                                   *)
NameFree(g, parent, n) ==
    \A h \in Groups \ {g} :
        group[h].state = "active" => group[h].parent # parent \/ group[h].name # n

IsActive(d) == dataset[d].state = "active"
In(p) == {d \in Datasets : IsActive(d) /\ dataset[d].project = p}

(* A foreign key in force: the row was not deleted meanwhile.              *)
Holds(g) == g = None \/ Exists(group[g])

(* get_profile_project and _resolve_project_section_assignment             *)
Assignable(p, s) ==
    /\ p # None => Active(p)
    /\ s # None => Active(s) /\ group[s].parent = p /\ p # None

(* Fault: select_for_update is forgotten.                                  *)
LockedByNone(p, c) == FALSE

(* Another client holds the project's row: a lock and a foreign key that   *)
(* comes to name it wait.                                                  *)
LockedByOther(p, c) ==
    \E other \in Clients \ {c} :
        request[other].op = "locked" /\ request[other].project = p

Init ==
    /\ group = [g \in Groups |-> Absent("none")]
    /\ dataset = [d \in Datasets |-> NoDataset("none")]
    /\ request = [c \in Clients |-> Idle]
    /\ late = {}
    /\ sole = {}

Begin(c, r) ==
    /\ request[c] = Idle
    /\ request' = [request EXCEPT ![c] = r]
    /\ UNCHANGED <<group, dataset, late, sole>>

Finish(c) == request' = [request EXCEPT ![c] = Idle]

-----------------------------------------------------------------------------
(* Groups.                                                                 *)

(* create_profile_project, create_profile_project_section: the look at the *)
(* names that are there.                                                   *)
BeginGroup(c, g, parent, n) ==
    /\ group[g].state = "none"
    /\ Cardinality({h \in Groups : group[h].state # "none" \/ \E other \in Clients :
         request[other].op = "group" /\ request[other].target = h}) < MaxGroups
    /\ IF g \in Projects THEN parent = None ELSE parent \in Projects /\ Active(parent)
    /\ NameFree(g, parent, n)
    /\ Begin(c, [op |-> "group", target |-> g, project |-> parent, section |-> None, name |-> n])

(* The insert, or the 409 of the unique constraint.                        *)
CommitGroup(c) ==
    LET r == request[c]
    IN  /\ r.op = "group" /\ Finish(c)
        /\ r.project # None => ~LockedByOther(r.project, c)
        /\ group' = IF /\ group[r.target].state = "none" /\ Holds(r.project)
                       /\ NameFree(r.target, r.project, r.name)
                    THEN [group EXCEPT ![r.target] =
                            [state |-> "active", parent |-> r.project, name |-> r.name]]
                    ELSE group
        /\ UNCHANGED <<dataset, late, sole>>

(* update_profile_project, update_profile_project_section: the name.       *)
RenameGroup(c, g, n) ==
    /\ request[c] = Idle
    /\ Active(g) /\ NameFree(g, group[g].parent, n) /\ ~LockedByOther(g, c)
    /\ group' = [group EXCEPT ![g].name = n]
    /\ UNCHANGED <<dataset, request, late, sole>>

(* archive_profile_project: the datasets stay.                             *)
ArchiveProject(c, p) ==
    /\ request[c] = Idle
    /\ group[p].state = "active" /\ ~LockedByOther(p, c)
    /\ group' = [group EXCEPT ![p].state = "archived"]
    /\ UNCHANGED <<dataset, request, late, sole>>

(* Fault: archived datasets are not looked at.                             *)
ArchiveSectionOfActive(c, s) ==
    /\ request[c] = Idle /\ Active(s)
    /\ group' = [group EXCEPT ![s].state = "archived"]
    /\ dataset' = [d \in Datasets |-> IF IsActive(d) /\ dataset[d].section = s
                                      THEN [dataset[d] EXCEPT !.section = None] ELSE dataset[d]]
    /\ UNCHANGED <<request, late, sole>>

(* archive_profile_project_section: one update takes its datasets out.     *)
ArchiveSection(c, s) ==
    /\ request[c] = Idle /\ Active(s)
    /\ group' = [group EXCEPT ![s].state = "archived"]
    /\ dataset' = [d \in Datasets |->
         IF dataset[d].section = s /\ dataset[d].project = group[s].parent
         THEN [dataset[d] EXCEPT !.section = None] ELSE dataset[d]]
    /\ UNCHANGED <<request, late, sole>>

(* Fault: the datasets keep their section.                                 *)
DeleteProjectKeepingSections(c, p) ==
    LET gone == {p} \cup {s \in Sections : group[s].parent = p}
        keep(g) == IF g \in gone THEN None ELSE g
    IN  /\ request[c] = Idle
        /\ Exists(group[p]) /\ ~LockedByOther(p, c)
        /\ group' = [g \in Groups |-> IF g \in gone THEN Absent("deleted") ELSE group[g]]
        /\ dataset' = [d \in Datasets |-> [dataset[d] EXCEPT !.project = keep(@)]]
        /\ sole' = sole \ {d \in Datasets : dataset[d].project = p}
        /\ UNCHANGED <<request, late>>

(* project_delete of the dashboard: sections go with the project, datasets *)
(* lose both keys.                                                         *)
DeleteProject(c, p) ==
    LET gone == {p} \cup {s \in Sections : group[s].parent = p}
        keep(g) == IF g \in gone THEN None ELSE g
    IN  /\ request[c] = Idle
        /\ Exists(group[p]) /\ ~LockedByOther(p, c)
        /\ group' = [g \in Groups |-> IF g \in gone THEN Absent("deleted") ELSE group[g]]
        /\ dataset' = [d \in Datasets |->
             [dataset[d] EXCEPT !.project = keep(@), !.section = keep(@)]]
        /\ sole' = sole \ {d \in Datasets : dataset[d].project = p}
        /\ UNCHANGED <<request, late>>

-----------------------------------------------------------------------------
(* Datasets.                                                               *)

Placed(d, s) ==
    late' = IF s # None /\ group[s].state = "archived" THEN late \cup {d} ELSE late \ {d}

(* update_profile_dataset_project, before and in its transaction.          *)
BeginMove(c, d, p, s) ==
    /\ Exists(dataset[d]) /\ Assignable(p, s)
    /\ Begin(c, [op |-> "move", target |-> d, project |-> p, section |-> s, name |-> None])

(* Fault: no section given leaves the one there is.                        *)
CommitMoveKeepingSection(c) ==
    LET r == request[c]
        s == IF r.section = None THEN dataset[r.target].section ELSE r.section
    IN  /\ r.op = "move" /\ Finish(c)
        /\ IF IsActive(r.target) /\ Holds(r.project) /\ Holds(s)
           THEN /\ dataset' = [dataset EXCEPT ![r.target].project = r.project,
                                              ![r.target].section = s]
                /\ Placed(r.target, s)
                /\ sole' = sole \ {r.target}
           ELSE UNCHANGED <<dataset, late, sole>>
        /\ UNCHANGED group

CommitMove(c) ==
    LET r == request[c]
    IN  /\ r.op = "move" /\ Finish(c)
        /\ r.project \notin {None, dataset[r.target].project} => ~LockedByOther(r.project, c)
        /\ IF IsActive(r.target) /\ Holds(r.project) /\ Holds(r.section)
           THEN /\ dataset' = [dataset EXCEPT ![r.target].project = r.project,
                                              ![r.target].section = r.section]
                /\ Placed(r.target, r.section)
                /\ sole' = sole \ {r.target}
           ELSE UNCHANGED <<dataset, late, sole>>
        /\ UNCHANGED group

(* create_profile_dataset: what it reads before its transaction.           *)
BeginCreate(c, d, p, s, n, guarded) ==
    /\ dataset[d].state = "none" /\ Assignable(p, s)
    /\ guarded => p # None
    /\ Begin(c, [op |-> IF guarded THEN "guarded" ELSE "create",
                 target |-> d, project |-> p, section |-> s, name |-> n])

(* prevent_duplicate_name: the project is locked, archived or not, and the *)
(* name looked for among its active datasets.                              *)
LockProject(c) ==
    LET r == request[c]
    IN  /\ r.op = "guarded" /\ ~LockedByOther(r.project, c)
        /\ IF Holds(r.project) /\ \A d \in In(r.project) : dataset[d].name # r.name
           THEN request' = [request EXCEPT ![c].op = "locked"]
           ELSE Finish(c)
        /\ UNCHANGED <<group, dataset, late, sole>>

CommitCreate(c) ==
    LET r == request[c]
    IN  /\ r.op \in {"create", "locked"} /\ Finish(c)
        /\ r.project # None => ~LockedByOther(r.project, c)
        /\ IF dataset[r.target].state = "none" /\ Holds(r.project) /\ Holds(r.section)
           THEN /\ dataset' = [dataset EXCEPT ![r.target] =
                     [state |-> "active", project |-> r.project,
                      section |-> r.section, name |-> r.name]]
                /\ Placed(r.target, r.section)
                /\ sole' = IF r.op = "locked" THEN sole \cup {r.target} ELSE sole
           ELSE UNCHANGED <<dataset, late, sole>>
        /\ UNCHANGED group

(* archive_profile_dataset, restore_profile_dataset                        *)
ArchiveDataset(c, d) ==
    /\ request[c] = Idle /\ IsActive(d)
    /\ dataset' = [dataset EXCEPT ![d].state = "archived"]
    /\ UNCHANGED <<group, request, late, sole>>

RestoreDataset(c, d) ==
    /\ request[c] = Idle /\ dataset[d].state = "archived"
    /\ dataset' = [dataset EXCEPT ![d].state = "active"]
    /\ sole' = sole \ {d}
    /\ UNCHANGED <<group, request, late>>

DeleteDataset(c, d) ==
    /\ request[c] = Idle /\ Exists(dataset[d])
    /\ dataset' = [dataset EXCEPT ![d] = NoDataset("deleted")]
    /\ late' = late \ {d}
    /\ sole' = sole \ {d}
    /\ UNCHANGED <<group, request>>

(* A request that was reading or waiting ends: its connection or process   *)
(* went away, and its transaction was rolled back.                         *)
Abort(c) ==
    /\ request[c] # Idle /\ Finish(c)
    /\ UNCHANGED <<group, dataset, late, sole>>

-----------------------------------------------------------------------------
OnGroups(c) ==
    \/ \E g \in Groups, parent \in Projects \cup {None}, n \in GroupNames : BeginGroup(c, g, parent, n)
    \/ \E g \in Groups, n \in GroupNames : RenameGroup(c, g, n)
    \/ \E p \in Projects : ArchiveProject(c, p) \/ DeleteProject(c, p)
    \/ \E s \in Sections : ArchiveSection(c, s)
    \/ CommitGroup(c)

OnDatasets(c) ==
    \/ \E d \in Datasets, p \in Projects \cup {None}, s \in Sections \cup {None} :
         \/ BeginMove(c, d, p, s)
         \/ \E n \in Names, guarded \in BOOLEAN : BeginCreate(c, d, p, s, n, guarded)
    \/ LockProject(c) \/ CommitMove(c) \/ CommitCreate(c)
    \/ \E d \in Datasets : ArchiveDataset(c, d) \/ RestoreDataset(c, d) \/ DeleteDataset(c, d)

Next == \E c \in Clients : OnGroups(c) \/ OnDatasets(c) \/ Abort(c)

Spec == Init /\ [][Next]_vars

-----------------------------------------------------------------------------
(* Foreign keys name rows that are there; only a section has a parent.     *)
GroupOK(g) ==
    /\ group[g].state \in {"none", "active", "archived", "deleted"}
    /\ IF Exists(group[g])
       THEN /\ group[g].name \in GroupNames
            /\ IF g \in Projects THEN group[g].parent = None
               ELSE group[g].parent \in Projects /\ Exists(group[group[g].parent])
       ELSE group[g] = Absent(group[g].state)

DatasetOK(d) ==
    /\ dataset[d].state \in {"none", "active", "archived", "deleted"}
    /\ dataset[d].project \in Projects \cup {None} /\ Holds(dataset[d].project)
    /\ dataset[d].section \in Sections \cup {None} /\ Holds(dataset[d].section)
    /\ IF Exists(dataset[d]) THEN dataset[d].name \in Names
       ELSE dataset[d] = NoDataset(dataset[d].state)

TypeOK ==
    /\ group \in [Groups -> [state : {"none", "active", "archived", "deleted"},
                             parent : Projects \cup {None}, name : GroupNames \cup {None}]]
    /\ \A g \in Groups : GroupOK(g)
    /\ dataset \in [Datasets -> [state : {"none", "active", "archived", "deleted"},
                                 project : Projects \cup {None},
                                 section : Sections \cup {None}, name : Names \cup {None}]]
    /\ \A d \in Datasets : DatasetOK(d)
    /\ late \subseteq Datasets /\ sole \subseteq Datasets

(* The page of a project: a group for each active section with the         *)
(* datasets of that section, and one for the project's other datasets.     *)
Shown(p) == {s \in Sections : group[s].parent = p /\ group[s].state = "active"}
GroupOf(p, s) ==
    IF s = None THEN {d \in In(p) : dataset[d].section \notin Shown(p)}
    ELSE {d \in Datasets : IsActive(d) /\ dataset[d].section = s}

(* Whatever was moved, archived and deleted meanwhile, each active dataset *)
(* of a project is in exactly one group of its page, the groups hold no    *)
(* other dataset and no two have one name (project_section_dataset_groups  *)
(* with the counts of ProjectDetailView).                                  *)
PagesAddUp ==
    \A p \in Projects : Active(p) =>
      /\ \A d \in Datasets :
           Cardinality({s \in Shown(p) \cup {None} : d \in GroupOf(p, s)})
             = IF d \in In(p) THEN 1 ELSE 0
      /\ \A s, t \in Shown(p) : s # t => group[s].name # group[t].name

(* Archiving a section takes out all its datasets, archived ones too; only *)
(* a request that read the section before can put one in afterwards.       *)
ArchivedSectionsEmpty ==
    \A d \in Datasets : \A s \in Sections :
        dataset[d].section = s /\ group[s].state = "archived" => d \in late

(* Of two creations that guard the same name in the same project, retried  *)
(* or at once, only one makes a dataset.                                   *)
GuardedNamesUnique ==
    \A d, e \in sole : d # e /\ IsActive(d) /\ IsActive(e)
        /\ dataset[d].project = dataset[e].project => dataset[d].name # dataset[e].name
=============================================================================
