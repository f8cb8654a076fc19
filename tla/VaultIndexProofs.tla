-------------------------- MODULE VaultIndexProofs --------------------------
(***************************************************************************)
(* Theorems about VaultIndex, for every number of sessions, tasks, notes,   *)
(* deletes and changes from outside.                                        *)
(*                                                                          *)
(* The inductive invariant has four layers, each proved of every action     *)
(* with the help of the ones before it:                                     *)
(*   BaseInv  types, what a task may hold at each place, the lock;          *)
(*   World    where the files of a session are, and what the records of its *)
(*            deletes can bring back;                                       *)
(*   Place    what the catalog and every task that is under way know of     *)
(*            where the session is;                                         *)
(*   Told     what the index says of it.                                    *)
(* A lemma <Action><Layer> says that the action keeps the layer.            *)
(***************************************************************************)
EXTENDS VaultIndex, TLAPS

-----------------------------------------------------------------------------
(***************************************************************************)
(* Types, the lock, and what an action does to the tasks.                   *)
(***************************************************************************)
\* The operations that hold the lock while they work.
Commands == {"create", "update", "note", "delete"}

\* r holds the lock.
Holds(r) == r.op \in Commands /\ r.pc \in {"warm", "fill", "at"}

\* The operations that stop at each place, and what they hold there.
ShapeOK(r) ==
    /\ r.pc = "idle" => r = Idle
    /\ r.pc = "want" => r.op = "restore" /\ r.rec # None
    /\ r.pc = "lookup" => r.op = "refresh"
    /\ r.pc \in {"warm", "fill"} => r.op \in Commands \cup {"read", "refresh"}
    /\ r.pc = "at" => r.op \in Commands \cup {"refresh"}
    /\ r.pc = "publish" => r.op = "note"
    /\ r.pc = "tail" => r.op = "delete"
    /\ r.pc \in {"drop", "note"} => r.op = "refresh"
    /\ r.pc = "apply" => r.op \in {"refresh", "rescan"}
    /\ r.pc = "rescan" => r.op = "rescan"
    /\ r.pc \notin {"idle", "rescan"} => r.s \in Sessions
    /\ r.op = "note" => r.note \in Notes
    /\ r.op = "rescan" => r.rec = None

\* The lock is with the one task that works under it.
Locked == \A p \in Tasks : lock = p <=> Holds(task[p])

\* A delete has counted itself.
Numbered == \A p \in Tasks : task[p].op = "delete" => deletions > 0

BaseInv ==
    /\ TypeOK
    /\ \A p \in Tasks : ShapeOK(task[p])
    /\ Locked
    /\ Numbered

\* None is no task, session, directory or kind of metadata.
LEMMA NoneIsNot ==
    /\ None \notin Tasks /\ None \notin Sessions /\ None \notin Dirs /\ None \notin Metas
    /\ None # "plain" /\ None # "untitled" /\ None # "titled" /\ None # "gone"
BY TasksAssumption, NoneAssumption DEF Tasks, Dirs, Metas

\* A task with nothing to do has the type of a task.
LEMMA IdleType == Idle \in TaskState /\ Idle.seen \in Seen
BY DEF Idle, TaskState, Pcs, Ops, Places, Metas, NoteVals, Seen

\* A walk finds of each session a directory and metadata, or nothing.
LEMMA ScanType == ASSUME TypeOK PROVE Scan \in Seen
<1>1. ASSUME NEW s \in Sessions, Healthy(s) # {}
      PROVE  (CHOOSE x \in Healthy(s) : TRUE) \in Dirs
  BY <1>1 DEF Healthy
<1>2. \A s \in Sessions, d \in Dirs : file[s][d].meta \in Metas
  BY DEF TypeOK, Content
<1>3. QED
  BY <1>1, <1>2 DEF Scan, Seen, Places, Metas

\* A task r goes on to q: what q is about, and carries, is as it was.
SameWork(q, r) ==
    /\ q.op = r.op /\ q.s = r.s /\ q.meta = r.meta /\ q.note = r.note /\ q.todo = r.todo
    /\ q.kept = r.kept /\ q.rec = r.rec

\* A lookup that begins: its answer is the catalog's, or it walks.
LEMMA ResolvingType ==
    ASSUME TypeOK, NEW r \in TaskState, r.s \in Sessions, NEW q, q = Resolving(r)
    PROVE  /\ q \in TaskState /\ SameWork(q, r)
           /\ q.moved = r.moved /\ q.clean = r.clean /\ q.removed = r.removed
           /\ \/ /\ catalog[r.s] # None
                 /\ q.pc = "at" /\ q.dir = catalog[r.s] /\ q.seen = r.seen
              \/ /\ catalog[r.s] = None
                 /\ q.pc = "warm" /\ q.dir = r.dir /\ q.seen = Scan
<1>1. CASE catalog[r.s] # None
  <2>1. q = [r EXCEPT !.pc = "at", !.dir = catalog[r.s]]
    BY <1>1 DEF Resolving
  <2>2. q \in TaskState
    <3>1. catalog[r.s] \in Places
      BY DEF TypeOK
    <3>2. QED
      BY <2>1, <3>1 DEF TaskState, Pcs
  <2>3. QED
    BY <1>1, <2>1, <2>2 DEF SameWork, TaskState
<1>2. CASE catalog[r.s] = None
  <2>1. q = [r EXCEPT !.pc = "warm", !.seen = Scan]
    BY <1>2 DEF Resolving
  <2>2. q \in TaskState
    BY <2>1, ScanType DEF TaskState, Pcs
  <2>3. QED
    BY <1>2, <2>1, <2>2 DEF SameWork, TaskState
<1>3. QED
  BY <1>1, <1>2

\* The basics hold at the start.
LEMMA BaseInit == Init => BaseInv
<1> SUFFICES ASSUME Init PROVE BaseInv
  OBVIOUS
<1>1. TypeOK
  BY IdleType, NoneIsNot, BoundsAssumption
     DEF Init, TypeOK, Content, Metas, Good, NoteVals, Places, Dirs, Entry, Nothing
<1>2. \A p \in Tasks : task[p] = Idle
  BY DEF Init
<1>3. ShapeOK(Idle) /\ ~Holds(Idle) /\ Idle.op # "delete"
  BY DEF ShapeOK, Holds, Idle, Commands
<1>4. QED
  BY <1>1, <1>2, <1>3, NoneIsNot DEF BaseInv, Locked, Numbered, Init

\* What each action does to the tasks, and what a step keeps of the basics.
LEMMA EnterBase ==
    ASSUME BaseInv, NEW p \in Writers, NEW s \in Sessions,
           NEW op \in Commands, NEW n \in NoteVals, op = "note" => n \in Notes, Enter(p, op, s, n)
    PROVE  BaseInv'
<1>1. p \in Tasks
  BY DEF Tasks
<1> DEFINE r == [Idle EXCEPT !.op = op, !.s = s, !.note = n]
<1>2. r \in TaskState /\ r.s = s /\ r.op = op /\ r.note = n
  BY IdleType DEF TaskState, Idle, Commands, Ops
<1> HIDE DEF r
<1>3. Resolving(r) \in TaskState /\ Resolving(r).pc \in {"at", "warm"}
      /\ Resolving(r).s = s /\ Resolving(r).op = op /\ Resolving(r).note = n
  BY <1>2, ResolvingType DEF BaseInv, SameWork
<1>4. task' = [task EXCEPT ![p] = Resolving(r)]
  BY DEF Enter, r
<1>5. TypeOK'
  BY <1>1, <1>3, <1>4, BoundsAssumption DEF Enter, BaseInv, TypeOK, store, disk
<1>6. \A q \in Tasks : ShapeOK(task'[q])
  BY <1>1, <1>3, <1>4 DEF BaseInv, TypeOK, ShapeOK, Commands
<1>7. Locked'
  BY <1>1, <1>3, <1>4, NoneIsNot DEF BaseInv, TypeOK, Locked, Enter, Holds
<1>8. Numbered'
  <2>1. deletions \in Nat /\ deletions' = IF op = "delete" THEN deletions + 1 ELSE deletions
    BY BoundsAssumption DEF Enter, BaseInv, TypeOK
  <2>2. \A q \in Tasks : task'[q] = IF q = p THEN Resolving(r) ELSE task[q]
    BY <1>1, <1>3, <1>4 DEF BaseInv, TypeOK
  <2>3. QED
    BY <1>3, <2>1, <2>2 DEF BaseInv, Numbered
<1>9. QED
  BY <1>5, <1>6, <1>7, <1>8 DEF BaseInv

\* A step of p alone: what is to be shown of its task.
LEMMA OnlyOwn ==
    ASSUME BaseInv, NEW p \in Tasks, NEW r \in TaskState, task' = [task EXCEPT ![p] = r],
           ShapeOK(r), Holds(r) <=> Holds(task[p]), r.op = "delete" => task[p].op = "delete",
           UNCHANGED <<lock, deletions>>
    PROVE  /\ \A q \in Tasks : ShapeOK(task'[q])
           /\ Locked' /\ Numbered' /\ task' \in [Tasks -> TaskState]
<1>1. task' \in [Tasks -> TaskState] /\ \A q \in Tasks : task'[q] = IF q = p THEN r ELSE task[q]
  BY DEF BaseInv, TypeOK
<1>2. QED
  BY <1>1 DEF BaseInv, Locked, Numbered

\* A lookup that is over goes on with its operation.
LEMMA ResolvedType ==
    ASSUME NEW r \in TaskState, r.pc \in {"warm", "fill"}, ShapeOK(r)
    PROVE  /\ Resolved(r) \in TaskState /\ ShapeOK(Resolved(r))
           /\ Holds(Resolved(r)) <=> Holds(r)
           /\ Resolved(r).op = "delete" => r.op = "delete"
<1>1. CASE r.op = "read"
  <2>1. Resolved(r) = Idle
    BY <1>1 DEF Resolved
  <2>2. Idle.op = "none" /\ Idle.pc = "idle"
    BY DEF Idle
  <2>3. QED
    BY <1>1, <2>1, <2>2, IdleType DEF ShapeOK, Holds, Commands
<1>2. CASE r.op # "read"
  <2>1. Resolved(r) = [r EXCEPT !.pc = "at", !.seen = Idle.seen, !.moved = {}]
    BY <1>2 DEF Resolved
  <2>2. Resolved(r) \in TaskState
    BY <2>1, IdleType DEF TaskState, Pcs
  <2>3. /\ Resolved(r).pc = "at" /\ Resolved(r).op = r.op /\ Resolved(r).s = r.s
        /\ Resolved(r).note = r.note /\ Resolved(r).rec = r.rec
    BY <2>1 DEF TaskState
  <2>4. QED
    BY <1>2, <2>2, <2>3 DEF ShapeOK, Holds, Commands
<1>3. QED
  BY <1>1, <1>2

\* read_meta of a refresh looks its session up.
LEMMA LookupBase ==
    ASSUME BaseInv, NEW p \in Tasks, Lookup(p) PROVE BaseInv'
<1> DEFINE r == Resolving(task[p])
<1>1. task[p] \in TaskState /\ task[p].op = "refresh" /\ task[p].s \in Sessions
  BY DEF BaseInv, TypeOK, ShapeOK, Lookup
<1>2. r \in TaskState /\ r.pc \in {"at", "warm"} /\ r.op = "refresh" /\ r.s \in Sessions
  BY <1>1, ResolvingType DEF BaseInv, SameWork
<1>3. task' = [task EXCEPT ![p] = r]
  BY DEF Lookup
<1> HIDE DEF r
<1>4. ShapeOK(r) /\ ~Holds(r) /\ ~Holds(task[p]) /\ r.op # "delete"
  BY <1>1, <1>2 DEF ShapeOK, Holds, Commands
<1>5. lapse' \subseteq Sessions
  BY DEF Lookup, BaseInv, TypeOK, Unfound
<1>6. QED
  BY <1>2, <1>3, <1>4, <1>5, OnlyOwn DEF Lookup, BaseInv, TypeOK, store, disk, bounds

\* A lookup looks at the removals again (locations.rs, lookup_existing_dir).
LEMMA CheckBase ==
    ASSUME BaseInv, NEW p \in Tasks, CheckRemovals(p) PROVE BaseInv'
<1> DEFINE found == [task[p] EXCEPT !.dir = task[p].seen[task[p].s].dir, !.removed = FALSE]
           r == IF task[p].removed THEN Resolved(found) ELSE [found EXCEPT !.pc = "fill"]
<1>1. task[p] \in TaskState /\ ShapeOK(task[p]) /\ task[p].pc = "warm" /\ task[p].s \in Sessions
  BY DEF BaseInv, TypeOK, ShapeOK, CheckRemovals
<1>2. task[p].seen[task[p].s].dir \in Places
  BY <1>1 DEF TaskState, Seen
<1>3. found \in TaskState /\ ShapeOK(found) /\ found.pc = "warm"
      /\ (Holds(found) <=> Holds(task[p])) /\ found.op = task[p].op
  BY <1>1, <1>2 DEF TaskState, ShapeOK, Holds
<1>4. r \in TaskState /\ ShapeOK(r) /\ (Holds(r) <=> Holds(task[p]))
      /\ (r.op = "delete" => task[p].op = "delete")
  <2> HIDE DEF found
  <2>1. CASE task[p].removed
    BY <1>3, <2>1, ResolvedType
  <2>2. CASE ~task[p].removed
    BY <1>1, <1>3, <2>2 DEF TaskState, Pcs, ShapeOK, Holds
  <2>3. QED
    BY <2>1, <2>2
<1>5. task' = [task EXCEPT ![p] = r]
  BY DEF CheckRemovals
<1> HIDE DEF r
<1>6. QED
  BY <1>4, <1>5, OnlyOwn DEF CheckRemovals, BaseInv, TypeOK, store, disk, bounds, history

\* ... and fills the catalog.
LEMMA FillBase ==
    ASSUME BaseInv, NEW p \in Tasks, Fill(p) PROVE BaseInv'
<1>1. task[p] \in TaskState /\ ShapeOK(task[p]) /\ task[p].pc = "fill" /\ task[p].s \in Sessions
  BY DEF BaseInv, TypeOK, ShapeOK, Fill
<1>2. task' = [task EXCEPT ![p] = Resolved(task[p])]
  BY DEF Fill
<1>3. \A x \in Sessions : task[p].seen[x].dir \in Places
  BY <1>1 DEF TaskState, Seen
<1>4. catalog' \in [Sessions -> Places] /\ lapse' \subseteq Sessions
  BY <1>1, <1>3 DEF Fill, BaseInv, TypeOK
<1>5. QED
  BY <1>1, <1>2, <1>4, ResolvedType, OnlyOwn DEF Fill, BaseInv, TypeOK, disk, bounds

\* A task q is r, but for what it is told of the steps of others.
Alike(q, r) ==
    /\ SameWork(q, r) /\ q.pc = r.pc /\ q.dir = r.dir /\ q.seen = r.seen
    /\ r = Idle => q = Idle

\* Overtake only takes s out of what the tasks may trust.
LEMMA OvertakeIs ==
    ASSUME NEW tasks \in [Tasks -> TaskState], NEW s \in Sessions, NEW o, o = Overtake(tasks, s)
    PROVE  /\ o \in [Tasks -> TaskState]
           /\ \A q \in Tasks : /\ Alike(o[q], tasks[q])
                               /\ o[q].clean = tasks[q].clean \ {s}
                               /\ o[q].moved = tasks[q].moved /\ o[q].removed = tasks[q].removed
<1>1. \A q \in Tasks : o[q] = [tasks[q] EXCEPT !.clean = @ \ {s}]
  BY DEF Overtake
<1>2. ASSUME NEW q \in Tasks
      PROVE  /\ o[q] \in TaskState
             /\ SameWork(o[q], tasks[q]) /\ o[q].pc = tasks[q].pc /\ o[q].dir = tasks[q].dir
             /\ o[q].seen = tasks[q].seen /\ o[q].clean = tasks[q].clean \ {s}
             /\ o[q].moved = tasks[q].moved /\ o[q].removed = tasks[q].removed
  <2>1. o[q] = [tasks[q] EXCEPT !.clean = @ \ {s}] /\ tasks[q] \in TaskState
    BY <1>1
  <2>2. o[q] \in TaskState
    BY <2>1 DEF TaskState
  <2>3. QED
    BY <2>1, <2>2 DEF TaskState, SameWork
<1>3. ASSUME NEW q \in Tasks, tasks[q] = Idle PROVE o[q] = Idle
  <2>1. Idle.clean \ {s} = {}
    BY DEF Idle
  <2>2. o[q] = [Idle EXCEPT !.clean = {}]
    BY <1>1, <1>3, <2>1
  <2>3. QED
    BY <2>2 DEF Idle
<1>4. o \in [Tasks -> TaskState]
  BY <1>2 DEF Overtake
<1>5. QED
  BY <1>2, <1>3, <1>4 DEF Alike

\* Moved only warns the walks that s has moved.
LEMMA MovedIs ==
    ASSUME NEW tasks \in [Tasks -> TaskState], NEW s \in Sessions, NEW o, o = Moved(tasks, s)
    PROVE  /\ o \in [Tasks -> TaskState]
           /\ \A q \in Tasks :
                 /\ Alike(o[q], tasks[q])
                 /\ o[q].clean = tasks[q].clean /\ o[q].removed = tasks[q].removed
                 /\ tasks[q].moved \subseteq o[q].moved
                 /\ tasks[q].pc \in {"warm", "fill"} => s \in o[q].moved
<1>1. ASSUME NEW q \in Tasks, tasks[q].pc \in {"warm", "fill"}
      PROVE  o[q] = [tasks[q] EXCEPT !.moved = @ \cup {s}] /\ tasks[q] # Idle
  BY <1>1 DEF Moved, Idle
<1>2. ASSUME NEW q \in Tasks, tasks[q].pc \notin {"warm", "fill"} PROVE o[q] = tasks[q]
  BY <1>2 DEF Moved
<1>3. ASSUME NEW q \in Tasks
      PROVE  /\ o[q] \in TaskState /\ Alike(o[q], tasks[q])
             /\ o[q].clean = tasks[q].clean /\ o[q].removed = tasks[q].removed
             /\ tasks[q].moved \subseteq o[q].moved
             /\ tasks[q].pc \in {"warm", "fill"} => s \in o[q].moved
  <2>1. CASE tasks[q].pc \in {"warm", "fill"}
    <3>1. o[q] = [tasks[q] EXCEPT !.moved = @ \cup {s}] /\ tasks[q] \in TaskState /\ tasks[q] # Idle
      BY <1>1, <2>1
    <3>2. o[q] \in TaskState
      BY <3>1 DEF TaskState
    <3>3. QED
      BY <2>1, <3>1, <3>2 DEF TaskState, Alike, SameWork
  <2>2. CASE ~(tasks[q].pc \in {"warm", "fill"})
    <3>1. o[q] = tasks[q] /\ tasks[q] \in TaskState
      BY <1>2, <2>2
    <3>2. QED
      BY <2>2, <3>1 DEF TaskState, Alike, SameWork
  <2>3. QED
    BY <2>1, <2>2
<1>4. o \in [Tasks -> TaskState]
  BY <1>3 DEF Moved
<1>5. QED
  BY <1>3, <1>4

\* Uncatalogued only warns the walks of a removal.
LEMMA UncataloguedIs ==
    ASSUME NEW tasks \in [Tasks -> TaskState], NEW o, o = Uncatalogued(tasks)
    PROVE  /\ o \in [Tasks -> TaskState]
           /\ \A q \in Tasks :
                 /\ Alike(o[q], tasks[q])
                 /\ o[q].clean = tasks[q].clean /\ o[q].moved = tasks[q].moved
                 /\ o[q].removed = (tasks[q].removed \/ tasks[q].pc = "warm")
<1>1. ASSUME NEW q \in Tasks, tasks[q].pc = "warm"
      PROVE  o[q] = [tasks[q] EXCEPT !.removed = TRUE] /\ tasks[q] # Idle
  BY <1>1 DEF Uncatalogued, Idle
<1>2. ASSUME NEW q \in Tasks, tasks[q].pc # "warm" PROVE o[q] = tasks[q]
  BY <1>2 DEF Uncatalogued
<1>3. ASSUME NEW q \in Tasks
      PROVE  /\ o[q] \in TaskState /\ Alike(o[q], tasks[q])
             /\ o[q].clean = tasks[q].clean /\ o[q].moved = tasks[q].moved
             /\ o[q].removed = (tasks[q].removed \/ tasks[q].pc = "warm")
  <2>1. CASE tasks[q].pc = "warm"
    <3>1. o[q] = [tasks[q] EXCEPT !.removed = TRUE] /\ tasks[q] \in TaskState /\ tasks[q] # Idle
      BY <1>1, <2>1
    <3>2. o[q] \in TaskState
      BY <3>1 DEF TaskState
    <3>3. QED
      BY <2>1, <3>1, <3>2 DEF TaskState, Alike, SameWork
  <2>2. CASE ~(tasks[q].pc = "warm")
    <3>1. o[q] = tasks[q] /\ tasks[q] \in TaskState
      BY <1>2, <2>2
    <3>2. QED
      BY <2>2, <3>1 DEF TaskState, Alike, SameWork
  <2>3. QED
    BY <2>1, <2>2
<1>4. o \in [Tasks -> TaskState]
  BY <1>3 DEF Uncatalogued
<1>5. QED
  BY <1>3, <1>4

\* Counted only settles, for a walk that begins, what it was warned of.
LEMMA CountedIs ==
    ASSUME NEW tasks \in [Tasks -> TaskState], NEW s \in Sessions, NEW o, o = Counted(tasks, s)
    PROVE  /\ o \in [Tasks -> TaskState]
           /\ \A q \in Tasks :
                 /\ Alike(o[q], tasks[q])
                 /\ o[q].clean = tasks[q].clean /\ o[q].removed = tasks[q].removed
                 /\ \A x \in tasks[q].moved \ {s} : x \in o[q].moved
                 /\ tasks[q].pc # "warm" => o[q].moved = tasks[q].moved
<1>1. ASSUME NEW q \in Tasks, tasks[q].pc = "warm"
      PROVE  o[q] = [tasks[q] EXCEPT !.moved = @ \ {s}] /\ tasks[q] # Idle
  BY <1>1 DEF Counted, Idle
<1>2. ASSUME NEW q \in Tasks, tasks[q].pc # "warm" PROVE o[q] = tasks[q]
  BY <1>2 DEF Counted
<1>3. ASSUME NEW q \in Tasks
      PROVE  /\ o[q] \in TaskState /\ Alike(o[q], tasks[q])
             /\ o[q].clean = tasks[q].clean /\ o[q].removed = tasks[q].removed
             /\ \A x \in tasks[q].moved \ {s} : x \in o[q].moved
             /\ tasks[q].pc # "warm" => o[q].moved = tasks[q].moved
  <2>1. CASE tasks[q].pc = "warm"
    <3>1. o[q] = [tasks[q] EXCEPT !.moved = @ \ {s}] /\ tasks[q] \in TaskState /\ tasks[q] # Idle
      BY <1>1, <2>1
    <3>2. o[q] \in TaskState
      BY <3>1 DEF TaskState
    <3>3. QED
      BY <2>1, <3>1, <3>2 DEF TaskState, Alike, SameWork
  <2>2. CASE ~(tasks[q].pc = "warm")
    <3>1. o[q] = tasks[q] /\ tasks[q] \in TaskState
      BY <1>2, <2>2
    <3>2. QED
      BY <2>2, <3>1 DEF TaskState, Alike, SameWork
  <2>3. QED
    BY <2>1, <2>2
<1>4. o \in [Tasks -> TaskState]
  BY <1>3 DEF Counted
<1>5. QED
  BY <1>3, <1>4

\* Alike is transitive.
LEMMA AlikeAlike ==
    ASSUME NEW a, NEW b, NEW c, Alike(a, b), Alike(b, c) PROVE Alike(a, c)
BY DEF Alike, SameWork

\* A step gives p the task r, and warns the others at most.
LEMMA StepBase ==
    ASSUME BaseInv, NEW p \in Tasks, NEW r \in TaskState, ShapeOK(r),
           r.op = "delete" => task[p].op = "delete",
           task' \in [Tasks -> TaskState],
           \A q \in Tasks : Alike(task'[q], IF q = p THEN r ELSE task[q]),
           deletions' = deletions,
           \/ lock' = lock /\ (Holds(r) <=> Holds(task[p]))
           \/ lock' = None /\ Holds(task[p]) /\ ~Holds(r)
    PROVE  /\ \A q \in Tasks : ShapeOK(task'[q])
           /\ Locked' /\ Numbered'
<1>1. ASSUME NEW q \in Tasks, NEW t, ShapeOK(t), Alike(task'[q], t)
      PROVE  /\ ShapeOK(task'[q]) /\ (Holds(task'[q]) <=> Holds(t)) /\ task'[q].op = t.op
  BY <1>1 DEF ShapeOK, Alike, SameWork, Holds
<1>2. \A q \in Tasks : /\ ShapeOK(task'[q])
                       /\ Holds(task'[q]) <=> Holds(IF q = p THEN r ELSE task[q])
                       /\ task'[q].op = IF q = p THEN r.op ELSE task[q].op
  BY <1>1 DEF BaseInv
<1>3. Locked'
  BY <1>2, NoneIsNot DEF BaseInv, Locked
<1>4. Numbered'
  BY <1>2 DEF BaseInv, Numbered
<1>5. QED
  BY <1>2, <1>3, <1>4

\* The task p becomes r, nobody else's changes.
Becomes(p, r) ==
    /\ r \in TaskState
    /\ task' = [task EXCEPT ![p] = r]
    /\ \A q \in Tasks : task'[q] = IF q = p THEN r ELSE task[q]

\* Tasks are as in tasks, and told that files of s were written.
Written(tasks, s) ==
    /\ task' \in [Tasks -> TaskState]
    /\ \A q \in Tasks :
          /\ Alike(task'[q], tasks[q])
          /\ task'[q].clean = tasks[q].clean \ {s} /\ task'[q].removed = tasks[q].removed
          /\ tasks[q].moved \subseteq task'[q].moved

\* ... and that its directory is another, or none.
Warned(tasks, s) ==
    /\ Written(tasks, s)
    /\ \A q \in Tasks : tasks[q].pc \in {"warm", "fill"} => s \in task'[q].moved

\* A step gives p the task r, and leaves the others alone.
LEMMA BecomesBase ==
    ASSUME BaseInv, NEW p \in Tasks, NEW r \in TaskState, task' = [task EXCEPT ![p] = r],
           ShapeOK(r), r.op = "delete" => task[p].op = "delete",
           deletions' = deletions,
           \/ lock' = lock /\ (Holds(r) <=> Holds(task[p]))
           \/ lock' = None /\ Holds(task[p]) /\ ~Holds(r)
    PROVE  /\ Becomes(p, r) /\ task' \in [Tasks -> TaskState]
           /\ \A q \in Tasks : ShapeOK(task'[q])
           /\ Locked' /\ Numbered'
<1>1. task' \in [Tasks -> TaskState] /\ \A q \in Tasks : task'[q] = IF q = p THEN r ELSE task[q]
  BY DEF BaseInv, TypeOK
<1>2. \A q \in Tasks : Alike(task'[q], IF q = p THEN r ELSE task[q])
  BY <1>1 DEF Alike, SameWork
<1>3. QED
  BY <1>1, <1>2, StepBase DEF Becomes

\* A task with nothing to do holds nothing.
LEMMA IdleShape == ShapeOK(Idle) /\ ~Holds(Idle) /\ Idle.op = "none" /\ Idle \in TaskState
BY IdleType DEF ShapeOK, Idle, Holds, Commands

\* A step of p that writes to s overtakes those who read s.
LEMMA WriteTasks ==
    ASSUME BaseInv, NEW p \in Tasks, NEW r \in TaskState, NEW s \in Sessions,
           task' = Overtake([task EXCEPT ![p] = r], s)
    PROVE  /\ Written([task EXCEPT ![p] = r], s)
           /\ \A q \in Tasks : Alike(task'[q], IF q = p THEN r ELSE task[q])
<1> DEFINE tasks == [task EXCEPT ![p] = r]
<1>1. tasks \in [Tasks -> TaskState] /\ \A q \in Tasks : tasks[q] = IF q = p THEN r ELSE task[q]
  BY DEF BaseInv, TypeOK
<1> HIDE DEF tasks
<1>2. PICK o : o = Overtake(tasks, s)
  OBVIOUS
<1>3. /\ o \in [Tasks -> TaskState]
      /\ \A q \in Tasks : /\ Alike(o[q], tasks[q])
                          /\ o[q].clean = tasks[q].clean \ {s}
                          /\ o[q].moved = tasks[q].moved
                          /\ o[q].removed = tasks[q].removed
  BY <1>1, <1>2, OvertakeIs
<1>4. task' = o
  BY <1>2 DEF tasks
<1>5. /\ task' \in [Tasks -> TaskState]
      /\ \A q \in Tasks : /\ Alike(task'[q], tasks[q])
                          /\ task'[q].clean = tasks[q].clean \ {s}
                          /\ task'[q].moved = tasks[q].moved
                          /\ task'[q].removed = tasks[q].removed
  BY <1>3, <1>4
<1>6. Written(tasks, s)
  BY <1>5 DEF Written
<1>7. QED
  BY <1>1, <1>5, <1>6 DEF tasks

\* A step of p that moves s also warns those who walk.
LEMMA MoveTasks ==
    ASSUME BaseInv, NEW p \in Tasks, NEW r \in TaskState, NEW s \in Sessions,
           task' = Overtake(Moved([task EXCEPT ![p] = r], s), s)
    PROVE  /\ Warned([task EXCEPT ![p] = r], s)
           /\ \A q \in Tasks : Alike(task'[q], IF q = p THEN r ELSE task[q])
<1> DEFINE tasks == [task EXCEPT ![p] = r]
<1>1. tasks \in [Tasks -> TaskState] /\ \A q \in Tasks : tasks[q] = IF q = p THEN r ELSE task[q]
  BY DEF BaseInv, TypeOK
<1> HIDE DEF tasks
<1>2. PICK m : m = Moved(tasks, s)
  OBVIOUS
<1>3. m \in [Tasks -> TaskState]
      /\ \A q \in Tasks :
                 /\ Alike(m[q], tasks[q])
                 /\ m[q].clean = tasks[q].clean /\ m[q].removed = tasks[q].removed
                 /\ tasks[q].moved \subseteq m[q].moved
                 /\ tasks[q].pc \in {"warm", "fill"} => s \in m[q].moved
  BY <1>1, <1>2, MovedIs
<1>4. PICK o : o = Overtake(m, s)
  OBVIOUS
<1>5. o \in [Tasks -> TaskState]
           /\ \A q \in Tasks : /\ Alike(o[q], m[q])
                               /\ o[q].clean = m[q].clean \ {s}
                               /\ o[q].moved = m[q].moved /\ o[q].removed = m[q].removed
  BY <1>3, <1>4, OvertakeIs
<1>6. task' = o
  BY <1>2, <1>4 DEF tasks
<1>7. \A q \in Tasks : Alike(task'[q], tasks[q])
  BY <1>3, <1>5, <1>6, AlikeAlike
<1>8. Warned(tasks, s)
  BY <1>1, <1>3, <1>5, <1>6, <1>7 DEF Warned, Written
<1>9. QED
  BY <1>1, <1>8 DEF Warned, Written, tasks

\* A lookup of s begins: what the task knows then.
Looks(r, s) ==
    \/ /\ catalog[s] # None
       /\ r.pc = "at" /\ r.dir = catalog[s] /\ r.seen = Idle.seen
    \/ /\ catalog[s] = None
       /\ r.pc = "warm" /\ r.dir = None /\ r.seen = Scan

\* r is a task that has just begun, with such a lookup.
Begins(r, op, s, n) ==
    /\ r.op = op /\ r.s = s /\ r.note = n /\ r.rec = None
    /\ r.todo = {} /\ r.kept = {} /\ r.clean = {} /\ r.moved = {} /\ r.removed = FALSE
    /\ Looks(r, s)

\* The place of each action in what follows: what it does to the tasks.  A task
\* that begins, or goes on, alone.
LEMMA EnterTasks ==
    ASSUME BaseInv, NEW p \in Writers, NEW s \in Sessions,
           NEW op \in Commands, NEW n \in NoteVals, op = "note" => n \in Notes, Enter(p, op, s, n)
    PROVE  /\ BaseInv'
           /\ p \in Tasks /\ task[p] = Idle
           /\ \E r : Becomes(p, r) /\ Begins(r, op, s, n)
<1> DEFINE i == [Idle EXCEPT !.op = op, !.s = s, !.note = n]
<1>1. p \in Tasks
  BY DEF Tasks
<1>2. /\ i \in TaskState /\ i.op = op /\ i.s = s /\ i.note = n /\ i.rec = None /\ i.dir = None
      /\ i.todo = {} /\ i.kept = {} /\ i.clean = {} /\ i.moved = {} /\ i.removed = FALSE
      /\ i.seen = Idle.seen
  BY IdleType DEF TaskState, Idle, Commands, Ops
<1>3. task' = [task EXCEPT ![p] = Resolving(i)] /\ task[p] = Idle
  BY DEF Enter
<1> HIDE DEF i
<1>4. PICK r : r = Resolving(i)
  OBVIOUS
<1>5. /\ r \in TaskState /\ SameWork(r, i)
      /\ r.moved = i.moved /\ r.clean = i.clean /\ r.removed = i.removed
      /\ \/ /\ catalog[i.s] # None
            /\ r.pc = "at" /\ r.dir = catalog[i.s] /\ r.seen = i.seen
         \/ /\ catalog[i.s] = None
            /\ r.pc = "warm" /\ r.dir = i.dir /\ r.seen = Scan
  BY <1>2, <1>4, ResolvingType DEF BaseInv
<1>6. Becomes(p, r)
  BY <1>1, <1>3, <1>4, <1>5 DEF Becomes, BaseInv, TypeOK
<1>7. QED
  BY <1>1, <1>2, <1>3, <1>5, <1>6, EnterBase DEF SameWork, Begins, Looks

\* read_meta of a refresh looks its session up.
LEMMA LookupTasks ==
    ASSUME BaseInv, NEW p \in Tasks, Lookup(p)
    PROVE  /\ BaseInv'
           /\ \E r : /\ Becomes(p, r) /\ SameWork(r, task[p])
                     /\ r.moved = task[p].moved /\ r.clean = task[p].clean
                     /\ r.removed = task[p].removed
                     /\ \/ /\ catalog[r.s] # None
                           /\ r.pc = "at" /\ r.dir = catalog[r.s] /\ r.seen = task[p].seen
                        \/ /\ catalog[r.s] = None
                           /\ r.pc = "warm" /\ r.dir = task[p].dir /\ r.seen = Scan
<1>1. task[p] \in TaskState /\ task[p].s \in Sessions
  BY DEF BaseInv, TypeOK, ShapeOK, Lookup
<1>2. PICK r : r = Resolving(task[p])
  OBVIOUS
<1>3. task' = [task EXCEPT ![p] = r]
  BY <1>2 DEF Lookup
<1>4. /\ r \in TaskState /\ SameWork(r, task[p])
      /\ r.moved = task[p].moved /\ r.clean = task[p].clean
      /\ r.removed = task[p].removed
      /\ \/ /\ catalog[task[p].s] # None
            /\ r.pc = "at" /\ r.dir = catalog[task[p].s] /\ r.seen = task[p].seen
         \/ /\ catalog[task[p].s] = None
            /\ r.pc = "warm" /\ r.dir = task[p].dir /\ r.seen = Scan
  BY <1>1, <1>2, ResolvingType DEF BaseInv
<1>5. Becomes(p, r)
  BY <1>3, <1>4 DEF Becomes, BaseInv, TypeOK
<1>6. QED
  BY <1>4, <1>5, LookupBase DEF SameWork

\* A reader that walks for s.
Opened(r, s) ==
    /\ r.op = "read" /\ r.s = s /\ r.rec = None
    /\ r.todo = {} /\ r.kept = {} /\ r.clean = {} /\ r.moved = {} /\ r.removed = FALSE
    /\ r.pc = "warm" /\ r.dir = None /\ r.seen = Scan

\* A reader looks a session up (content.rs, read_note).
LEMMA ReadBeginTasks ==
    ASSUME BaseInv, NEW p \in Tasks, NEW s \in Sessions, ReadBegin(p, s)
    PROVE  /\ BaseInv'
           /\ \E r : Becomes(p, r) /\ Opened(r, s)
<1> DEFINE i == [Idle EXCEPT !.op = "read", !.s = s]
<1>1. /\ i \in TaskState /\ i.op = "read" /\ i.s = s /\ i.rec = None /\ i.dir = None
      /\ i.todo = {} /\ i.kept = {} /\ i.clean = {} /\ i.moved = {} /\ i.removed = FALSE
  BY IdleType DEF TaskState, Idle, Ops
<1>2. task' = [task EXCEPT ![p] = Resolving(i)] /\ task[p] = Idle /\ catalog[s] = None
  BY DEF ReadBegin
<1> HIDE DEF i
<1>3. PICK r : r = Resolving(i)
  OBVIOUS
<1>4. /\ r \in TaskState /\ SameWork(r, i)
      /\ r.moved = i.moved /\ r.clean = i.clean /\ r.removed = i.removed
      /\ r.pc = "warm" /\ r.dir = i.dir /\ r.seen = Scan
  BY <1>1, <1>2, <1>3, ResolvingType DEF BaseInv
<1>5. ShapeOK(r) /\ ~Holds(r) /\ r.op # "delete"
  BY <1>1, <1>4 DEF ShapeOK, Holds, SameWork, Commands
<1>6. Becomes(p, r) /\ Locked' /\ Numbered' /\ task' \in [Tasks -> TaskState]
      /\ \A q \in Tasks : ShapeOK(task'[q])
  BY <1>2, <1>3, <1>4, <1>5, BecomesBase, IdleShape DEF ReadBegin, bounds
<1>7. BaseInv'
  BY <1>6 DEF ReadBegin, BaseInv, TypeOK, disk, store, bounds, history
<1>8. QED
  BY <1>1, <1>4, <1>6, <1>7 DEF SameWork, Opened

\* A refresh begins (rebuild.rs, refresh_session).
LEMMA RefreshBeginTasks ==
    ASSUME BaseInv, NEW p \in Tasks, NEW s \in Sessions, RefreshBegin(p, s)
    PROVE  /\ BaseInv'
           /\ \E r : /\ Becomes(p, r)
                     /\ r.op = "refresh" /\ r.s = s /\ r.rec = None
                     /\ r.todo = {} /\ r.kept = {} /\ r.clean = {s}
                     /\ r.moved = {} /\ r.removed = FALSE
                     /\ Looks(r, s)
<1> DEFINE i == [Idle EXCEPT !.op = "refresh", !.s = s, !.clean = {s}]
<1>1. /\ i \in TaskState /\ i.op = "refresh" /\ i.s = s /\ i.rec = None /\ i.dir = None
      /\ i.todo = {} /\ i.kept = {} /\ i.clean = {s} /\ i.moved = {} /\ i.removed = FALSE
      /\ i.seen = Idle.seen
  BY IdleType DEF TaskState, Idle, Ops
<1>2. task' = [task EXCEPT ![p] = Resolving(i)] /\ task[p] = Idle
  BY DEF RefreshBegin
<1> HIDE DEF i
<1>3. PICK r : r = Resolving(i)
  OBVIOUS
<1>4. /\ r \in TaskState /\ SameWork(r, i)
      /\ r.moved = i.moved /\ r.clean = i.clean /\ r.removed = i.removed
      /\ r.pc \in {"at", "warm"} /\ Looks(r, s)
  BY <1>1, <1>3, ResolvingType DEF BaseInv, Looks
<1>5. ShapeOK(r) /\ ~Holds(r) /\ r.op # "delete"
  BY <1>1, <1>4 DEF ShapeOK, Holds, SameWork, Commands
<1>6. Becomes(p, r) /\ Locked' /\ Numbered' /\ task' \in [Tasks -> TaskState]
      /\ \A q \in Tasks : ShapeOK(task'[q])
  BY <1>2, <1>3, <1>4, <1>5, BecomesBase, IdleShape DEF RefreshBegin, bounds
<1>7. lapse' \subseteq Sessions
  BY DEF RefreshBegin, BaseInv, TypeOK, Unfound
<1>8. BaseInv'
  BY <1>6, <1>7 DEF RefreshBegin, BaseInv, TypeOK, disk, store, bounds
<1>9. QED
  BY <1>1, <1>4, <1>6, <1>8 DEF SameWork

\* A lookup that is over: a read ends, the others are at their session.
LEMMA ResolvedIs ==
    ASSUME NEW r \in TaskState, r.pc \in {"warm", "fill"}, ShapeOK(r), NEW q, q = Resolved(r)
    PROVE  /\ q \in TaskState /\ ShapeOK(q)
           /\ Holds(q) <=> Holds(r)
           /\ \/ r.op = "read" /\ q = Idle
              \/ /\ r.op # "read"
                 /\ SameWork(q, r) /\ q.clean = r.clean /\ q.dir = r.dir /\ q.pc = "at"
                 /\ q.seen = Idle.seen /\ q.moved = {}
<1>1. CASE r.op = "read"
  BY <1>1, IdleShape DEF Resolved, Holds, Commands
<1>2. CASE r.op # "read"
  <2>1. q = [r EXCEPT !.pc = "at", !.seen = Idle.seen, !.moved = {}]
    BY <1>2 DEF Resolved
  <2>2. q \in TaskState /\ SameWork(q, r) /\ q.clean = r.clean /\ q.dir = r.dir /\ q.pc = "at"
        /\ q.seen = Idle.seen /\ q.moved = {}
    BY <2>1, IdleType DEF TaskState, Pcs, SameWork
  <2>3. ShapeOK(q) /\ (Holds(q) <=> Holds(r))
    BY <1>2, <2>2 DEF ShapeOK, Holds, SameWork, Commands
  <2>4. QED
    BY <1>2, <2>2, <2>3
<1>3. QED
  BY <1>1, <1>2

\* A lookup looks at the removals again (locations.rs, lookup_existing_dir).
LEMMA CheckTasks ==
    ASSUME BaseInv, NEW p \in Tasks, CheckRemovals(p)
    PROVE  /\ BaseInv'
           /\ \E r : /\ Becomes(p, r)
                     /\ \/ task[p].removed /\ task[p].op = "read" /\ r = Idle
                        \/ /\ task[p].removed /\ task[p].op # "read"
                           /\ SameWork(r, task[p]) /\ r.clean = task[p].clean
                           /\ r.dir = task[p].seen[task[p].s].dir /\ r.pc = "at"
                           /\ r.seen = Idle.seen
                        \/ /\ ~task[p].removed
                           /\ SameWork(r, task[p]) /\ r.clean = task[p].clean
                           /\ r.dir = task[p].seen[task[p].s].dir /\ r.pc = "fill"
                           /\ r.seen = task[p].seen /\ r.moved = task[p].moved
<1> DEFINE found == [task[p] EXCEPT !.dir = task[p].seen[task[p].s].dir, !.removed = FALSE]
<1>1. task[p] \in TaskState /\ ShapeOK(task[p]) /\ task[p].pc = "warm" /\ task[p].s \in Sessions
  BY DEF BaseInv, TypeOK, ShapeOK, CheckRemovals
<1>2. task[p].seen[task[p].s].dir \in Places
  BY <1>1 DEF TaskState, Seen
<1>3. found \in TaskState
  BY <1>1, <1>2 DEF TaskState
<1>4. SameWork(found, task[p]) /\ found.pc = "warm" /\ found.dir = task[p].seen[task[p].s].dir
      /\ found.seen = task[p].seen /\ found.moved = task[p].moved /\ found.clean = task[p].clean
  BY <1>1 DEF TaskState, SameWork
<1>5. ShapeOK(found) /\ (Holds(found) <=> Holds(task[p]))
  BY <1>1, <1>3, <1>4 DEF ShapeOK, Holds, SameWork
<1>6. CASE task[p].removed
  <2>1. PICK r : r = Resolved(found)
    OBVIOUS
  <2>2. task' = [task EXCEPT ![p] = r]
    BY <1>6, <2>1 DEF CheckRemovals
  <2> HIDE DEF found
  <2>3. /\ r \in TaskState /\ ShapeOK(r)
        /\ Holds(r) <=> Holds(found)
        /\ \/ found.op = "read" /\ r = Idle
           \/ /\ found.op # "read"
              /\ SameWork(r, found) /\ r.clean = found.clean /\ r.dir = found.dir /\ r.pc = "at"
              /\ r.seen = Idle.seen
    BY <1>3, <1>4, <1>5, <2>1, ResolvedIs
  <2>4. Becomes(p, r)
    BY <2>2, <2>3 DEF Becomes, BaseInv, TypeOK
  <2>5. QED
    BY <1>4, <1>6, <2>3, <2>4, CheckBase DEF SameWork
<1>7. CASE ~task[p].removed
  <2>1. PICK r : r = [found EXCEPT !.pc = "fill"]
    OBVIOUS
  <2>2. task' = [task EXCEPT ![p] = r]
    BY <1>7, <2>1 DEF CheckRemovals
  <2> HIDE DEF found
  <2>3. r \in TaskState
    BY <1>3, <2>1 DEF TaskState, Pcs
  <2>4. SameWork(r, found) /\ r.pc = "fill" /\ r.dir = found.dir
        /\ r.seen = found.seen /\ r.moved = found.moved /\ r.clean = found.clean
    BY <1>3, <2>1 DEF TaskState, SameWork
  <2>5. Becomes(p, r)
    BY <2>2, <2>3 DEF Becomes, BaseInv, TypeOK
  <2>6. QED
    BY <1>4, <1>7, <2>4, <2>5, CheckBase DEF SameWork
<1>8. QED
  BY <1>6, <1>7

\* ... and fills the catalog.
LEMMA FillTasks ==
    ASSUME BaseInv, NEW p \in Tasks, Fill(p)
    PROVE  /\ BaseInv'
           /\ task[p].s \in Sessions
           /\ \E r : /\ Becomes(p, r)
                     /\ \/ task[p].op = "read" /\ r = Idle
                        \/ /\ task[p].op # "read"
                           /\ SameWork(r, task[p]) /\ r.clean = task[p].clean
                           /\ r.dir = task[p].dir /\ r.pc = "at" /\ r.seen = Idle.seen
<1>1. task[p] \in TaskState /\ ShapeOK(task[p]) /\ task[p].pc = "fill" /\ task[p].s \in Sessions
  BY DEF BaseInv, TypeOK, ShapeOK, Fill
<1>2. PICK r : r = Resolved(task[p])
  OBVIOUS
<1>3. task' = [task EXCEPT ![p] = r]
  BY <1>2 DEF Fill
<1>4. /\ r \in TaskState
      /\ \/ task[p].op = "read" /\ r = Idle
         \/ /\ task[p].op # "read"
            /\ SameWork(r, task[p]) /\ r.clean = task[p].clean
            /\ r.dir = task[p].dir /\ r.pc = "at" /\ r.seen = Idle.seen
  BY <1>1, <1>2, ResolvedIs
<1>5. Becomes(p, r)
  BY <1>3, <1>4 DEF Becomes, BaseInv, TypeOK
<1>6. QED
  BY <1>1, <1>4, <1>5, FillBase

\* What a task at work looks like.
LEMMA AtWork ==
    ASSUME BaseInv, NEW p \in Tasks
    PROVE  /\ task[p] \in TaskState /\ ShapeOK(task[p])
           /\ task[p].pc \notin {"idle", "rescan"} => task[p].s \in Sessions
           /\ Holds(task[p]) <=> lock = p
BY DEF BaseInv, TypeOK, ShapeOK, Locked

\* The files of s in d have metadata and a note.
LEMMA FileType ==
    ASSUME TypeOK, NEW s \in Sessions, NEW d \in Dirs
    PROVE  /\ file[s] \in [Dirs -> Content] /\ file[s][d] \in Content
           /\ file[s][d].meta \in Metas /\ file[s][d].note \in NoteVals
           /\ file[s][d] = [meta |-> file[s][d].meta, note |-> file[s][d].note]
BY DEF TypeOK, Content

\* An operation works in the directory that was found, or else in plain.
LEMMA AtIs ==
    ASSUME BaseInv, NEW p \in Tasks
    PROVE  At(p) \in Dirs /\ (task[p].dir # None => At(p) = task[p].dir)
                          /\ (task[p].dir = None => At(p) = "plain")
BY AtWork DEF At, TaskState, Places, Dirs

\* create_session_meta.
LEMMA CreateTasks ==
    ASSUME BaseInv, NEW p \in Tasks, Create(p)
    PROVE  /\ BaseInv'
           /\ task[p].s \in Sessions /\ lock = p
           /\ Written([task EXCEPT ![p] = Idle], task[p].s)
<1> DEFINE s == task[p].s
           d == IF There(s, "plain") THEN "plain" ELSE "untitled"
<1>1. s \in Sessions /\ Holds(task[p]) /\ lock = p
  BY AtWork DEF Create, Holds, Commands
<1>2. task' = Overtake([task EXCEPT ![p] = Idle], s)
  BY DEF Create
<1>3. d \in Dirs /\ file' = [file EXCEPT ![s][d].meta = "new"]
      /\ catalog' = [catalog EXCEPT ![s] = d] /\ index' = Upserted(s, "new")
      /\ skew' = IF Overtaken(s) \/ file[s][d].note # "gone" THEN skew \cup {s} ELSE skew
  BY DEF Create, Dirs
<1> HIDE DEF s, d
<1>4. /\ Written([task EXCEPT ![p] = Idle], s)
      /\ \A q \in Tasks : Alike(task'[q], IF q = p THEN Idle ELSE task[q])
  BY <1>1, <1>2, IdleShape, WriteTasks
<1>5. Locked' /\ Numbered' /\ \A q \in Tasks : ShapeOK(task'[q])
  BY <1>1, <1>4, IdleShape, StepBase DEF Written, Create, bounds
<1>6. file' \in [Sessions -> [Dirs -> Content]]
  <2>1. file[s] \in [Dirs -> Content] /\ file[s][d] \in Content
    BY <1>1, <1>3, FileType DEF BaseInv
  <2>2. [file[s][d] EXCEPT !.meta = "new"] \in Content
    BY <2>1 DEF Content, Metas, Good
  <2>3. file' = [file EXCEPT ![s] = [file[s] EXCEPT ![d] = [file[s][d] EXCEPT !.meta = "new"]]]
    BY <1>3
  <2>4. QED
    BY <1>1, <1>3, <2>1, <2>2, <2>3 DEF BaseInv, TypeOK
<1>7. catalog' \in [Sessions -> Places] /\ index' \in [Sessions -> Entry \cup {None}]
  <2>1. catalog' \in [Sessions -> Places]
    BY <1>1, <1>3 DEF BaseInv, TypeOK, Places
  <2>2. index' \in [Sessions -> Entry \cup {None}]
    BY <1>1, <1>3 DEF BaseInv, TypeOK, Upserted, Entry, Good, NoteVals
  <2>3. QED
    BY <2>1, <2>2
<1>8. TypeOK'
  BY <1>1, <1>3, <1>4, <1>6, <1>7 DEF Create, BaseInv, TypeOK, Written, bounds
<1>9. QED
  BY <1>1, <1>4, <1>5, <1>8 DEF BaseInv, s

\* update_meta renames a provisional directory.
LEMMA UpdateTasks ==
    ASSUME BaseInv, NEW p \in Tasks, Update(p)
    PROVE  /\ BaseInv'
           /\ task[p].s \in Sessions /\ lock = p
           /\ \/ /\ Becomes(p, Idle)
                 /\ UNCHANGED <<file, catalog, index, skew>>
              \/ /\ file[task[p].s][At(p)].meta \in Good
                 /\ index' = Upserted(task[p].s, "titled")
                 /\ NoteChange(task[p].s)
                 /\ \E e \in Dirs :
                      /\ \/ e = At(p) /\ Written([task EXCEPT ![p] = Idle], task[p].s)
                         \/ /\ e # At(p) /\ ~There(task[p].s, e)
                            /\ Warned([task EXCEPT ![p] = Idle], task[p].s)
                      /\ file' = [file EXCEPT
                             ![task[p].s] = [@ EXCEPT ![At(p)] = Nothing,
                                    ![e] = [meta |-> "titled",
                                            note |-> file[task[p].s][At(p)].note]]]
                      /\ catalog' = [catalog EXCEPT ![task[p].s] = e]
<1> DEFINE s == task[p].s
           d == At(p)
           idle == [task EXCEPT ![p] = Idle]
<1>1. s \in Sessions /\ Holds(task[p]) /\ lock = p
  BY AtWork DEF Update, Holds, Commands
<1>2. d \in Dirs
  BY AtIs
<1>3. CASE file[s][d].meta \notin Good
  <2>1. task' = idle /\ UNCHANGED <<file, catalog, index, skew>>
    BY <1>3 DEF Update
  <2>2. Becomes(p, Idle) /\ Locked' /\ Numbered' /\ task' \in [Tasks -> TaskState]
        /\ \A q \in Tasks : ShapeOK(task'[q])
    BY <1>1, <2>1, BecomesBase, IdleShape DEF Update, bounds
  <2>3. TypeOK'
    BY <2>1, <2>2 DEF Update, BaseInv, TypeOK, bounds
  <2>4. QED
    BY <1>1, <2>1, <2>2, <2>3 DEF BaseInv
<1>4. CASE file[s][d].meta \in Good
  <2>1. PICK e \in {d} \cup {x \in {"titled"} : d = "untitled" /\ ~ There(s, x)} :
          /\ file' = [file EXCEPT
                             ![s] = [@ EXCEPT ![d] = Nothing,
                                              ![e] = [meta |-> "titled", note |-> file[s][d].note]]]
          /\ catalog' = [catalog EXCEPT ![s] = e]
          /\ task' = Overtake(IF e = d THEN idle ELSE Moved(idle, s), s)
    BY <1>4 DEF Update
  <2>2. index' = Upserted(s, "titled") /\ NoteChange(s)
    BY <1>4 DEF Update
  <2>3. e \in Dirs /\ (e # d => ~There(s, e))
    BY <1>2, <2>1 DEF Dirs
  <2> HIDE DEF s, d, idle
  <2>4. /\ \/ e = d /\ Written(idle, s)
           \/ e # d /\ Warned(idle, s)
        /\ task' \in [Tasks -> TaskState]
        /\ \A q \in Tasks : Alike(task'[q], IF q = p THEN Idle ELSE task[q])
    <3>1. CASE e = d
      BY <1>1, <2>1, <3>1, IdleShape, WriteTasks DEF idle, Written
    <3>2. CASE e # d
      BY <1>1, <2>1, <3>2, IdleShape, MoveTasks DEF idle, Warned, Written
    <3>3. QED
      BY <3>1, <3>2
  <2>5. Locked' /\ Numbered' /\ \A q \in Tasks : ShapeOK(task'[q])
    BY <1>1, <2>4, IdleShape, StepBase DEF Update, bounds
  <2>6. file' \in [Sessions -> [Dirs -> Content]]
    <3>1. file[s] \in [Dirs -> Content] /\ file[s][d].note \in NoteVals
      BY <1>1, <1>2, FileType DEF BaseInv
    <3>2. Nothing \in Content /\ [meta |-> "titled", note |-> file[s][d].note] \in Content
      BY <3>1 DEF Nothing, Content, Metas, Good, NoteVals
    <3>3. QED
      BY <1>1, <1>2, <2>1, <2>3, <3>1, <3>2 DEF BaseInv, TypeOK
  <2>7. catalog' \in [Sessions -> Places] /\ index' \in [Sessions -> Entry \cup {None}]
    BY <1>1, <2>1, <2>2, <2>3 DEF BaseInv, TypeOK, Upserted, Entry, Good, NoteVals, Places
  <2>8. TypeOK'
    BY <1>1, <2>2, <2>4, <2>6, <2>7 DEF Update, BaseInv, TypeOK, bounds, NoteChange
  <2>9. QED
    BY <1>1, <1>4, <2>1, <2>2, <2>3, <2>4, <2>5, <2>8 DEF BaseInv, s, d, idle
<1>5. QED
  BY <1>3, <1>4

\* write_note.
LEMMA WriteNoteTasks ==
    ASSUME BaseInv, NEW p \in Tasks, WriteNote(p)
    PROVE  /\ BaseInv'
           /\ task[p].s \in Sessions /\ lock = p /\ At(p) \in Dirs /\ task[p].note \in Notes
           /\ \E r \in TaskState :
                 /\ SameWork(r, task[p]) /\ r.pc = "publish"
                 /\ r.dir = None /\ r.seen = task[p].seen
                 /\ Written([task EXCEPT ![p] = r], task[p].s)
<1> DEFINE s == task[p].s
           r == [task[p] EXCEPT !.pc = "publish", !.dir = None]
<1>1. s \in Sessions /\ Holds(task[p]) /\ lock = p /\ task[p] \in TaskState
      /\ At(p) \in Dirs /\ task[p].note \in Notes /\ task[p].op = "note"
  BY AtWork, AtIs DEF WriteNote, Holds, Commands, ShapeOK
<1>2. r \in TaskState /\ SameWork(r, task[p]) /\ r.pc = "publish" /\ r.dir = None
      /\ r.seen = task[p].seen
  BY <1>1 DEF TaskState, SameWork, Pcs, Places
<1>3. task' = Overtake([task EXCEPT ![p] = r], s)
  BY DEF WriteNote
<1>4. file' = [file EXCEPT ![s][At(p)].note = task[p].note]
  BY DEF WriteNote
<1>5. skew' \subseteq Sessions
  BY <1>1 DEF WriteNote, BaseInv, TypeOK
<1> HIDE DEF s, r
<1>6. ShapeOK(r) /\ ~Holds(r) /\ r.op = task[p].op
  BY <1>1, <1>2 DEF ShapeOK, Holds, SameWork, s
<1>7. /\ Written([task EXCEPT ![p] = r], s)
      /\ \A q \in Tasks : Alike(task'[q], IF q = p THEN r ELSE task[q])
  BY <1>1, <1>2, <1>3, WriteTasks
<1>8. Locked' /\ Numbered' /\ \A q \in Tasks : ShapeOK(task'[q])
  BY <1>1, <1>2, <1>6, <1>7, StepBase DEF Written, WriteNote, bounds
<1>9. file' \in [Sessions -> [Dirs -> Content]]
  <2>1. file[s] \in [Dirs -> Content] /\ file[s][At(p)] \in Content
    BY <1>1, FileType DEF BaseInv
  <2>2. [file[s][At(p)] EXCEPT !.note = task[p].note] \in Content
    BY <1>1, <2>1 DEF Content, NoteVals
  <2>3. file' = [file EXCEPT ![s] = [file[s] EXCEPT ![At(p)] =
                                       [file[s][At(p)] EXCEPT !.note = task[p].note]]]
    BY <1>4
  <2>4. QED
    BY <1>1, <2>1, <2>2, <2>3 DEF BaseInv, TypeOK
<1>10. TypeOK'
  BY <1>5, <1>7, <1>9 DEF WriteNote, BaseInv, TypeOK, Written, bounds, store
<1>11. QED
  BY <1>1, <1>2, <1>7, <1>8, <1>10 DEF BaseInv, s

\* The note goes into the index (index.rs, index_set_note).
LEMMA PublishTasks ==
    ASSUME BaseInv, NEW p \in Tasks, PublishNote(p)
    PROVE  /\ BaseInv' /\ Becomes(p, Idle)
           /\ task[p].s \in Sessions /\ task[p].op = "note" /\ task[p].note \in Notes
<1>1. /\ task[p].s \in Sessions /\ task[p].op = "note" /\ task[p].note \in Notes
      /\ ~Holds(task[p])
  BY AtWork DEF PublishNote, ShapeOK, Holds
<1>2. Becomes(p, Idle) /\ Locked' /\ Numbered' /\ task' \in [Tasks -> TaskState]
      /\ \A q \in Tasks : ShapeOK(task'[q])
  BY <1>1, BecomesBase, IdleShape DEF PublishNote, bounds
<1>3. index' \in [Sessions -> Entry \cup {None}]
  <2>1. index[task[p].s] # None => [index[task[p].s] EXCEPT !.note = task[p].note] \in Entry
    BY <1>1 DEF BaseInv, TypeOK, Entry, NoteVals
  <2>2. CASE index[task[p].s] = None
    BY <2>2 DEF PublishNote, BaseInv, TypeOK
  <2>3. CASE index[task[p].s] # None
    <3>1. index' = [index EXCEPT ![task[p].s] = [index[task[p].s] EXCEPT !.note = task[p].note]]
      BY <2>3 DEF PublishNote
    <3>2. QED
      BY <2>1, <2>3, <3>1 DEF BaseInv, TypeOK
  <2>4. QED
    BY <2>2, <2>3
<1>4. TypeOK'
  BY <1>2, <1>3 DEF PublishNote, BaseInv, TypeOK, disk, bounds, history
<1>5. QED
  BY <1>1, <1>2, <1>4 DEF BaseInv

\* delete_session moves the session to the trash.
LEMMA DeleteTasks ==
    ASSUME BaseInv, NEW p \in Tasks, Delete(p)
    PROVE  /\ BaseInv'
           /\ task[p].s \in Sessions /\ lock = p /\ At(p) \in Dirs
           /\ deletions > 0
           /\ \E r \in TaskState :
                 /\ r.op = "delete" /\ r.s = task[p].s /\ r.pc = "tail"
                 /\ r.seen = task[p].seen /\ r.todo = task[p].todo /\ r.kept = task[p].kept
                 /\ r.rec = IF There(task[p].s, At(p))
                            THEN [n |-> deletions, dir |-> At(p), was |-> file[task[p].s][At(p)]]
                            ELSE None
                 /\ Warned([task EXCEPT ![p] = r], task[p].s)
<1> DEFINE s == task[p].s
           d == At(p)
           rec == IF There(s, d) THEN [n |-> deletions, dir |-> d, was |-> file[s][d]] ELSE None
           r == [task[p] EXCEPT !.pc = "tail", !.dir = None, !.rec = rec]
<1>1. s \in Sessions /\ Holds(task[p]) /\ lock = p /\ task[p] \in TaskState
      /\ At(p) \in Dirs /\ task[p].op = "delete" /\ deletions > 0
      /\ deletions \in Nat /\ deletions \in 1 .. MaxDeletes
  BY AtWork, AtIs, BoundsAssumption DEF Delete, Holds, Commands, BaseInv, Numbered, TypeOK
<1>2. rec \in Record \cup {None}
  BY <1>1, FileType DEF BaseInv, Record
<1> HIDE DEF rec
<1>3. r \in TaskState /\ r.op = "delete" /\ r.s = s /\ r.pc = "tail" /\ r.seen = task[p].seen
      /\ r.todo = task[p].todo /\ r.kept = task[p].kept /\ r.rec = rec
  BY <1>1, <1>2 DEF TaskState, Pcs, Places
<1>4. task' = Overtake(Moved([task EXCEPT ![p] = r], s), s)
  BY DEF Delete, rec
<1>5. skew' \subseteq Sessions /\ doomed' \subseteq Sessions /\ trash' \subseteq 1 .. MaxDeletes
  BY <1>1 DEF Delete, BaseInv, TypeOK, NoteChange
<1>6. file' = [file EXCEPT ![s] = [file[s] EXCEPT ![d] = Nothing]]
  BY DEF Delete
<1> HIDE DEF s, r
<1>7. ShapeOK(r) /\ ~Holds(r)
  BY <1>1, <1>3 DEF ShapeOK, Holds
<1>8. /\ Warned([task EXCEPT ![p] = r], s)
      /\ \A q \in Tasks : Alike(task'[q], IF q = p THEN r ELSE task[q])
  BY <1>1, <1>3, <1>4, MoveTasks
<1>9. Locked' /\ Numbered' /\ \A q \in Tasks : ShapeOK(task'[q])
  BY <1>1, <1>3, <1>7, <1>8, StepBase DEF Warned, Written, Delete, bounds
<1>10. file' \in [Sessions -> [Dirs -> Content]]
  <2>1. file[s] \in [Dirs -> Content] /\ Nothing \in Content
    BY <1>1, FileType DEF BaseInv, Nothing, Content, Metas, NoteVals
  <2>2. QED
    BY <1>1, <1>6, <2>1 DEF BaseInv, TypeOK
<1>11. TypeOK'
  BY <1>5, <1>8, <1>10 DEF Delete, BaseInv, TypeOK, Warned, Written, bounds, store
<1>12. QED
  BY <1>1, <1>3, <1>8, <1>9, <1>11 DEF BaseInv, s, rec

\* A step that warns the walks of a removal, after a change m of the tasks.
LEMMA UncataloguedTasks ==
    ASSUME BaseInv, NEW p \in Tasks, NEW m \in [Tasks -> TaskState],
           task' = Uncatalogued(m)
    PROVE  /\ task' \in [Tasks -> TaskState]
           /\ \A q \in Tasks :
                 /\ Alike(task'[q], m[q])
                 /\ task'[q].clean = m[q].clean /\ task'[q].moved = m[q].moved
                 /\ task'[q].removed = (m[q].removed \/ m[q].pc = "warm")
<1>1. PICK o : o = Uncatalogued(m)
  OBVIOUS
<1>2. /\ o \in [Tasks -> TaskState]
      /\ \A q \in Tasks :
            /\ Alike(o[q], m[q])
            /\ o[q].clean = m[q].clean /\ o[q].moved = m[q].moved
            /\ o[q].removed = (m[q].removed \/ m[q].pc = "warm")
  BY <1>1, UncataloguedIs
<1>3. task' = o
  BY <1>1
<1>4. QED
  BY <1>2, <1>3

\* The catalog lost s: whoever walks the vault is told.
Forgotten(tasks, s) ==
    /\ task' \in [Tasks -> TaskState]
    /\ \A q \in Tasks :
          /\ Alike(task'[q], tasks[q])
          /\ task'[q].clean = tasks[q].clean
          /\ \A x \in tasks[q].moved \ {s} : x \in task'[q].moved
          /\ tasks[q].pc # "warm" => task'[q].moved = tasks[q].moved
          /\ task'[q].removed = (tasks[q].removed \/ tasks[q].pc = "warm")

\* ... and takes it out of catalog and index.
LEMMA DeleteTailTasks ==
    ASSUME BaseInv, NEW p \in Tasks, DeleteTail(p)
    PROVE  /\ BaseInv'
           /\ task[p].s \in Sessions /\ task[p].rec \in Record \cup {None}
           /\ Forgotten([task EXCEPT ![p] = Idle], task[p].s)
<1> DEFINE s == task[p].s
           tasks == [task EXCEPT ![p] = Idle]
<1>1. s \in Sessions /\ ~Holds(task[p]) /\ task[p].rec \in Record \cup {None}
  BY AtWork DEF DeleteTail, Holds, Commands, TaskState
<1>4. tasks \in [Tasks -> TaskState] /\ \A q \in Tasks : tasks[q] = IF q = p THEN Idle ELSE task[q]
  BY IdleShape DEF BaseInv, TypeOK
<1> HIDE DEF s, tasks
<1>2. PICK m : m = Counted(tasks, s)
  OBVIOUS
<1>3. task' = Uncatalogued(m)
  BY <1>2 DEF DeleteTail, s, tasks
<1>5. m \in [Tasks -> TaskState]
      /\ \A q \in Tasks :
                 /\ Alike(m[q], tasks[q])
                 /\ m[q].clean = tasks[q].clean /\ m[q].removed = tasks[q].removed
                 /\ \A x \in tasks[q].moved \ {s} : x \in m[q].moved
                 /\ tasks[q].pc # "warm" => m[q].moved = tasks[q].moved
  BY <1>1, <1>2, <1>4, CountedIs
<1>6. /\ task' \in [Tasks -> TaskState]
      /\ \A q \in Tasks :
            /\ Alike(task'[q], m[q])
            /\ task'[q].clean = m[q].clean /\ task'[q].moved = m[q].moved
            /\ task'[q].removed = (m[q].removed \/ m[q].pc = "warm")
  BY <1>3, <1>5, UncataloguedTasks
<1>7. ASSUME NEW q \in Tasks
      PROVE  /\ Alike(task'[q], tasks[q])
             /\ task'[q].clean = tasks[q].clean
             /\ \A x \in tasks[q].moved \ {s} : x \in task'[q].moved
             /\ tasks[q].pc # "warm" => task'[q].moved = tasks[q].moved
             /\ task'[q].removed = (tasks[q].removed \/ tasks[q].pc = "warm")
  <2>1. Alike(task'[q], tasks[q])
    BY <1>5, <1>6, AlikeAlike
  <2>2. m[q].pc = tasks[q].pc /\ m[q].removed = tasks[q].removed
    BY <1>5 DEF Alike
  <2>3. QED
    BY <1>5, <1>6, <2>1, <2>2
<1>8. Forgotten(tasks, s)
  BY <1>6, <1>7 DEF Forgotten
<1>9. \A q \in Tasks : Alike(task'[q], IF q = p THEN Idle ELSE task[q])
  BY <1>4, <1>7
<1>10. Locked' /\ Numbered' /\ \A q \in Tasks : ShapeOK(task'[q])
  BY <1>1, <1>6, <1>9, IdleShape, StepBase DEF DeleteTail, bounds
<1>11. TypeOK'
  BY <1>1, <1>6 DEF DeleteTail, BaseInv, TypeOK, bounds, disk, history, Places, s
<1>12. QED
  BY <1>1, <1>8, <1>10, <1>11 DEF BaseInv, s, tasks

\* An undo takes its record (content.rs, restore_session).
LEMMA RestoreBeginTasks ==
    ASSUME BaseInv, NEW p \in Tasks, NEW s \in Sessions, RestoreBegin(p, s)
    PROVE  /\ BaseInv'
           /\ \E r : /\ Becomes(p, r)
                     /\ r.op = "restore" /\ r.s = s /\ r.pc = "want" /\ r.rec = deleted[s]
                     /\ r.todo = {} /\ r.dir = None /\ r.seen = Idle.seen
<1> DEFINE r == [Idle EXCEPT !.pc = "want", !.op = "restore", !.s = s, !.rec = deleted[s]]
<1>1. deleted[s] \in Record /\ task[p] = Idle
  BY DEF RestoreBegin, BaseInv, TypeOK
<1>2. /\ r \in TaskState /\ r.op = "restore" /\ r.s = s /\ r.pc = "want" /\ r.rec = deleted[s]
      /\ r.todo = {} /\ r.dir = None /\ r.seen = Idle.seen
  BY <1>1, IdleType DEF TaskState, Idle, Ops, Pcs
<1>3. task' = [task EXCEPT ![p] = r] /\ deleted[s] # None
  BY DEF RestoreBegin
<1> HIDE DEF r
<1>4. ShapeOK(r) /\ ~Holds(r)
  BY <1>2, <1>3 DEF ShapeOK, Holds, Commands
<1>5. Becomes(p, r) /\ Locked' /\ Numbered' /\ task' \in [Tasks -> TaskState]
      /\ \A q \in Tasks : ShapeOK(task'[q])
  BY <1>1, <1>2, <1>3, <1>4, BecomesBase, IdleShape DEF RestoreBegin, bounds
<1>6. TypeOK'
  BY <1>5 DEF RestoreBegin, BaseInv, TypeOK, disk, store, bounds, history
<1>7. QED
  BY <1>2, <1>5, <1>6 DEF BaseInv

\* The place an undo takes up again.
Restored(p, s, rec) ==
    /\ rec.n \in trash /\ rec.was.meta \in Good /\ ~There(s, rec.dir)
    /\ file' = [file EXCEPT ![s][rec.dir] = rec.was]
    /\ trash' = trash \ {rec.n}
    /\ catalog' = [catalog EXCEPT ![s] = rec.dir]
    /\ deleted' = [deleted EXCEPT ![s] = None]
    /\ skew' = skew \cup {s}
    /\ task' \in [Tasks -> TaskState]
    /\ \A q \in Tasks \ {p} :
          /\ Alike(task'[q], task[q])
          /\ task'[q].clean = task[q].clean \ {s} /\ task'[q].removed = task[q].removed
          /\ task'[q].moved = task[q].moved
    /\ task'[p].op = "refresh" /\ task'[p].pc = "lookup" /\ task'[p].s = s
    /\ task'[p].clean = {s} /\ task'[p].rec = None /\ task'[p].dir = None
    /\ task'[p].seen = Idle.seen /\ task'[p].todo = {}

\* ... and moves the session back.
LEMMA RestoreTasks ==
    ASSUME BaseInv, NEW p \in Tasks, Restore(p)
    PROVE  /\ BaseInv'
           /\ task[p].s \in Sessions /\ task[p].rec \in Record /\ lock = None
           /\ \/ /\ Becomes(p, Idle)
                 /\ deleted' \in {deleted, [deleted EXCEPT ![task[p].s] = None]}
                 /\ UNCHANGED <<disk, catalog, skew>>
              \/ Restored(p, task[p].s, task[p].rec)
<1> DEFINE s == task[p].s
           rec == task[p].rec
           expired == rec.n \notin trash \/ rec.was.meta = "gone"
           refused == ~ expired /\ (rec.was.meta = "corrupt" \/ There(s, rec.dir))
           r == [Idle EXCEPT !.pc = "lookup", !.op = "refresh", !.s = s, !.clean = {s}]
<1>1. s \in Sessions /\ ~Holds(task[p]) /\ rec \in Record /\ lock = None /\ lock' = lock
  BY AtWork DEF Restore, Holds, Commands, TaskState, ShapeOK
<1>2. rec.dir \in Dirs /\ rec.was \in Content /\ rec.was.meta \in Metas
  BY <1>1 DEF Record, Content
<1>3. CASE expired \/ refused
  <2>1. /\ task' = [task EXCEPT ![p] = Idle] /\ UNCHANGED <<disk, catalog, skew>>
        /\ deleted' \in {deleted, [deleted EXCEPT ![s] = None]}
    BY <1>3 DEF Restore
  <2> HIDE DEF s, rec, expired, refused, r
  <2>2. Becomes(p, Idle) /\ Locked' /\ Numbered' /\ task' \in [Tasks -> TaskState]
        /\ \A q \in Tasks : ShapeOK(task'[q])
    BY <1>1, <2>1, BecomesBase, IdleShape DEF Restore, bounds
  <2>3. TypeOK'
    BY <1>1, <2>1, <2>2 DEF Restore, BaseInv, TypeOK, disk, bounds
  <2>4. QED
    BY <1>1, <2>1, <2>2, <2>3 DEF BaseInv, s, rec
<1>4. CASE ~(expired \/ refused)
  <2>1. rec.n \in trash /\ rec.was.meta \in Good /\ ~There(s, rec.dir)
    BY <1>2, <1>4 DEF Metas
  <2>2. /\ file' = [file EXCEPT ![s][rec.dir] = rec.was]
        /\ trash' = trash \ {rec.n}
        /\ catalog' = [catalog EXCEPT ![s] = rec.dir]
        /\ deleted' = [deleted EXCEPT ![s] = None]
        /\ skew' = skew \cup {s}
        /\ task' = [Overtake(task, s) EXCEPT ![p] = r]
    BY <1>4 DEF Restore
  <2>3. /\ r \in TaskState
        /\ r.op = "refresh" /\ r.pc = "lookup" /\ r.s = s /\ r.clean = {s} /\ r.rec = None
        /\ r.dir = None /\ r.seen = Idle.seen /\ r.todo = {}
    BY <1>1, IdleType DEF TaskState, Idle, Ops, Pcs
  <2> HIDE DEF s, rec, expired, refused, r
  <2>4. PICK o : o = Overtake(task, s)
    OBVIOUS
  <2>5. task \in [Tasks -> TaskState]
    BY DEF BaseInv, TypeOK
  <2>6. /\ o \in [Tasks -> TaskState]
        /\ \A q \in Tasks : /\ Alike(o[q], task[q])
                            /\ o[q].clean = task[q].clean \ {s}
                            /\ o[q].moved = task[q].moved /\ o[q].removed = task[q].removed
    BY <1>1, <2>4, <2>5, OvertakeIs
  <2>7. task' \in [Tasks -> TaskState] /\ \A q \in Tasks : task'[q] = IF q = p THEN r ELSE o[q]
    BY <2>2, <2>3, <2>4, <2>6
  <2>8. ShapeOK(r) /\ ~Holds(r)
    BY <1>1, <2>3 DEF ShapeOK, Holds, Commands
  <2>9. \A q \in Tasks : Alike(task'[q], IF q = p THEN r ELSE task[q])
    BY <2>6, <2>7 DEF Alike, SameWork
  <2>10. Locked' /\ Numbered' /\ \A q \in Tasks : ShapeOK(task'[q])
    BY <1>1, <2>3, <2>7, <2>8, <2>9, StepBase DEF Restore, bounds
  <2>11. Restored(p, s, rec)
    BY <2>1, <2>2, <2>3, <2>6, <2>7 DEF Restored
  <2>12. TypeOK'
    <3>1. file' \in [Sessions -> [Dirs -> Content]]
      BY <1>1, <1>2, <2>2 DEF BaseInv, TypeOK
    <3>2. QED
      BY <1>1, <1>2, <2>2, <2>7, <3>1 DEF Restore, BaseInv, TypeOK, Places, bounds
  <2>13. QED
    BY <1>1, <2>10, <2>11, <2>12 DEF BaseInv, s, rec
<1>5. QED
  BY <1>3, <1>4

\* A refresh reads the metadata (content.rs, read_meta).
LEMMA ReadMetaTasks ==
    ASSUME BaseInv, NEW p \in Tasks, ReadMeta(p)
    PROVE  /\ BaseInv'
           /\ task[p].s \in Sessions /\ task[p].op = "refresh" /\ At(p) \in Dirs
           /\ \E r : /\ Becomes(p, r)
                     /\ r.op = "refresh" /\ r.s = task[p].s /\ r.dir = None
                     /\ r.rec = task[p].rec /\ r.seen = task[p].seen /\ r.todo = task[p].todo
                     /\ r.kept = task[p].kept /\ r.clean = task[p].clean
                     /\ r.meta = file[task[p].s][At(p)].meta
                     /\ r.pc = IF r.meta = "gone" THEN "drop" ELSE "note"
<1>1. /\ task[p].s \in Sessions /\ task[p].op = "refresh" /\ At(p) \in Dirs
      /\ task[p] \in TaskState /\ ~Holds(task[p]) /\ task[p].pc = "at"
  BY AtWork, AtIs DEF ReadMeta, Holds, Commands
<1>2. PICK meta \in Metas : meta = file[task[p].s][At(p)].meta
  BY <1>1, FileType DEF BaseInv
<1>3. PICK r : r = [task[p] EXCEPT !.pc = IF meta = "gone" THEN "drop" ELSE "note",
                                   !.dir = None, !.meta = meta]
  OBVIOUS
<1>4. task' = [task EXCEPT ![p] = r]
  BY <1>2, <1>3 DEF ReadMeta
<1>5. r \in TaskState
  BY <1>1, <1>3 DEF TaskState, Pcs, Places
<1>6. /\ r.op = "refresh" /\ r.s = task[p].s /\ r.dir = None
      /\ r.rec = task[p].rec /\ r.seen = task[p].seen /\ r.todo = task[p].todo
      /\ r.kept = task[p].kept /\ r.clean = task[p].clean
      /\ r.meta = meta /\ r.pc = IF meta = "gone" THEN "drop" ELSE "note"
  BY <1>1, <1>3 DEF TaskState
<1>7. ShapeOK(r) /\ ~Holds(r)
  BY <1>1, <1>6 DEF ShapeOK, Holds, Commands
<1>8. Becomes(p, r) /\ Locked' /\ Numbered' /\ task' \in [Tasks -> TaskState]
      /\ \A q \in Tasks : ShapeOK(task'[q])
  BY <1>1, <1>4, <1>5, <1>6, <1>7, BecomesBase DEF ReadMeta, bounds
<1>9. TypeOK'
  BY <1>8 DEF ReadMeta, BaseInv, TypeOK, disk, store, bounds, history
<1>10. QED
  BY <1>1, <1>2, <1>6, <1>8, <1>9 DEF BaseInv

\* ... and drops the session it did not find.
LEMMA DropTasks ==
    ASSUME BaseInv, NEW p \in Tasks, Drop(p)
    PROVE  /\ BaseInv'
           /\ task[p].s \in Sessions /\ task[p].op = "refresh"
           /\ Forgotten([task EXCEPT ![p] = Idle], task[p].s)
           /\ \A q \in Tasks \ {p} : task'[q].moved = task[q].moved
<1> DEFINE s == task[p].s
           tasks == [task EXCEPT ![p] = Idle]
<1>1. s \in Sessions /\ ~Holds(task[p]) /\ task[p].op = "refresh"
  BY AtWork DEF Drop, Holds, Commands, ShapeOK
<1>2. task' = Uncatalogued(tasks)
  BY DEF Drop
<1>3. tasks \in [Tasks -> TaskState] /\ \A q \in Tasks : tasks[q] = IF q = p THEN Idle ELSE task[q]
  BY IdleShape DEF BaseInv, TypeOK
<1> HIDE DEF s, tasks
<1>4. /\ task' \in [Tasks -> TaskState]
      /\ \A q \in Tasks :
            /\ Alike(task'[q], tasks[q])
            /\ task'[q].clean = tasks[q].clean /\ task'[q].moved = tasks[q].moved
            /\ task'[q].removed = (tasks[q].removed \/ tasks[q].pc = "warm")
  BY <1>2, <1>3, UncataloguedTasks
<1>5. Forgotten(tasks, s)
  BY <1>4 DEF Forgotten
<1>6. \A q \in Tasks : Alike(task'[q], IF q = p THEN Idle ELSE task[q])
  BY <1>3, <1>4
<1>7. Locked' /\ Numbered' /\ \A q \in Tasks : ShapeOK(task'[q])
  BY <1>1, <1>4, <1>6, IdleShape, StepBase DEF Drop, bounds
<1>8. TypeOK'
  BY <1>1, <1>4 DEF Drop, Settle, BaseInv, TypeOK, bounds, disk, Places, s
<1>9. QED
  BY <1>1, <1>3, <1>4, <1>5, <1>7, <1>8 DEF BaseInv, s, tasks

\* A note is read where the catalog says, or where a walk finds it.
LEMMA NoteDirIs ==
    ASSUME BaseInv, NEW s \in Sessions
    PROVE  /\ NoteDir(s) \in Dirs
           /\ catalog[s] # None => NoteDir(s) = catalog[s]
           /\ catalog[s] = None /\ Scan[s].dir # None => NoteDir(s) = Scan[s].dir
BY ScanType DEF NoteDir, BaseInv, TypeOK, Seen, Places, Dirs

\* ... or reads its note.
LEMMA ReadNoteTasks ==
    ASSUME BaseInv, NEW p \in Tasks, ReadNote(p)
    PROVE  /\ BaseInv'
           /\ task[p].s \in Sessions /\ task[p].op = "refresh"
           /\ \E r : /\ Becomes(p, r)
                     /\ r.op = "refresh" /\ r.s = task[p].s /\ r.dir = task[p].dir
                     /\ r.rec = task[p].rec /\ r.seen = task[p].seen /\ r.todo = task[p].todo
                     /\ r.kept = task[p].kept /\ r.clean = task[p].clean
                     /\ r.meta = task[p].meta /\ r.pc = "apply"
                     /\ r.note = file[task[p].s][NoteDir(task[p].s)].note
<1>1. /\ task[p].s \in Sessions /\ task[p].op = "refresh"
      /\ task[p] \in TaskState /\ ~Holds(task[p]) /\ task[p].pc = "note"
  BY AtWork DEF ReadNote, Holds, ShapeOK
<1>2. PICK note \in NoteVals : note = file[task[p].s][NoteDir(task[p].s)].note
  BY <1>1, FileType, NoteDirIs DEF BaseInv
<1>3. PICK r : r = [task[p] EXCEPT !.pc = "apply", !.note = note]
  OBVIOUS
<1>4. task' = [task EXCEPT ![p] = r]
  BY <1>2, <1>3 DEF ReadNote
<1>5. r \in TaskState
  BY <1>1, <1>3 DEF TaskState, Pcs
<1>6. /\ r.op = "refresh" /\ r.s = task[p].s /\ r.dir = task[p].dir
      /\ r.rec = task[p].rec /\ r.seen = task[p].seen /\ r.todo = task[p].todo
      /\ r.kept = task[p].kept /\ r.clean = task[p].clean
      /\ r.meta = task[p].meta /\ r.pc = "apply" /\ r.note = note
  BY <1>1, <1>3 DEF TaskState
<1>7. ShapeOK(r) /\ ~Holds(r)
  BY <1>1, <1>6 DEF ShapeOK, Holds, Commands
<1>8. Becomes(p, r) /\ Locked' /\ Numbered' /\ task' \in [Tasks -> TaskState]
      /\ \A q \in Tasks : ShapeOK(task'[q])
  BY <1>1, <1>4, <1>5, <1>6, <1>7, BecomesBase DEF ReadNote, bounds
<1>9. TypeOK'
  BY <1>8 DEF ReadNote, BaseInv, TypeOK, disk, store, bounds, history
<1>10. QED
  BY <1>1, <1>2, <1>6, <1>8, <1>9 DEF BaseInv

\* A refresh or a rescan applies what it read (rebuild.rs, refresh_one).
LEMMA ApplyTasks ==
    ASSUME BaseInv, NEW p \in Tasks, Apply(p)
    PROVE  /\ BaseInv'
           /\ task[p].s \in Sessions
           /\ \/ task[p].op = "refresh" /\ Becomes(p, Idle)
              \/ /\ task[p].op = "rescan"
                 /\ \E r : /\ Becomes(p, r)
                           /\ r.op = "rescan" /\ r.s = None /\ r.dir = task[p].dir
                           /\ r.rec = task[p].rec /\ r.seen = task[p].seen
                           /\ r.todo = task[p].todo \ {task[p].s}
                           /\ r.kept = task[p].kept /\ r.clean = task[p].clean
                           /\ r.pc = "rescan"
<1>1. /\ task[p].s \in Sessions /\ task[p].op \in {"refresh", "rescan"}
      /\ task[p] \in TaskState /\ ~Holds(task[p]) /\ task[p].pc = "apply"
  BY AtWork DEF Apply, Holds, ShapeOK
<1>2. index' \in [Sessions -> Entry \cup {None}]
  <2>1. index' = Applied(task[p].s, task[p].meta, task[p].note) /\ task[p].note \in NoteVals
    BY <1>1 DEF Apply, TaskState
  <2>2. CASE task[p].meta \in Good
    <3>1. [meta |-> task[p].meta, note |-> task[p].note] \in Entry
      BY <2>1, <2>2 DEF Entry
    <3>2. index' = [index EXCEPT ![task[p].s] = [meta |-> task[p].meta, note |-> task[p].note]]
      BY <2>1, <2>2 DEF Applied, Good
    <3>3. QED
      BY <1>1, <3>1, <3>2 DEF BaseInv, TypeOK
  <2>3. CASE task[p].meta = "corrupt" /\ index[task[p].s] # None /\ task[p].note # "gone"
    <3>1. [index[task[p].s] EXCEPT !.note = task[p].note] \in Entry
      BY <1>1, <2>1, <2>3 DEF BaseInv, TypeOK, Entry
    <3>2. index' = [index EXCEPT ![task[p].s] = [index[task[p].s] EXCEPT !.note = task[p].note]]
      BY <2>1, <2>3 DEF Applied, Good
    <3>3. QED
      BY <1>1, <3>1, <3>2 DEF BaseInv, TypeOK
  <2>4. CASE ~(task[p].meta \in Good)
             /\ ~(task[p].meta = "corrupt" /\ index[task[p].s] # None /\ task[p].note # "gone")
    BY <2>1, <2>4 DEF Applied, BaseInv, TypeOK
  <2>5. QED
    BY <2>2, <2>3, <2>4
<1>3. skew' \subseteq Sessions
  BY DEF Apply, Settle, BaseInv, TypeOK
<1>4. CASE task[p].op = "refresh"
  <2>1. task' = [task EXCEPT ![p] = Idle]
    BY <1>4 DEF Apply
  <2>2. Becomes(p, Idle) /\ Locked' /\ Numbered' /\ task' \in [Tasks -> TaskState]
        /\ \A q \in Tasks : ShapeOK(task'[q])
    BY <1>1, <2>1, BecomesBase, IdleShape DEF Apply, bounds
  <2>3. TypeOK'
    BY <1>2, <1>3, <2>2 DEF Apply, BaseInv, TypeOK, disk, bounds
  <2>4. QED
    BY <1>1, <1>4, <2>2, <2>3 DEF BaseInv
<1>5. CASE task[p].op = "rescan"
  <2>1. PICK r : r = [task[p] EXCEPT !.pc = "rescan", !.todo = task[p].todo \ {task[p].s},
                                     !.s = None, !.note = "gone", !.meta = "gone"]
    OBVIOUS
  <2>2. task' = [task EXCEPT ![p] = r]
    BY <1>5, <2>1 DEF Apply
  <2>3. r \in TaskState
    BY <1>1, <2>1 DEF TaskState, Pcs, Metas, NoteVals
  <2>4. /\ r.op = "rescan" /\ r.s = None /\ r.dir = task[p].dir
        /\ r.rec = task[p].rec /\ r.seen = task[p].seen
        /\ r.todo = task[p].todo \ {task[p].s}
        /\ r.kept = task[p].kept /\ r.clean = task[p].clean
        /\ r.pc = "rescan"
    BY <1>1, <1>5, <2>1 DEF TaskState
  <2>5. ShapeOK(r) /\ ~Holds(r)
    BY <1>5, <2>4, AtWork DEF ShapeOK, Holds, Commands
  <2>6. Becomes(p, r) /\ Locked' /\ Numbered' /\ task' \in [Tasks -> TaskState]
        /\ \A q \in Tasks : ShapeOK(task'[q])
    BY <1>1, <2>2, <2>3, <2>4, <2>5, BecomesBase DEF Apply, bounds
  <2>7. TypeOK'
    BY <1>2, <1>3, <2>6 DEF Apply, BaseInv, TypeOK, disk, bounds
  <2>8. QED
    BY <1>1, <1>5, <2>4, <2>6, <2>7 DEF BaseInv
<1>6. QED
  BY <1>1, <1>4, <1>5

\* A rescan walks the vault (rebuild.rs, rebuild_with_scan).
LEMMA RescanTasks ==
    ASSUME BaseInv, NEW p \in Tasks, Rescan(p)
    PROVE  /\ BaseInv' /\ task[p] = Idle /\ lock = None
           /\ \E r : /\ Becomes(p, r)
                     /\ r.op = "rescan" /\ r.pc = "rescan" /\ r.s = None /\ r.rec = None
                     /\ r.seen = Scan /\ r.todo = {s \in Sessions : Scan[s].dir # None}
                     /\ r.kept = Protected /\ r.clean = {s \in Sessions : ~ Corrupt(s)}
<1>1. PICK r : r = [Idle EXCEPT !.pc = "rescan", !.op = "rescan", !.seen = Scan,
                                !.todo = {s \in Sessions : Scan[s].dir # None},
                                !.kept = Protected,
                                !.clean = {s \in Sessions : ~ Corrupt(s)}]
  OBVIOUS
<1>2. task' = [task EXCEPT ![p] = r] /\ task[p] = Idle /\ lock = None /\ lock' = lock
  BY <1>1 DEF Rescan
<1>3. Protected \subseteq Sessions
  BY DEF Protected
<1>4. r \in TaskState
  BY <1>1, <1>3, IdleType, ScanType DEF BaseInv, TaskState, Pcs, Ops
<1>5. /\ r.op = "rescan" /\ r.pc = "rescan" /\ r.s = None /\ r.rec = None
      /\ r.seen = Scan /\ r.todo = {s \in Sessions : Scan[s].dir # None}
      /\ r.kept = Protected /\ r.clean = {s \in Sessions : ~ Corrupt(s)}
  BY <1>1 DEF Idle
<1>6. ShapeOK(r) /\ ~Holds(r)
  BY <1>5 DEF ShapeOK, Holds, Commands
<1>7. Becomes(p, r) /\ Locked' /\ Numbered' /\ task' \in [Tasks -> TaskState]
      /\ \A q \in Tasks : ShapeOK(task'[q])
  BY <1>2, <1>4, <1>5, <1>6, BecomesBase, IdleShape DEF Rescan, bounds
<1>8. catalog' \in [Sessions -> Places]
  BY ScanType DEF Rescan, BaseInv, TypeOK, Seen, Places
<1>9. lapse' \subseteq Sessions
  BY DEF Rescan, Unfound, BaseInv, TypeOK
<1>10. TypeOK'
  BY <1>7, <1>8, <1>9 DEF Rescan, BaseInv, TypeOK, disk, bounds
<1>11. QED
  BY <1>2, <1>5, <1>7, <1>10 DEF BaseInv

\* ... takes up one session,
LEMMA RescanSessionTasks ==
    ASSUME BaseInv, NEW p \in Tasks, RescanSession(p)
    PROVE  /\ BaseInv' /\ task[p].op = "rescan"
           /\ \E s \in task[p].todo, r \in TaskState :
                     /\ s \in Sessions
                     /\ Becomes(p, r)
                     /\ r.op = "rescan" /\ r.pc = "apply" /\ r.s = s /\ r.rec = task[p].rec
                     /\ r.dir = task[p].dir
                     /\ r.seen = task[p].seen /\ r.todo = task[p].todo
                     /\ r.kept = task[p].kept /\ r.clean = task[p].clean
                     /\ r.meta = task[p].seen[s].meta /\ r.note = file[s][NoteDir(s)].note
<1>1. /\ task[p].op = "rescan" /\ task[p] \in TaskState /\ ~Holds(task[p])
  BY AtWork DEF RescanSession, Holds, ShapeOK
<1>2. PICK s \in task[p].todo :
           task' = [task EXCEPT ![p] = [@ EXCEPT !.pc = "apply", !.s = s,
                                                 !.meta = task[p].seen[s].meta,
                                                 !.note = file[s][NoteDir(s)].note]]
  BY DEF RescanSession
<1>3. s \in Sessions
  BY <1>1 DEF TaskState
<1>4. PICK note \in NoteVals : note = file[s][NoteDir(s)].note
  BY <1>3, FileType, NoteDirIs DEF BaseInv
<1>5. PICK meta \in Metas : meta = task[p].seen[s].meta
  BY <1>1, <1>3 DEF TaskState, Seen
<1>6. PICK r : r = [task[p] EXCEPT !.pc = "apply", !.s = s, !.meta = meta, !.note = note]
  OBVIOUS
<1>7. task' = [task EXCEPT ![p] = r]
  BY <1>2, <1>4, <1>5, <1>6
<1>8. r \in TaskState
  BY <1>1, <1>3, <1>6 DEF TaskState, Pcs
<1>9. /\ r.op = "rescan" /\ r.pc = "apply" /\ r.s = s /\ r.rec = task[p].rec
      /\ r.dir = task[p].dir
      /\ r.seen = task[p].seen /\ r.todo = task[p].todo
      /\ r.kept = task[p].kept /\ r.clean = task[p].clean
      /\ r.meta = meta /\ r.note = note
  BY <1>1, <1>6 DEF TaskState
<1>10. ShapeOK(r) /\ ~Holds(r)
  BY <1>1, <1>3, <1>9, AtWork DEF ShapeOK, Holds, Commands
<1>11. Becomes(p, r) /\ Locked' /\ Numbered' /\ task' \in [Tasks -> TaskState]
      /\ \A q \in Tasks : ShapeOK(task'[q])
  BY <1>1, <1>7, <1>8, <1>9, <1>10, BecomesBase DEF RescanSession, bounds
<1>12. TypeOK'
  BY <1>11 DEF RescanSession, BaseInv, TypeOK, disk, store, bounds, history
<1>13. QED
  BY <1>1, <1>3, <1>4, <1>5, <1>8, <1>9, <1>11, <1>12 DEF BaseInv

\* ... and drops what it did not find.
LEMMA PruneTasks ==
    ASSUME BaseInv, NEW p \in Tasks, Prune(p)
    PROVE  BaseInv' /\ Becomes(p, Idle) /\ task[p].op = "rescan"
<1>1. task[p].op = "rescan" /\ ~Holds(task[p])
  BY AtWork DEF Prune, Holds, ShapeOK
<1>2. Becomes(p, Idle) /\ Locked' /\ Numbered' /\ task' \in [Tasks -> TaskState]
      /\ \A q \in Tasks : ShapeOK(task'[q])
  BY <1>1, BecomesBase, IdleShape DEF Prune, bounds
<1>3. TypeOK'
  BY <1>2 DEF Prune, BaseInv, TypeOK, disk, bounds
<1>4. QED
  BY <1>1, <1>2, <1>3 DEF BaseInv

\* Another program damages the metadata.
LEMMA CorruptsTasks ==
    ASSUME BaseInv, NEW s \in Sessions, NEW d \in Dirs, Corrupts(s, d)
    PROVE  BaseInv'
<1>1. file' \in [Sessions -> [Dirs -> Content]]
  <2>1. file[s] \in [Dirs -> Content] /\ file[s][d] \in Content
    BY FileType DEF BaseInv
  <2>2. [file[s][d] EXCEPT !.meta = "corrupt"] \in Content
    BY <2>1 DEF Content, Metas
  <2>3. file' = [file EXCEPT ![s] = [file[s] EXCEPT ![d] = [file[s][d] EXCEPT !.meta = "corrupt"]]]
    BY DEF Corrupts
  <2>4. QED
    BY <2>1, <2>2, <2>3 DEF BaseInv, TypeOK
<1>2. TypeOK'
  BY <1>1, BoundsAssumption DEF Corrupts, BaseInv, TypeOK, store, history
<1>3. QED
  BY <1>2 DEF Corrupts, BaseInv, Locked, Numbered

\* Another program removes or edits the files.
LEMMA ExternalTasks ==
    ASSUME BaseInv, NEW s \in Sessions, NEW d \in Dirs, External(s, d)
    PROVE  BaseInv' /\ Warned(task, s)
<1>1. PICK m : m = Moved(task, s)
  OBVIOUS
<1>2. PICK o : o = Overtake(m, s)
  OBVIOUS
<1>3. task' = o
  BY <1>1, <1>2 DEF External
<1>4. task \in [Tasks -> TaskState]
  BY DEF BaseInv, TypeOK
<1>5. m \in [Tasks -> TaskState]
      /\ \A q \in Tasks :
                 /\ Alike(m[q], task[q])
                 /\ m[q].clean = task[q].clean /\ m[q].removed = task[q].removed
                 /\ task[q].moved \subseteq m[q].moved
                 /\ task[q].pc \in {"warm", "fill"} => s \in m[q].moved
  BY <1>1, <1>4, MovedIs
<1>6. o \in [Tasks -> TaskState]
           /\ \A q \in Tasks : /\ Alike(o[q], m[q])
                               /\ o[q].clean = m[q].clean \ {s}
                               /\ o[q].moved = m[q].moved /\ o[q].removed = m[q].removed
  BY <1>2, <1>5, OvertakeIs
<1>7. \A q \in Tasks : Alike(task'[q], task[q])
  BY <1>3, <1>5, <1>6, AlikeAlike
<1>8. Warned(task, s)
  BY <1>3, <1>5, <1>6, <1>7 DEF Warned, Written
<1>9. Locked' /\ Numbered' /\ \A q \in Tasks : ShapeOK(task'[q])
  BY <1>7 DEF External, BaseInv, Locked, Numbered, Alike, SameWork, ShapeOK, Holds
<1>10. PICK c \in {Nothing} \cup {[file[s][d] EXCEPT !.note = t] : t \in Notes} :
         /\ file' = [file EXCEPT ![s][d] = c]
         /\ doomed' = IF c = Nothing THEN doomed \cup {s} ELSE doomed
  BY DEF External
<1>11. c \in Content
  <2>1. \A n \in Notes : [file[s][d] EXCEPT !.note = n] \in Content
    BY FileType DEF BaseInv, Content, NoteVals
  <2>2. Nothing \in Content
    BY DEF Nothing, Content, Metas, NoteVals
  <2>3. QED
    BY <1>10, <2>1, <2>2
<1>12. file' \in [Sessions -> [Dirs -> Content]]
  <2>1. file[s] \in [Dirs -> Content]
    BY FileType DEF BaseInv
  <2>2. file' = [file EXCEPT ![s] = [file[s] EXCEPT ![d] = c]]
    BY <1>10
  <2>3. QED
    BY <1>11, <2>1, <2>2 DEF BaseInv, TypeOK
<1>13. TypeOK'
  BY <1>8, <1>10, <1>12, BoundsAssumption DEF External, Warned, Written, BaseInv, TypeOK, store
<1>14. QED
  BY <1>8, <1>9, <1>13 DEF BaseInv

-----------------------------------------------------------------------------
(***************************************************************************)
(* Where the files of a session are, and what is said of a session that is *)
(* still to be created.                                                     *)
(***************************************************************************)
\* The directory d holds s, with metadata of whatever kind.
Home(s, d) == file[s][d].meta # "gone"
Homeless(s) == \A d \in Dirs : ~ Home(s, d)

\* A delete of s left the record r, in the store or with a task.
Recorded(s, r) ==
    /\ r # None
    /\ \/ r = deleted[s]
       \/ \E q \in Tasks : task[q].s = s /\ task[q].rec = r

\* ... and an undo can still bring the session back with it.
Live(s, r) == Recorded(s, r) /\ r.n \in trash /\ r.was.meta # "gone"

\* A session is in one directory, or in the trash, or nowhere.
OnePlace(s) ==
    /\ \A d, e \in Dirs : Home(s, d) /\ Home(s, e) => d = e
    /\ \A r \in Record : Live(s, r) => Homeless(s)
    /\ \A r, t \in Record : Live(s, r) /\ Live(s, t) => r.n = t.n

\* The number of a delete that is under way is new.
Deleting(q) == Holds(task[q]) /\ task[q].op = "delete"
RecordsOK(s) ==
    \A r \in Record : Recorded(s, r) =>
        /\ r.n <= deletions
        /\ \A q \in Tasks : Deleting(q) => r.n < deletions

\* What a task knows of a session that is not there yet.
FreshTask(r, s) ==
    /\ r.seen[s].dir = None /\ s \notin r.todo
    /\ r.s = s => /\ r.rec = None /\ r.dir = None /\ r.op # "delete"
                  /\ r.pc \notin {"tail", "note", "apply", "want", "lookup"}

FreshOK(s) ==
    ~ Created(s) => /\ Homeless(s)
                    /\ index[s] = None /\ catalog[s] = None /\ deleted[s] = None
                    /\ \A q \in Tasks : FreshTask(task[q], s)

\* A session nobody deleted has its files.
AliveOK(s) ==
    /\ Created(s) /\ s \notin doomed => ~ Homeless(s)
    /\ Tailing(s) => s \in doomed
    /\ \A q \in Tasks : task[q].op = "create" /\ task[q].s = s => s \in known

World(s) == OnePlace(s) /\ RecordsOK(s) /\ FreshOK(s) /\ AliveOK(s)

\* The others have not moved.
Others(p) == \A q \in Tasks \ {p} : Alike(task'[q], task[q])

\* A step that neither makes nor begins to make s.
LEMMA CreatedKept ==
    ASSUME NEW p \in Tasks, NEW s \in Sessions, Others(p), known' = known,
           task'[p].op = "create" /\ task'[p].s = s <=> task[p].op = "create" /\ task[p].s = s
    PROVE  Created(s)' <=> Created(s)
BY DEF Created, Others, Alike, SameWork

\* What is to be shown of a step that moves no session to another directory.
LEMMA WorldKept ==
    ASSUME BaseInv, BaseInv', NEW p \in Tasks, NEW s \in Sessions, World(s), Others(p),
           \A d \in Dirs : Home(s, d)' <=> Home(s, d),
           \A r \in Record : Recorded(s, r) /\ r.n \in trash' => r.n \in trash,
           deletions' >= deletions,
           Deleting(p)' => Deleting(p) \/ deletions' > deletions,
           deleted'[s] # None => Recorded(s, deleted'[s]),
           task'[p].s = s /\ task'[p].rec # None => Recorded(s, task'[p].rec),
           Created(s)' <=> Created(s), known \subseteq known', doomed \subseteq doomed',
           task'[p].op = "create" /\ task'[p].s = s => s \in known',
           task'[p].pc = "tail" /\ task'[p].s = s => s \in doomed',
           ~ Created(s) => /\ index'[s] = None /\ catalog'[s] = None /\ deleted'[s] = None
                           /\ FreshTask(task'[p], s)
    PROVE  World(s)'
<1>1. Homeless(s)' <=> Homeless(s)
  BY DEF Homeless
<1>2. \A q \in Tasks \ {p} :
         /\ task'[q].s = task[q].s /\ task'[q].rec = task[q].rec /\ task'[q].op = task[q].op
         /\ task'[q].pc = task[q].pc /\ task'[q].dir = task[q].dir
         /\ task'[q].seen = task[q].seen /\ task'[q].todo = task[q].todo
  BY DEF Others, Alike, SameWork
<1>3. ASSUME NEW r \in Record, Recorded(s, r)' PROVE Recorded(s, r)
  BY <1>2, <1>3 DEF Recorded
<1>4. OnePlace(s)'
  BY <1>1, <1>3 DEF World, OnePlace, Live
<1>5. RecordsOK(s)'
  <2>1. \A q \in Tasks \ {p} : Deleting(q)' <=> Deleting(q)
    BY <1>2 DEF Deleting, Holds
  <2>2. deletions \in Nat /\ deletions' \in Nat /\ \A r \in Record : r.n \in Nat
    BY BoundsAssumption DEF BaseInv, TypeOK, Record
  <2>3. QED
    BY <1>3, <2>1, <2>2 DEF World, RecordsOK
<1>6. FreshOK(s)'
  BY <1>1, <1>2 DEF World, FreshOK, FreshTask
<1>7. AliveOK(s)'
  BY <1>1, <1>2 DEF World, AliveOK, Tailing
<1>8. QED
  BY <1>4, <1>5, <1>6, <1>7 DEF World

\* A step that changes the task of p leaves the other tasks alone.
LEMMA BecomesIs ==
    ASSUME NEW p \in Tasks, NEW r, Becomes(p, r)
    PROVE  Others(p) /\ task'[p] = r
BY DEF Becomes, Others, Alike, SameWork

\* A walk finds a session where it is, unless its metadata do not parse.
LEMMA ScanIs ==
    ASSUME TypeOK, NEW s \in Sessions
    PROVE  /\ Scan[s].dir \in Places
           /\ Healthy(s) = {} => Scan[s].dir = None
           /\ Healthy(s) # {} => /\ Scan[s].dir \in Healthy(s)
                                 /\ Scan[s].meta = file[s][Scan[s].dir].meta
           /\ Homeless(s) => Scan[s].dir = None
           /\ Scan[s].dir # None => Home(s, Scan[s].dir) /\ Scan[s].meta \in Good
<1>1. Healthy(s) # {} => (CHOOSE x \in Healthy(s) : TRUE) \in Healthy(s)
  OBVIOUS
<1>2. Healthy(s) # {} => /\ Scan[s].dir \in Healthy(s)
                         /\ Scan[s].meta = file[s][Scan[s].dir].meta
  BY <1>1 DEF Scan
<1>3. Healthy(s) = {} => Scan[s].dir = None
  BY DEF Scan
<1>4. \A d \in Healthy(s) : d \in Dirs /\ Home(s, d) /\ file[s][d].meta \in Good
  BY DEF Healthy, Home, Good
<1>5. QED
  BY <1>2, <1>3, <1>4 DEF Homeless, Places

\* What is to be shown of a step that leaves the files alone.
LEMMA WorldStill ==
    ASSUME BaseInv, BaseInv', NEW p \in Tasks, NEW s \in Sessions, World(s), Others(p),
           UNCHANGED <<file, trash, deleted, deletions, known, doomed>>,
           ~ Deleting(p)' \/ Deleting(p),
           task'[p].s = s /\ task'[p].rec # None => Recorded(s, task'[p].rec),
           task'[p].op = "create" /\ task'[p].s = s <=> task[p].op = "create" /\ task[p].s = s,
           ~ (task'[p].pc = "tail" /\ task'[p].s = s),
           ~ Created(s) => /\ index'[s] = None /\ catalog'[s] = None
                           /\ FreshTask(task'[p], s)
    PROVE  World(s)'
<1>1. Created(s)' <=> Created(s)
  BY CreatedKept
<1>2. \A d \in Dirs : Home(s, d)' <=> Home(s, d)
  BY DEF Home
<1>3. deletions' >= deletions
  BY BoundsAssumption DEF BaseInv, TypeOK
<1>4. deleted'[s] # None => Recorded(s, deleted'[s])
  BY DEF Recorded
<1>5. task'[p].op = "create" /\ task'[p].s = s => s \in known'
  BY DEF World, AliveOK
<1>6. ~ Created(s) => deleted'[s] = None
  BY DEF World, FreshOK
<1>7. QED
  BY <1>1, <1>2, <1>3, <1>4, <1>5, <1>6, WorldKept

\* An operation begins (content.rs).
LEMMA EnterWorld ==
    ASSUME BaseInv, NEW s \in Sessions, World(s), NEW p \in Writers, NEW x \in Sessions,
           NEW op \in Commands, NEW n \in NoteVals, op = "note" => n \in Notes, Enter(p, op, x, n)
    PROVE  World(s)'
<1>1. BaseInv' /\ p \in Tasks /\ task[p] = Idle
  BY EnterTasks
<1>2. PICK r : Becomes(p, r) /\ Begins(r, op, x, n)
  BY EnterTasks
<1>3. Others(p) /\ task'[p] = r /\ r.op = op /\ r.s = x /\ r.rec = None
      /\ r.pc # "tail"
  BY <1>1, <1>2, BecomesIs DEF Begins, Looks
<1>4. Idle.op = "none"
  BY DEF Idle
<1>5. /\ op = "create" => x \notin known
      /\ op = "delete" => Created(x)
      /\ deletions' = IF op = "delete" THEN deletions + 1 ELSE deletions
      /\ known' = IF op = "create" THEN known \cup {x} ELSE known
      /\ UNCHANGED <<file, trash, catalog, index, deleted, doomed>>
  BY DEF Enter, disk, store
<1>6. Created(s)' <=> Created(s)
  <2>1. CASE op = "create" /\ x = s
    BY <1>1, <1>2, <1>3, <1>5, <2>1 DEF Created
  <2>2. CASE ~(op = "create" /\ x = s)
    <3>1. s \in known' <=> s \in known
      BY <1>5, <2>2
    <3>2. \A q \in Tasks : task'[q].op = "create" /\ task'[q].s = s
                              <=> task[q].op = "create" /\ task[q].s = s
      BY <1>1, <1>2, <1>3, <1>4, <2>2 DEF Others, Alike, SameWork
    <3>3. QED
      BY <3>1, <3>2 DEF Created
  <2>3. QED
    BY <2>1, <2>2
<1>7. ~ Created(s) => /\ index'[s] = None /\ catalog'[s] = None /\ deleted'[s] = None
                      /\ FreshTask(task'[p], s)
  <2> SUFFICES ASSUME ~ Created(s)
               PROVE  /\ index'[s] = None /\ catalog'[s] = None /\ deleted'[s] = None
                      /\ FreshTask(task'[p], s)
    OBVIOUS
  <2>1. /\ index[s] = None /\ catalog[s] = None /\ deleted[s] = None /\ Homeless(s)
        /\ Scan[s].dir = None
    BY ScanIs DEF World, FreshOK, BaseInv
  <2>2. Idle.seen[s].dir = None
    BY DEF Idle
  <2>3. FreshTask(r, s)
    BY <1>2, <1>5, <2>1, <2>2 DEF FreshTask, Begins, Looks
  <2>4. QED
    BY <1>3, <1>5, <2>1, <2>3
<1>8. deletions' >= deletions /\ (Deleting(p)' => deletions' > deletions)
  BY <1>2, <1>3, <1>5, BoundsAssumption DEF BaseInv, TypeOK, Deleting
<1>9. \A d \in Dirs : Home(s, d)' <=> Home(s, d)
  BY <1>5 DEF Home
<1>10. deleted'[s] # None => Recorded(s, deleted'[s])
  BY <1>5 DEF Recorded
<1>11. r.op = "create" /\ r.s = s => s \in known'
  BY <1>3, <1>5
<1>12. known \subseteq known'
  BY <1>5
<1>13. QED
  BY <1>1, <1>2, <1>3, <1>5, <1>6, <1>7, <1>8, <1>9, <1>10, <1>11, <1>12,
     WorldKept

\* An undo takes its record (content.rs, restore_session).
LEMMA RestoreBeginWorld ==
    ASSUME BaseInv, NEW s \in Sessions, World(s), NEW p \in Tasks, NEW x \in Sessions,
           RestoreBegin(p, x)
    PROVE  World(s)'
<1>1. BaseInv'
  BY RestoreBeginTasks
<1>2. PICK r : /\ Becomes(p, r)
               /\ r.op = "restore" /\ r.s = x /\ r.pc = "want" /\ r.rec = deleted[x]
               /\ r.todo = {} /\ r.dir = None /\ r.seen = Idle.seen
  BY RestoreBeginTasks
<1>3. Others(p) /\ task'[p] = r
  BY <1>2, BecomesIs
<1>4. /\ task[p] = Idle /\ deleted[x] # None /\ Idle.op = "none" /\ Idle.seen[s].dir = None
      /\ UNCHANGED <<file, trash, catalog, index, deleted, deletions, known, doomed>>
  BY DEF RestoreBegin, Idle, disk, store, bounds, history
<1>5. ~ Created(s) => /\ index'[s] = None /\ catalog'[s] = None
                      /\ FreshTask(r, s)
  BY <1>2, <1>4 DEF World, FreshOK, FreshTask
<1>6. r.s = s /\ r.rec # None => Recorded(s, r.rec)
  BY <1>2 DEF Recorded
<1>7. ~ Deleting(p)'
  BY <1>2, <1>3 DEF Deleting
<1>8. QED
  BY <1>1, <1>2, <1>3, <1>4, <1>5, <1>6, <1>7, WorldStill

\* read_meta of a refresh looks its session up.
LEMMA LookupWorld ==
    ASSUME BaseInv, NEW s \in Sessions, World(s), NEW p \in Tasks, Lookup(p)
    PROVE  World(s)'
<1>1. BaseInv'
  BY LookupTasks
<1>2. PICK r : /\ Becomes(p, r) /\ SameWork(r, task[p])
               /\ r.moved = task[p].moved /\ r.clean = task[p].clean
               /\ r.removed = task[p].removed
               /\ \/ /\ catalog[r.s] # None
                     /\ r.pc = "at" /\ r.dir = catalog[r.s] /\ r.seen = task[p].seen
                  \/ /\ catalog[r.s] = None
                     /\ r.pc = "warm" /\ r.dir = task[p].dir /\ r.seen = Scan
  BY LookupTasks
<1>3. Others(p) /\ task'[p] = r /\ r.op = task[p].op /\ r.s = task[p].s /\ r.rec = task[p].rec
  BY <1>2, BecomesIs DEF SameWork
<1>4. /\ task[p].pc = "lookup" /\ task[p].op = "refresh"
      /\ UNCHANGED <<file, trash, catalog, index, deleted, deletions, known, doomed>>
  BY AtWork DEF Lookup, disk, store, bounds, ShapeOK
<1>5. ~ Created(s) => /\ index'[s] = None /\ catalog'[s] = None
                      /\ FreshTask(r, s)
  BY <1>2, <1>4, ScanIs DEF World, FreshOK, FreshTask, SameWork, BaseInv
<1>6. r.s = s /\ r.rec # None => Recorded(s, r.rec)
  BY <1>3 DEF Recorded
<1>7. ~ Deleting(p)' /\ r.pc # "tail"
  BY <1>2, <1>3, <1>4 DEF Deleting
<1>8. QED
  BY <1>1, <1>3, <1>4, <1>5, <1>6, <1>7, WorldStill

\* A lookup looks at the removals again (locations.rs, lookup_existing_dir).
LEMMA CheckWorld ==
    ASSUME BaseInv, NEW s \in Sessions, World(s), NEW p \in Tasks, CheckRemovals(p)
    PROVE  World(s)'
<1>1. BaseInv'
  BY CheckTasks
<1>2. PICK r : /\ Becomes(p, r)
               /\ \/ task[p].removed /\ task[p].op = "read" /\ r = Idle
                  \/ /\ task[p].removed /\ task[p].op # "read"
                     /\ SameWork(r, task[p]) /\ r.clean = task[p].clean
                     /\ r.dir = task[p].seen[task[p].s].dir /\ r.pc = "at"
                     /\ r.seen = Idle.seen
                  \/ /\ ~task[p].removed
                     /\ SameWork(r, task[p]) /\ r.clean = task[p].clean
                     /\ r.dir = task[p].seen[task[p].s].dir /\ r.pc = "fill"
                     /\ r.seen = task[p].seen /\ r.moved = task[p].moved
  BY CheckTasks
<1>3. /\ task[p].pc = "warm"
      /\ UNCHANGED <<file, trash, catalog, index, deleted, deletions, known, doomed>>
  BY DEF CheckRemovals, disk, store, bounds, history
<1>4. /\ Others(p) /\ task'[p] = r
      /\ \/ r = Idle /\ task[p].op = "read"
         \/ /\ r.op = task[p].op /\ r.s = task[p].s /\ r.rec = task[p].rec /\ r.todo = task[p].todo
            /\ r.pc \in {"at", "fill"} /\ r.dir = task[p].seen[task[p].s].dir
            /\ r.seen \in {Idle.seen, task[p].seen}
  BY <1>2, BecomesIs DEF SameWork
<1>5. /\ Idle.op = "none" /\ Idle.rec = None /\ Idle.pc = "idle" /\ Idle.seen[s].dir = None
      /\ Idle.todo = {} /\ Idle.s = None
  BY DEF Idle
<1>6. ~ Created(s) => /\ index'[s] = None /\ catalog'[s] = None
                      /\ FreshTask(r, s)
  BY <1>3, <1>4, <1>5, NoneIsNot DEF World, FreshOK, FreshTask
<1>7. r.s = s /\ r.rec # None => Recorded(s, r.rec)
  BY <1>4, <1>5 DEF Recorded
<1>8. /\ Deleting(p)' => Deleting(p)
      /\ r.pc # "tail"
      /\ r.op = "create" /\ r.s = s <=> task[p].op = "create" /\ task[p].s = s
  BY <1>3, <1>4, <1>5 DEF Deleting, Holds, Commands
<1>9. QED
  BY <1>1, <1>3, <1>4, <1>6, <1>7, <1>8, WorldStill

\* What a lookup that is over adds to the catalog.
LEMMA FillIs ==
    ASSUME BaseInv, NEW p \in Tasks, Fill(p), NEW s \in Sessions
    PROVE  \/ catalog'[s] = catalog[s]
           \/ /\ task[p].seen[s].dir # None /\ catalog'[s] = task[p].seen[s].dir
              /\ s \in task[p].moved => s \in lapse'
BY DEF Fill, BaseInv, TypeOK

\* ... and fills the catalog.
LEMMA FillWorld ==
    ASSUME BaseInv, NEW s \in Sessions, World(s), NEW p \in Tasks, Fill(p)
    PROVE  World(s)'
<1>1. BaseInv'
  BY FillTasks
<1>2. PICK r : /\ Becomes(p, r)
               /\ \/ task[p].op = "read" /\ r = Idle
                  \/ /\ task[p].op # "read"
                     /\ SameWork(r, task[p]) /\ r.clean = task[p].clean
                     /\ r.dir = task[p].dir /\ r.pc = "at" /\ r.seen = Idle.seen
  BY FillTasks
<1>3. /\ task[p].pc = "fill"
      /\ UNCHANGED <<file, trash, index, deleted, deletions, known, doomed>>
  BY DEF Fill, disk, bounds
<1>4. /\ Others(p) /\ task'[p] = r
      /\ \/ r = Idle /\ task[p].op = "read"
         \/ /\ r.op = task[p].op /\ r.s = task[p].s /\ r.rec = task[p].rec /\ r.todo = task[p].todo
            /\ r.pc = "at" /\ r.dir = task[p].dir /\ r.seen = Idle.seen
  BY <1>2, BecomesIs DEF SameWork
<1>5. /\ Idle.op = "none" /\ Idle.rec = None /\ Idle.pc = "idle" /\ Idle.seen[s].dir = None
      /\ Idle.todo = {} /\ Idle.s = None
  BY DEF Idle
<1>6. ~ Created(s) => /\ index'[s] = None /\ catalog'[s] = None
                      /\ FreshTask(r, s)
  BY <1>3, <1>4, <1>5, FillIs, NoneIsNot DEF World, FreshOK, FreshTask
<1>7. r.s = s /\ r.rec # None => Recorded(s, r.rec)
  BY <1>4, <1>5 DEF Recorded
<1>8. /\ Deleting(p)' => Deleting(p)
      /\ r.pc # "tail"
      /\ r.op = "create" /\ r.s = s <=> task[p].op = "create" /\ task[p].s = s
  BY <1>3, <1>4, <1>5 DEF Deleting, Holds, Commands
<1>9. QED
  BY <1>1, <1>3, <1>4, <1>6, <1>7, <1>8, WorldStill

\* A task that ends, and leaves files, trash and records as they are.
LEMMA WorldEnds ==
    ASSUME BaseInv, BaseInv', NEW s \in Sessions, World(s), NEW p \in Tasks, Others(p),
           task'[p] = Idle, task[p].op # "create",
           UNCHANGED <<file, trash, deleted, deletions, known, doomed>>,
           ~ Created(s) => index'[s] = None /\ catalog'[s] = None
    PROVE  World(s)'
<1>1. /\ Idle.op = "none" /\ Idle.rec = None /\ Idle.pc = "idle" /\ Idle.seen[s].dir = None
      /\ Idle.todo = {} /\ Idle.s = None
  BY DEF Idle
<1>2. FreshTask(Idle, s)
  BY <1>1, NoneIsNot DEF FreshTask
<1>3. ~ Deleting(p)'
  BY <1>1 DEF Deleting
<1>4. QED
  BY <1>1, <1>2, <1>3, WorldStill

\* The note goes into the index (index.rs, index_set_note).
LEMMA PublishWorld ==
    ASSUME BaseInv, NEW s \in Sessions, World(s), NEW p \in Tasks, PublishNote(p)
    PROVE  World(s)'
<1>1. BaseInv' /\ Others(p) /\ task'[p] = Idle /\ task[p].op # "create"
  BY PublishTasks, BecomesIs
<1>2. UNCHANGED <<file, trash, catalog, deleted, deletions, known, doomed>>
  BY DEF PublishNote, disk, bounds, history
<1>3. index[s] = None => index'[s] = None
  BY DEF PublishNote
<1>4. QED
  BY <1>1, <1>2, <1>3, WorldEnds DEF World, FreshOK

\* A task that ends after it has taken s out of the catalog.
LEMMA ForgottenIs ==
    ASSUME BaseInv, NEW p \in Tasks, NEW s \in Sessions, Forgotten([task EXCEPT ![p] = Idle], s)
    PROVE  Others(p) /\ task'[p] = Idle
<1>1. \A q \in Tasks : [task EXCEPT ![p] = Idle][q] = IF q = p THEN Idle ELSE task[q]
  BY DEF BaseInv, TypeOK
<1>2. QED
  BY <1>1 DEF Forgotten, Others, Alike

\* ... and drops the session it did not find.
LEMMA DropWorld ==
    ASSUME BaseInv, NEW s \in Sessions, World(s), NEW p \in Tasks, Drop(p)
    PROVE  World(s)'
<1>1. BaseInv' /\ Others(p) /\ task'[p] = Idle /\ task[p].op # "create"
  BY DropTasks, ForgottenIs
<1>2. UNCHANGED <<file, trash, deleted, deletions, known, doomed>>
  BY DEF Drop, disk, bounds
<1>3. (index[s] = None => index'[s] = None) /\ (catalog[s] = None => catalog'[s] = None)
  BY DEF Drop, BaseInv, TypeOK
<1>4. QED
  BY <1>1, <1>2, <1>3, WorldEnds DEF World, FreshOK

\* ... and drops what it did not find.
LEMMA PruneWorld ==
    ASSUME BaseInv, NEW s \in Sessions, World(s), NEW p \in Tasks, Prune(p)
    PROVE  World(s)'
<1>1. BaseInv' /\ Others(p) /\ task'[p] = Idle /\ task[p].op # "create"
  BY PruneTasks, BecomesIs
<1>2. UNCHANGED <<file, trash, catalog, deleted, deletions, known, doomed>>
  BY DEF Prune, disk, bounds
<1>3. index[s] = None => index'[s] = None
  BY DEF Prune
<1>4. QED
  BY <1>1, <1>2, <1>3, WorldEnds DEF World, FreshOK

\* A reader looks a session up (content.rs, read_note).
LEMMA ReadBeginWorld ==
    ASSUME BaseInv, NEW s \in Sessions, World(s), NEW p \in Tasks, NEW x \in Sessions,
           ReadBegin(p, x)
    PROVE  World(s)'
<1>1. BaseInv'
  BY ReadBeginTasks
<1>2. PICK r : Becomes(p, r) /\ Opened(r, x)
  BY ReadBeginTasks
<1>3. Others(p) /\ task'[p] = r
  BY <1>2, BecomesIs
<1>4. /\ task[p] = Idle /\ Idle.op = "none"
      /\ UNCHANGED <<file, trash, catalog, index, deleted, deletions, known, doomed>>
  BY DEF ReadBegin, Idle, disk, store, bounds, history
<1>5. ~ Created(s) => /\ index'[s] = None /\ catalog'[s] = None
                      /\ FreshTask(r, s)
  BY <1>2, <1>4, ScanIs DEF World, FreshOK, FreshTask, BaseInv, Opened
<1>6. ~ Deleting(p)'
  BY <1>2, <1>3 DEF Deleting, Opened
<1>7. QED
  BY <1>1, <1>2, <1>3, <1>4, <1>5, <1>6, WorldStill DEF Opened

\* A refresh begins (rebuild.rs, refresh_session).
LEMMA RefreshBeginWorld ==
    ASSUME BaseInv, NEW s \in Sessions, World(s), NEW p \in Tasks, NEW x \in Sessions,
           RefreshBegin(p, x)
    PROVE  World(s)'
<1>1. BaseInv'
  BY RefreshBeginTasks
<1>2. PICK r : /\ Becomes(p, r)
               /\ r.op = "refresh" /\ r.s = x /\ r.rec = None
               /\ r.todo = {} /\ r.kept = {} /\ r.clean = {x} /\ r.moved = {} /\ r.removed = FALSE
               /\ Looks(r, x)
  BY RefreshBeginTasks
<1>3. Others(p) /\ task'[p] = r
  BY <1>2, BecomesIs
<1>4. /\ task[p] = Idle /\ Idle.op = "none" /\ Idle.seen[s].dir = None
      /\ UNCHANGED <<file, trash, catalog, index, deleted, deletions, known, doomed>>
  BY DEF RefreshBegin, Idle, disk, store, bounds
<1>5. ~ Created(s) => /\ index'[s] = None /\ catalog'[s] = None
                      /\ FreshTask(r, s)
  BY <1>2, <1>4, ScanIs DEF World, FreshOK, FreshTask, BaseInv, Looks
<1>6. ~ Deleting(p)' /\ r.pc # "tail"
  BY <1>2, <1>3 DEF Deleting, Looks
<1>7. QED
  BY <1>1, <1>2, <1>3, <1>4, <1>5, <1>6, WorldStill

\* A refresh reads the metadata (content.rs, read_meta).
LEMMA ReadMetaWorld ==
    ASSUME BaseInv, NEW s \in Sessions, World(s), NEW p \in Tasks, ReadMeta(p)
    PROVE  World(s)'
<1>1. BaseInv' /\ At(p) \in Dirs /\ task[p].op = "refresh"
  BY ReadMetaTasks
<1>2. PICK r : /\ Becomes(p, r)
               /\ r.op = "refresh" /\ r.s = task[p].s /\ r.dir = None
               /\ r.rec = task[p].rec /\ r.seen = task[p].seen /\ r.todo = task[p].todo
               /\ r.kept = task[p].kept /\ r.clean = task[p].clean
               /\ r.meta = file[task[p].s][At(p)].meta
               /\ r.pc = IF r.meta = "gone" THEN "drop" ELSE "note"
  BY ReadMetaTasks
<1>3. Others(p) /\ task'[p] = r
  BY <1>2, BecomesIs
<1>4. UNCHANGED <<file, trash, catalog, index, deleted, deletions, known, doomed>>
  BY DEF ReadMeta, disk, store, bounds, history
<1>5. ~ Created(s) => /\ index'[s] = None /\ catalog'[s] = None
                      /\ FreshTask(r, s)
  BY <1>1, <1>2, <1>4 DEF World, FreshOK, FreshTask, Homeless, Home
<1>6. r.s = s /\ r.rec # None => Recorded(s, r.rec)
  BY <1>2 DEF Recorded
<1>7. ~ Deleting(p)' /\ r.pc # "tail"
  BY <1>2, <1>3 DEF Deleting
<1>8. QED
  BY <1>1, <1>2, <1>3, <1>4, <1>5, <1>6, <1>7, WorldStill

\* ... or reads its note.
LEMMA ReadNoteWorld ==
    ASSUME BaseInv, NEW s \in Sessions, World(s), NEW p \in Tasks, ReadNote(p)
    PROVE  World(s)'
<1>1. BaseInv' /\ task[p].op = "refresh"
  BY ReadNoteTasks
<1>2. PICK r : /\ Becomes(p, r)
               /\ r.op = "refresh" /\ r.s = task[p].s /\ r.dir = task[p].dir
               /\ r.rec = task[p].rec /\ r.seen = task[p].seen /\ r.todo = task[p].todo
               /\ r.kept = task[p].kept /\ r.clean = task[p].clean
               /\ r.meta = task[p].meta /\ r.pc = "apply"
               /\ r.note = file[task[p].s][NoteDir(task[p].s)].note
  BY ReadNoteTasks
<1>3. Others(p) /\ task'[p] = r
  BY <1>2, BecomesIs
<1>4. /\ task[p].pc = "note"
      /\ UNCHANGED <<file, trash, catalog, index, deleted, deletions, known, doomed>>
  BY DEF ReadNote, disk, store, bounds, history
<1>5. ~ Created(s) => /\ index'[s] = None /\ catalog'[s] = None
                      /\ FreshTask(r, s)
  BY <1>2, <1>4 DEF World, FreshOK, FreshTask
<1>6. r.s = s /\ r.rec # None => Recorded(s, r.rec)
  BY <1>2 DEF Recorded
<1>7. ~ Deleting(p)' /\ r.pc # "tail"
  BY <1>2, <1>3 DEF Deleting
<1>8. QED
  BY <1>1, <1>2, <1>3, <1>4, <1>5, <1>6, <1>7, WorldStill

\* What Apply leaves in the index.
LEMMA ApplyIs ==
    ASSUME BaseInv, NEW p \in Tasks, Apply(p), NEW s \in Sessions
    PROVE  /\ s # task[p].s => index'[s] = index[s]
           /\ task[p].meta \in Good
                 => index'[task[p].s] = [meta |-> task[p].meta, note |-> task[p].note]
           /\ index[task[p].s] # None => index'[task[p].s] # None
<1>1. index' = Applied(task[p].s, task[p].meta, task[p].note) /\ task[p].s \in Sessions
  BY ApplyTasks DEF Apply
<1>2. CASE task[p].meta \in Good
  <2>1. index' = [index EXCEPT ![task[p].s] = [meta |-> task[p].meta, note |-> task[p].note]]
    BY <1>1, <1>2 DEF Applied, Good
  <2>2. [meta |-> task[p].meta, note |-> task[p].note] \in Entry /\ None \notin Entry
    BY <1>2, AtWork, AbsentAssumption DEF Entry, TaskState
  <2>3. QED
    BY <1>1, <1>2, <2>1, <2>2 DEF BaseInv, TypeOK
<1>3. CASE task[p].meta = "corrupt" /\ index[task[p].s] # None /\ task[p].note # "gone"
  <2>1. index' = [index EXCEPT ![task[p].s] = [index[task[p].s] EXCEPT !.note = task[p].note]]
    BY <1>1, <1>3 DEF Applied, Good
  <2>2. [index[task[p].s] EXCEPT !.note = task[p].note] \in Entry /\ None \notin Entry
    BY <1>1, <1>3, AtWork, AbsentAssumption DEF Entry, TaskState, BaseInv, TypeOK
  <2>3. QED
    BY <1>1, <1>3, <2>1, <2>2 DEF BaseInv, TypeOK, Good
<1>4. CASE ~(task[p].meta \in Good)
           /\ ~(task[p].meta = "corrupt" /\ index[task[p].s] # None /\ task[p].note # "gone")
  BY <1>1, <1>4 DEF Applied
<1>5. QED
  BY <1>2, <1>3, <1>4

\* A refresh or a rescan applies what it read (rebuild.rs, refresh_one).
LEMMA ApplyWorld ==
    ASSUME BaseInv, NEW s \in Sessions, World(s), NEW p \in Tasks, Apply(p)
    PROVE  World(s)'
<1>1. BaseInv' /\ task[p].s \in Sessions
  BY ApplyTasks
<1>2. /\ task[p].pc = "apply" /\ task[p].op \in {"refresh", "rescan"}
      /\ UNCHANGED <<file, trash, catalog, deleted, deletions, known, doomed>>
  BY AtWork DEF Apply, disk, bounds, ShapeOK
<1>3. ~ Created(s) => index'[s] = None /\ catalog'[s] = None
  BY <1>2, ApplyIs DEF World, FreshOK, FreshTask
<1>4. CASE task[p].op = "refresh"
  <2>1. Others(p) /\ task'[p] = Idle
    BY <1>4, ApplyTasks, BecomesIs
  <2>2. QED
    BY <1>1, <1>2, <1>3, <1>4, <2>1, WorldEnds
<1>5. CASE task[p].op = "rescan"
  <2>1. PICK r : /\ Becomes(p, r)
                 /\ r.op = "rescan" /\ r.s = None /\ r.dir = task[p].dir
                 /\ r.rec = task[p].rec /\ r.seen = task[p].seen
                 /\ r.todo = task[p].todo \ {task[p].s}
                 /\ r.kept = task[p].kept /\ r.clean = task[p].clean
                 /\ r.pc = "rescan"
    BY <1>5, ApplyTasks
  <2>2. Others(p) /\ task'[p] = r
    BY <2>1, BecomesIs
  <2>3. ~ Created(s) => FreshTask(r, s)
    BY <2>1, NoneIsNot DEF World, FreshOK, FreshTask
  <2>4. ~ Deleting(p)' /\ r.s # s
    BY <2>1, <2>2, NoneIsNot DEF Deleting
  <2>5. QED
    BY <1>1, <1>2, <1>3, <1>5, <2>1, <2>2, <2>3, <2>4, WorldStill
<1>6. QED
  BY <1>2, <1>4, <1>5

\* A rescan walks the vault (rebuild.rs, rebuild_with_scan).
LEMMA RescanWorld ==
    ASSUME BaseInv, NEW s \in Sessions, World(s), NEW p \in Tasks, Rescan(p)
    PROVE  World(s)'
<1>1. BaseInv' /\ task[p] = Idle /\ Idle.op = "none"
  BY RescanTasks DEF Idle
<1>2. PICK r : /\ Becomes(p, r)
               /\ r.op = "rescan" /\ r.pc = "rescan" /\ r.s = None /\ r.rec = None
               /\ r.seen = Scan /\ r.todo = {x \in Sessions : Scan[x].dir # None}
               /\ r.kept = Protected /\ r.clean = {x \in Sessions : ~ Corrupt(x)}
  BY RescanTasks
<1>3. Others(p) /\ task'[p] = r
  BY <1>2, BecomesIs
<1>4. UNCHANGED <<file, trash, index, deleted, deletions, known, doomed>>
  BY DEF Rescan, disk, bounds
<1>5. ~ Created(s) => Scan[s].dir = None /\ catalog[s] = None
  BY ScanIs DEF World, FreshOK, BaseInv
<1>6. ~ Created(s) => catalog'[s] = None
  BY <1>5 DEF Rescan
<1>7. ~ Created(s) => index'[s] = None /\ FreshTask(r, s)
  BY <1>2, <1>4, <1>5, NoneIsNot DEF World, FreshOK, FreshTask
<1>8. ~ Deleting(p)' /\ r.s # s
  BY <1>2, <1>3, NoneIsNot DEF Deleting
<1>9. QED
  BY <1>1, <1>2, <1>3, <1>4, <1>6, <1>7, <1>8, WorldStill

\* ... takes up one session,
LEMMA RescanSessionWorld ==
    ASSUME BaseInv, NEW s \in Sessions, World(s), NEW p \in Tasks, RescanSession(p)
    PROVE  World(s)'
<1>1. BaseInv' /\ task[p].op = "rescan"
  BY RescanSessionTasks
<1>2. PICK x \in task[p].todo, r \in TaskState :
               /\ x \in Sessions
               /\ Becomes(p, r)
               /\ r.op = "rescan" /\ r.pc = "apply" /\ r.s = x /\ r.rec = task[p].rec
               /\ r.dir = task[p].dir
               /\ r.seen = task[p].seen /\ r.todo = task[p].todo
               /\ r.kept = task[p].kept /\ r.clean = task[p].clean
               /\ r.meta = task[p].seen[x].meta /\ r.note = file[x][NoteDir(x)].note
  BY RescanSessionTasks
<1>3. Others(p) /\ task'[p] = r
  BY <1>2, BecomesIs
<1>4. UNCHANGED <<file, trash, catalog, index, deleted, deletions, known, doomed>>
  BY DEF RescanSession, disk, store, bounds, history
<1>5. ~ Created(s) => /\ index'[s] = None /\ catalog'[s] = None
                      /\ FreshTask(r, s)
  BY <1>2, <1>4 DEF World, FreshOK, FreshTask
<1>6. task[p].rec = None
  BY <1>1, AtWork DEF ShapeOK
<1>7. ~ Deleting(p)'
  BY <1>2, <1>3 DEF Deleting
<1>8. QED
  BY <1>1, <1>2, <1>3, <1>4, <1>5, <1>6, <1>7, WorldStill

\* ... and takes it out of catalog and index.
LEMMA DeleteTailWorld ==
    ASSUME BaseInv, NEW s \in Sessions, World(s), NEW p \in Tasks, DeleteTail(p)
    PROVE  World(s)'
<1>1. /\ BaseInv' /\ Others(p) /\ task'[p] = Idle
      /\ task[p].pc = "tail" /\ task[p].op = "delete" /\ task[p].s \in Sessions
  BY DeleteTailTasks, ForgottenIs, AtWork DEF DeleteTail, ShapeOK
<1>2. /\ UNCHANGED <<file, trash, deletions, known, doomed>>
      /\ deleted' = IF task[p].rec = None THEN deleted
                    ELSE [deleted EXCEPT ![task[p].s] = task[p].rec]
      /\ index[s] = None => index'[s] = None
      /\ catalog[s] = None => catalog'[s] = None
  BY DEF DeleteTail, disk, bounds, history, BaseInv, TypeOK
<1>3. deleted'[s] = deleted[s] \/ (task[p].s = s /\ task[p].rec # None /\ deleted'[s] = task[p].rec)
  BY <1>2 DEF BaseInv, TypeOK
<1>4. deleted'[s] # None => Recorded(s, deleted'[s])
  BY <1>3 DEF Recorded
<1>5. /\ Idle.op = "none" /\ Idle.rec = None /\ Idle.pc = "idle" /\ Idle.seen[s].dir = None
      /\ Idle.todo = {} /\ Idle.s = None
  BY DEF Idle
<1>6. Created(s)' <=> Created(s)
  BY <1>1, <1>2, <1>5, CreatedKept
<1>7. ~ Created(s) => task[p].s # s
  BY <1>1 DEF World, FreshOK, FreshTask
<1>8. ~ Created(s) => /\ index'[s] = None /\ catalog'[s] = None /\ deleted'[s] = None
                      /\ FreshTask(task'[p], s)
  BY <1>1, <1>2, <1>3, <1>5, <1>7, NoneIsNot DEF World, FreshOK, FreshTask
<1>9. ~ Deleting(p)'
  BY <1>1, <1>5 DEF Deleting
<1>10. \A d \in Dirs : Home(s, d)' <=> Home(s, d)
  BY <1>2 DEF Home
<1>11. deletions' >= deletions
  BY <1>2, BoundsAssumption DEF BaseInv, TypeOK
<1>12. QED
  BY <1>1, <1>2, <1>4, <1>5, <1>6, <1>8, <1>9, <1>10, <1>11, WorldKept

\* What is to be shown of the sessions that a change of files is not about.
LEMMA WorldAside ==
    ASSUME BaseInv, BaseInv', NEW s \in Sessions, World(s), NEW p \in Tasks, Others(p),
           task[p].s # s, task'[p].s # s,
           file'[s] = file[s], deleted'[s] = deleted[s],
           index'[s] = index[s], catalog'[s] = catalog[s],
           \A r \in Record : Recorded(s, r) /\ r.n \in trash' => r.n \in trash,
           ~ Deleting(p)',
           task'[p].seen[s] \in {task[p].seen[s], Idle.seen[s]},
           task'[p].todo \in {task[p].todo, {}},
           UNCHANGED <<deletions, known>>, doomed \subseteq doomed'
    PROVE  World(s)'
<1>1. Created(s)' <=> Created(s)
  BY CreatedKept
<1>2. \A d \in Dirs : Home(s, d)' <=> Home(s, d)
  BY DEF Home
<1>3. deletions' >= deletions
  BY BoundsAssumption DEF BaseInv, TypeOK
<1>4. deleted'[s] # None => Recorded(s, deleted'[s])
  BY DEF Recorded
<1>5. Idle.seen[s].dir = None
  BY DEF Idle
<1>6. ~ Created(s) => /\ index'[s] = None /\ catalog'[s] = None /\ deleted'[s] = None
                      /\ FreshTask(task'[p], s)
  BY <1>5 DEF World, FreshOK, FreshTask
<1>7. QED
  BY <1>1, <1>2, <1>3, <1>4, <1>6, WorldKept

\* A step that writes to x overtakes those who read x.
LEMMA WrittenIs ==
    ASSUME BaseInv, NEW p \in Tasks, NEW r \in TaskState, NEW x \in Sessions,
           Written([task EXCEPT ![p] = r], x)
    PROVE  /\ Others(p) /\ Alike(task'[p], r)
           /\ \A q \in Tasks \ {p} :
                 /\ task'[q].clean = task[q].clean \ {x} /\ task'[q].removed = task[q].removed
                 /\ task[q].moved \subseteq task'[q].moved
<1>1. \A q \in Tasks : [task EXCEPT ![p] = r][q] = IF q = p THEN r ELSE task[q]
  BY DEF BaseInv, TypeOK
<1>2. QED
  BY <1>1 DEF Written, Others

\* A task that ends with such a step has nothing to do.
LEMMA EndsWritten ==
    ASSUME BaseInv, NEW p \in Tasks, NEW x \in Sessions, Written([task EXCEPT ![p] = Idle], x)
    PROVE  Others(p) /\ task'[p] = Idle
BY WrittenIs, IdleShape DEF Alike

\* A session that is being created is not there yet.
LEMMA Creating ==
    ASSUME BaseInv, NEW p \in Tasks, task[p].op = "create"
    PROVE  lock = p /\ ~ Created(task[p].s)
<1>1. Holds(task[p])
  <2>1. task[p].pc \in Pcs /\ ShapeOK(task[p])
    BY AtWork DEF TaskState
  <2>2. task[p].pc # "idle"
    BY <2>1, IdleShape DEF ShapeOK
  <2>3. QED
    BY <2>1, <2>2 DEF ShapeOK, Holds, Commands, Pcs
<1>2. QED
  BY <1>1, AtWork DEF Created

\* What Create does to the files, the catalog and skew.
LEMMA CreateIs ==
    ASSUME BaseInv, NEW p \in Tasks, Create(p)
    PROVE  \E d \in Dirs :
             /\ d = IF There(task[p].s, "plain") THEN "plain" ELSE "untitled"
             /\ file' = [file EXCEPT ![task[p].s] = [file[task[p].s] EXCEPT
                             ![d] = [file[task[p].s][d] EXCEPT !.meta = "new"]]]
             /\ catalog' = [catalog EXCEPT ![task[p].s] = d]
             /\ skew' = IF Overtaken(task[p].s) \/ file[task[p].s][d].note # "gone"
                        THEN skew \cup {task[p].s} ELSE skew
BY DEF Create, Dirs

\* create_session_meta.
LEMMA CreateWorld ==
    ASSUME BaseInv, NEW s \in Sessions, World(s), NEW p \in Tasks, Create(p)
    PROVE  World(s)'
<1>1. BaseInv' /\ task[p].s \in Sessions /\ lock = p
      /\ Written([task EXCEPT ![p] = Idle], task[p].s)
  BY CreateTasks
<1>2. Others(p) /\ task'[p] = Idle
  BY <1>1, WrittenIs, IdleShape DEF Alike
<1>3. PICK d \in Dirs :
             /\ d = IF There(task[p].s, "plain") THEN "plain" ELSE "untitled"
             /\ file' = [file EXCEPT ![task[p].s] = [file[task[p].s] EXCEPT
                             ![d] = [file[task[p].s][d] EXCEPT !.meta = "new"]]]
             /\ catalog' = [catalog EXCEPT ![task[p].s] = d]
             /\ skew' = IF Overtaken(task[p].s) \/ file[task[p].s][d].note # "gone"
                        THEN skew \cup {task[p].s} ELSE skew
  BY CreateIs
<1>4. /\ task[p].op = "create" /\ index' = Upserted(task[p].s, "new")
      /\ UNCHANGED <<trash, deleted, deletions, known, doomed>>
  BY DEF Create, bounds
<1>5. /\ Idle.op = "none" /\ Idle.rec = None /\ Idle.pc = "idle" /\ Idle.seen[s].dir = None
      /\ Idle.todo = {} /\ Idle.s = None
  BY DEF Idle
<1>6. CASE task[p].s # s
  <2>1. file'[s] = file[s] /\ catalog'[s] = catalog[s] /\ index'[s] = index[s]
    BY <1>1, <1>3, <1>4, <1>6 DEF BaseInv, TypeOK, Upserted
  <2>2. ~ Deleting(p)'
    BY <1>2, <1>5 DEF Deleting
  <2>3. task'[p].seen[s] = Idle.seen[s] /\ task'[p].todo = {} /\ task'[p].s # s
    BY <1>2, <1>5, NoneIsNot
  <2>4. QED
    BY <1>1, <1>2, <1>4, <1>6, <2>1, <2>2, <2>3, WorldAside
<1>7. CASE task[p].s = s
  <2>1. /\ ~ Created(s) /\ lock = p /\ s \in known
        /\ \A q \in Tasks : task[q].op = "create" => q = p
    BY <1>4, <1>7, Creating DEF World, AliveOK
  <2>2. /\ Homeless(s) /\ deleted[s] = None
        /\ \A q \in Tasks : task[q].s = s => task[q].rec = None /\ task[q].pc # "tail"
    BY <2>1 DEF World, FreshOK, FreshTask
  <2>3. \A q \in Tasks : /\ task'[q].s = s => task'[q].rec = None /\ task'[q].pc # "tail"
                         /\ task'[q].op # "create"
    BY <1>2, <1>5, <2>1, <2>2 DEF Others, Alike, SameWork
  <2>4. Created(s)'
    BY <1>4, <2>1, <2>3 DEF Created
  <2>5. \A e \in Dirs : Home(s, e)' <=> e = d
    <3>1. file[s] \in [Dirs -> Content] /\ file[s][d] \in Content
      BY FileType DEF BaseInv
    <3>2. file'[s] = [file[s] EXCEPT ![d] = [file[s][d] EXCEPT !.meta = "new"]]
      BY <1>3, <1>7 DEF BaseInv, TypeOK
    <3>3. file'[s][d].meta = "new" /\ \A e \in Dirs \ {d} : file'[s][e] = file[s][e]
      BY <3>1, <3>2 DEF Content
    <3>4. QED
      BY <2>2, <3>3 DEF Home, Homeless
  <2>6. \A r : ~ Recorded(s, r)'
    BY <1>4, <2>2, <2>3 DEF Recorded
  <2>7. OnePlace(s)' /\ RecordsOK(s)' /\ FreshOK(s)'
    BY <2>4, <2>5, <2>6 DEF OnePlace, RecordsOK, FreshOK, Live
  <2>8. AliveOK(s)'
    BY <2>3, <2>5 DEF AliveOK, Tailing, Homeless
  <2>9. QED
    BY <2>7, <2>8 DEF World
<1>8. QED
  BY <1>6, <1>7

\* A step that writes files of s in place.
LEMMA WorldInPlace ==
    ASSUME BaseInv, BaseInv', NEW s \in Sessions, World(s), NEW p \in Tasks, Others(p),
           \A d \in Dirs : Home(s, d)' <=> Home(s, d),
           deleted'[s] = deleted[s],
           \A r \in Record : Recorded(s, r) /\ r.n \in trash' => r.n \in trash,
           ~ Deleting(p)' \/ Deleting(p), task'[p].pc # "tail",
           task'[p].s = s /\ task'[p].rec # None => Recorded(s, task'[p].rec),
           task'[p].op = "create" /\ task'[p].s = s <=> task[p].op = "create" /\ task[p].s = s,
           ~ Created(s) => /\ FreshTask(task'[p], s)
                           /\ index'[s] = index[s] /\ catalog'[s] = catalog[s],
           UNCHANGED <<deletions, known>>, doomed \subseteq doomed'
    PROVE  World(s)'
<1>1. Created(s)' <=> Created(s)
  BY CreatedKept
<1>2. deletions' >= deletions
  BY BoundsAssumption DEF BaseInv, TypeOK
<1>3. deleted'[s] # None => Recorded(s, deleted'[s])
  BY DEF Recorded
<1>4. ~ Created(s) => /\ index'[s] = None /\ catalog'[s] = None /\ deleted'[s] = None
                      /\ FreshTask(task'[p], s)
  BY DEF World, FreshOK
<1>5. task'[p].op = "create" /\ task'[p].s = s => s \in known'
  BY DEF World, AliveOK
<1>6. QED
  BY <1>1, <1>2, <1>3, <1>4, <1>5, WorldKept

\* What Update does to the files of its session.
LEMMA UpdateIs ==
    ASSUME BaseInv, NEW p \in Tasks, NEW e \in Dirs, task[p].s \in Sessions,
           file' = [file EXCEPT ![task[p].s] = [@ EXCEPT ![At(p)] = Nothing,
                       ![e] = [meta |-> "titled", note |-> file[task[p].s][At(p)].note]]]
    PROVE  /\ file'[task[p].s][e] = [meta |-> "titled", note |-> file[task[p].s][At(p)].note]
           /\ e # At(p) => file'[task[p].s][At(p)] = Nothing
           /\ \A d \in Dirs \ {e, At(p)} : file'[task[p].s][d] = file[task[p].s][d]
           /\ \A s \in Sessions \ {task[p].s} : file'[s] = file[s]
<1>1. At(p) \in Dirs /\ file[task[p].s] \in [Dirs -> Content]
  BY AtIs, FileType DEF BaseInv
<1>2. file'[task[p].s] = [file[task[p].s] EXCEPT ![At(p)] = Nothing,
                       ![e] = [meta |-> "titled", note |-> file[task[p].s][At(p)].note]]
  BY DEF BaseInv, TypeOK
<1>3. \A s \in Sessions \ {task[p].s} : file'[s] = file[s]
  BY DEF BaseInv, TypeOK
<1>4. QED
  BY <1>1, <1>2, <1>3

\* update_meta renames a provisional directory.
LEMMA UpdateWorld ==
    ASSUME BaseInv, NEW s \in Sessions, World(s), NEW p \in Tasks, Update(p)
    PROVE  World(s)'
<1>1. BaseInv' /\ task[p].s \in Sessions /\ lock = p /\ At(p) \in Dirs
  BY UpdateTasks, AtIs
<1>2. /\ task[p].op = "update"
      /\ UNCHANGED <<trash, deleted, deletions, known, doomed>>
  BY DEF Update, bounds
<1>3. /\ Idle.op = "none" /\ Idle.rec = None /\ Idle.pc = "idle" /\ Idle.seen[s].dir = None
      /\ Idle.todo = {} /\ Idle.s = None
  BY DEF Idle
<1>4. CASE Becomes(p, Idle) /\ UNCHANGED <<file, catalog, index, skew>>
  BY <1>1, <1>2, <1>4, BecomesIs, WorldEnds DEF World, FreshOK
<1>5. ASSUME NEW e \in Dirs,
             file[task[p].s][At(p)].meta \in Good, index' = Upserted(task[p].s, "titled"),
             \/ e = At(p) /\ Written([task EXCEPT ![p] = Idle], task[p].s)
             \/ /\ e # At(p) /\ ~There(task[p].s, e)
                /\ Warned([task EXCEPT ![p] = Idle], task[p].s),
             file' = [file EXCEPT
                             ![task[p].s] = [@ EXCEPT ![At(p)] = Nothing,
                                    ![e] = [meta |-> "titled",
                                            note |-> file[task[p].s][At(p)].note]]],
             catalog' = [catalog EXCEPT ![task[p].s] = e]
      PROVE  World(s)'
  <2>1. Others(p) /\ task'[p] = Idle
    BY <1>1, <1>5, EndsWritten DEF Warned
  <2>2. /\ file'[task[p].s][e] = [meta |-> "titled", note |-> file[task[p].s][At(p)].note]
        /\ e # At(p) => file'[task[p].s][At(p)] = Nothing
        /\ \A d \in Dirs \ {e, At(p)} : file'[task[p].s][d] = file[task[p].s][d]
        /\ \A x \in Sessions \ {task[p].s} : file'[x] = file[x]
    BY <1>1, <1>5, UpdateIs
  <2>3. ~ Deleting(p)'
    BY <1>3, <2>1 DEF Deleting
  <2>4. CASE task[p].s # s
    <3>1. file'[s] = file[s] /\ catalog'[s] = catalog[s] /\ index'[s] = index[s]
      BY <1>1, <1>5, <2>2, <2>4 DEF BaseInv, TypeOK, Upserted
    <3>2. task'[p].seen[s] = Idle.seen[s] /\ task'[p].todo = {} /\ task'[p].s # s
      BY <1>3, <2>1, NoneIsNot
    <3>3. QED
      BY <1>1, <1>2, <2>1, <2>3, <2>4, <3>1, <3>2, WorldAside
  <2>5. CASE task[p].s = s
    <3>1. Home(s, At(p))
      BY <1>5, <2>5 DEF Home, Good
    <3>2. Created(s) /\ \A d \in Dirs : Home(s, d) <=> d = At(p)
      BY <1>1, <3>1 DEF World, FreshOK, OnePlace, Homeless
    <3>3. \A d \in Dirs : Home(s, d)' <=> d = e
      BY <1>1, <2>2, <2>5, <3>2 DEF Home, Nothing
    <3>4. \A r : Recorded(s, r)' => Recorded(s, r)
      BY <1>2, <1>3, <2>1 DEF Recorded, Others, Alike, SameWork
    <3>5. Created(s)'
      BY <1>2, <1>3, <2>1, <3>2, CreatedKept
    <3>6. OnePlace(s)' /\ FreshOK(s)'
      BY <1>1, <1>2, <3>1, <3>3, <3>4, <3>5 DEF World, OnePlace, Live, FreshOK, Homeless
    <3>7. RecordsOK(s)'
      <4>1. \A q \in Tasks : Deleting(q)' => Deleting(q)
        BY <2>1, <2>3 DEF Deleting, Holds, Others, Alike, SameWork
      <4>2. QED
        BY <1>2, <3>4, <4>1 DEF World, RecordsOK
    <3>8. AliveOK(s)'
      BY <1>2, <1>3, <2>1, <3>3 DEF World, AliveOK, Tailing, Homeless, Others, Alike, SameWork
    <3>9. QED
      BY <3>6, <3>7, <3>8 DEF World
  <2>6. QED
    BY <2>4, <2>5
<1>6. QED
  BY <1>4, <1>5, UpdateTasks

\* What WriteNote does to the files.
LEMMA WriteNoteIs ==
    ASSUME BaseInv, NEW p \in Tasks, WriteNote(p)
    PROVE  /\ file'[task[p].s][At(p)] = [meta |-> file[task[p].s][At(p)].meta,
                                         note |-> task[p].note]
           /\ \A d \in Dirs \ {At(p)} : file'[task[p].s][d] = file[task[p].s][d]
           /\ \A s \in Sessions \ {task[p].s} : file'[s] = file[s]
           /\ \A s \in Sessions, d \in Dirs : Home(s, d)' <=> Home(s, d)
<1>1. At(p) \in Dirs /\ task[p].s \in Sessions
  BY WriteNoteTasks
<1>2. file[task[p].s] \in [Dirs -> Content]
      /\ file[task[p].s][At(p)] = [meta |-> file[task[p].s][At(p)].meta,
                                   note |-> file[task[p].s][At(p)].note]
  BY <1>1, FileType DEF BaseInv
<1>3. file' = [file EXCEPT ![task[p].s] = [file[task[p].s] EXCEPT
                ![At(p)] = [file[task[p].s][At(p)] EXCEPT !.note = task[p].note]]]
  BY DEF WriteNote
<1>4. [file[task[p].s][At(p)] EXCEPT !.note = task[p].note]
         = [meta |-> file[task[p].s][At(p)].meta, note |-> task[p].note]
  BY <1>2
<1>5. file'[task[p].s] = [file[task[p].s] EXCEPT
                ![At(p)] = [meta |-> file[task[p].s][At(p)].meta, note |-> task[p].note]]
  BY <1>1, <1>3, <1>4 DEF BaseInv, TypeOK
<1>6. \A s \in Sessions \ {task[p].s} : file'[s] = file[s]
  BY <1>1, <1>3 DEF BaseInv, TypeOK
<1>7. file'[task[p].s][At(p)] = [meta |-> file[task[p].s][At(p)].meta, note |-> task[p].note]
      /\ \A d \in Dirs \ {At(p)} : file'[task[p].s][d] = file[task[p].s][d]
  BY <1>1, <1>2, <1>5
<1>8. \A s \in Sessions, d \in Dirs : Home(s, d)' <=> Home(s, d)
  BY <1>6, <1>7 DEF Home
<1>9. QED
  BY <1>6, <1>7, <1>8

\* write_note.
LEMMA WriteNoteWorld ==
    ASSUME BaseInv, NEW s \in Sessions, World(s), NEW p \in Tasks, WriteNote(p)
    PROVE  World(s)'
<1>1. BaseInv' /\ task[p].s \in Sessions
  BY WriteNoteTasks
<1>2. PICK r \in TaskState :
                 /\ SameWork(r, task[p]) /\ r.pc = "publish"
                 /\ r.dir = None /\ r.seen = task[p].seen
                 /\ Written([task EXCEPT ![p] = r], task[p].s)
  BY WriteNoteTasks
<1>3. Others(p) /\ Alike(task'[p], r)
  BY <1>1, <1>2, WrittenIs
<1>4. /\ task'[p].pc = "publish" /\ task'[p].dir = None /\ task'[p].seen = task[p].seen
      /\ task'[p].op = task[p].op /\ task'[p].s = task[p].s /\ task'[p].rec = task[p].rec
      /\ task'[p].todo = task[p].todo
  BY <1>2, <1>3 DEF Alike, SameWork
<1>5. /\ task[p].op = "note"
      /\ UNCHANGED <<trash, catalog, index, deleted, deletions, known, doomed>>
  BY DEF WriteNote, bounds, store
<1>6. ~ Deleting(p)'
  BY <1>4, <1>5 DEF Deleting
<1>7. ~ Created(s) => FreshTask(task'[p], s)
  BY <1>4, <1>5 DEF World, FreshOK, FreshTask
<1>8. task'[p].s = s /\ task'[p].rec # None => Recorded(s, task'[p].rec)
  BY <1>4 DEF Recorded
<1>9. QED
  BY <1>1, <1>3, <1>4, <1>5, <1>6, <1>7, <1>8, WriteNoteIs, WorldInPlace

\* What Delete does to the files and the trash.
LEMMA DeleteIs ==
    ASSUME BaseInv, NEW p \in Tasks, Delete(p)
    PROVE  /\ file'[task[p].s][At(p)] = Nothing
           /\ \A d \in Dirs \ {At(p)} : file'[task[p].s][d] = file[task[p].s][d]
           /\ \A s \in Sessions \ {task[p].s} : file'[s] = file[s]
           /\ trash' \subseteq trash \cup {deletions}
           /\ doomed' = doomed \cup {task[p].s} /\ NoteChange(task[p].s)
           /\ UNCHANGED <<catalog, index, deleted, deletions, known, lapse>>
<1>1. At(p) \in Dirs /\ task[p].s \in Sessions
  BY DeleteTasks
<1>2. file[task[p].s] \in [Dirs -> Content]
  BY <1>1, FileType DEF BaseInv
<1>3. file' = [file EXCEPT ![task[p].s] = [file[task[p].s] EXCEPT ![At(p)] = Nothing]]
  BY DEF Delete
<1>4. /\ file'[task[p].s] = [file[task[p].s] EXCEPT ![At(p)] = Nothing]
      /\ \A s \in Sessions \ {task[p].s} : file'[s] = file[s]
  BY <1>1, <1>3 DEF BaseInv, TypeOK
<1>5. /\ trash' \subseteq trash \cup {deletions}
      /\ doomed' = doomed \cup {task[p].s} /\ NoteChange(task[p].s)
      /\ UNCHANGED <<catalog, index, deleted, deletions, known, lapse>>
  BY DEF Delete, store, bounds
<1>6. QED
  BY <1>1, <1>2, <1>4, <1>5

\* delete_session moves the session to the trash.
LEMMA DeleteWorld ==
    ASSUME BaseInv, NEW s \in Sessions, World(s), NEW p \in Tasks, Delete(p)
    PROVE  World(s)'
<1>1. BaseInv' /\ task[p].s \in Sessions /\ At(p) \in Dirs /\ lock = p
  BY DeleteTasks
<1>2. PICK r \in TaskState :
                 /\ r.op = "delete" /\ r.s = task[p].s /\ r.pc = "tail"
                 /\ r.seen = task[p].seen /\ r.todo = task[p].todo /\ r.kept = task[p].kept
                 /\ r.rec = IF There(task[p].s, At(p))
                            THEN [n |-> deletions, dir |-> At(p), was |-> file[task[p].s][At(p)]]
                            ELSE None
                 /\ Warned([task EXCEPT ![p] = r], task[p].s)
  BY DeleteTasks
<1>3. Others(p) /\ Alike(task'[p], r)
  BY <1>1, <1>2, WrittenIs DEF Warned
<1>4. /\ task'[p].op = "delete" /\ task'[p].s = task[p].s /\ task'[p].pc = "tail"
      /\ task'[p].seen = task[p].seen /\ task'[p].todo = task[p].todo
      /\ task'[p].rec = r.rec
  BY <1>2, <1>3 DEF Alike, SameWork
<1>5. /\ file'[task[p].s][At(p)] = Nothing
      /\ \A d \in Dirs \ {At(p)} : file'[task[p].s][d] = file[task[p].s][d]
      /\ \A x \in Sessions \ {task[p].s} : file'[x] = file[x]
      /\ trash' \subseteq trash \cup {deletions}
      /\ doomed' = doomed \cup {task[p].s}
      /\ UNCHANGED <<catalog, index, deleted, deletions, known>>
  BY DeleteIs
<1>6. task[p].op = "delete" /\ Deleting(p)
  BY <1>1, AtWork DEF Delete, Deleting
<1>7. deletions \in Nat /\ \A t \in Record : t.n \in Nat
  BY BoundsAssumption DEF BaseInv, TypeOK, Record
<1>8. \A t \in Record : Recorded(s, t) => t.n < deletions
  BY <1>6 DEF World, RecordsOK
<1>9. \A t \in Record : Recorded(s, t) /\ t.n \in trash' => t.n \in trash
  BY <1>5, <1>7, <1>8
<1>10. \A q \in Tasks : ~ Deleting(q)'
  BY <1>1, <1>3, <1>4, AtWork DEF Deleting, Holds, Others, Alike, SameWork
<1>11. CASE task[p].s # s
  BY <1>1, <1>3, <1>4, <1>5, <1>9, <1>10, <1>11, WorldAside
<1>12. CASE task[p].s = s
  <2>1. Created(s)
    BY <1>6, <1>12 DEF World, FreshOK, FreshTask
  <2>2. Created(s)'
    BY <1>3, <1>4, <1>5, <1>6, <2>1, CreatedKept
  <2>3. \A d \in Dirs : Home(s, d)' => Home(s, d) /\ d # At(p)
    BY <1>1, <1>5, <1>12 DEF Home, Nothing
  <2>4. \A t : Recorded(s, t)' => Recorded(s, t) \/ (t = r.rec /\ t # None)
    BY <1>3, <1>4, <1>5, <1>12 DEF Recorded, Others, Alike, SameWork
  <2>5. r.rec # None => r.rec.n = deletions /\ r.rec.was = file[s][At(p)]
    BY <1>2, <1>12
  <2>6. ASSUME NEW t \in Record, Live(s, t)'
        PROVE  /\ Homeless(s)'
               /\ \/ Live(s, t)
                  \/ t = r.rec /\ t.n = deletions /\ ~ Homeless(s)
    <3>1. CASE Recorded(s, t)
      <4>1. Live(s, t)
        BY <1>9, <2>6, <3>1 DEF Live
      <4>2. QED
        BY <2>3, <4>1 DEF World, OnePlace, Homeless
    <3>2. CASE t = r.rec /\ t # None
      <4>1. Home(s, At(p))
        BY <2>5, <2>6, <3>2 DEF Live, Home
      <4>2. QED
        BY <1>1, <2>3, <2>5, <3>2, <4>1 DEF World, OnePlace, Homeless
    <3>3. QED
      BY <2>4, <2>6, <3>1, <3>2 DEF Live
  <2>7. OnePlace(s)'
    BY <2>3, <2>6 DEF World, OnePlace
  <2>8. RecordsOK(s)'
    BY <1>5, <1>7, <1>8, <1>10, <2>4, <2>5 DEF RecordsOK
  <2>9. FreshOK(s)'
    BY <2>2 DEF FreshOK
  <2>10. AliveOK(s)'
    BY <1>3, <1>4, <1>5, <1>12 DEF World, AliveOK, Others, Alike, SameWork
  <2>11. QED
    BY <2>7, <2>8, <2>9, <2>10 DEF World
<1>13. QED
  BY <1>11, <1>12

\* What an undo that succeeds does to the files.
LEMMA RestoredIs ==
    ASSUME BaseInv, NEW p \in Tasks, NEW s \in Sessions, NEW rec \in Record, Restored(p, s, rec)
    PROVE  /\ rec.dir \in Dirs /\ rec.was.meta \in Good
           /\ file'[s][rec.dir] = rec.was
           /\ \A d \in Dirs \ {rec.dir} : file'[s][d] = file[s][d]
           /\ \A x \in Sessions \ {s} : /\ file'[x] = file[x] /\ catalog'[x] = catalog[x]
                                        /\ deleted'[x] = deleted[x]
           /\ catalog'[s] = rec.dir /\ deleted'[s] = None /\ trash' = trash \ {rec.n}
           /\ Others(p)
<1>1. rec.dir \in Dirs /\ rec.was \in Content
  BY DEF Record
<1>2. file[s] \in [Dirs -> Content]
  BY <1>1, FileType DEF BaseInv
<1>3. file' = [file EXCEPT ![s] = [file[s] EXCEPT ![rec.dir] = rec.was]]
  BY DEF Restored
<1>4. file'[s] = [file[s] EXCEPT ![rec.dir] = rec.was]
      /\ \A x \in Sessions \ {s} : file'[x] = file[x]
  BY <1>3 DEF BaseInv, TypeOK
<1>5. QED
  BY <1>1, <1>2, <1>4 DEF Restored, Others, BaseInv, TypeOK

\* ... and moves the session back.
LEMMA RestoreWorld ==
    ASSUME BaseInv, NEW s \in Sessions, World(s), NEW p \in Tasks, Restore(p)
    PROVE  World(s)'
<1>1. BaseInv' /\ task[p].s \in Sessions /\ task[p].rec \in Record
  BY RestoreTasks
<1>2. /\ task[p].pc = "want" /\ task[p].op = "restore" /\ task[p].rec # None
      /\ UNCHANGED <<index, deletions, known, doomed>>
  BY AtWork DEF Restore, bounds, ShapeOK
<1>3. /\ Idle.op = "none" /\ Idle.rec = None /\ Idle.pc = "idle" /\ Idle.seen[s].dir = None
      /\ Idle.todo = {} /\ Idle.s = None
  BY DEF Idle
<1>4. CASE /\ Becomes(p, Idle)
           /\ deleted' \in {deleted, [deleted EXCEPT ![task[p].s] = None]}
           /\ UNCHANGED <<disk, catalog, skew>>
  <2>1. Others(p) /\ task'[p] = Idle /\ UNCHANGED <<file, trash>>
    BY <1>4, BecomesIs DEF disk
  <2>2. deleted'[s] \in {deleted[s], None}
    BY <1>1, <1>4 DEF BaseInv, TypeOK
  <2>3. deleted'[s] # None => Recorded(s, deleted'[s])
    BY <2>2 DEF Recorded
  <2>4. ~ Created(s) => /\ index'[s] = None /\ catalog'[s] = None /\ deleted'[s] = None
                        /\ FreshTask(task'[p], s)
    BY <1>2, <1>3, <1>4, <2>1, <2>2, NoneIsNot DEF World, FreshOK, FreshTask
  <2>5. ~ Deleting(p)'
    BY <1>3, <2>1 DEF Deleting
  <2>6. Created(s)' <=> Created(s)
    BY <1>2, <1>3, <2>1, CreatedKept
  <2>7. (\A d \in Dirs : Home(s, d)' <=> Home(s, d)) /\ deletions' >= deletions
    BY <1>2, <2>1, BoundsAssumption DEF Home, BaseInv, TypeOK
  <2>8. QED
    BY <1>1, <1>2, <1>3, <2>1, <2>3, <2>4, <2>5, <2>6, <2>7, WorldKept
<1>5. CASE Restored(p, task[p].s, task[p].rec)
  <2> DEFINE rec == task[p].rec
  <2>1. /\ rec.dir \in Dirs /\ rec.was.meta \in Good
        /\ file'[task[p].s][rec.dir] = rec.was
        /\ \A d \in Dirs \ {rec.dir} : file'[task[p].s][d] = file[task[p].s][d]
        /\ \A x \in Sessions \ {task[p].s} : /\ file'[x] = file[x] /\ catalog'[x] = catalog[x]
                                             /\ deleted'[x] = deleted[x]
        /\ deleted'[task[p].s] = None /\ trash' = trash \ {rec.n}
        /\ Others(p)
    BY <1>1, <1>5, RestoredIs
  <2>2. /\ task'[p].op = "refresh" /\ task'[p].pc = "lookup" /\ task'[p].s = task[p].s
        /\ task'[p].rec = None /\ task'[p].seen = Idle.seen /\ task'[p].todo = {}
        /\ rec.n \in trash
    BY <1>5 DEF Restored
  <2>3. ~ Deleting(p)'
    BY <2>2 DEF Deleting
  <2>4. CASE task[p].s # s
    BY <1>1, <1>2, <2>1, <2>2, <2>3, <2>4, WorldAside
  <2>5. CASE task[p].s = s
    <3>1. Recorded(s, rec) /\ Live(s, rec) /\ rec \in Record
      BY <1>1, <1>2, <2>1, <2>2, <2>5 DEF Recorded, Live, Good
    <3>2. Homeless(s) /\ Created(s)
      BY <1>2, <2>5, <3>1 DEF World, OnePlace, FreshOK, FreshTask
    <3>3. \A d \in Dirs : Home(s, d)' <=> d = rec.dir
      BY <2>1, <2>5, <3>2 DEF Home, Homeless, Good
    <3>4. \A t : Recorded(s, t)' => Recorded(s, t)
      BY <2>1, <2>2, <2>5 DEF Recorded, Others, Alike, SameWork
    <3>5. \A t \in Record : ~ Live(s, t)'
      BY <2>1, <3>1, <3>4 DEF World, OnePlace, Live
    <3>6. OnePlace(s)'
      BY <3>3, <3>5 DEF OnePlace
    <3>7. \A q \in Tasks : Deleting(q)' => Deleting(q)
      BY <2>1, <2>3 DEF Deleting, Holds, Others, Alike, SameWork
    <3>8. RecordsOK(s)'
      BY <1>2, <3>4, <3>7 DEF World, RecordsOK
    <3>9. Created(s)'
      BY <1>2, <2>1, <2>2, <3>2, CreatedKept
    <3>10. FreshOK(s)'
      BY <3>9 DEF FreshOK
    <3>11. AliveOK(s)'
      BY <1>2, <2>1, <2>2, <3>3 DEF World, AliveOK, Tailing, Homeless, Others, Alike, SameWork
    <3>12. QED
      BY <3>6, <3>8, <3>10, <3>11 DEF World
  <2>6. QED
    BY <2>4, <2>5
<1>6. QED
  BY <1>4, <1>5, RestoreTasks

\* A change from outside takes files away, or leaves them where they are.
LEMMA WorldOutside ==
    ASSUME BaseInv, BaseInv', NEW s \in Sessions, World(s),
           \A q \in Tasks : Alike(task'[q], task[q]),
           \A d \in Dirs : Home(s, d)' => Home(s, d),
           s \in doomed' \/ (Homeless(s)' => Homeless(s)), doomed \subseteq doomed',
           UNCHANGED <<trash, catalog, index, deleted, deletions, known>>
    PROVE  World(s)'
<1>1. \A q \in Tasks :
         /\ task'[q].s = task[q].s /\ task'[q].rec = task[q].rec /\ task'[q].op = task[q].op
         /\ task'[q].pc = task[q].pc /\ task'[q].dir = task[q].dir
         /\ task'[q].seen = task[q].seen /\ task'[q].todo = task[q].todo
  BY DEF Alike, SameWork
<1>2. \A r : Recorded(s, r)' => Recorded(s, r)
  BY <1>1 DEF Recorded
<1>3. Created(s)' <=> Created(s)
  BY <1>1 DEF Created
<1>4. OnePlace(s)'
  BY <1>2 DEF World, OnePlace, Live, Homeless
<1>5. RecordsOK(s)'
  BY <1>1, <1>2 DEF World, RecordsOK, Deleting, Holds
<1>6. FreshOK(s)'
  BY <1>1, <1>3 DEF World, FreshOK, FreshTask, Homeless
<1>7. AliveOK(s)'
  BY <1>1, <1>3 DEF World, AliveOK, Tailing, Homeless
<1>8. QED
  BY <1>4, <1>5, <1>6, <1>7 DEF World

\* What damage from outside does to the files.
LEMMA CorruptsIs ==
    ASSUME BaseInv, NEW x \in Sessions, NEW d \in Dirs, Corrupts(x, d)
    PROVE  /\ file'[x][d].meta = "corrupt" /\ file[x][d].meta # "gone"
           /\ \A e \in Dirs \ {d} : file'[x][e] = file[x][e]
           /\ \A s \in Sessions \ {x} : file'[s] = file[s]
           /\ \A s \in Sessions, e \in Dirs : Home(s, e)' <=> Home(s, e)
<1>1. file[x] \in [Dirs -> Content] /\ file[x][d] \in Content
  BY FileType DEF BaseInv
<1>2. file' = [file EXCEPT ![x] = [file[x] EXCEPT ![d] = [file[x][d] EXCEPT !.meta = "corrupt"]]]
  BY DEF Corrupts
<1>3. file'[x] = [file[x] EXCEPT ![d] = [file[x][d] EXCEPT !.meta = "corrupt"]]
      /\ \A s \in Sessions \ {x} : file'[s] = file[s]
  BY <1>2 DEF BaseInv, TypeOK
<1>4. file'[x][d].meta = "corrupt" /\ file[x][d].meta # "gone"
      /\ \A e \in Dirs \ {d} : file'[x][e] = file[x][e]
  BY <1>1, <1>3 DEF Content, Corrupts, Good
<1>5. QED
  BY <1>3, <1>4 DEF Home

\* Another program damages the metadata.
LEMMA CorruptsWorld ==
    ASSUME BaseInv, NEW s \in Sessions, World(s), NEW x \in Sessions, NEW d \in Dirs,
           Corrupts(x, d)
    PROVE  World(s)'
<1>1. BaseInv' /\ UNCHANGED <<trash, catalog, index, deleted, deletions, known, doomed, task>>
  BY CorruptsTasks DEF Corrupts, store, history
<1>2. \A q \in Tasks : Alike(task'[q], task[q])
  BY <1>1 DEF Alike, SameWork
<1>3. QED
  BY <1>1, <1>2, CorruptsIs, WorldOutside DEF Homeless

\* What another program's change does to the files, and whom it puts out of step.
LEMMA ExternalIs ==
    ASSUME BaseInv, NEW x \in Sessions, NEW d \in Dirs, External(x, d)
    PROVE  /\ \A s \in Sessions \ {x} : file'[s] = file[s]
           /\ \A s \in Sessions, e \in Dirs : file'[s][e].meta \in {file[s][e].meta, "gone"}
           /\ doomed \subseteq doomed'
           /\ x \in doomed' \/ \A e \in Dirs : file'[x][e].meta = file[x][e].meta
           /\ x \in skew' /\ skew' = skew \cup {x}
           /\ UNCHANGED <<trash, catalog, index, deleted, lock, deletions, known, lapse>>
<1>1. PICK c \in {Nothing} \cup {[file[x][d] EXCEPT !.note = t] : t \in Notes} :
         /\ file' = [file EXCEPT ![x][d] = c]
         /\ doomed' = IF c = Nothing THEN doomed \cup {x} ELSE doomed
  BY DEF External
<1>2. file[x] \in [Dirs -> Content] /\ file[x][d] \in Content
  BY FileType DEF BaseInv
<1>3. file' = [file EXCEPT ![x] = [file[x] EXCEPT ![d] = c]]
  BY <1>1
<1>4. file'[x] = [file[x] EXCEPT ![d] = c]
      /\ \A s \in Sessions \ {x} : file'[s] = file[s]
  BY <1>3 DEF BaseInv, TypeOK
<1>5. file'[x][d] = c /\ \A e \in Dirs \ {d} : file'[x][e] = file[x][e]
  BY <1>2, <1>4
<1>6. c.meta \in {file[x][d].meta, "gone"} /\ (c # Nothing => c.meta = file[x][d].meta)
  BY <1>1, <1>2 DEF Nothing, Content
<1>7. UNCHANGED <<trash, catalog, index, deleted, lock, deletions, known, lapse>>
      /\ skew' = skew \cup {x}
  BY DEF External, store
<1>8. QED
  BY <1>1, <1>4, <1>5, <1>6, <1>7

\* Another program removes or edits the files.
LEMMA ExternalWorld ==
    ASSUME BaseInv, NEW s \in Sessions, World(s), NEW x \in Sessions, NEW d \in Dirs,
           External(x, d)
    PROVE  World(s)'
<1>1. BaseInv' /\ \A q \in Tasks : Alike(task'[q], task[q])
  BY ExternalTasks DEF Warned, Written
<1>2. \A e \in Dirs : Home(s, e)' => Home(s, e)
  BY ExternalIs DEF Home
<1>3. s \in doomed' \/ (Homeless(s)' => Homeless(s))
  BY ExternalIs DEF Home, Homeless
<1>4. QED
  BY <1>1, <1>2, <1>3, ExternalIs, WorldOutside

-----------------------------------------------------------------------------
(***************************************************************************)
(* What the catalog and the tasks know of where a session is.               *)
(***************************************************************************)
Walking(r) == r.pc \in {"warm", "fill"}

\* r is told that its walk is too old for s.
Warns(r, s) == s \in r.moved \/ (r.pc = "warm" /\ r.removed)

\* A walk that was not warned of s found it where it is, or nowhere.
WalkOK(r, s) ==
    Walking(r) /\ ~ Warns(r, s) => r.seen[s].dir = None \/ Home(s, r.seen[s].dir)

\* r looks for s in the directory h.
Dir(r) == IF r.dir = None THEN "plain" ELSE r.dir

LooksAt(r, s, h) ==
    /\ Walking(r) => r.seen[s].dir = h
    /\ r.pc = "at" => Dir(r) = h

\* The walk of a lookup is over: its answer is what the walk found.
FoundOK(r, s) == r.pc = "fill" /\ r.s = s => r.dir = r.seen[s].dir

\* A command finds its session, as long as the metadata parse.
CommandOK(r, s) ==
    Holds(r) /\ r.s = s /\ s \notin lapse /\ ~ Corrupt(s)
        => \A h \in Dirs : Home(s, h) => LooksAt(r, s, h)

\* A refresh that nobody overtook reads what is there.
RefreshOK(r, s) ==
    r.op = "refresh" /\ r.s = s =>
        /\ s \notin skew => s \in r.clean
        /\ s \in r.clean /\ s \notin lapse =>
            /\ \A h \in Dirs : Home(s, h) =>
                /\ r.pc # "drop" /\ LooksAt(r, s, h)
                /\ r.pc \in {"note", "apply"} => /\ r.meta # "gone"
                                                 /\ Corrupt(s) \/ r.meta = file[s][h].meta
                /\ r.pc = "apply" => Corrupt(s) \/ r.note = file[s][h].note
            /\ Homeless(s) => r.pc \notin {"note", "apply"}

\* So does a rescan.
RescanOK(r, s) ==
    r.op = "rescan" =>
        /\ s \notin skew \cup lapse => s \in r.clean \cup r.kept
        /\ s \in r.kept => r.seen[s].dir = None
        /\ s \in r.todo => r.seen[s].dir # None
        /\ r.seen[s].dir # None => r.seen[s].meta \in Good
        /\ s \in r.clean /\ s \notin lapse =>
            /\ \A h \in Dirs : Home(s, h) =>
                /\ r.seen[s].dir = h
                /\ Corrupt(s) \/ r.seen[s].meta = file[s][h].meta
                /\ r.pc = "apply" /\ r.s = s => Corrupt(s) \/ r.note = file[s][h].note
            /\ Homeless(s) => r.seen[s].dir = None
        /\ r.pc = "apply" /\ r.s = s => s \in r.todo /\ r.meta = r.seen[s].meta

\* What the task r knows of s.
View(r, s) ==
    /\ WalkOK(r, s) /\ FoundOK(r, s) /\ CommandOK(r, s) /\ RefreshOK(r, s) /\ RescanOK(r, s)

\* The catalog names no directory but the one that holds s.
CatalogOK(s) ==
    s \notin lapse => /\ \A d \in Dirs : Home(s, d) => catalog[s] \in {None, d}
                      /\ s \notin skew /\ Homeless(s) => catalog[s] = None \/ Tailing(s)

\* After a delete, before its tail.
TailOK(s) == Tailing(s) /\ s \notin skew \cup lapse => Corrupt(s) \/ Homeless(s)

\* What a rescan did not find, nobody catalogues before it is over.
GoneOK(s) ==
    \A q \in Tasks : /\ task[q].op = "rescan" /\ s \in task[q].clean
                     /\ s \notin lapse /\ Homeless(s)
                     => catalog[s] = None

Place(s) ==
    /\ CatalogOK(s) /\ TailOK(s) /\ GoneOK(s)
    /\ \A q \in Tasks : View(task[q], s)

\* The files of s are where they were, and as they were, or damaged.
Steady(s) ==
    /\ \A d \in Dirs : Home(s, d)' <=> Home(s, d)
    /\ Corrupt(s)' \/ file'[s] = file[s]

\* Files that are as they were are where they were.
LEMMA SteadyIs ==
    ASSUME NEW s, file'[s] = file[s]
    PROVE  Steady(s) /\ (Corrupt(s)' <=> Corrupt(s)) /\ (Homeless(s)' <=> Homeless(s))
BY DEF Steady, Home, Corrupt, Homeless

\* What a task knows of s outlasts a step that moves neither.
LEMMA ViewSteady ==
    ASSUME BaseInv, NEW s \in Sessions, NEW q \in Tasks, View(task[q], s), Steady(s),
           Alike(task'[q], task[q]), s \in lapse => s \in lapse',
           s \in task'[q].clean <=> s \in task[q].clean,
           Warns(task[q], s) => Warns(task'[q], s),
           \/ s \notin skew' => s \notin skew
           \/ /\ task[q].op = "refresh" /\ task[q].s = s => s \in task[q].clean
              /\ task[q].op = "rescan" => s \in task[q].clean
    PROVE  View(task[q], s)'
<1>1. /\ task'[q].s = task[q].s /\ task'[q].op = task[q].op
      /\ task'[q].pc = task[q].pc /\ task'[q].dir = task[q].dir /\ task'[q].meta = task[q].meta
      /\ task'[q].note = task[q].note /\ task'[q].seen = task[q].seen
      /\ task'[q].todo = task[q].todo /\ task'[q].kept = task[q].kept
  BY DEF Alike, SameWork
<1>2. /\ \A d \in Dirs : Home(s, d)' <=> Home(s, d)
      /\ Homeless(s)' <=> Homeless(s)
      /\ Corrupt(s) => Corrupt(s)'
      /\ ~ Corrupt(s)' => file'[s] = file[s]
  BY DEF Steady, Homeless, Corrupt
<1>3. WalkOK(task[q], s)'
  <2>1. task[q].seen[s].dir \in Dirs \cup {None}
    BY AtWork DEF TaskState, Seen, Places
  <2>2. QED
    BY <1>1, <1>2, <2>1 DEF View, WalkOK, Walking
<1>4. FoundOK(task[q], s)'
  BY <1>1 DEF View, FoundOK
<1>5. \A h : LooksAt(task'[q], s, h) <=> LooksAt(task[q], s, h)
  BY <1>1 DEF LooksAt, Walking, Dir
<1>6. CommandOK(task[q], s)'
  BY <1>1, <1>2, <1>5 DEF View, CommandOK, Holds
<1>7. RefreshOK(task[q], s)'
  BY <1>1, <1>2, <1>5 DEF View, RefreshOK
<1>8. RescanOK(task[q], s)'
  BY <1>1, <1>2 DEF View, RescanOK
<1>9. QED
  BY <1>3, <1>4, <1>6, <1>7, <1>8 DEF View

\* ... and a step that moves s and tells the task so.
LEMMA ViewOvertaken ==
    ASSUME BaseInv, NEW s \in Sessions, NEW q \in Tasks, View(task[q], s),
           Alike(task'[q], task[q]), s \in lapse => s \in lapse',
           s \notin task'[q].clean,
           s \notin skew' => s \notin skew /\ s \notin task[q].clean,
           Walking(task[q]) => /\ Warns(task[q], s) => Warns(task'[q], s)
                               /\ Warns(task'[q], s) \/ \A d \in Dirs : Home(s, d) => Home(s, d)',
           Holds(task[q]) /\ task[q].s = s => /\ \A d \in Dirs : Home(s, d)' => Home(s, d)
                                              /\ Corrupt(s) => Corrupt(s)' \/ Homeless(s)'
    PROVE  View(task[q], s)'
<1>1. /\ task'[q].s = task[q].s /\ task'[q].op = task[q].op
      /\ task'[q].pc = task[q].pc /\ task'[q].dir = task[q].dir /\ task'[q].meta = task[q].meta
      /\ task'[q].note = task[q].note /\ task'[q].seen = task[q].seen
      /\ task'[q].todo = task[q].todo /\ task'[q].kept = task[q].kept
  BY DEF Alike, SameWork
<1>3. WalkOK(task[q], s)'
  <2>1. task[q].seen[s].dir \in Dirs \cup {None}
    BY AtWork DEF TaskState, Seen, Places
  <2>2. QED
    BY <1>1, <2>1 DEF View, WalkOK, Walking
<1>4. FoundOK(task[q], s)'
  BY <1>1 DEF View, FoundOK
<1>5. \A h : LooksAt(task'[q], s, h) <=> LooksAt(task[q], s, h)
  BY <1>1 DEF LooksAt, Walking, Dir
<1>6. CommandOK(task[q], s)'
  BY <1>1, <1>5 DEF View, CommandOK, Holds, Homeless
<1>7. RefreshOK(task[q], s)'
  BY <1>1 DEF View, RefreshOK
<1>8. RescanOK(task[q], s)'
  BY <1>1 DEF View, RescanOK
<1>9. QED
  BY <1>3, <1>4, <1>6, <1>7, <1>8 DEF View

\* A task that looks for nothing, and neither refreshes nor rescans.
LEMMA ViewNothing ==
    ASSUME NEW s, NEW r, r.pc \notin {"warm", "fill", "at"}, r.op \notin {"refresh", "rescan"}
    PROVE  View(r, s) /\ View(r, s)'
BY DEF View, WalkOK, Walking, FoundOK, CommandOK, Holds, RefreshOK, RescanOK

\* What is to be shown of a step of p alone that leaves files and catalog.
LEMMA PlaceBecomes ==
    ASSUME BaseInv, NEW s \in Sessions, Place(s), NEW p \in Tasks, NEW r, Becomes(p, r),
           UNCHANGED <<file, catalog, skew>>, s \in lapse => s \in lapse',
           task[p].pc # "tail", r.pc # "tail",
           r.op = "rescan" => task[p].op = "rescan" /\ r.clean = task[p].clean,
           View(r, s)'
    PROVE  Place(s)'
<1>1. /\ Steady(s) /\ (Corrupt(s)' <=> Corrupt(s)) /\ (Homeless(s)' <=> Homeless(s))
      /\ \A d \in Dirs : Home(s, d)' <=> Home(s, d)
  BY SteadyIs DEF Steady
<1>2. /\ task'[p] = r
      /\ \A q \in Tasks \ {p} : task'[q] = task[q]
  BY DEF Becomes
<1>3. Tailing(s)' <=> Tailing(s)
  BY <1>2 DEF Tailing
<1>4. CatalogOK(s)'
  BY <1>1, <1>3 DEF Place, CatalogOK
<1>5. TailOK(s)'
  BY <1>1, <1>3 DEF Place, TailOK
<1>6. GoneOK(s)'
  BY <1>1, <1>2 DEF Place, GoneOK
<1>7. ASSUME NEW q \in Tasks \ {p} PROVE View(task[q], s)'
  <2>1. Alike(task'[q], task[q])
    BY <1>2 DEF Alike, SameWork
  <2>2. QED
    BY <1>1, <1>2, <2>1, ViewSteady DEF Place
<1>8. \A q \in Tasks : View(task[q], s)'
  BY <1>2, <1>7
<1>9. QED
  BY <1>4, <1>5, <1>6, <1>8 DEF Place

\* A lookup that begins finds the session, if it can be found.
LEMMA LooksOK ==
    ASSUME BaseInv, NEW s \in Sessions, World(s), CatalogOK(s), NEW r, r.s = s,
           \/ /\ catalog[s] # None
              /\ r.pc = "at" /\ r.dir = catalog[s]
           \/ /\ catalog[s] = None
              /\ r.pc = "warm" /\ r.seen = Scan,
           s \notin lapse, ~ Corrupt(s) \/ catalog[s] # None,
           NEW h \in Dirs, Home(s, h)
    PROVE  LooksAt(r, s, h)
<1>1. CASE catalog[s] # None
  <2>1. catalog[s] = h /\ r.pc = "at" /\ r.dir = h /\ h # None
    BY <1>1, NoneIsNot DEF CatalogOK
  <2>2. QED
    BY <2>1 DEF LooksAt, Walking, Dir
<1>2. CASE catalog[s] = None
  <2>1. ~ Corrupt(s) /\ r.pc = "warm" /\ r.seen = Scan
    BY <1>2
  <2>2. file[s][h].meta \in Good
    BY <2>1, FileType DEF Corrupt, Home, BaseInv, Metas
  <2>3. Healthy(s) # {} /\ Scan[s].dir \in Healthy(s)
    BY <2>2, ScanIs DEF Healthy, BaseInv
  <2>4. Scan[s].dir \in Dirs /\ Home(s, Scan[s].dir)
    BY <2>3 DEF Healthy, Home, Good
  <2>5. Scan[s].dir = h
    BY <2>4 DEF World, OnePlace
  <2>6. QED
    BY <2>1, <2>5 DEF LooksAt, Walking
<1>3. QED
  BY <1>1, <1>2

\* Nobody else moved files or catalog: a view is what it says now.
LEMMA ViewNow ==
    ASSUME NEW s \in Sessions, NEW r, UNCHANGED <<file, skew>>, s \in lapse => s \in lapse',
           View(r, s)
    PROVE  View(r, s)'
<1>1. (Corrupt(s)' <=> Corrupt(s)) /\ (Homeless(s)' <=> Homeless(s))
      /\ \A d : Home(s, d)' <=> Home(s, d)
  BY DEF Corrupt, Homeless, Home
<1>2. WalkOK(r, s)' /\ FoundOK(r, s)'
  BY <1>1 DEF View, WalkOK, FoundOK
<1>3. CommandOK(r, s)'
  BY <1>1 DEF View, CommandOK
<1>4. RefreshOK(r, s)'
  BY <1>1 DEF View, RefreshOK
<1>5. RescanOK(r, s)'
  BY <1>1 DEF View, RescanOK
<1>6. QED
  BY <1>2, <1>3, <1>4, <1>5 DEF View

\* An operation begins (content.rs).
LEMMA EnterPlace ==
    ASSUME BaseInv, NEW s \in Sessions, World(s), Place(s), NEW p \in Writers, NEW x \in Sessions,
           NEW op \in Commands, NEW n \in NoteVals, op = "note" => n \in Notes, Enter(p, op, x, n)
    PROVE  Place(s)'
<1>1. p \in Tasks /\ task[p] = Idle /\ Idle.pc = "idle"
  BY EnterTasks DEF Idle
<1>2. PICK r : Becomes(p, r) /\ Begins(r, op, x, n)
  BY EnterTasks
<1>3. UNCHANGED <<file, catalog, skew, lapse>>
  BY DEF Enter, disk, store
<1>4. /\ r.op = op /\ r.s = x
      /\ \/ /\ catalog[x] # None
            /\ r.pc = "at" /\ r.dir = catalog[x] /\ r.seen = Idle.seen
         \/ /\ catalog[x] = None
            /\ r.pc = "warm" /\ r.dir = None /\ r.seen = Scan
  BY <1>2 DEF Begins, Looks
<1>5. WalkOK(r, s) /\ FoundOK(r, s)
  BY <1>4, ScanIs DEF WalkOK, Walking, FoundOK, BaseInv
<1>6. CommandOK(r, s)
  BY <1>4, LooksOK DEF CommandOK, Place
<1>7. RefreshOK(r, s) /\ RescanOK(r, s)
  BY <1>4 DEF RefreshOK, RescanOK, Commands
<1>8. View(r, s)'
  BY <1>3, <1>5, <1>6, <1>7, ViewNow DEF View
<1>9. r.op # "rescan" /\ r.pc # "tail"
  BY <1>4 DEF Commands
<1>10. QED
  BY <1>1, <1>2, <1>3, <1>8, <1>9, PlaceBecomes

\* An undo takes its record (content.rs, restore_session).
LEMMA RestoreBeginPlace ==
    ASSUME BaseInv, NEW s \in Sessions, Place(s), NEW p \in Tasks, NEW x \in Sessions,
           RestoreBegin(p, x)
    PROVE  Place(s)'
<1>1. PICK r : /\ Becomes(p, r)
               /\ r.op = "restore" /\ r.s = x /\ r.pc = "want" /\ r.rec = deleted[x]
               /\ r.todo = {} /\ r.dir = None /\ r.seen = Idle.seen
  BY RestoreBeginTasks
<1>2. /\ task[p] = Idle /\ Idle.pc = "idle"
      /\ UNCHANGED <<file, catalog, skew, lapse>>
  BY DEF RestoreBegin, Idle, disk, store, history
<1>3. View(r, s)'
  BY <1>1, <1>2, ViewNothing, ViewNow
<1>4. QED
  BY <1>1, <1>2, <1>3, PlaceBecomes

\* A reader looks a session up (content.rs, read_note).
LEMMA ReadBeginPlace ==
    ASSUME BaseInv, NEW s \in Sessions, Place(s), NEW p \in Tasks, NEW x \in Sessions,
           ReadBegin(p, x)
    PROVE  Place(s)'
<1>1. PICK r : Becomes(p, r) /\ Opened(r, x)
  BY ReadBeginTasks
<1>2. /\ task[p] = Idle /\ Idle.pc = "idle"
      /\ UNCHANGED <<file, catalog, skew, lapse>>
  BY DEF ReadBegin, Idle, disk, store, history
<1>3. View(r, s)
  BY <1>1, ScanIs
     DEF View, WalkOK, Walking, FoundOK, CommandOK, Holds, Commands, RefreshOK, RescanOK, BaseInv,
         Opened
<1>4. View(r, s)'
  BY <1>2, <1>3, ViewNow
<1>5. QED
  BY <1>1, <1>2, <1>4, PlaceBecomes DEF Opened

\* A refresh that begins to look for x.
LEMMA RefreshLooks ==
    ASSUME BaseInv, NEW s \in Sessions, World(s), Place(s), NEW x \in Sessions, NEW r,
           r.op = "refresh", r.s = x,
           s = x /\ s \notin skew => s \in r.clean,
           \/ /\ catalog[x] # None
              /\ r.pc = "at" /\ r.dir = catalog[x]
           \/ /\ catalog[x] = None
              /\ r.pc = "warm" /\ r.seen = Scan,
           UNCHANGED <<file, skew>>, lapse' = lapse \cup ({x} \cap Unfound)
    PROVE  View(r, s)'
<1>1. /\ (Corrupt(s)' <=> Corrupt(s)) /\ (Homeless(s)' <=> Homeless(s))
      /\ \A d : Home(s, d)' <=> Home(s, d)
  BY DEF Corrupt, Homeless, Home
<1>2. WalkOK(r, s) /\ FoundOK(r, s)
  BY ScanIs DEF WalkOK, Walking, FoundOK, BaseInv
<1>3. WalkOK(r, s)' /\ FoundOK(r, s)'
  BY <1>1, <1>2 DEF WalkOK, FoundOK
<1>4. ASSUME r.s = s, s \notin lapse', NEW h \in Dirs, Home(s, h)
      PROVE  LooksAt(r, s, h)
  <2>1. s \notin lapse /\ (~ Corrupt(s) \/ catalog[s] # None)
    BY <1>4 DEF Unfound
  <2>2. QED
    BY <1>4, <2>1, LooksOK DEF Place
<1>5. RefreshOK(r, s)'
  BY <1>1, <1>4 DEF RefreshOK
<1>6. CommandOK(r, s)' /\ RescanOK(r, s)'
  BY DEF CommandOK, RescanOK, Holds, Commands
<1>7. QED
  BY <1>3, <1>5, <1>6 DEF View

\* A refresh begins (rebuild.rs, refresh_session).
LEMMA RefreshBeginPlace ==
    ASSUME BaseInv, NEW s \in Sessions, World(s), Place(s), NEW p \in Tasks, NEW x \in Sessions,
           RefreshBegin(p, x)
    PROVE  Place(s)'
<1>1. PICK r : /\ Becomes(p, r)
               /\ r.op = "refresh" /\ r.s = x /\ r.rec = None
               /\ r.todo = {} /\ r.kept = {} /\ r.clean = {x} /\ r.moved = {} /\ r.removed = FALSE
               /\ Looks(r, x)
  BY RefreshBeginTasks
<1>2. /\ task[p] = Idle /\ Idle.pc = "idle"
      /\ UNCHANGED <<file, catalog, skew>>
      /\ lapse' = lapse \cup ({x} \cap Unfound)
  BY DEF RefreshBegin, Idle, disk, store
<1>3. /\ \/ /\ catalog[x] # None
            /\ r.pc = "at" /\ r.dir = catalog[x]
         \/ /\ catalog[x] = None
            /\ r.pc = "warm" /\ r.seen = Scan
  BY <1>1 DEF Looks
<1>4. View(r, s)'
  BY <1>1, <1>2, <1>3, RefreshLooks
<1>5. QED
  BY <1>1, <1>2, <1>3, <1>4, PlaceBecomes

\* read_meta of a refresh looks its session up.
LEMMA LookupPlace ==
    ASSUME BaseInv, NEW s \in Sessions, World(s), Place(s), NEW p \in Tasks, Lookup(p)
    PROVE  Place(s)'
<1>1. PICK r : /\ Becomes(p, r) /\ SameWork(r, task[p])
               /\ r.moved = task[p].moved /\ r.clean = task[p].clean
               /\ r.removed = task[p].removed
               /\ \/ /\ catalog[r.s] # None
                     /\ r.pc = "at" /\ r.dir = catalog[r.s] /\ r.seen = task[p].seen
                  \/ /\ catalog[r.s] = None
                     /\ r.pc = "warm" /\ r.dir = task[p].dir /\ r.seen = Scan
  BY LookupTasks
<1>2. /\ task[p].pc = "lookup" /\ task[p].op = "refresh" /\ task[p].s \in Sessions
      /\ UNCHANGED <<file, catalog, skew>>
      /\ lapse' = lapse \cup ({task[p].s} \cap Unfound)
  BY AtWork DEF Lookup, disk, store, ShapeOK
<1>3. /\ r.op = "refresh" /\ r.s = task[p].s
      /\ \/ /\ catalog[task[p].s] # None
            /\ r.pc = "at" /\ r.dir = catalog[task[p].s]
         \/ /\ catalog[task[p].s] = None
            /\ r.pc = "warm" /\ r.seen = Scan
  BY <1>1, <1>2 DEF SameWork
<1>4. task[p].s = s /\ s \notin skew => s \in r.clean
  BY <1>1, <1>2 DEF Place, View, RefreshOK
<1>5. View(r, s)'
  BY <1>1, <1>2, <1>3, <1>4, RefreshLooks
<1>6. QED
  BY <1>1, <1>2, <1>3, <1>5, PlaceBecomes

\* A lookup looks at the removals again (locations.rs, lookup_existing_dir).
LEMMA CheckPlace ==
    ASSUME BaseInv, NEW s \in Sessions, World(s), Place(s), NEW p \in Tasks, CheckRemovals(p)
    PROVE  Place(s)'
<1>1. PICK r : /\ Becomes(p, r)
               /\ \/ task[p].removed /\ task[p].op = "read" /\ r = Idle
                  \/ /\ task[p].removed /\ task[p].op # "read"
                     /\ SameWork(r, task[p]) /\ r.clean = task[p].clean
                     /\ r.dir = task[p].seen[task[p].s].dir /\ r.pc = "at"
                     /\ r.seen = Idle.seen
                  \/ /\ ~task[p].removed
                     /\ SameWork(r, task[p]) /\ r.clean = task[p].clean
                     /\ r.dir = task[p].seen[task[p].s].dir /\ r.pc = "fill"
                     /\ r.seen = task[p].seen /\ r.moved = task[p].moved
  BY CheckTasks
<1>2. /\ task[p].pc = "warm" /\ task[p].op \in Commands \cup {"read", "refresh"}
      /\ UNCHANGED <<file, catalog, skew, lapse>>
  BY AtWork DEF CheckRemovals, disk, store, history, ShapeOK
<1>3. CASE r = Idle
  <2>1. Idle.pc = "idle" /\ Idle.op = "none"
    BY DEF Idle
  <2>2. View(r, s)'
    BY <1>2, <1>3, <2>1, ViewNothing, ViewNow
  <2>3. QED
    BY <1>1, <1>2, <1>3, <2>1, <2>2, PlaceBecomes
<1>4. CASE /\ SameWork(r, task[p]) /\ r.clean = task[p].clean
           /\ r.dir = task[p].seen[task[p].s].dir
           /\ \/ r.pc = "at"
              \/ /\ ~task[p].removed /\ r.pc = "fill"
                 /\ r.seen = task[p].seen /\ r.moved = task[p].moved
  <2>1. View(task[p], s)
    BY DEF Place
  <2>2. r.op = task[p].op /\ r.s = task[p].s
    BY <1>4 DEF SameWork
  <2>3. WalkOK(r, s) /\ FoundOK(r, s)
    BY <1>2, <1>4, <2>1, <2>2 DEF View, WalkOK, Walking, Warns, FoundOK
  <2>4. ASSUME NEW h \in Dirs, r.s = s, LooksAt(task[p], s, h)
        PROVE  LooksAt(r, s, h)
    BY <1>2, <1>4, <2>2, <2>4, NoneIsNot DEF LooksAt, Walking, Dir
  <2>5. CommandOK(r, s)
    BY <1>2, <2>1, <2>2, <2>4 DEF View, CommandOK, Holds
  <2>6. RefreshOK(r, s)
    BY <1>2, <1>4, <2>1, <2>2, <2>4 DEF View, RefreshOK
  <2>7. RescanOK(r, s) /\ r.op # "rescan" /\ r.pc # "tail"
    BY <1>2, <1>4, <2>2 DEF RescanOK, Commands
  <2>8. View(r, s)'
    BY <1>2, <2>3, <2>5, <2>6, <2>7, ViewNow DEF View
  <2>9. QED
    BY <1>1, <1>2, <2>7, <2>8, PlaceBecomes
<1>5. QED
  BY <1>1, <1>3, <1>4

\* ... and so for all tasks, when p alone takes a step.
LEMMA ViewsBecome ==
    ASSUME BaseInv, NEW s \in Sessions, Place(s), NEW p \in Tasks, NEW r, Becomes(p, r),
           UNCHANGED file, s \in lapse => s \in lapse', View(r, s)',
           \/ s \notin skew' => s \notin skew
           \/ \A q \in Tasks \ {p} :
                 /\ task[q].op = "refresh" /\ task[q].s = s => s \in task[q].clean
                 /\ task[q].op = "rescan" => s \in task[q].clean
    PROVE  \A q \in Tasks : View(task[q], s)'
<1>1. Steady(s)
  BY SteadyIs
<1>2. /\ task'[p] = r
      /\ \A q \in Tasks \ {p} : task'[q] = task[q]
  BY DEF Becomes
<1>3. ASSUME NEW q \in Tasks \ {p} PROVE View(task[q], s)'
  <2>1. Alike(task'[q], task[q])
    BY <1>2 DEF Alike, SameWork
  <2>2. QED
    BY <1>1, <1>2, <2>1, ViewSteady DEF Place
<1>4. QED
  BY <1>2, <1>3

\* ... and fills the catalog.
LEMMA FillPlace ==
    ASSUME BaseInv, NEW s \in Sessions, World(s), Place(s), NEW p \in Tasks, Fill(p)
    PROVE  Place(s)'
<1>1. PICK r : /\ Becomes(p, r)
               /\ \/ task[p].op = "read" /\ r = Idle
                  \/ /\ task[p].op # "read"
                     /\ SameWork(r, task[p]) /\ r.clean = task[p].clean
                     /\ r.dir = task[p].dir /\ r.pc = "at" /\ r.seen = Idle.seen
  BY FillTasks
<1>2. /\ task[p].pc = "fill" /\ task[p].op \in Commands \cup {"read", "refresh"}
      /\ UNCHANGED <<file, skew>> /\ lapse \subseteq lapse'
  BY AtWork DEF Fill, disk, ShapeOK
<1>3. View(task[p], s)
  BY DEF Place
<1>4. /\ Steady(s) /\ (Corrupt(s)' <=> Corrupt(s)) /\ (Homeless(s)' <=> Homeless(s))
      /\ \A d \in Dirs : Home(s, d)' <=> Home(s, d)
  BY <1>2, SteadyIs DEF Steady
<1>5. Idle.pc = "idle" /\ Idle.op = "none"
  BY DEF Idle
<1>6. r.pc # "tail" /\ r.op # "rescan" /\ View(r, s)'
  <2>1. CASE r = Idle
    BY <1>2, <1>5, <2>1, ViewNothing, ViewNow
  <2>2. CASE r # Idle
    <3>1. r.op = task[p].op /\ r.s = task[p].s /\ r.clean = task[p].clean /\ r.dir = task[p].dir
          /\ r.pc = "at"
      BY <1>1, <2>2 DEF SameWork
    <3>2. WalkOK(r, s) /\ FoundOK(r, s)
      BY <3>1 DEF WalkOK, Walking, FoundOK
    <3>3. ASSUME NEW h \in Dirs, r.s = s, LooksAt(task[p], s, h)
          PROVE  LooksAt(r, s, h)
      BY <1>2, <1>3, <3>1, <3>3, NoneIsNot DEF LooksAt, Walking, Dir, View, FoundOK
    <3>4. CommandOK(r, s)
      BY <1>2, <1>3, <3>1, <3>3 DEF View, CommandOK, Holds
    <3>5. RefreshOK(r, s)
      BY <1>2, <1>3, <3>1, <3>3 DEF View, RefreshOK
    <3>6. RescanOK(r, s) /\ r.op # "rescan" /\ r.pc # "tail"
      BY <1>2, <3>1 DEF RescanOK, Commands
    <3>7. QED
      BY <1>2, <3>2, <3>4, <3>5, <3>6, ViewNow DEF View
  <2>3. QED
    BY <2>1, <2>2
<1>7. \A q \in Tasks : View(task[q], s)'
  BY <1>1, <1>2, <1>6, ViewsBecome
<1>8. /\ task'[p] = r
      /\ \A q \in Tasks \ {p} : task'[q] = task[q]
  BY <1>1 DEF Becomes
<1>9. Tailing(s)' <=> Tailing(s)
  BY <1>2, <1>6, <1>8 DEF Tailing
<1>10. s \notin lapse' => \/ catalog'[s] = catalog[s]
                          \/ catalog'[s] \in Dirs /\ Home(s, catalog'[s])
  <2>1. task[p].seen[s].dir \in Dirs \cup {None}
    BY AtWork DEF TaskState, Seen, Places
  <2>2. QED
    BY <1>2, <1>3, <2>1, FillIs DEF View, WalkOK, Walking, Warns
<1>11. CatalogOK(s)'
  BY <1>2, <1>4, <1>9, <1>10 DEF Place, CatalogOK, World, OnePlace, Homeless
<1>12. TailOK(s)'
  BY <1>2, <1>4, <1>9 DEF Place, TailOK
<1>13. GoneOK(s)'
  BY <1>2, <1>4, <1>6, <1>8, <1>10 DEF Place, GoneOK, Homeless
<1>14. QED
  BY <1>7, <1>11, <1>12, <1>13 DEF Place

\* The note goes into the index (index.rs, index_set_note).
LEMMA PublishPlace ==
    ASSUME BaseInv, NEW s \in Sessions, Place(s), NEW p \in Tasks, PublishNote(p)
    PROVE  Place(s)'
<1>1. Becomes(p, Idle) /\ Idle.pc = "idle" /\ Idle.op = "none"
  BY PublishTasks DEF Idle
<1>2. task[p].pc = "publish" /\ UNCHANGED <<file, catalog, skew, lapse>>
  BY DEF PublishNote, disk, history
<1>3. View(Idle, s)'
  BY <1>1, <1>2, ViewNothing, ViewNow
<1>4. QED
  BY <1>1, <1>2, <1>3, PlaceBecomes

\* A refresh reads the metadata (content.rs, read_meta).
LEMMA ReadMetaPlace ==
    ASSUME BaseInv, NEW s \in Sessions, World(s), Place(s), NEW p \in Tasks, ReadMeta(p)
    PROVE  Place(s)'
<1>1. PICK r : /\ Becomes(p, r)
               /\ r.op = "refresh" /\ r.s = task[p].s /\ r.dir = None
               /\ r.rec = task[p].rec /\ r.seen = task[p].seen /\ r.todo = task[p].todo
               /\ r.kept = task[p].kept /\ r.clean = task[p].clean
               /\ r.meta = file[task[p].s][At(p)].meta
               /\ r.pc = IF r.meta = "gone" THEN "drop" ELSE "note"
  BY ReadMetaTasks
<1>2. /\ task[p].pc = "at" /\ task[p].op = "refresh" /\ At(p) \in Dirs
      /\ UNCHANGED <<file, catalog, skew, lapse>>
  BY ReadMetaTasks DEF ReadMeta, disk, store, history
<1>3. View(task[p], s)
  BY DEF Place
<1>4. WalkOK(r, s) /\ FoundOK(r, s) /\ CommandOK(r, s) /\ RescanOK(r, s)
  BY <1>1 DEF WalkOK, Walking, FoundOK, CommandOK, Holds, RescanOK
<1>5. RefreshOK(r, s)
  <2> SUFFICES ASSUME r.s = s PROVE RefreshOK(r, s)
    BY DEF RefreshOK
  <2>1. s \notin skew => s \in r.clean
    BY <1>1, <1>2, <1>3 DEF View, RefreshOK
  <2>2. ASSUME s \in r.clean, s \notin lapse, NEW h \in Dirs, Home(s, h)
        PROVE  r.pc = "note" /\ r.meta = file[s][h].meta /\ r.meta # "gone"
    <3>1. At(p) = h
      BY <1>1, <1>2, <1>3, <2>2 DEF View, RefreshOK, LooksAt, At, Dir
    <3>2. QED
      BY <1>1, <2>2, <3>1 DEF Home
  <2>3. Homeless(s) => r.pc = "drop"
    BY <1>1, <1>2 DEF Homeless, Home
  <2>4. QED
    BY <2>1, <2>2, <2>3 DEF RefreshOK, LooksAt, Walking
<1>6. View(r, s)'
  BY <1>2, <1>4, <1>5, ViewNow DEF View
<1>7. r.op # "rescan" /\ r.pc # "tail"
  BY <1>1
<1>8. QED
  BY <1>1, <1>2, <1>6, <1>7, PlaceBecomes

\* The note is read where the session is.
LEMMA NoteDirOK ==
    ASSUME BaseInv, NEW s \in Sessions, World(s), CatalogOK(s), s \notin lapse, ~ Corrupt(s),
           NEW h \in Dirs, Home(s, h)
    PROVE  NoteDir(s) = h
<1>1. CASE catalog[s] # None
  BY <1>1, NoteDirIs DEF CatalogOK
<1>2. CASE catalog[s] = None
  <2>1. file[s][h].meta \in Good
    BY FileType DEF Corrupt, Home, BaseInv, Metas
  <2>2. Healthy(s) # {} /\ Scan[s].dir \in Healthy(s)
    BY <2>1, ScanIs DEF Healthy, BaseInv
  <2>3. Scan[s].dir \in Dirs /\ Home(s, Scan[s].dir)
    BY <2>2 DEF Healthy, Home, Good
  <2>4. Scan[s].dir = h /\ h # None
    BY <2>3, NoneIsNot DEF World, OnePlace
  <2>5. QED
    BY <1>2, <2>4, NoteDirIs
<1>3. QED
  BY <1>1, <1>2

\* ... or reads its note.
LEMMA ReadNotePlace ==
    ASSUME BaseInv, NEW s \in Sessions, World(s), Place(s), NEW p \in Tasks, ReadNote(p)
    PROVE  Place(s)'
<1>1. PICK r : /\ Becomes(p, r)
               /\ r.op = "refresh" /\ r.s = task[p].s /\ r.dir = task[p].dir
               /\ r.rec = task[p].rec /\ r.seen = task[p].seen /\ r.todo = task[p].todo
               /\ r.kept = task[p].kept /\ r.clean = task[p].clean
               /\ r.meta = task[p].meta /\ r.pc = "apply"
               /\ r.note = file[task[p].s][NoteDir(task[p].s)].note
  BY ReadNoteTasks
<1>2. /\ task[p].pc = "note" /\ task[p].op = "refresh"
      /\ UNCHANGED <<file, catalog, skew, lapse>>
  BY ReadNoteTasks DEF ReadNote, disk, store, history
<1>3. View(task[p], s)
  BY DEF Place
<1>4. WalkOK(r, s) /\ FoundOK(r, s) /\ CommandOK(r, s) /\ RescanOK(r, s)
  BY <1>1 DEF WalkOK, Walking, FoundOK, CommandOK, Holds, RescanOK
<1>5. RefreshOK(r, s)
  <2> SUFFICES ASSUME r.s = s PROVE RefreshOK(r, s)
    BY DEF RefreshOK
  <2>1. ASSUME s \notin lapse, ~ Corrupt(s), NEW h \in Dirs, Home(s, h)
        PROVE  r.note = file[s][h].note
    BY <1>1, <2>1, NoteDirOK DEF Place
  <2>2. QED
    BY <1>1, <1>2, <1>3, <2>1 DEF View, RefreshOK, LooksAt, Walking
<1>6. View(r, s)'
  BY <1>2, <1>4, <1>5, ViewNow DEF View
<1>7. r.op # "rescan" /\ r.pc # "tail"
  BY <1>1
<1>8. QED
  BY <1>1, <1>2, <1>6, <1>7, PlaceBecomes

\* ... takes up one session,
LEMMA RescanSessionPlace ==
    ASSUME BaseInv, NEW s \in Sessions, World(s), Place(s), NEW p \in Tasks, RescanSession(p)
    PROVE  Place(s)'
<1>1. PICK x \in task[p].todo, r \in TaskState :
               /\ x \in Sessions
               /\ Becomes(p, r)
               /\ r.op = "rescan" /\ r.pc = "apply" /\ r.s = x /\ r.rec = task[p].rec
               /\ r.dir = task[p].dir
               /\ r.seen = task[p].seen /\ r.todo = task[p].todo
               /\ r.kept = task[p].kept /\ r.clean = task[p].clean
               /\ r.meta = task[p].seen[x].meta /\ r.note = file[x][NoteDir(x)].note
  BY RescanSessionTasks
<1>2. /\ task[p].pc = "rescan" /\ task[p].op = "rescan"
      /\ UNCHANGED <<file, catalog, skew, lapse>>
  BY RescanSessionTasks DEF RescanSession, disk, store, history
<1>3. View(task[p], s)
  BY DEF Place
<1>4. WalkOK(r, s) /\ FoundOK(r, s) /\ CommandOK(r, s) /\ RefreshOK(r, s)
  BY <1>1 DEF WalkOK, Walking, FoundOK, CommandOK, Holds, RefreshOK
<1>5. ASSUME r.s = s, s \notin lapse, ~ Corrupt(s), NEW h \in Dirs, Home(s, h)
      PROVE  r.note = file[s][h].note
  BY <1>1, <1>5, NoteDirOK DEF Place
<1>6. RescanOK(r, s)
  BY <1>1, <1>2, <1>3, <1>5 DEF View, RescanOK
<1>7. View(r, s)'
  BY <1>2, <1>4, <1>6, ViewNow DEF View
<1>8. QED
  BY <1>1, <1>2, <1>7, PlaceBecomes

\* A task ends what it read: what nobody disturbed may be trusted again.
LEMMA PlaceSettles ==
    ASSUME BaseInv, NEW s \in Sessions, Place(s), NEW p \in Tasks, NEW r, Becomes(p, r),
           UNCHANGED <<file, catalog, lapse>>,
           task[p].pc # "tail", r.pc # "tail",
           r.op = "rescan" => task[p].op = "rescan" /\ r.clean = task[p].clean,
           View(r, s)',
           \/ s \notin skew' => s \notin skew
           \/ s \in Settled(p) /\ (s \notin lapse /\ Homeless(s) => catalog[s] = None)
    PROVE  Place(s)'
<1>1. /\ Steady(s) /\ (Corrupt(s)' <=> Corrupt(s)) /\ (Homeless(s)' <=> Homeless(s))
      /\ \A d \in Dirs : Home(s, d)' <=> Home(s, d)
  BY SteadyIs DEF Steady
<1>2. /\ task'[p] = r
      /\ \A q \in Tasks \ {p} : task'[q] = task[q]
  BY DEF Becomes
<1>3. Tailing(s)' <=> Tailing(s)
  BY <1>2 DEF Tailing
<1>4. CatalogOK(s)'
  BY <1>1, <1>3 DEF Place, CatalogOK
<1>5. TailOK(s)'
  BY <1>1, <1>3 DEF Place, TailOK, Settled
<1>6. GoneOK(s)'
  BY <1>1, <1>2 DEF Place, GoneOK
<1>7. \A q \in Tasks : View(task[q], s)'
  BY ViewsBecome DEF Settled
<1>8. QED
  BY <1>4, <1>5, <1>6, <1>7 DEF Place

\* A refresh or a rescan applies what it read (rebuild.rs, refresh_one).
LEMMA ApplyPlace ==
    ASSUME BaseInv, NEW s \in Sessions, Place(s), NEW p \in Tasks, Apply(p)
    PROVE  Place(s)'
<1>1. /\ task[p].pc = "apply" /\ task[p].s \in Sessions
      /\ UNCHANGED <<file, catalog, lapse>>
      /\ skew' = skew \ ({task[p].s} \cap Settled(p))
  BY ApplyTasks DEF Apply, Settle, disk
<1>2. View(task[p], s)
  BY DEF Place
<1>3. \/ s \notin skew' => s \notin skew
      \/ s \in Settled(p) /\ s = task[p].s
  BY <1>1
<1>4. CASE task[p].op = "refresh" /\ Becomes(p, Idle)
  <2>1. Idle.pc = "idle" /\ Idle.op = "none" /\ View(Idle, s)'
    BY ViewNothing DEF Idle
  <2>2. s \in Settled(p) /\ s = task[p].s => (s \notin lapse /\ Homeless(s) => catalog[s] = None)
    BY <1>1, <1>2, <1>4 DEF View, RefreshOK, Settled
  <2>3. QED
    BY <1>1, <1>3, <1>4, <2>1, <2>2, PlaceSettles
<1>5. CASE task[p].op = "rescan"
  <2>1. PICK r : /\ Becomes(p, r)
                 /\ r.op = "rescan" /\ r.s = None /\ r.dir = task[p].dir
                 /\ r.rec = task[p].rec /\ r.seen = task[p].seen
                 /\ r.todo = task[p].todo \ {task[p].s}
                 /\ r.kept = task[p].kept /\ r.clean = task[p].clean
                 /\ r.pc = "rescan"
    BY <1>5, ApplyTasks
  <2>2. (Corrupt(s)' <=> Corrupt(s)) /\ (Homeless(s)' <=> Homeless(s))
        /\ \A d \in Dirs : Home(s, d)' <=> Home(s, d)
    BY <1>1 DEF Corrupt, Homeless, Home
  <2>3. WalkOK(r, s)' /\ FoundOK(r, s)' /\ CommandOK(r, s)' /\ RefreshOK(r, s)'
    BY <2>1 DEF WalkOK, Walking, FoundOK, CommandOK, Holds, RefreshOK
  <2>4. RescanOK(r, s)'
    BY <1>1, <1>2, <1>3, <1>5, <2>1, <2>2 DEF View, RescanOK, Settled
  <2>5. s \in Settled(p) /\ s = task[p].s => (s \notin lapse /\ Homeless(s) => catalog[s] = None)
    BY <1>1, <1>2, <1>5 DEF View, RescanOK, Settled
  <2>6. View(r, s)'
    BY <2>3, <2>4 DEF View
  <2>7. QED
    BY <1>1, <1>3, <1>5, <2>1, <2>5, <2>6, PlaceSettles
<1>6. QED
  BY <1>4, <1>5, ApplyTasks

\* ... and drops what it did not find.
LEMMA PrunePlace ==
    ASSUME BaseInv, NEW s \in Sessions, Place(s), NEW p \in Tasks, Prune(p)
    PROVE  Place(s)'
<1>1. /\ task[p].pc = "rescan" /\ task[p].op = "rescan"
      /\ UNCHANGED <<file, catalog, lapse>> /\ Becomes(p, Idle)
      /\ s \notin skew' => s \notin skew \/ s \in Settled(p)
  BY PruneTasks DEF Prune, disk
<1>2. Idle.pc = "idle" /\ Idle.op = "none" /\ View(Idle, s)'
  BY ViewNothing DEF Idle
<1>3. s \in Settled(p) => (s \notin lapse /\ Homeless(s) => catalog[s] = None)
  BY <1>1 DEF Place, GoneOK, Settled
<1>4. QED
  BY <1>1, <1>2, <1>3, PlaceSettles

\* ... and drops the session it did not find.
LEMMA DropPlace ==
    ASSUME BaseInv, NEW s \in Sessions, Place(s), NEW p \in Tasks, Drop(p)
    PROVE  Place(s)'
<1> DEFINE x == task[p].s
<1>1. /\ task[p].pc = "drop" /\ x \in Sessions /\ task[p].op = "refresh"
      /\ UNCHANGED <<file, lapse>> /\ catalog' = [catalog EXCEPT ![x] = None]
      /\ skew' = skew \ ({x} \cap Settled(p))
      /\ Others(p) /\ task'[p] = Idle
  BY DropTasks, ForgottenIs DEF Drop, Settle, disk
<1>2. \A q \in Tasks \ {p} : /\ task'[q].clean = task[q].clean /\ task'[q].moved = task[q].moved
                             /\ task[q].removed => task'[q].removed
  <2> DEFINE m == [task EXCEPT ![p] = Idle]
  <2>1. \A q \in Tasks \ {p} : m[q] = task[q]
    BY DEF BaseInv, TypeOK
  <2>2. Forgotten(m, x) /\ \A q \in Tasks \ {p} : task'[q].moved = task[q].moved
    BY DropTasks
  <2> HIDE DEF m
  <2>3. QED
    BY <2>1, <2>2 DEF Forgotten
<1>3. /\ Steady(s) /\ (Corrupt(s)' <=> Corrupt(s)) /\ (Homeless(s)' <=> Homeless(s))
      /\ \A d \in Dirs : Home(s, d)' <=> Home(s, d)
  BY <1>1, SteadyIs DEF Steady
<1>4. catalog'[s] = catalog[s] \/ (s = x /\ catalog'[s] = None)
  BY <1>1 DEF BaseInv, TypeOK
<1>5. \A q \in Tasks \ {p} : task'[q].pc = task[q].pc /\ task'[q].s = task[q].s
                             /\ task'[q].op = task[q].op
  BY <1>1 DEF Others, Alike, SameWork
<1>6. Idle.pc = "idle" /\ Idle.op = "none" /\ View(Idle, s)'
  BY ViewNothing DEF Idle
<1>7. Tailing(s)' <=> Tailing(s)
  BY <1>1, <1>5, <1>6 DEF Tailing
<1>8. CatalogOK(s)'
  BY <1>1, <1>3, <1>4, <1>7 DEF Place, CatalogOK, BaseInv, TypeOK
<1>9. TailOK(s)'
  BY <1>1, <1>3, <1>7 DEF Place, TailOK, Settled
<1>10. GoneOK(s)'
  BY <1>1, <1>2, <1>3, <1>4, <1>5, <1>6 DEF Place, GoneOK
<1>11. ASSUME NEW q \in Tasks \ {p} PROVE View(task[q], s)'
  <2>1. Alike(task'[q], task[q]) /\ View(task[q], s)
    BY <1>1 DEF Others, Place
  <2>2. Warns(task[q], s) => Warns(task'[q], s)
    BY <1>2, <1>5 DEF Warns
  <2>3. \/ s \notin skew' => s \notin skew
        \/ /\ task[q].op = "refresh" /\ task[q].s = s => s \in task[q].clean
           /\ task[q].op = "rescan" => s \in task[q].clean
    BY <1>1 DEF Settled
  <2>4. QED
    BY <1>1, <1>2, <1>3, <2>1, <2>2, <2>3, ViewSteady
<1>12. \A q \in Tasks : View(task[q], s)'
  BY <1>1, <1>6, <1>11
<1>13. QED
  BY <1>8, <1>9, <1>10, <1>12 DEF Place

\* A rescan walks the vault (rebuild.rs, rebuild_with_scan).
LEMMA RescanPlace ==
    ASSUME BaseInv, NEW s \in Sessions, World(s), Place(s), NEW p \in Tasks, Rescan(p)
    PROVE  Place(s)'
<1>1. PICK r : /\ Becomes(p, r)
               /\ r.op = "rescan" /\ r.pc = "rescan" /\ r.s = None /\ r.rec = None
               /\ r.seen = Scan /\ r.todo = {x \in Sessions : Scan[x].dir # None}
               /\ r.kept = Protected /\ r.clean = {x \in Sessions : ~ Corrupt(x)}
  BY RescanTasks
<1>2. /\ task[p] = Idle /\ Idle.pc = "idle"
      /\ UNCHANGED <<file, skew>> /\ lapse' = lapse \cup Unfound
      /\ catalog'[s] = IF Scan[s].dir # None THEN Scan[s].dir
                       ELSE IF s \in Protected THEN catalog[s] ELSE None
  BY DEF Rescan, Idle, disk
<1>3. /\ Steady(s) /\ (Corrupt(s)' <=> Corrupt(s)) /\ (Homeless(s)' <=> Homeless(s))
      /\ \A d \in Dirs : Home(s, d)' <=> Home(s, d)
  BY <1>2, SteadyIs DEF Steady
<1>4. /\ Scan[s].dir # None => Home(s, Scan[s].dir) /\ Scan[s].dir \in Dirs
      /\ Scan[s].dir # None => Scan[s].meta \in Good
      /\ Homeless(s) => Scan[s].dir = None
  BY ScanIs DEF BaseInv, Places
<1>5. s \in Protected => /\ catalog[s] \in Dirs /\ Home(s, catalog[s])
                         /\ file[s][catalog[s]].meta = "corrupt"
  BY DEF Protected, BaseInv, TypeOK, Places, Home
<1>6. s \in Protected => Scan[s].dir = None /\ Corrupt(s)
  <2>1. Scan[s].dir # None => file[s][Scan[s].dir].meta \in Good
    BY ScanIs DEF BaseInv, Healthy
  <2>2. QED
    BY <1>4, <1>5, <2>1 DEF World, OnePlace, Corrupt, Good
<1>7. ASSUME ~ Corrupt(s), NEW h \in Dirs, Home(s, h)
      PROVE  Scan[s].dir = h /\ Scan[s].meta = file[s][h].meta
  <2>1. file[s][h].meta \in Good
    BY <1>7, FileType DEF Corrupt, Home, BaseInv, Metas
  <2>2. /\ Healthy(s) # {} /\ Scan[s].dir \in Healthy(s)
        /\ Scan[s].meta = file[s][Scan[s].dir].meta
    BY <2>1, ScanIs DEF Healthy, BaseInv
  <2>3. Scan[s].dir \in Dirs /\ Home(s, Scan[s].dir)
    BY <2>2 DEF Healthy, Home, Good
  <2>4. QED
    BY <1>7, <2>2, <2>3 DEF World, OnePlace
<1>8. s \notin lapse' /\ Corrupt(s) => s \in Protected
  <2> SUFFICES ASSUME s \notin lapse, Corrupt(s), catalog[s] # None PROVE s \in Protected
    BY <1>2 DEF Unfound
  <2>1. PICK d \in Dirs : file[s][d].meta = "corrupt"
    BY DEF Corrupt
  <2>2. catalog[s] = d
    BY <2>1 DEF Place, CatalogOK, Home
  <2>3. QED
    BY <2>1, <2>2 DEF Protected
<1>9. s \notin lapse' => s \notin lapse
  BY <1>2
<1>10. WalkOK(r, s)' /\ FoundOK(r, s)' /\ CommandOK(r, s)' /\ RefreshOK(r, s)'
  BY <1>1 DEF WalkOK, Walking, FoundOK, CommandOK, Holds, RefreshOK
<1>11. RescanOK(r, s)'
  BY <1>1, <1>3, <1>2, <1>4, <1>6, <1>7, <1>8 DEF RescanOK
<1>12. View(r, s)'
  BY <1>10, <1>11 DEF View
<1>13. \A q \in Tasks : View(task[q], s)'
  BY <1>1, <1>2, <1>12, ViewsBecome
<1>14. /\ task'[p] = r /\ r.pc # "tail"
       /\ \A q \in Tasks \ {p} : task'[q] = task[q]
  BY <1>1 DEF Becomes
<1>15. Tailing(s)' <=> Tailing(s)
  BY <1>2, <1>14 DEF Tailing
<1>16. Homeless(s) => catalog'[s] = None
  BY <1>2, <1>4, <1>5 DEF Homeless
<1>17. ASSUME s \notin lapse, NEW d \in Dirs, Home(s, d) PROVE catalog'[s] \in {None, d}
  BY <1>2, <1>4, <1>17 DEF World, OnePlace, Place, CatalogOK
<1>18. CatalogOK(s)'
  BY <1>3, <1>9, <1>16, <1>17 DEF CatalogOK
<1>19. TailOK(s)'
  BY <1>2, <1>3, <1>9, <1>15 DEF Place, TailOK
<1>20. GoneOK(s)'
  BY <1>3, <1>16 DEF GoneOK
<1>21. QED
  BY <1>13, <1>18, <1>19, <1>20 DEF Place

\* ... and takes it out of catalog and index.
LEMMA DeleteTailPlace ==
    ASSUME BaseInv, NEW s \in Sessions, Place(s), NEW p \in Tasks, DeleteTail(p)
    PROVE  Place(s)'
<1> DEFINE x == task[p].s
<1>1. /\ task[p].pc = "tail" /\ x \in Sessions
      /\ UNCHANGED <<file, skew, lapse>> /\ catalog' = [catalog EXCEPT ![x] = None]
      /\ Others(p) /\ task'[p] = Idle
  BY DeleteTailTasks, ForgottenIs DEF DeleteTail, disk, history
<1>2. \A q \in Tasks \ {p} :
         /\ task'[q].clean = task[q].clean
         /\ \A y \in task[q].moved \ {x} : y \in task'[q].moved
         /\ task[q].pc # "warm" => task'[q].moved = task[q].moved
         /\ task'[q].removed = (task[q].removed \/ task[q].pc = "warm")
  <2> DEFINE m == [task EXCEPT ![p] = Idle]
  <2>1. \A q \in Tasks \ {p} : m[q] = task[q]
    BY DEF BaseInv, TypeOK
  <2>2. Forgotten(m, x)
    BY DeleteTailTasks
  <2> HIDE DEF m
  <2>3. QED
    BY <2>1, <2>2 DEF Forgotten
<1>3. /\ Steady(s) /\ (Corrupt(s)' <=> Corrupt(s)) /\ (Homeless(s)' <=> Homeless(s))
      /\ \A d \in Dirs : Home(s, d)' <=> Home(s, d)
  BY <1>1, SteadyIs DEF Steady
<1>4. IF s = x THEN catalog'[s] = None ELSE catalog'[s] = catalog[s]
  BY <1>1 DEF BaseInv, TypeOK
<1>5. \A q \in Tasks \ {p} : task'[q].pc = task[q].pc /\ task'[q].s = task[q].s
                             /\ task'[q].op = task[q].op
  BY <1>1 DEF Others, Alike, SameWork
<1>6. Idle.pc = "idle" /\ Idle.op = "none" /\ View(Idle, s)'
  BY ViewNothing DEF Idle
<1>7. (Tailing(s)' => Tailing(s)) /\ (s # x /\ Tailing(s) => Tailing(s)')
  BY <1>1, <1>5, <1>6 DEF Tailing
<1>8. CatalogOK(s)'
  BY <1>1, <1>3, <1>4, <1>7 DEF Place, CatalogOK
<1>9. TailOK(s)'
  BY <1>1, <1>3, <1>7 DEF Place, TailOK
<1>10. GoneOK(s)'
  BY <1>1, <1>2, <1>3, <1>4, <1>5, <1>6 DEF Place, GoneOK
<1>11. ASSUME NEW q \in Tasks \ {p} PROVE View(task[q], s)'
  <2>1. Alike(task'[q], task[q]) /\ View(task[q], s)
    BY <1>1 DEF Others, Place
  <2>2. Warns(task[q], s) => Warns(task'[q], s)
    BY <1>2, <1>5 DEF Warns
  <2>3. QED
    BY <1>1, <1>2, <1>3, <2>1, <2>2, ViewSteady
<1>12. \A q \in Tasks : View(task[q], s)'
  BY <1>1, <1>6, <1>11
<1>13. QED
  BY <1>8, <1>9, <1>10, <1>12 DEF Place

\* A step of p wrote files of x: so the others are told.
Overtook(p, x) ==
    /\ Others(p)
    /\ \A q \in Tasks \ {p} :
          /\ task'[q].clean = task[q].clean \ {x} /\ task'[q].removed = task[q].removed
          /\ task[q].moved \subseteq task'[q].moved

\* ... and that its directory is another, or none.
Moves(p, x) == \A q \in Tasks \ {p} : Walking(task[q]) => x \in task'[q].moved

\* A step that moves x overtakes those who read x and warns those who walk.
LEMMA WarnedIs ==
    ASSUME BaseInv, NEW p \in Tasks, NEW r \in TaskState, NEW x \in Sessions,
           Warned([task EXCEPT ![p] = r], x)
    PROVE  Overtook(p, x) /\ Moves(p, x) /\ Alike(task'[p], r)
<1> DEFINE m == [task EXCEPT ![p] = r]
<1>1. \A q \in Tasks \ {p} : m[q] = task[q]
  BY DEF BaseInv, TypeOK
<1>2. Warned(m, x)
  OBVIOUS
<1>3. Overtook(p, x) /\ Alike(task'[p], r)
  BY WrittenIs DEF Overtook, Warned
<1> HIDE DEF m
<1>4. Moves(p, x)
  BY <1>1, <1>2 DEF Warned, Moves, Walking
<1>5. QED
  BY <1>3, <1>4

\* What is to be shown of the session that a step of p wrote to.
LEMMA PlaceWritten ==
    ASSUME BaseInv, NEW s \in Sessions, Place(s), NEW p \in Tasks, lock \in {p, None},
           Overtook(p, s), Moves(p, s) \/ \A d \in Dirs : Home(s, d) => Home(s, d)',
           UNCHANGED lapse, skew \subseteq skew', NoteChange(s) \/ s \in skew',
           task'[p].op # "rescan", View(task[p], s)', CatalogOK(s)', TailOK(s)'
    PROVE  Place(s)'
<1>1. s \notin skew' => s \notin skew /\ \A q \in Tasks : s \notin task[q].clean
  BY DEF NoteChange, Overtaken
<1>2. ASSUME NEW q \in Tasks \ {p} PROVE View(task[q], s)'
  <2>1. /\ Alike(task'[q], task[q]) /\ View(task[q], s) /\ s \notin task'[q].clean
        /\ task'[q].pc = task[q].pc
    BY DEF Overtook, Others, Place, Alike
  <2>2. /\ Warns(task[q], s) => Warns(task'[q], s)
        /\ Walking(task[q]) /\ Moves(p, s) => Warns(task'[q], s)
    BY <2>1 DEF Overtook, Warns, Moves
  <2>3. ~ Holds(task[q])
    BY NoneIsNot DEF BaseInv, Locked
  <2>4. QED
    BY <1>1, <2>1, <2>2, <2>3, ViewOvertaken
<1>3. \A q \in Tasks : View(task[q], s)'
  BY <1>2
<1>4. GoneOK(s)'
  BY DEF GoneOK, Overtook
<1>5. QED
  BY <1>3, <1>4 DEF Place

\* ... and of the other sessions.
LEMMA PlaceAside ==
    ASSUME BaseInv, NEW s \in Sessions, Place(s), NEW p \in Tasks, NEW x, x # s, Overtook(p, x),
           file'[s] = file[s], catalog'[s] = catalog[s],
           UNCHANGED lapse, skew \subseteq skew',
           ~ (task[p].pc = "tail" /\ task[p].s = s), ~ (task'[p].pc = "tail" /\ task'[p].s = s),
           task'[p].op # "rescan", View(task[p], s)'
    PROVE  Place(s)'
<1>1. /\ Steady(s) /\ (Corrupt(s)' <=> Corrupt(s)) /\ (Homeless(s)' <=> Homeless(s))
      /\ \A d \in Dirs : Home(s, d)' <=> Home(s, d)
  BY SteadyIs DEF Steady
<1>2. \A q \in Tasks \ {p} : /\ Alike(task'[q], task[q]) /\ task'[q].op = task[q].op
                             /\ task'[q].pc = task[q].pc /\ task'[q].s = task[q].s
                             /\ s \in task'[q].clean <=> s \in task[q].clean
  BY DEF Overtook, Others, Alike, SameWork
<1>3. Tailing(s)' <=> Tailing(s)
  BY <1>2 DEF Tailing
<1>4. CatalogOK(s)'
  BY <1>1, <1>3 DEF Place, CatalogOK
<1>5. TailOK(s)'
  BY <1>1, <1>3 DEF Place, TailOK
<1>6. GoneOK(s)'
  BY <1>1, <1>2 DEF Place, GoneOK
<1>7. ASSUME NEW q \in Tasks \ {p} PROVE View(task[q], s)'
  <2>1. View(task[q], s)
    BY DEF Place
  <2>2. Warns(task[q], s) => Warns(task'[q], s)
    BY <1>2 DEF Overtook, Warns
  <2>3. QED
    BY <1>1, <1>2, <2>1, <2>2, ViewSteady
<1>8. \A q \in Tasks : View(task[q], s)'
  BY <1>7
<1>9. QED
  BY <1>4, <1>5, <1>6, <1>8 DEF Place

\* create_session_meta.
LEMMA CreatePlace ==
    ASSUME BaseInv, NEW s \in Sessions, World(s), Place(s), NEW p \in Tasks, Create(p)
    PROVE  Place(s)'
<1> DEFINE x == task[p].s
<1>1. x \in Sessions /\ lock = p /\ Overtook(p, x) /\ task'[p] = Idle
  BY CreateTasks, WrittenIs, IdleShape DEF Alike, Overtook
<1>2. PICK d \in Dirs :
             /\ d = IF There(task[p].s, "plain") THEN "plain" ELSE "untitled"
             /\ file' = [file EXCEPT ![task[p].s] = [file[task[p].s] EXCEPT
                             ![d] = [file[task[p].s][d] EXCEPT !.meta = "new"]]]
             /\ catalog' = [catalog EXCEPT ![task[p].s] = d]
             /\ skew' = IF Overtaken(task[p].s) \/ file[task[p].s][d].note # "gone"
                        THEN skew \cup {task[p].s} ELSE skew
  BY CreateIs
<1>3. task[p].pc = "at" /\ task[p].op = "create" /\ lapse' = lapse
  BY DEF Create
<1>4. Idle.pc = "idle" /\ Idle.op = "none" /\ View(Idle, s)'
  BY ViewNothing DEF Idle
<1>5. View(task[p], s)' /\ task'[p].op # "rescan" /\ task'[p].pc # "tail" /\ skew \subseteq skew'
  BY <1>1, <1>2, <1>4
<1>6. CASE x # s
  <2>1. file'[s] = file[s] /\ catalog'[s] = catalog[s]
    BY <1>1, <1>2, <1>6 DEF BaseInv, TypeOK
  <2>2. QED
    BY <1>1, <1>3, <1>5, <1>6, <2>1, PlaceAside
<1>7. CASE x = s
  <2>1. ~ Created(s)
    BY <1>3, <1>7, Creating
  <2>2. Homeless(s) /\ \A q \in Tasks : ~ (task[q].s = s /\ task[q].pc = "tail")
    BY <2>1 DEF World, FreshOK, FreshTask
  <2>3. file'[s][d].meta = "new" /\ \A e \in Dirs \ {d} : file'[s][e] = file[s][e]
    <3>1. file[s] \in [Dirs -> Content] /\ file[s][d] \in Content
      BY FileType DEF BaseInv
    <3>2. file'[s] = [file[s] EXCEPT ![d] = [file[s][d] EXCEPT !.meta = "new"]]
      BY <1>2, <1>7 DEF BaseInv, TypeOK
    <3>3. QED
      BY <3>1, <3>2 DEF Content
  <2>4. \A e \in Dirs : Home(s, e)' <=> e = d
    BY <2>2, <2>3 DEF Home, Homeless
  <2>5. catalog'[s] = d
    BY <1>2, <1>7 DEF BaseInv, TypeOK
  <2>6. CatalogOK(s)'
    BY <2>4, <2>5 DEF CatalogOK, Homeless
  <2>7. ~ Tailing(s)'
    BY <1>1, <1>5, <2>2 DEF Tailing, Overtook, Others, Alike, SameWork
  <2>8. TailOK(s)'
    BY <2>7 DEF TailOK
  <2>9. NoteChange(s) \/ s \in skew'
    BY <1>2, <1>7 DEF NoteChange
  <2>10. \A e \in Dirs : Home(s, e) => Home(s, e)'
    BY <2>2 DEF Homeless
  <2>11. QED
    BY <1>1, <1>3, <1>5, <1>7, <2>6, <2>8, <2>9, <2>10, PlaceWritten
<1>8. QED
  BY <1>6, <1>7

\* write_note.
LEMMA WriteNotePlace ==
    ASSUME BaseInv, NEW s \in Sessions, Place(s), NEW p \in Tasks, WriteNote(p)
    PROVE  Place(s)'
<1> DEFINE x == task[p].s
<1>1. x \in Sessions /\ lock = p /\ At(p) \in Dirs
  BY WriteNoteTasks
<1>2. PICK r \in TaskState :
                  /\ SameWork(r, task[p]) /\ r.pc = "publish"
                  /\ r.dir = None /\ r.seen = task[p].seen
                  /\ Written([task EXCEPT ![p] = r], task[p].s)
  BY WriteNoteTasks
<1>3. Overtook(p, x) /\ Alike(task'[p], r)
  BY <1>1, <1>2, WrittenIs DEF Overtook
<1>4. /\ task[p].pc = "at" /\ task[p].op = "note" /\ UNCHANGED <<catalog, lapse>>
      /\ skew' = IF Overtaken(x) \/ Publishing(x) THEN skew \cup {x} ELSE skew
  BY DEF WriteNote, store
<1>5. PICK t : t = task'[p]
  OBVIOUS
<1>6. t.pc = "publish" /\ t.op = "note"
  BY <1>2, <1>3, <1>4, <1>5 DEF Alike, SameWork
<1>7. View(t, s)'
  BY <1>6, ViewNothing
<1>8. View(task[p], s)' /\ task'[p].op # "rescan" /\ task'[p].pc # "tail" /\ skew \subseteq skew'
  BY <1>4, <1>5, <1>6, <1>7
<1>9. /\ file'[x][At(p)] = [meta |-> file[x][At(p)].meta, note |-> task[p].note]
      /\ \A d \in Dirs \ {At(p)} : file'[x][d] = file[x][d]
      /\ \A y \in Sessions \ {x} : file'[y] = file[y]
      /\ \A d \in Dirs : Home(s, d)' <=> Home(s, d)
  BY WriteNoteIs
<1>10. CASE x # s
  BY <1>1, <1>3, <1>4, <1>8, <1>9, <1>10, PlaceAside
<1>11. CASE x = s
  <2>1. Corrupt(s)' <=> Corrupt(s)
    BY <1>1, <1>9, <1>11 DEF Corrupt
  <2>2. Homeless(s)' <=> Homeless(s)
    BY <1>9 DEF Homeless
  <2>3. Tailing(s)' <=> Tailing(s)
    BY <1>3, <1>4, <1>8 DEF Tailing, Overtook, Others, Alike, SameWork
  <2>4. CatalogOK(s)'
    BY <1>4, <1>8, <1>9, <2>2, <2>3 DEF Place, CatalogOK
  <2>5. TailOK(s)'
    BY <1>4, <1>8, <2>1, <2>2, <2>3 DEF Place, TailOK
  <2>6. NoteChange(s) \/ s \in skew'
    BY <1>4, <1>11 DEF NoteChange
  <2>7. QED
    BY <1>1, <1>3, <1>4, <1>8, <1>9, <1>11, <2>4, <2>5, <2>6, PlaceWritten
<1>12. QED
  BY <1>10, <1>11

\* update_meta renames a provisional directory.
LEMMA UpdatePlace ==
    ASSUME BaseInv, NEW s \in Sessions, World(s), Place(s), NEW p \in Tasks, Update(p)
    PROVE  Place(s)'
<1> DEFINE x == task[p].s
<1>1. BaseInv' /\ x \in Sessions /\ lock = p /\ At(p) \in Dirs
  BY UpdateTasks, AtIs
<1>2. task[p].pc = "at" /\ task[p].op = "update" /\ lapse' = lapse
  BY DEF Update
<1>3. Idle.pc = "idle" /\ Idle.op = "none" /\ View(Idle, s)'
  BY ViewNothing DEF Idle
<1>4. CASE Becomes(p, Idle) /\ UNCHANGED <<file, catalog, index, skew>>
  BY <1>2, <1>3, <1>4, PlaceBecomes
<1>5. ASSUME NEW e \in Dirs,
             file[task[p].s][At(p)].meta \in Good, NoteChange(task[p].s),
             \/ e = At(p) /\ Written([task EXCEPT ![p] = Idle], task[p].s)
             \/ /\ e # At(p) /\ ~There(task[p].s, e)
                /\ Warned([task EXCEPT ![p] = Idle], task[p].s),
             file' = [file EXCEPT
                             ![task[p].s] = [@ EXCEPT ![At(p)] = Nothing,
                                    ![e] = [meta |-> "titled",
                                            note |-> file[task[p].s][At(p)].note]]],
             catalog' = [catalog EXCEPT ![task[p].s] = e]
      PROVE  Place(s)'
  <2>1. /\ Overtook(p, x) /\ task'[p] = Idle /\ (e # At(p) => Moves(p, x))
    <3>1. Written([task EXCEPT ![p] = Idle], x)
      BY <1>5 DEF Warned
    <3>2. Overtook(p, x) /\ task'[p] = Idle
      BY <1>1, <3>1, EndsWritten, WrittenIs, IdleShape DEF Overtook
    <3>3. e # At(p) => Moves(p, x)
      BY <1>1, <1>5, WarnedIs, IdleShape
    <3>4. QED
      BY <3>2, <3>3
  <2>2. /\ file'[x][e] = [meta |-> "titled", note |-> file[x][At(p)].note]
        /\ e # At(p) => file'[x][At(p)] = Nothing
        /\ \A d \in Dirs \ {e, At(p)} : file'[x][d] = file[x][d]
        /\ \A y \in Sessions \ {x} : file'[y] = file[y]
    BY <1>1, <1>5, UpdateIs
  <2>3. View(task[p], s)' /\ task'[p].op # "rescan" /\ task'[p].pc # "tail" /\ skew \subseteq skew'
    BY <1>3, <1>5, <2>1 DEF NoteChange
  <2>4. CASE x # s
    <3>1. file'[s] = file[s] /\ catalog'[s] = catalog[s]
      BY <1>1, <1>5, <2>2, <2>4 DEF BaseInv, TypeOK
    <3>2. QED
      BY <1>1, <1>2, <2>1, <2>3, <2>4, <3>1, PlaceAside
  <2>5. CASE x = s
    <3>1. Home(s, At(p)) /\ file[s][At(p)].meta # "corrupt"
      BY <1>5, <2>5 DEF Home, Good
    <3>2. \A d \in Dirs : Home(s, d) <=> d = At(p)
      BY <1>1, <3>1 DEF World, OnePlace
    <3>3. \A d \in Dirs : Home(s, d)' <=> d = e
      BY <1>1, <2>2, <2>5, <3>2 DEF Home, Nothing
    <3>4. catalog'[s] = e
      BY <1>5, <2>5 DEF BaseInv, TypeOK
    <3>5. CatalogOK(s)'
      BY <3>3, <3>4 DEF CatalogOK, Homeless
    <3>6. ~ Homeless(s) /\ ~ Corrupt(s)
      BY <1>1, <3>1, <3>2 DEF Homeless, Corrupt, Home
    <3>7. Tailing(s)' => Tailing(s)
      BY <2>1, <2>3 DEF Tailing, Overtook, Others, Alike, SameWork
    <3>8. TailOK(s)'
      BY <1>2, <2>3, <3>6, <3>7 DEF Place, TailOK
    <3>9. Moves(p, s) \/ \A d \in Dirs : Home(s, d) => Home(s, d)'
      BY <2>1, <2>5, <3>2, <3>3
    <3>10. QED
      BY <1>1, <1>2, <1>5, <2>1, <2>3, <2>5, <3>5, <3>8, <3>9, PlaceWritten
  <2>6. QED
    BY <2>4, <2>5
<1>6. QED
  BY <1>4, <1>5, UpdateTasks

\* delete_session moves the session to the trash.
LEMMA DeletePlace ==
    ASSUME BaseInv, NEW s \in Sessions, World(s), Place(s), NEW p \in Tasks, Delete(p)
    PROVE  Place(s)'
<1> DEFINE x == task[p].s
<1>1. x \in Sessions /\ At(p) \in Dirs /\ lock = p
  BY DeleteTasks
<1>2. PICK r \in TaskState :
                 /\ r.op = "delete" /\ r.s = task[p].s /\ r.pc = "tail"
                 /\ r.seen = task[p].seen /\ r.todo = task[p].todo /\ r.kept = task[p].kept
                 /\ r.rec = IF There(task[p].s, At(p))
                            THEN [n |-> deletions, dir |-> At(p), was |-> file[task[p].s][At(p)]]
                            ELSE None
                 /\ Warned([task EXCEPT ![p] = r], task[p].s)
  BY DeleteTasks
<1>3. Overtook(p, x) /\ Moves(p, x) /\ Alike(task'[p], r)
  BY <1>1, <1>2, WarnedIs
<1>4. PICK t : t = task'[p]
  OBVIOUS
<1>5. t.op = "delete" /\ t.s = x /\ t.pc = "tail"
  BY <1>2, <1>3, <1>4 DEF Alike, SameWork
<1>6. View(t, s)'
  BY <1>5, ViewNothing
<1>7. /\ file'[x][At(p)] = Nothing
      /\ \A d \in Dirs \ {At(p)} : file'[x][d] = file[x][d]
      /\ \A y \in Sessions \ {x} : file'[y] = file[y]
      /\ NoteChange(x) /\ UNCHANGED <<catalog, lapse>>
  BY DeleteIs
<1>8. task[p].pc = "at" /\ task[p].op = "delete" /\ Holds(task[p])
  BY <1>1, AtWork DEF Delete
<1>9. View(task[p], s)' /\ task'[p].op # "rescan" /\ skew \subseteq skew'
  BY <1>4, <1>5, <1>6, <1>7 DEF NoteChange
<1>10. CASE x # s
  BY <1>1, <1>3, <1>4, <1>5, <1>7, <1>8, <1>9, <1>10, PlaceAside
<1>11. CASE x = s
  <2>1. \A d \in Dirs : Home(s, d)' => Home(s, d) /\ d # At(p)
    BY <1>1, <1>7, <1>11 DEF Home, Nothing
  <2>2. Tailing(s)'
    BY <1>4, <1>5, <1>11 DEF Tailing
  <2>3. CatalogOK(s)'
    BY <1>7, <2>1, <2>2 DEF Place, CatalogOK
  <2>4. ASSUME s \notin lapse, ~ Corrupt(s) PROVE Homeless(s)'
    <3>1. \A h \in Dirs : Home(s, h) => h = At(p)
      BY <1>8, <1>11, <2>4 DEF Place, View, CommandOK, LooksAt, Dir, At
    <3>2. QED
      BY <2>1, <3>1 DEF Homeless
  <2>5. ASSUME Corrupt(s) PROVE Corrupt(s)' \/ Homeless(s)'
    <3>1. PICK d \in Dirs : file[s][d].meta = "corrupt"
      BY <2>5 DEF Corrupt
    <3>2. \A e \in Dirs : Home(s, e) => e = d
      BY <3>1 DEF World, OnePlace, Home
    <3>3. QED
      BY <1>7, <1>11, <2>1, <3>1, <3>2 DEF Corrupt, Homeless
  <2>6. TailOK(s)'
    BY <1>7, <2>4, <2>5 DEF TailOK
  <2>7. QED
    BY <1>1, <1>3, <1>7, <1>9, <1>11, <2>3, <2>6, PlaceWritten
<1>12. QED
  BY <1>10, <1>11

\* ... and moves the session back.
LEMMA RestorePlace ==
    ASSUME BaseInv, NEW s \in Sessions, World(s), Place(s), NEW p \in Tasks, Restore(p)
    PROVE  Place(s)'
<1> DEFINE x == task[p].s
           rec == task[p].rec
<1>1. x \in Sessions /\ rec \in Record /\ lock = None
  BY RestoreTasks
<1>2. task[p].pc = "want" /\ lapse' = lapse /\ rec # None
  BY AtWork DEF Restore, ShapeOK
<1>3. Idle.pc = "idle" /\ Idle.op = "none" /\ View(Idle, s)'
  BY ViewNothing DEF Idle
<1>4. CASE Becomes(p, Idle) /\ UNCHANGED <<disk, catalog, skew>>
  BY <1>2, <1>3, <1>4, PlaceBecomes DEF disk
<1>5. CASE Restored(p, x, rec)
  <2>1. /\ rec.dir \in Dirs /\ rec.was.meta \in Good
        /\ file'[x][rec.dir] = rec.was
        /\ \A d \in Dirs \ {rec.dir} : file'[x][d] = file[x][d]
        /\ \A y \in Sessions \ {x} : file'[y] = file[y] /\ catalog'[y] = catalog[y]
        /\ catalog'[x] = rec.dir
    BY <1>1, <1>5, RestoredIs
  <2>2. /\ task'[p].op = "refresh" /\ task'[p].pc = "lookup" /\ task'[p].s = x
        /\ task'[p].clean = {x} /\ rec.n \in trash /\ skew' = skew \cup {x}
        /\ Overtook(p, x)
    BY <1>5 DEF Restored, Overtook, Others
  <2>3. View(task[p], s)'
    <3>1. WalkOK(task[p], s)' /\ FoundOK(task[p], s)' /\ CommandOK(task[p], s)'
      BY <2>2 DEF WalkOK, Walking, FoundOK, CommandOK, Holds
    <3>2. RefreshOK(task[p], s)' /\ RescanOK(task[p], s)'
      BY <2>2 DEF RefreshOK, LooksAt, Walking, RescanOK
    <3>3. QED
      BY <3>1, <3>2 DEF View
  <2>4. CASE x # s
    BY <1>1, <1>2, <2>1, <2>2, <2>3, <2>4, PlaceAside
  <2>5. CASE x = s
    <3>1. Live(s, rec) /\ Homeless(s)
      BY <1>1, <1>2, <2>1, <2>2, <2>5 DEF Recorded, Live, Good, World, OnePlace
    <3>2. \A d \in Dirs : Home(s, d)' <=> d = rec.dir
      BY <2>1, <2>5, <3>1 DEF Home, Homeless, Good
    <3>3. CatalogOK(s)'
      BY <2>1, <2>5, <3>2 DEF CatalogOK, Homeless
    <3>4. TailOK(s)'
      BY <2>2, <2>5 DEF TailOK
    <3>5. \A d \in Dirs : Home(s, d) => Home(s, d)'
      BY <3>1 DEF Homeless
    <3>6. QED
      BY <1>1, <1>2, <2>2, <2>3, <2>5, <3>3, <3>4, <3>5, PlaceWritten
  <2>6. QED
    BY <2>4, <2>5
<1>6. QED
  BY <1>4, <1>5, RestoreTasks

\* Another program damages the metadata.
LEMMA CorruptsPlace ==
    ASSUME BaseInv, NEW s \in Sessions, Place(s), NEW x \in Sessions, NEW d \in Dirs,
           Corrupts(x, d)
    PROVE  Place(s)'
<1>1. /\ file'[x][d].meta = "corrupt"
      /\ \A y \in Sessions \ {x} : file'[y] = file[y]
      /\ \A e \in Dirs : Home(s, e)' <=> Home(s, e)
      /\ UNCHANGED <<task, catalog, skew, lapse>>
  BY CorruptsIs DEF Corrupts, store, history
<1>2. /\ Corrupt(s)' \/ file'[s] = file[s]
      /\ Corrupt(s) => Corrupt(s)'
  BY <1>1 DEF Corrupt
<1>3. Steady(s) /\ (Homeless(s)' <=> Homeless(s)) /\ (Tailing(s)' <=> Tailing(s))
  BY <1>1, <1>2 DEF Steady, Homeless, Tailing
<1>4. CatalogOK(s)'
  BY <1>1, <1>3 DEF Place, CatalogOK
<1>5. TailOK(s)'
  BY <1>1, <1>2, <1>3 DEF Place, TailOK
<1>6. GoneOK(s)'
  BY <1>1, <1>3 DEF Place, GoneOK
<1>7. ASSUME NEW q \in Tasks PROVE View(task[q], s)'
  <2>1. Alike(task'[q], task[q]) /\ View(task[q], s) /\ (Warns(task[q], s) => Warns(task'[q], s))
    BY <1>1 DEF Alike, SameWork, Place
  <2>2. QED
    BY <1>1, <1>3, <2>1, ViewSteady
<1>8. QED
  BY <1>4, <1>5, <1>6, <1>7 DEF Place

\* Another program removes or edits the files.
LEMMA ExternalPlace ==
    ASSUME BaseInv, NEW s \in Sessions, World(s), Place(s), NEW x \in Sessions, NEW d \in Dirs,
           External(x, d)
    PROVE  Place(s)'
<1>1. /\ \A y \in Sessions \ {x} : file'[y] = file[y]
      /\ \A e \in Dirs : file'[s][e].meta \in {file[s][e].meta, "gone"}
      /\ skew' = skew \cup {x} /\ UNCHANGED <<catalog, lapse>>
  BY ExternalIs
<1>2. \A q \in Tasks :
          /\ Alike(task'[q], task[q])
          /\ task'[q].clean = task[q].clean \ {x} /\ task'[q].removed = task[q].removed
          /\ task[q].moved \subseteq task'[q].moved
          /\ Walking(task[q]) => x \in task'[q].moved
  BY ExternalTasks DEF Warned, Written, Walking
<1>3. \A q \in Tasks : /\ task'[q].pc = task[q].pc /\ task'[q].s = task[q].s
                       /\ task'[q].op = task[q].op
                       /\ View(task[q], s)
                       /\ Warns(task[q], s) => Warns(task'[q], s)
  BY <1>2 DEF Alike, SameWork, Place, Warns
<1>4. Tailing(s)' <=> Tailing(s)
  BY <1>3 DEF Tailing
<1>5. CASE x # s
  <2>1. /\ Steady(s) /\ (Corrupt(s)' <=> Corrupt(s)) /\ (Homeless(s)' <=> Homeless(s))
        /\ \A e \in Dirs : Home(s, e)' <=> Home(s, e)
    BY <1>1, <1>5, SteadyIs DEF Steady
  <2>2. CatalogOK(s)'
    BY <1>1, <1>4, <2>1 DEF Place, CatalogOK
  <2>3. TailOK(s)'
    BY <1>1, <1>4, <2>1 DEF Place, TailOK
  <2>4. GoneOK(s)'
    BY <1>1, <1>2, <1>3, <2>1 DEF Place, GoneOK
  <2>5. ASSUME NEW q \in Tasks PROVE View(task[q], s)'
    BY <1>1, <1>2, <1>3, <1>5, <2>1, ViewSteady
  <2>6. QED
    BY <2>2, <2>3, <2>4, <2>5 DEF Place
<1>6. CASE x = s
  <2>1. s \in skew' /\ \A e \in Dirs : Home(s, e)' => Home(s, e)
    BY <1>1, <1>6 DEF Home
  <2>2. Corrupt(s) => Corrupt(s)' \/ Homeless(s)'
    <3>1. SUFFICES ASSUME NEW e \in Dirs, file[s][e].meta = "corrupt"
                   PROVE  Corrupt(s)' \/ Homeless(s)'
      BY DEF Corrupt
    <3>2. \A g \in Dirs : Home(s, g) => g = e
      BY <3>1 DEF World, OnePlace, Home
    <3>3. QED
      BY <1>1, <2>1, <3>1, <3>2 DEF Corrupt, Homeless, Home
  <2>3. CatalogOK(s)'
    BY <1>1, <2>1 DEF Place, CatalogOK
  <2>4. TailOK(s)' /\ GoneOK(s)'
    BY <1>2, <1>6, <2>1 DEF TailOK, GoneOK
  <2>5. ASSUME NEW q \in Tasks PROVE View(task[q], s)'
    <3>1. Walking(task[q]) => Warns(task'[q], s)
      BY <1>2, <1>6 DEF Warns
    <3>2. QED
      BY <1>1, <1>2, <1>3, <1>6, <2>1, <2>2, <3>1, ViewOvertaken
  <2>6. QED
    BY <2>3, <2>4, <2>5 DEF Place
<1>7. QED
  BY <1>5, <1>6

-----------------------------------------------------------------------------
(***************************************************************************)
(* What the index says of a session.                                        *)
(***************************************************************************)
Publishes(q, s) == task[q].pc = "publish" /\ task[q].s = s

\* Two notes of s are not on their way into the index at once, and a note that
\* is on its way before its session is made is in the plain directory.
OnePublishes(s) ==
    s \notin skew => \A q, t \in Tasks : Publishes(q, s) /\ Publishes(t, s) => q = t

FreshNote(s) ==
    ~ Created(s) /\ Publishing(s) /\ s \notin skew => file[s]["plain"].note # "gone"

\* The index says of s what is in its directory h, or a note is on its way.
Tells(s, h) ==
    /\ index[s] # None /\ index[s].meta = file[s][h].meta
    /\ ~ Publishing(s) => index[s].note = file[s][h].note
    /\ \A q \in Tasks : Publishes(q, s) => task[q].note = file[s][h].note

IndexOK(s) ==
    s \notin skew \cup lapse /\ ~ Corrupt(s) /\ ~ Tailing(s) =>
        /\ Homeless(s) => index[s] = None
        /\ \A h \in Dirs : Home(s, h) => Tells(s, h)

\* A session that is there and that nobody deleted is in the index.
Kept(s) == Created(s) /\ s \notin doomed \cup skew \cup lapse => index[s] # None

Told(s) == OnePublishes(s) /\ FreshNote(s) /\ IndexOK(s) /\ Kept(s)

\* The notes and the deletes of s that are under way are the same.
SameWay(s) ==
    /\ \A q \in Tasks : /\ Publishes(q, s)' <=> Publishes(q, s)
                        /\ Publishes(q, s) => task'[q].note = task[q].note
    /\ Publishing(s)' <=> Publishing(s)
    /\ Tailing(s)' <=> Tailing(s)

\* A step of p that is neither a note nor a delete of s on its way.
LEMMA SameWayIs ==
    ASSUME NEW p \in Tasks, NEW s, Others(p),
           task[p].s = s => task[p].pc \notin {"publish", "tail"},
           task'[p].s = s => task'[p].pc \notin {"publish", "tail"}
    PROVE  SameWay(s)
<1>1. \A q \in Tasks \ {p} : /\ task'[q].pc = task[q].pc /\ task'[q].s = task[q].s
                             /\ task'[q].note = task[q].note
  BY DEF Others, Alike, SameWork
<1>2. \A q \in Tasks : /\ Publishes(q, s)' <=> Publishes(q, s)
                       /\ Publishes(q, s) => task'[q].note = task[q].note
  BY <1>1 DEF Publishes
<1>3. (Publishing(s)' <=> Publishing(s)) /\ (Tailing(s)' <=> Tailing(s))
  BY <1>1 DEF Publishing, Tailing
<1>4. QED
  BY <1>2, <1>3 DEF SameWay

\* A step that is not about s.
LEMMA ToldAside ==
    ASSUME NEW s \in Sessions, Told(s), file'[s] = file[s], index'[s] = index[s], SameWay(s),
           s \in skew => s \in skew', s \in lapse => s \in lapse', s \in doomed => s \in doomed',
           Created(s)' <=> Created(s)
    PROVE  Told(s)'
<1>1. (Corrupt(s)' <=> Corrupt(s)) /\ (Homeless(s)' <=> Homeless(s))
      /\ \A d \in Dirs : Home(s, d)' <=> Home(s, d)
  BY SteadyIs DEF Steady
<1>2. OnePublishes(s)'
  BY DEF Told, OnePublishes, SameWay
<1>3. FreshNote(s)'
  BY DEF Told, FreshNote, SameWay
<1>4. \A h : Tells(s, h) => Tells(s, h)'
  BY DEF Tells, SameWay
<1>5. IndexOK(s)'
  BY <1>1, <1>4 DEF Told, IndexOK, SameWay
<1>6. Kept(s)'
  BY DEF Told, Kept
<1>7. QED
  BY <1>2, <1>3, <1>5, <1>6 DEF Told

\* A step of p that leaves files and index alone.
LEMMA ToldStill ==
    ASSUME NEW p \in Tasks, NEW s \in Sessions, Told(s), Others(p),
           UNCHANGED <<file, index, skew, doomed, known>>, s \in lapse => s \in lapse',
           task[p].pc \notin {"publish", "tail"}, task'[p].pc \notin {"publish", "tail"},
           task'[p].op = "create" /\ task'[p].s = s <=> task[p].op = "create" /\ task[p].s = s
    PROVE  Told(s)'
BY SameWayIs, ToldAside, CreatedKept

\* A step of p about another session.
LEMMA ToldElse ==
    ASSUME NEW p \in Tasks, NEW s \in Sessions, Told(s), Others(p),
           file'[s] = file[s], index'[s] = index[s], task[p].s # s, task'[p].s # s,
           known' = known, lapse' = lapse,
           s \in skew => s \in skew', s \in doomed => s \in doomed'
    PROVE  Told(s)'
BY SameWayIs, ToldAside, CreatedKept

\* An operation begins (content.rs).
LEMMA EnterTold ==
    ASSUME BaseInv, NEW s \in Sessions, Told(s), NEW p \in Writers, NEW x \in Sessions,
           NEW op \in Commands, NEW n \in NoteVals, op = "note" => n \in Notes, Enter(p, op, x, n)
    PROVE  Told(s)'
<1>1. p \in Tasks /\ task[p] = Idle /\ Idle.pc = "idle" /\ Idle.op = "none"
  BY EnterTasks DEF Idle
<1>2. PICK r : Becomes(p, r) /\ Begins(r, op, x, n)
  BY EnterTasks
<1>3. Others(p) /\ task'[p] = r
  BY <1>1, <1>2, BecomesIs
<1>4. r.op = op /\ r.s = x /\ r.pc \in {"at", "warm"}
  BY <1>2 DEF Begins, Looks
<1>5. /\ UNCHANGED <<file, index, skew, lapse, doomed>>
      /\ known' = IF op = "create" THEN known \cup {x} ELSE known
      /\ op = "create" => x \notin known
  BY DEF Enter, disk, store
<1>6. SameWay(s)
  BY <1>1, <1>3, <1>4, SameWayIs
<1>7. Created(s)' <=> Created(s)
  BY <1>1, <1>3, <1>4, <1>5 DEF Created, Others, Alike, SameWork
<1>8. QED
  BY <1>5, <1>6, <1>7, ToldAside

\* An undo takes its record (content.rs, restore_session).
LEMMA RestoreBeginTold ==
    ASSUME BaseInv, NEW s \in Sessions, Told(s), NEW p \in Tasks, NEW x \in Sessions,
           RestoreBegin(p, x)
    PROVE  Told(s)'
<1>1. PICK r : /\ Becomes(p, r)
               /\ r.op = "restore" /\ r.s = x /\ r.pc = "want" /\ r.rec = deleted[x]
               /\ r.todo = {} /\ r.dir = None /\ r.seen = Idle.seen
  BY RestoreBeginTasks
<1>2. /\ task[p] = Idle /\ Idle.pc = "idle" /\ Idle.op = "none"
      /\ UNCHANGED <<file, index, skew, lapse, doomed, known>>
  BY DEF RestoreBegin, Idle, disk, store, history
<1>3. QED
  BY <1>1, <1>2, BecomesIs, ToldStill

\* A reader looks a session up (content.rs, read_note).
LEMMA ReadBeginTold ==
    ASSUME BaseInv, NEW s \in Sessions, Told(s), NEW p \in Tasks, NEW x \in Sessions,
           ReadBegin(p, x)
    PROVE  Told(s)'
<1>1. PICK r : Becomes(p, r) /\ Opened(r, x)
  BY ReadBeginTasks
<1>2. /\ task[p] = Idle /\ Idle.pc = "idle" /\ Idle.op = "none"
      /\ UNCHANGED <<file, index, skew, lapse, doomed, known>>
  BY DEF ReadBegin, Idle, disk, store, history
<1>3. QED
  BY <1>1, <1>2, BecomesIs, ToldStill DEF Opened

\* A refresh begins (rebuild.rs, refresh_session).
LEMMA RefreshBeginTold ==
    ASSUME BaseInv, NEW s \in Sessions, Told(s), NEW p \in Tasks, NEW x \in Sessions,
           RefreshBegin(p, x)
    PROVE  Told(s)'
<1>1. PICK r : /\ Becomes(p, r)
               /\ r.op = "refresh" /\ r.s = x /\ r.rec = None
               /\ r.todo = {} /\ r.kept = {} /\ r.clean = {x} /\ r.moved = {} /\ r.removed = FALSE
               /\ Looks(r, x)
  BY RefreshBeginTasks
<1>2. /\ task[p] = Idle /\ Idle.pc = "idle" /\ Idle.op = "none"
      /\ UNCHANGED <<file, index, skew, doomed, known>> /\ lapse \subseteq lapse'
  BY DEF RefreshBegin, Idle, disk, store
<1>3. r.pc \in {"at", "warm"}
  BY <1>1 DEF Looks
<1>4. QED
  BY <1>1, <1>2, <1>3, BecomesIs, ToldStill

\* read_meta of a refresh looks its session up.
LEMMA LookupTold ==
    ASSUME BaseInv, NEW s \in Sessions, Told(s), NEW p \in Tasks, Lookup(p)
    PROVE  Told(s)'
<1>1. PICK r : /\ Becomes(p, r) /\ SameWork(r, task[p])
               /\ r.moved = task[p].moved /\ r.clean = task[p].clean
               /\ r.removed = task[p].removed
               /\ \/ /\ catalog[r.s] # None
                     /\ r.pc = "at" /\ r.dir = catalog[r.s] /\ r.seen = task[p].seen
                  \/ /\ catalog[r.s] = None
                     /\ r.pc = "warm" /\ r.dir = task[p].dir /\ r.seen = Scan
  BY LookupTasks
<1>2. /\ task[p].pc = "lookup"
      /\ UNCHANGED <<file, index, skew, doomed, known>> /\ lapse \subseteq lapse'
  BY DEF Lookup, disk, store
<1>3. QED
  BY <1>1, <1>2, BecomesIs, ToldStill DEF SameWork

\* A lookup looks at the removals again (locations.rs, lookup_existing_dir).
LEMMA CheckTold ==
    ASSUME BaseInv, NEW s \in Sessions, Told(s), NEW p \in Tasks, CheckRemovals(p)
    PROVE  Told(s)'
<1>1. PICK r : /\ Becomes(p, r)
               /\ \/ task[p].removed /\ task[p].op = "read" /\ r = Idle
                  \/ /\ task[p].removed /\ task[p].op # "read"
                     /\ SameWork(r, task[p]) /\ r.clean = task[p].clean
                     /\ r.dir = task[p].seen[task[p].s].dir /\ r.pc = "at"
                     /\ r.seen = Idle.seen
                  \/ /\ ~task[p].removed
                     /\ SameWork(r, task[p]) /\ r.clean = task[p].clean
                     /\ r.dir = task[p].seen[task[p].s].dir /\ r.pc = "fill"
                     /\ r.seen = task[p].seen /\ r.moved = task[p].moved
  BY CheckTasks
<1>2. /\ task[p].pc = "warm"
      /\ UNCHANGED <<file, index, skew, lapse, doomed, known>>
  BY DEF CheckRemovals, disk, store, history
<1>3. Idle.pc = "idle" /\ Idle.op = "none"
  BY DEF Idle
<1>4. /\ r.pc \notin {"publish", "tail"}
      /\ (r.op = "create" /\ r.s = s <=> task[p].op = "create" /\ task[p].s = s)
  BY <1>1, <1>3 DEF SameWork
<1>5. QED
  BY <1>1, <1>2, <1>4, BecomesIs, ToldStill

\* ... and fills the catalog.
LEMMA FillTold ==
    ASSUME BaseInv, NEW s \in Sessions, Told(s), NEW p \in Tasks, Fill(p)
    PROVE  Told(s)'
<1>1. PICK r : /\ Becomes(p, r)
               /\ \/ task[p].op = "read" /\ r = Idle
                  \/ /\ task[p].op # "read"
                     /\ SameWork(r, task[p]) /\ r.clean = task[p].clean
                     /\ r.dir = task[p].dir /\ r.pc = "at" /\ r.seen = Idle.seen
  BY FillTasks
<1>2. /\ task[p].pc = "fill"
      /\ UNCHANGED <<file, index, skew, doomed, known>> /\ lapse \subseteq lapse'
  BY DEF Fill, disk
<1>3. Idle.pc = "idle" /\ Idle.op = "none"
  BY DEF Idle
<1>4. /\ r.pc \notin {"publish", "tail"}
      /\ (r.op = "create" /\ r.s = s <=> task[p].op = "create" /\ task[p].s = s)
  BY <1>1, <1>3 DEF SameWork
<1>5. QED
  BY <1>1, <1>2, <1>4, BecomesIs, ToldStill

\* A refresh reads the metadata (content.rs, read_meta).
LEMMA ReadMetaTold ==
    ASSUME BaseInv, NEW s \in Sessions, Told(s), NEW p \in Tasks, ReadMeta(p)
    PROVE  Told(s)'
<1>1. PICK r : /\ Becomes(p, r)
               /\ r.op = "refresh" /\ r.s = task[p].s /\ r.dir = None
               /\ r.rec = task[p].rec /\ r.seen = task[p].seen /\ r.todo = task[p].todo
               /\ r.kept = task[p].kept /\ r.clean = task[p].clean
               /\ r.meta = file[task[p].s][At(p)].meta
               /\ r.pc = IF r.meta = "gone" THEN "drop" ELSE "note"
  BY ReadMetaTasks
<1>2. /\ task[p].pc = "at" /\ task[p].op = "refresh"
      /\ UNCHANGED <<file, index, skew, lapse, doomed, known>>
  BY DEF ReadMeta, disk, store, history
<1>3. QED
  BY <1>1, <1>2, BecomesIs, ToldStill

\* ... or reads its note.
LEMMA ReadNoteTold ==
    ASSUME BaseInv, NEW s \in Sessions, Told(s), NEW p \in Tasks, ReadNote(p)
    PROVE  Told(s)'
<1>1. PICK r : /\ Becomes(p, r)
               /\ r.op = "refresh" /\ r.s = task[p].s /\ r.dir = task[p].dir
               /\ r.rec = task[p].rec /\ r.seen = task[p].seen /\ r.todo = task[p].todo
               /\ r.kept = task[p].kept /\ r.clean = task[p].clean
               /\ r.meta = task[p].meta /\ r.pc = "apply"
               /\ r.note = file[task[p].s][NoteDir(task[p].s)].note
  BY ReadNoteTasks
<1>2. /\ task[p].pc = "note" /\ task[p].op = "refresh"
      /\ UNCHANGED <<file, index, skew, lapse, doomed, known>>
  BY ReadNoteTasks DEF ReadNote, disk, store, history
<1>3. QED
  BY <1>1, <1>2, BecomesIs, ToldStill

\* A rescan walks the vault (rebuild.rs, rebuild_with_scan).
LEMMA RescanTold ==
    ASSUME BaseInv, NEW s \in Sessions, Told(s), NEW p \in Tasks, Rescan(p)
    PROVE  Told(s)'
<1>1. PICK r : /\ Becomes(p, r)
               /\ r.op = "rescan" /\ r.pc = "rescan" /\ r.s = None /\ r.rec = None
               /\ r.seen = Scan /\ r.todo = {x \in Sessions : Scan[x].dir # None}
               /\ r.kept = Protected /\ r.clean = {x \in Sessions : ~ Corrupt(x)}
  BY RescanTasks
<1>2. /\ task[p] = Idle /\ Idle.pc = "idle" /\ Idle.op = "none"
      /\ UNCHANGED <<file, index, skew, doomed, known>> /\ lapse \subseteq lapse'
  BY DEF Rescan, Idle, disk
<1>3. QED
  BY <1>1, <1>2, BecomesIs, ToldStill

\* ... takes up one session,
LEMMA RescanSessionTold ==
    ASSUME BaseInv, NEW s \in Sessions, Told(s), NEW p \in Tasks, RescanSession(p)
    PROVE  Told(s)'
<1>1. PICK x \in task[p].todo, r \in TaskState :
               /\ x \in Sessions
               /\ Becomes(p, r)
               /\ r.op = "rescan" /\ r.pc = "apply" /\ r.s = x /\ r.rec = task[p].rec
               /\ r.dir = task[p].dir
               /\ r.seen = task[p].seen /\ r.todo = task[p].todo
               /\ r.kept = task[p].kept /\ r.clean = task[p].clean
               /\ r.meta = task[p].seen[x].meta /\ r.note = file[x][NoteDir(x)].note
  BY RescanSessionTasks
<1>2. /\ task[p].pc = "rescan" /\ task[p].op = "rescan"
      /\ UNCHANGED <<file, index, skew, lapse, doomed, known>>
  BY RescanSessionTasks DEF RescanSession, disk, store, history
<1>3. QED
  BY <1>1, <1>2, BecomesIs, ToldStill

\* The note goes into the index (index.rs, index_set_note).
LEMMA PublishTold ==
    ASSUME BaseInv, NEW s \in Sessions, Told(s), NEW p \in Tasks, PublishNote(p)
    PROVE  Told(s)'
<1>1. /\ task[p].pc = "publish" /\ task[p].s \in Sessions /\ task[p].op = "note"
      /\ Others(p) /\ task'[p] = Idle /\ UNCHANGED <<file, known, doomed, skew, lapse>>
  BY PublishTasks, BecomesIs DEF PublishNote, disk, history
<1>2. Idle.pc = "idle" /\ Idle.op = "none" /\ Idle.s = None
  BY DEF Idle
<1>3. IF s = task[p].s /\ index[s] # None
      THEN index'[s] = [index[s] EXCEPT !.note = task[p].note] ELSE index'[s] = index[s]
  BY <1>1 DEF PublishNote, BaseInv, TypeOK
<1>4. CASE task[p].s # s
  BY <1>1, <1>2, <1>3, <1>4, NoneIsNot, ToldElse
<1>5. CASE task[p].s = s
  <2>1. \A q \in Tasks : Publishes(q, s)' <=> Publishes(q, s) /\ q # p
    BY <1>1, <1>2 DEF Publishes, Others, Alike, SameWork
  <2>2. OnePublishes(s)'
    BY <1>1, <2>1 DEF Told, OnePublishes
  <2>3. (Created(s)' <=> Created(s)) /\ Publishing(s)
    BY <1>1, <1>2, <1>5, CreatedKept DEF Publishing
  <2>4. FreshNote(s)'
    BY <1>1, <2>3 DEF Told, FreshNote
  <2>5. (index'[s] = None) <=> (index[s] = None)
    <3>1. index[s] # None => index[s] \in Entry
      BY DEF BaseInv, TypeOK
    <3>2. index[s] # None => [index[s] EXCEPT !.note = task[p].note] \in Entry
      BY <1>1, PublishTasks, <3>1 DEF Entry, NoteVals
    <3>3. QED
      BY <1>3, <3>2, AbsentAssumption
  <2>6. Kept(s)'
    BY <1>1, <2>3, <2>5 DEF Told, Kept
  <2>7. /\ (Corrupt(s)' <=> Corrupt(s)) /\ (Homeless(s)' <=> Homeless(s))
        /\ \A d \in Dirs : Home(s, d)' <=> Home(s, d)
        /\ Tailing(s)' <=> Tailing(s)
    BY <1>1, <1>2 DEF Corrupt, Homeless, Home, Tailing, Others, Alike, SameWork
  <2>8. ASSUME s \notin skew, NEW h \in Dirs, Tells(s, h) PROVE Tells(s, h)'
    <3>1. task[p].note = file[s][h].note /\ index[s] # None /\ index[s].meta = file[s][h].meta
      BY <1>1, <1>5, <2>8 DEF Tells, Publishes
    <3>2. index'[s].meta = file[s][h].meta /\ index'[s].note = file[s][h].note
      BY <1>3, <1>5, <3>1 DEF BaseInv, TypeOK, Entry
    <3>3. \A q \in Tasks : ~ Publishes(q, s)'
      BY <1>1, <1>5, <2>1, <2>8 DEF Told, OnePublishes, Publishes
    <3>4. QED
      BY <1>1, <2>5, <3>1, <3>2, <3>3 DEF Tells
  <2>9. IndexOK(s)'
    BY <1>1, <2>5, <2>7, <2>8 DEF Told, IndexOK
  <2>10. QED
    BY <2>2, <2>4, <2>6, <2>9 DEF Told
<1>6. QED
  BY <1>4, <1>5

\* New metadata in the index leave its note alone.
LEMMA UpsertedIs ==
    ASSUME BaseInv, NEW x \in Sessions, NEW meta \in Good, index' = Upserted(x, meta)
    PROVE  /\ index'[x].meta = meta /\ index'[x] # None
           /\ index'[x].note = IF index[x] = None THEN "gone" ELSE index[x].note
           /\ \A s \in Sessions \ {x} : index'[s] = index[s]
<1>1. index'[x] = [meta |-> meta, note |-> IF index[x] = None THEN "gone" ELSE index[x].note]
      /\ \A s \in Sessions \ {x} : index'[s] = index[s]
  BY DEF Upserted, BaseInv, TypeOK
<1>2. index'[x] \in Entry
  BY <1>1 DEF BaseInv, TypeOK, Entry, NoteVals
<1>3. QED
  BY <1>1, <1>2, AbsentAssumption

\* create_session_meta.
LEMMA CreateTold ==
    ASSUME BaseInv, NEW s \in Sessions, World(s), Told(s), NEW p \in Tasks, Create(p)
    PROVE  Told(s)'
<1> DEFINE x == task[p].s
<1>1. x \in Sessions /\ lock = p /\ Others(p) /\ task'[p] = Idle
  BY CreateTasks, WrittenIs, IdleShape DEF Alike
<1>2. PICK d \in Dirs :
             /\ d = IF There(task[p].s, "plain") THEN "plain" ELSE "untitled"
             /\ file' = [file EXCEPT ![task[p].s] = [file[task[p].s] EXCEPT
                             ![d] = [file[task[p].s][d] EXCEPT !.meta = "new"]]]
             /\ catalog' = [catalog EXCEPT ![task[p].s] = d]
             /\ skew' = IF Overtaken(task[p].s) \/ file[task[p].s][d].note # "gone"
                        THEN skew \cup {task[p].s} ELSE skew
  BY CreateIs
<1>3. /\ task[p].pc = "at" /\ task[p].op = "create" /\ index' = Upserted(x, "new")
      /\ UNCHANGED <<known, doomed, lapse>>
  BY DEF Create
<1>4. Idle.pc = "idle" /\ Idle.op = "none" /\ Idle.s = None
  BY DEF Idle
<1>5. /\ index'[x].meta = "new" /\ index'[x] # None
      /\ index'[x].note = IF index[x] = None THEN "gone" ELSE index[x].note
      /\ \A y \in Sessions \ {x} : index'[y] = index[y]
  BY <1>1, <1>3, UpsertedIs DEF Good
<1>6. skew \subseteq skew'
  BY <1>2
<1>7. CASE x # s
  <2>1. file'[s] = file[s]
    BY <1>1, <1>2, <1>7 DEF BaseInv, TypeOK
  <2>2. QED
    BY <1>1, <1>3, <1>4, <1>5, <1>6, <1>7, <2>1, NoneIsNot, ToldElse
<1>8. CASE x = s
  <2>1. ~ Created(s) /\ s \in known /\ \A q \in Tasks : task[q].op = "create" => q = p
    BY <1>3, <1>8, Creating DEF World, AliveOK
  <2>2. Homeless(s) /\ index[s] = None
    BY <2>1 DEF World, FreshOK
  <2>3. /\ file'[s][d] = [meta |-> "new", note |-> file[s][d].note]
        /\ \A e \in Dirs \ {d} : file'[s][e] = file[s][e]
    <3>1. file[s] \in [Dirs -> Content] /\ file[s][d] \in Content
      BY FileType DEF BaseInv
    <3>2. file'[s] = [file[s] EXCEPT ![d] = [file[s][d] EXCEPT !.meta = "new"]]
      BY <1>2, <1>8 DEF BaseInv, TypeOK
    <3>3. QED
      BY <3>1, <3>2 DEF Content
  <2>4. \A e \in Dirs : Home(s, e)' <=> e = d
    BY <2>2, <2>3 DEF Home, Homeless
  <2>5. SameWay(s)
    BY <1>1, <1>3, <1>4, SameWayIs
  <2>6. Created(s)'
    BY <1>1, <1>3, <1>4, <2>1 DEF Created, Others, Alike, SameWork
  <2>7. OnePublishes(s)' /\ FreshNote(s)' /\ Kept(s)'
    BY <1>5, <1>6, <1>8, <2>5, <2>6 DEF Told, OnePublishes, FreshNote, Kept, SameWay
  <2>8. ASSUME s \notin skew' PROVE file[s][d].note = "gone" /\ ~ Publishing(s)
    <3>1. file[s][d].note = "gone" /\ s \notin skew
      BY <1>2, <1>8, <2>8
    <3>2. Publishing(s) => file[s]["plain"].note # "gone"
      BY <2>1, <3>1 DEF Told, FreshNote
    <3>3. file[s]["plain"].note # "gone" => d = "plain"
      BY <1>2, <1>8 DEF There, Nothing
    <3>4. QED
      BY <3>1, <3>2, <3>3
  <2>9. s \notin skew' => Tells(s, d)'
    BY <1>5, <1>8, <2>2, <2>3, <2>5, <2>8 DEF Tells, SameWay, Publishing, Publishes
  <2>10. IndexOK(s)'
    BY <2>4, <2>9 DEF IndexOK, Homeless
  <2>11. QED
    BY <2>7, <2>10 DEF Told
<1>9. QED
  BY <1>7, <1>8

\* write_note.
LEMMA WriteNoteTold ==
    ASSUME BaseInv, NEW s \in Sessions, World(s), Place(s), Told(s), NEW p \in Tasks, WriteNote(p)
    PROVE  Told(s)'
<1> DEFINE x == task[p].s
<1>1. x \in Sessions /\ lock = p /\ At(p) \in Dirs /\ task[p].note \in Notes
  BY WriteNoteTasks
<1>2. PICK r \in TaskState :
                  /\ SameWork(r, task[p]) /\ r.pc = "publish"
                  /\ r.dir = None /\ r.seen = task[p].seen
                  /\ Written([task EXCEPT ![p] = r], task[p].s)
  BY WriteNoteTasks
<1>3. Others(p) /\ Alike(task'[p], r)
  BY <1>1, <1>2, WrittenIs
<1>4. /\ task[p].pc = "at" /\ task[p].op = "note" /\ UNCHANGED <<index, known, doomed, lapse>>
      /\ skew' = IF Overtaken(x) \/ Publishing(x) THEN skew \cup {x} ELSE skew
  BY DEF WriteNote, store
<1>5. /\ task'[p].pc = "publish" /\ task'[p].op = "note"
      /\ task'[p].s = x /\ task'[p].note = task[p].note
  BY <1>2, <1>3, <1>4 DEF Alike, SameWork
<1>6. /\ file'[x][At(p)] = [meta |-> file[x][At(p)].meta, note |-> task[p].note]
      /\ \A d \in Dirs \ {At(p)} : file'[x][d] = file[x][d]
      /\ \A y \in Sessions \ {x} : file'[y] = file[y]
      /\ \A d \in Dirs : Home(s, d)' <=> Home(s, d)
  BY WriteNoteIs
<1>7. CASE x # s
  BY <1>1, <1>3, <1>4, <1>5, <1>6, <1>7, ToldElse
<1>8. CASE x = s
  <2>1. \A q \in Tasks : Publishes(q, s)' <=> Publishes(q, s) \/ q = p
    BY <1>3, <1>4, <1>5, <1>8 DEF Publishes, Others, Alike, SameWork
  <2>2. s \notin skew' => /\ s \notin skew
                          /\ \A q \in Tasks : Publishes(q, s)' => q = p
    BY <1>4, <1>8, <2>1 DEF Publishing, Publishes
  <2>3. OnePublishes(s)'
    BY <2>2 DEF OnePublishes
  <2>4. Created(s)' <=> Created(s)
    BY <1>3, <1>4, <1>5, CreatedKept
  <2>5. ~ Created(s) => At(p) = "plain"
    BY <1>8, AtIs DEF World, FreshOK, FreshTask
  <2>6. FreshNote(s)'
    BY <1>1, <1>6, <1>8, <2>4, <2>5, NotesAssumption DEF FreshNote
  <2>7. Kept(s)'
    BY <1>4, <2>2, <2>4 DEF Told, Kept
  <2>8. /\ Corrupt(s)' <=> Corrupt(s)
        /\ Homeless(s)' <=> Homeless(s)
        /\ Tailing(s)' <=> Tailing(s)
        /\ \A d \in Dirs : file'[s][d].meta = file[s][d].meta
    BY <1>1, <1>3, <1>4, <1>5, <1>6, <1>8
       DEF Corrupt, Homeless, Tailing, Others, Alike, SameWork
  <2>9. ASSUME s \notin skew' \cup lapse, ~ Corrupt(s), NEW h \in Dirs, Home(s, h), Tells(s, h)
        PROVE  Tells(s, h)'
    <3>1. h = At(p)
      BY <1>1, <1>4, <1>8, <2>9, AtWork DEF Place, View, CommandOK, LooksAt, Dir, At
    <3>2. Publishing(s)'
      BY <1>5, <1>8 DEF Publishing
    <3>3. QED
      BY <1>4, <1>5, <1>6, <1>8, <2>2, <2>8, <2>9, <3>1, <3>2 DEF Tells
  <2>10. IndexOK(s)'
    BY <1>4, <1>6, <2>2, <2>8, <2>9 DEF Told, IndexOK
  <2>11. QED
    BY <2>3, <2>6, <2>7, <2>10 DEF Told
<1>9. QED
  BY <1>7, <1>8

\* update_meta renames a provisional directory.
LEMMA UpdateTold ==
    ASSUME BaseInv, NEW s \in Sessions, World(s), Told(s), NEW p \in Tasks, Update(p)
    PROVE  Told(s)'
<1> DEFINE x == task[p].s
<1>1. x \in Sessions /\ At(p) \in Dirs
  BY UpdateTasks, AtIs
<1>2. task[p].pc = "at" /\ task[p].op = "update" /\ UNCHANGED <<known, doomed, lapse>>
  BY DEF Update
<1>3. Idle.pc = "idle" /\ Idle.op = "none" /\ Idle.s = None
  BY DEF Idle
<1>4. CASE Becomes(p, Idle) /\ UNCHANGED <<file, catalog, index, skew>>
  BY <1>2, <1>3, <1>4, BecomesIs, ToldStill
<1>5. ASSUME NEW e \in Dirs,
             file[task[p].s][At(p)].meta \in Good, index' = Upserted(task[p].s, "titled"),
             NoteChange(task[p].s),
             \/ e = At(p) /\ Written([task EXCEPT ![p] = Idle], task[p].s)
             \/ /\ e # At(p) /\ ~There(task[p].s, e)
                /\ Warned([task EXCEPT ![p] = Idle], task[p].s),
             file' = [file EXCEPT
                             ![task[p].s] = [@ EXCEPT ![At(p)] = Nothing,
                                    ![e] = [meta |-> "titled",
                                            note |-> file[task[p].s][At(p)].note]]]
      PROVE  Told(s)'
  <2>1. Others(p) /\ task'[p] = Idle
    BY <1>1, <1>5, EndsWritten DEF Warned
  <2>2. /\ file'[x][e] = [meta |-> "titled", note |-> file[x][At(p)].note]
        /\ e # At(p) => file'[x][At(p)] = Nothing
        /\ \A d \in Dirs \ {e, At(p)} : file'[x][d] = file[x][d]
        /\ \A y \in Sessions \ {x} : file'[y] = file[y]
    BY <1>1, <1>5, UpdateIs
  <2>3. /\ index'[x].meta = "titled" /\ index'[x] # None
        /\ index'[x].note = IF index[x] = None THEN "gone" ELSE index[x].note
        /\ \A y \in Sessions \ {x} : index'[y] = index[y]
    BY <1>1, <1>5, UpsertedIs DEF Good
  <2>4. skew \subseteq skew'
    BY <1>5 DEF NoteChange
  <2>5. CASE x # s
    BY <1>1, <1>2, <1>3, <2>1, <2>2, <2>3, <2>4, <2>5, NoneIsNot, ToldElse
  <2>6. CASE x = s
    <3>1. Home(s, At(p)) /\ file[s][At(p)].meta # "corrupt"
      BY <1>5, <2>6 DEF Home, Good
    <3>2. \A d \in Dirs : Home(s, d) <=> d = At(p)
      BY <1>1, <3>1 DEF World, OnePlace
    <3>3. \A d \in Dirs : Home(s, d)' <=> d = e
      BY <1>1, <2>2, <2>6, <3>2 DEF Home, Nothing
    <3>4. ~ Homeless(s) /\ ~ Corrupt(s)
      BY <1>1, <3>1, <3>2 DEF Homeless, Corrupt, Home
    <3>5. SameWay(s)
      BY <1>2, <1>3, <2>1, SameWayIs
    <3>6. Created(s)'
      BY <1>2, <1>3, <2>1, <3>4, CreatedKept DEF World, FreshOK
    <3>7. OnePublishes(s)' /\ FreshNote(s)' /\ Kept(s)'
      BY <2>3, <2>4, <2>6, <3>5, <3>6 DEF Told, OnePublishes, FreshNote, Kept, SameWay
    <3>8. ASSUME s \notin skew \cup lapse, ~ Tailing(s) PROVE Tells(s, e)'
      <4>1. Tells(s, At(p))
        BY <1>1, <3>1, <3>4, <3>8 DEF Told, IndexOK
      <4>2. QED
        BY <2>2, <2>3, <2>6, <3>5, <4>1 DEF Tells, SameWay
    <3>9. IndexOK(s)'
      BY <1>2, <2>4, <3>3, <3>5, <3>8 DEF IndexOK, SameWay, Homeless
    <3>10. QED
      BY <3>7, <3>9 DEF Told
  <2>7. QED
    BY <2>5, <2>6
<1>6. QED
  BY <1>4, <1>5, UpdateTasks

\* delete_session moves the session to the trash.
LEMMA DeleteTold ==
    ASSUME BaseInv, NEW s \in Sessions, World(s), Told(s), NEW p \in Tasks, Delete(p)
    PROVE  Told(s)'
<1> DEFINE x == task[p].s
<1>1. x \in Sessions /\ lock = p
  BY DeleteTasks
<1>2. PICK r \in TaskState :
                 /\ r.op = "delete" /\ r.s = task[p].s /\ r.pc = "tail"
                 /\ r.seen = task[p].seen /\ r.todo = task[p].todo /\ r.kept = task[p].kept
                 /\ r.rec = IF There(task[p].s, At(p))
                            THEN [n |-> deletions, dir |-> At(p), was |-> file[task[p].s][At(p)]]
                            ELSE None
                 /\ Warned([task EXCEPT ![p] = r], task[p].s)
  BY DeleteTasks
<1>3. Others(p) /\ task'[p].op = "delete" /\ task'[p].s = x /\ task'[p].pc = "tail"
  BY <1>1, <1>2, WrittenIs DEF Warned, Alike, SameWork
<1>4. /\ \A y \in Sessions \ {x} : file'[y] = file[y]
      /\ doomed' = doomed \cup {x} /\ NoteChange(x)
      /\ UNCHANGED <<index, known, lapse>>
  BY DeleteIs
<1>5. task[p].pc = "at" /\ task[p].op = "delete" /\ skew \subseteq skew'
  BY <1>4 DEF Delete, NoteChange
<1>6. CASE x # s
  BY <1>1, <1>3, <1>4, <1>5, <1>6, ToldElse
<1>7. CASE x = s
  <2>1. Created(s)
    BY <1>5, <1>7 DEF World, FreshOK, FreshTask
  <2>2. Created(s)'
    BY <1>3, <1>4, <1>5, <2>1, CreatedKept
  <2>3. Tailing(s)'
    BY <1>3, <1>7 DEF Tailing
  <2>4. \A q \in Tasks : Publishes(q, s)' <=> Publishes(q, s)
    BY <1>3, <1>5 DEF Publishes, Others, Alike, SameWork
  <2>5. QED
    BY <1>4, <1>5, <1>7, <2>2, <2>3, <2>4 DEF Told, OnePublishes, FreshNote, IndexOK, Kept
<1>8. QED
  BY <1>6, <1>7

\* ... and takes it out of catalog and index.
LEMMA DeleteTailTold ==
    ASSUME BaseInv, NEW s \in Sessions, World(s), Place(s), Told(s), NEW p \in Tasks, DeleteTail(p)
    PROVE  Told(s)'
<1> DEFINE x == task[p].s
<1>1. /\ task[p].pc = "tail" /\ x \in Sessions /\ task[p].op = "delete"
      /\ UNCHANGED <<file, known, doomed, skew, lapse>> /\ index' = [index EXCEPT ![x] = None]
      /\ Others(p) /\ task'[p] = Idle
  BY DeleteTailTasks, ForgottenIs, AtWork DEF DeleteTail, disk, history, ShapeOK
<1>2. Idle.pc = "idle" /\ Idle.op = "none" /\ Idle.s = None
  BY DEF Idle
<1>3. IF s = x THEN index'[s] = None ELSE index'[s] = index[s]
  BY <1>1 DEF BaseInv, TypeOK
<1>4. CASE x # s
  BY <1>1, <1>2, <1>3, <1>4, NoneIsNot, ToldElse
<1>5. CASE x = s
  <2>1. Tailing(s) /\ (Created(s)' <=> Created(s))
    BY <1>1, <1>2, <1>5, CreatedKept DEF Tailing
  <2>2. /\ \A q \in Tasks : Publishes(q, s)' <=> Publishes(q, s)
        /\ Publishing(s)' <=> Publishing(s)
    BY <1>1, <1>2 DEF Publishes, Publishing, Others, Alike, SameWork
  <2>3. OnePublishes(s)' /\ FreshNote(s)'
    BY <1>1, <2>1, <2>2 DEF Told, OnePublishes, FreshNote
  <2>4. Kept(s)'
    BY <1>1, <2>1 DEF World, AliveOK, Kept
  <2>5. /\ (Corrupt(s)' <=> Corrupt(s)) /\ (Homeless(s)' <=> Homeless(s))
        /\ \A d \in Dirs : Home(s, d)' <=> Home(s, d)
    BY <1>1 DEF Corrupt, Homeless, Home
  <2>6. IndexOK(s)'
    BY <1>1, <1>3, <1>5, <2>1, <2>5 DEF Place, TailOK, IndexOK, Homeless
  <2>7. QED
    BY <2>3, <2>4, <2>6 DEF Told
<1>6. QED
  BY <1>4, <1>5

\* ... and moves the session back.
LEMMA RestoreTold ==
    ASSUME BaseInv, NEW s \in Sessions, Told(s), NEW p \in Tasks, Restore(p)
    PROVE  Told(s)'
<1> DEFINE x == task[p].s
           rec == task[p].rec
<1>1. /\ x \in Sessions /\ rec \in Record /\ task[p].pc = "want" /\ task[p].op = "restore"
      /\ UNCHANGED <<index, known, doomed, lapse>>
  BY RestoreTasks, AtWork DEF Restore, ShapeOK
<1>2. Idle.pc = "idle" /\ Idle.op = "none" /\ Idle.s = None
  BY DEF Idle
<1>3. CASE Becomes(p, Idle) /\ UNCHANGED <<disk, catalog, skew>>
  BY <1>1, <1>2, <1>3, BecomesIs, ToldStill DEF disk
<1>4. CASE Restored(p, x, rec)
  <2>1. /\ \A y \in Sessions \ {x} : file'[y] = file[y]
        /\ Others(p)
    BY <1>1, <1>4, RestoredIs
  <2>2. task'[p].op = "refresh" /\ task'[p].pc = "lookup" /\ task'[p].s = x /\ skew' = skew \cup {x}
    BY <1>4 DEF Restored
  <2>3. CASE x # s
    BY <1>1, <2>1, <2>2, <2>3, ToldElse
  <2>4. CASE x = s
    BY <2>2, <2>4 DEF Told, OnePublishes, FreshNote, IndexOK, Kept
  <2>5. QED
    BY <2>3, <2>4
<1>5. (Becomes(p, Idle) /\ UNCHANGED <<disk, catalog, skew>>) \/ Restored(p, x, rec)
  BY RestoreTasks
<1>6. QED
  BY <1>3, <1>4, <1>5

\* Another program damages the metadata.
LEMMA CorruptsTold ==
    ASSUME BaseInv, NEW s \in Sessions, World(s), Told(s), NEW x \in Sessions, NEW d \in Dirs,
           Corrupts(x, d)
    PROVE  Told(s)'
<1>1. /\ file'[x][d].meta = "corrupt" /\ file[x][d].meta # "gone"
      /\ \A y \in Sessions \ {x} : file'[y] = file[y]
      /\ UNCHANGED <<task, index, known, doomed, skew, lapse>>
  BY CorruptsIs DEF Corrupts, store, history
<1>2. SameWay(s) /\ (Created(s)' <=> Created(s))
  BY <1>1 DEF SameWay, Publishes, Publishing, Tailing, Created
<1>3. CASE x # s
  BY <1>1, <1>2, <1>3, ToldAside
<1>4. CASE x = s
  <2>1. Corrupt(s)' /\ Created(s)
    BY <1>1, <1>4 DEF Corrupt, World, FreshOK, Homeless, Home
  <2>2. QED
    BY <1>1, <1>2, <2>1 DEF Told, OnePublishes, FreshNote, IndexOK, Kept, SameWay
<1>5. QED
  BY <1>3, <1>4

\* Another program removes or edits the files.
LEMMA ExternalTold ==
    ASSUME BaseInv, NEW s \in Sessions, Told(s), NEW x \in Sessions, NEW d \in Dirs, External(x, d)
    PROVE  Told(s)'
<1>1. /\ \A y \in Sessions \ {x} : file'[y] = file[y]
      /\ doomed \subseteq doomed' /\ skew' = skew \cup {x}
      /\ UNCHANGED <<index, known, lapse>>
  BY ExternalIs
<1>2. \A q \in Tasks : /\ task'[q].pc = task[q].pc /\ task'[q].s = task[q].s
                       /\ task'[q].op = task[q].op /\ task'[q].note = task[q].note
  BY ExternalTasks DEF Warned, Written, Alike, SameWork
<1>3. SameWay(s) /\ (Created(s)' <=> Created(s))
  BY <1>1, <1>2 DEF SameWay, Publishes, Publishing, Tailing, Created
<1>4. CASE x # s
  BY <1>1, <1>3, <1>4, ToldAside
<1>5. CASE x = s
  BY <1>1, <1>5 DEF Told, OnePublishes, FreshNote, IndexOK, Kept
<1>6. QED
  BY <1>4, <1>5

\* What is to be shown of a step that puts what p read of s into the index.
LEMMA ToldSettled ==
    ASSUME BaseInv, NEW s \in Sessions, World(s), Told(s), NEW p \in Tasks,
           UNCHANGED <<file, doomed, lapse>>, SameWay(s), Created(s)' <=> Created(s),
           s \notin skew' => s \notin skew \/ s \in Settled(p),
           s \notin skew' \cup lapse /\ Homeless(s) => index'[s] = None,
           \A h \in Dirs :
               s \notin skew' \cup lapse /\ ~ Corrupt(s) /\ ~ Tailing(s) /\ Home(s, h) =>
                   /\ index'[s] # None /\ index'[s].meta = file[s][h].meta
                   /\ ~ Publishing(s) => index'[s].note = file[s][h].note,
           s \notin skew \cup lapse /\ ~ Homeless(s) /\ index[s] # None => index'[s] # None
    PROVE  Told(s)'
<1>1. /\ (Corrupt(s)' <=> Corrupt(s)) /\ (Homeless(s)' <=> Homeless(s))
      /\ \A d \in Dirs : Home(s, d)' <=> Home(s, d)
  BY SteadyIs DEF Steady
<1>2. s \in Settled(p) => ~ Corrupt(s) /\ ~ Publishing(s) /\ ~ Tailing(s)
  BY DEF Settled
<1>3. s \notin skew' => s \notin skew \/ (~ Corrupt(s) /\ ~ \E q \in Tasks : Publishes(q, s))
  BY <1>2 DEF Publishing, Publishes
<1>4. OnePublishes(s)'
  BY <1>3 DEF Told, OnePublishes, SameWay
<1>5. FreshNote(s)'
  BY <1>2 DEF Told, FreshNote, SameWay
<1>6. ASSUME s \notin skew' \cup lapse, ~ Corrupt(s), ~ Tailing(s), NEW h \in Dirs, Home(s, h)
      PROVE  Tells(s, h)'
  <2>1. \A q \in Tasks : Publishes(q, s) => task[q].note = file[s][h].note
    BY <1>3, <1>6 DEF Told, IndexOK, Tells
  <2>2. QED
    BY <1>6, <2>1 DEF Tells, SameWay
<1>7. IndexOK(s)'
  BY <1>1, <1>6 DEF IndexOK, SameWay
<1>8. ASSUME Created(s), s \notin doomed \cup skew' \cup lapse PROVE index'[s] # None
  <2>1. ~ Homeless(s) /\ ~ Tailing(s)
    BY <1>8 DEF World, AliveOK
  <2>2. PICK h \in Dirs : Home(s, h)
    BY <2>1 DEF Homeless
  <2>3. CASE ~ Corrupt(s)
    BY <1>8, <2>1, <2>2, <2>3
  <2>4. CASE Corrupt(s)
    BY <1>3, <1>8, <2>1, <2>4 DEF Told, Kept
  <2>5. QED
    BY <2>3, <2>4
<1>9. Kept(s)'
  BY <1>8 DEF Kept
<1>10. QED
  BY <1>4, <1>5, <1>7, <1>9 DEF Told

\* ... and drops the session it did not find.
LEMMA DropTold ==
    ASSUME BaseInv, NEW s \in Sessions, World(s), Place(s), Told(s), NEW p \in Tasks, Drop(p)
    PROVE  Told(s)'
<1> DEFINE x == task[p].s
<1>1. /\ task[p].pc = "drop" /\ x \in Sessions /\ task[p].op = "refresh"
      /\ UNCHANGED <<file, known, doomed, lapse>> /\ index' = [index EXCEPT ![x] = None]
      /\ skew' = skew \ ({x} \cap Settled(p))
      /\ Others(p) /\ task'[p] = Idle
  BY DropTasks, ForgottenIs DEF Drop, Settle, disk
<1>2. Idle.pc = "idle" /\ Idle.op = "none" /\ Idle.s = None
  BY DEF Idle
<1>3. IF s = x THEN index'[s] = None ELSE index'[s] = index[s]
  BY <1>1 DEF BaseInv, TypeOK
<1>4. CASE x # s
  BY <1>1, <1>2, <1>3, <1>4, NoneIsNot, ToldElse
<1>5. CASE x = s
  <2>1. s \notin skew' => s \notin skew \/ s \in Settled(p)
    BY <1>1
  <2>2. s \notin skew' \cup lapse => Homeless(s)
    BY <1>1, <1>5, <2>1 DEF Place, View, RefreshOK, Settled, Homeless
  <2>3. s \notin skew => s \notin skew'
    BY <1>1
  <2>4. SameWay(s) /\ (Created(s)' <=> Created(s))
    BY <1>1, <1>2, SameWayIs, CreatedKept
  <2>5. \A h \in Dirs : Homeless(s) => ~ Home(s, h)
    BY DEF Homeless
  <2>6. QED
    BY <1>1, <1>3, <1>5, <2>1, <2>2, <2>3, <2>4, <2>5, ToldSettled
<1>6. QED
  BY <1>4, <1>5

\* ... and drops what it did not find.
LEMMA PruneTold ==
    ASSUME BaseInv, NEW s \in Sessions, World(s), Place(s), Told(s), NEW p \in Tasks, Prune(p)
    PROVE  Told(s)'
<1> DEFINE present == {y \in Sessions : task[p].seen[y].dir # None}
           stale == Sessions \ (present \cup task[p].kept)
<1>1. /\ task[p].pc = "rescan" /\ task[p].op = "rescan"
      /\ UNCHANGED <<file, known, doomed, lapse>>
      /\ index'[s] = (IF s \in stale THEN None ELSE index[s])
      /\ skew' = skew \ (stale \cap Settled(p))
      /\ Others(p) /\ task'[p] = Idle
  BY PruneTasks, BecomesIs DEF Prune, disk
<1>2. Idle.pc = "idle" /\ Idle.op = "none"
  BY DEF Idle
<1>3. SameWay(s) /\ (Created(s)' <=> Created(s))
  BY <1>1, <1>2, SameWayIs, CreatedKept
<1>4. CASE s \notin stale
  BY <1>1, <1>3, <1>4, ToldAside
<1>5. CASE s \in stale
  <2>1. /\ s \notin skew' => s \notin skew \/ s \in Settled(p)
        /\ s \notin skew => s \notin skew'
    BY <1>1
  <2>2. s \notin task[p].kept /\ task[p].seen[s].dir = None
    BY <1>5
  <2> HIDE DEF stale
  <2>3. s \notin skew' \cup lapse => Homeless(s)
    BY <1>1, <2>1, <2>2, NoneIsNot DEF Place, View, RescanOK, Settled, Homeless
  <2>4. \A h \in Dirs : Homeless(s) => ~ Home(s, h)
    BY DEF Homeless
  <2>5. QED
    BY <1>1, <1>3, <1>5, <2>1, <2>3, <2>4, ToldSettled
<1>6. QED
  BY <1>4, <1>5

\* A refresh or a rescan applies what it read (rebuild.rs, refresh_one).
LEMMA ApplyTold ==
    ASSUME BaseInv, NEW s \in Sessions, World(s), Place(s), Told(s), NEW p \in Tasks, Apply(p)
    PROVE  Told(s)'
<1> DEFINE x == task[p].s
<1>1. /\ task[p].pc = "apply" /\ x \in Sessions /\ task[p].op \in {"refresh", "rescan"}
      /\ UNCHANGED <<file, known, doomed, lapse>>
      /\ skew' = skew \ ({x} \cap Settled(p))
  BY ApplyTasks DEF Apply, Settle, disk
<1>2. Others(p) /\ task'[p].pc \in {"idle", "rescan"} /\ task'[p].op # "create"
  <2>1. Idle.pc = "idle" /\ Idle.op = "none"
    BY DEF Idle
  <2>2. CASE Becomes(p, Idle)
    BY <2>1, <2>2, BecomesIs
  <2>3. CASE task[p].op = "rescan"
    <3>1. PICK r : /\ Becomes(p, r)
                   /\ r.op = "rescan" /\ r.s = None /\ r.dir = task[p].dir
                   /\ r.rec = task[p].rec /\ r.seen = task[p].seen
                   /\ r.todo = task[p].todo \ {task[p].s}
                   /\ r.kept = task[p].kept /\ r.clean = task[p].clean
                   /\ r.pc = "rescan"
      BY <2>3, ApplyTasks
    <3>2. QED
      BY <3>1, BecomesIs
  <2>4. QED
    BY <2>2, <2>3, ApplyTasks
<1>3. SameWay(s) /\ (Created(s)' <=> Created(s))
  BY <1>1, <1>2, SameWayIs, CreatedKept
<1>4. /\ s # x => index'[s] = index[s]
      /\ task[p].meta \in Good => index'[x] = [meta |-> task[p].meta, note |-> task[p].note]
      /\ index[x] # None => index'[x] # None
  BY ApplyIs
<1>5. CASE x # s
  BY <1>1, <1>3, <1>4, <1>5, ToldAside
<1>6. CASE x = s
  <2>1. s \notin skew' => s \notin skew \/ s \in Settled(p)
    BY <1>1
  <2>2. /\ s \notin skew' \cup lapse => s \in task[p].clean
        /\ s \notin skew' \cup lapse => ~ Homeless(s)
    <3>1. CASE task[p].op = "refresh"
      BY <1>1, <1>6, <2>1, <3>1 DEF Place, View, RefreshOK, Settled
    <3>2. CASE task[p].op = "rescan"
      BY <1>1, <1>6, <2>1, <3>2 DEF Place, View, RescanOK, Settled
    <3>3. QED
      BY <1>1, <3>1, <3>2
  <2>3. ASSUME s \notin skew' \cup lapse, ~ Corrupt(s), NEW h \in Dirs, Home(s, h)
        PROVE  /\ index'[s] # None /\ index'[s].meta = file[s][h].meta
               /\ index'[s].note = file[s][h].note
    <3>1. task[p].meta = file[s][h].meta /\ task[p].note = file[s][h].note
      <4>1. CASE task[p].op = "refresh"
        BY <1>1, <1>6, <2>2, <2>3, <4>1 DEF Place, View, RefreshOK
      <4>2. CASE task[p].op = "rescan"
        BY <1>1, <1>6, <2>2, <2>3, <4>2 DEF Place, View, RescanOK
      <4>3. QED
        BY <1>1, <4>1, <4>2
    <3>2. file[s][h].meta \in Good /\ file[s][h].note \in NoteVals
      BY <2>3, FileType DEF Corrupt, Home, BaseInv, Metas
    <3>3. /\ index'[s] = [meta |-> task[p].meta, note |-> task[p].note]
          /\ [meta |-> task[p].meta, note |-> task[p].note] \in Entry
      BY <1>4, <1>6, <3>1, <3>2 DEF Entry
    <3>4. QED
      BY <3>1, <3>3, AbsentAssumption
  <2>4. QED
    BY <1>1, <1>3, <1>4, <1>6, <2>1, <2>2, <2>3, ToldSettled
<1>7. QED
  BY <1>5, <1>6

-----------------------------------------------------------------------------
(***************************************************************************)
(* The inductive invariant.                                                 *)
(***************************************************************************)
Inv ==
    /\ BaseInv
    /\ \A s \in Sessions : World(s) /\ Place(s) /\ Told(s)

\* The invariant holds at the start.
LEMMA InvInit == Init => Inv
<1> SUFFICES ASSUME Init, NEW s \in Sessions PROVE World(s) /\ Place(s) /\ Told(s)
  BY BaseInit DEF Inv
<1>1. PICK there \in SUBSET Sessions, warm \in BOOLEAN :
        /\ file = [x \in Sessions |-> [y \in Dirs |->
                     IF x \in there /\ y = "untitled" THEN [meta |-> "new", note |-> "gone"]
                     ELSE Nothing]]
        /\ catalog = [x \in Sessions |-> IF x \in there /\ warm THEN "untitled" ELSE None]
        /\ index = [x \in Sessions |-> IF x \in there /\ warm
                                       THEN [meta |-> "new", note |-> "gone"] ELSE None]
        /\ known = there
        /\ skew = (IF warm THEN {} ELSE there)
  BY DEF Init
<1>2. deleted[s] = None /\ \A q \in Tasks : task[q] = Idle
  BY DEF Init
<1>3. /\ Idle.op = "none" /\ Idle.rec = None /\ Idle.pc = "idle" /\ Idle.seen[s].dir = None
      /\ Idle.todo = {} /\ Idle.s = None
  BY DEF Idle
<1>4. \A d \in Dirs : /\ file[s][d] = IF s \in there /\ d = "untitled"
                                      THEN [meta |-> "new", note |-> "gone"] ELSE Nothing
                      /\ Home(s, d) <=> s \in there /\ d = "untitled"
                      /\ file[s][d].meta # "corrupt"
  BY <1>1 DEF Home, Nothing
<1>5. /\ s \in there /\ warm => /\ catalog[s] = "untitled"
                                /\ index[s] = [meta |-> "new", note |-> "gone"]
      /\ ~ (s \in there /\ warm) => catalog[s] = None /\ index[s] = None
  BY <1>1
<1>6. ~ Corrupt(s) /\ ~ Tailing(s) /\ ~ Publishing(s) /\ (Created(s) <=> s \in there)
  BY <1>1, <1>2, <1>3, <1>4 DEF Corrupt, Tailing, Publishing, Created
<1>7. "untitled" \in Dirs /\ (Homeless(s) <=> s \notin there)
  BY <1>4 DEF Homeless, Dirs
<1>8. World(s)
  <2>1. \A r : ~ Recorded(s, r)
    BY <1>2, <1>3, NoneIsNot DEF Recorded
  <2>2. OnePlace(s) /\ RecordsOK(s)
    BY <1>4, <2>1 DEF OnePlace, Live, RecordsOK
  <2>3. FreshOK(s)
    BY <1>2, <1>3, <1>5, <1>6, <1>7, NoneIsNot DEF FreshOK, FreshTask
  <2>4. AliveOK(s)
    BY <1>2, <1>3, <1>6, <1>7 DEF AliveOK
  <2>5. QED
    BY <2>2, <2>3, <2>4 DEF World
<1>9. Place(s)
  <2>1. CatalogOK(s)
    BY <1>4, <1>5, <1>7 DEF CatalogOK
  <2>2. TailOK(s) /\ GoneOK(s)
    BY <1>2, <1>3, <1>6 DEF TailOK, GoneOK
  <2>3. QED
    BY <1>2, <1>3, <2>1, <2>2, ViewNothing DEF Place
<1>10. Told(s)
  <2>1. OnePublishes(s) /\ FreshNote(s)
    BY <1>2, <1>3, <1>6 DEF OnePublishes, Publishes, FreshNote
  <2>2. [meta |-> "new", note |-> "gone"] \in Entry
    BY DEF Entry, Good, NoteVals
  <2>3. s \notin skew /\ s \in there => Tells(s, "untitled")
    BY <1>1, <1>2, <1>3, <1>4, <1>5, <1>7, <2>2, AbsentAssumption DEF Tells, Publishes
  <2>4. IndexOK(s) /\ Kept(s)
    BY <1>4, <1>5, <1>6, <1>7, <2>3 DEF IndexOK, Kept, Tells
  <2>5. QED
    BY <2>1, <2>4 DEF Told
<1>11. QED
  BY <1>8, <1>9, <1>10

\* ... when nothing happens,
LEMMA InvStutter == Inv /\ UNCHANGED vars => Inv'
<1> SUFFICES ASSUME Inv, UNCHANGED vars PROVE Inv'
  OBVIOUS
<1>1. UNCHANGED <<file, trash, catalog, index, deleted, lock, task, deletions, externals,
                  known, doomed, skew, lapse>>
  BY DEF vars, disk, store, bounds, history
<1>2. BaseInv'
  BY <1>1 DEF Inv, BaseInv, TypeOK, Locked, Numbered
<1>3. ASSUME NEW s \in Sessions PROVE World(s)'
  BY <1>1 DEF Inv, World, OnePlace, RecordsOK, FreshOK, AliveOK, Live, Recorded, Homeless, Home,
              Deleting, Created, Tailing
<1>4. ASSUME NEW s \in Sessions PROVE Place(s)' /\ Told(s)'
  <2>1. /\ Steady(s) /\ (Corrupt(s)' <=> Corrupt(s)) /\ (Homeless(s)' <=> Homeless(s))
        /\ \A d \in Dirs : Home(s, d)' <=> Home(s, d)
    BY <1>1, SteadyIs DEF Steady
  <2>2. SameWay(s) /\ (Created(s)' <=> Created(s))
    BY <1>1 DEF SameWay, Publishes, Publishing, Tailing, Created
  <2>3. CatalogOK(s)' /\ TailOK(s)' /\ GoneOK(s)'
    BY <1>1, <2>1, <2>2 DEF Inv, Place, CatalogOK, TailOK, GoneOK, SameWay
  <2>4. ASSUME NEW q \in Tasks PROVE View(task[q], s)'
    <3>1. /\ Alike(task'[q], task[q]) /\ View(task[q], s)
          /\ Warns(task[q], s) => Warns(task'[q], s)
      BY <1>1 DEF Alike, SameWork, Inv, Place
    <3>2. QED
      BY <1>1, <2>1, <3>1, ViewSteady DEF Inv
  <2>5. Told(s)'
    BY <1>1, <2>2, ToldAside DEF Inv
  <2>6. QED
    BY <2>3, <2>4, <2>5 DEF Place
<1>5. QED
  BY <1>2, <1>3, <1>4 DEF Inv

\* ... after every step of a task that is at work,
LEMMA InvStep == ASSUME Inv, NEW p \in Tasks, Step(p) PROVE Inv'
<1>1. CASE Lookup(p)
  BY <1>1, LookupTasks, LookupWorld, LookupPlace, LookupTold DEF Inv
<1>2. CASE CheckRemovals(p)
  BY <1>2, CheckTasks, CheckWorld, CheckPlace, CheckTold DEF Inv
<1>3. CASE Fill(p)
  BY <1>3, FillTasks, FillWorld, FillPlace, FillTold DEF Inv
<1>4. CASE Create(p)
  BY <1>4, CreateTasks, CreateWorld, CreatePlace, CreateTold DEF Inv
<1>5. CASE Update(p)
  BY <1>5, UpdateTasks, UpdateWorld, UpdatePlace, UpdateTold DEF Inv
<1>6. CASE WriteNote(p)
  BY <1>6, WriteNoteTasks, WriteNoteWorld, WriteNotePlace, WriteNoteTold DEF Inv
<1>7. CASE PublishNote(p)
  BY <1>7, PublishTasks, PublishWorld, PublishPlace, PublishTold DEF Inv
<1>8. CASE Delete(p)
  BY <1>8, DeleteTasks, DeleteWorld, DeletePlace, DeleteTold DEF Inv
<1>9. CASE DeleteTail(p)
  BY <1>9, DeleteTailTasks, DeleteTailWorld, DeleteTailPlace, DeleteTailTold DEF Inv
<1>10. CASE Restore(p)
  BY <1>10, RestoreTasks, RestoreWorld, RestorePlace, RestoreTold DEF Inv
<1>11. CASE ReadMeta(p)
  BY <1>11, ReadMetaTasks, ReadMetaWorld, ReadMetaPlace, ReadMetaTold DEF Inv
<1>12. CASE Drop(p)
  BY <1>12, DropTasks, DropWorld, DropPlace, DropTold DEF Inv
<1>13. CASE ReadNote(p)
  BY <1>13, ReadNoteTasks, ReadNoteWorld, ReadNotePlace, ReadNoteTold DEF Inv
<1>14. CASE Apply(p)
  BY <1>14, ApplyTasks, ApplyWorld, ApplyPlace, ApplyTold DEF Inv
<1>15. CASE RescanSession(p)
  BY <1>15, RescanSessionTasks, RescanSessionWorld, RescanSessionPlace, RescanSessionTold DEF Inv
<1>16. CASE Prune(p)
  BY <1>16, PruneTasks, PruneWorld, PrunePlace, PruneTold DEF Inv
<1>17. QED
  BY <1>1, <1>2, <1>3, <1>4, <1>5, <1>6, <1>7, <1>8, <1>9, <1>10, <1>11, <1>12, <1>13, <1>14,
     <1>15, <1>16 DEF Step

\* ... and so after every step.
LEMMA InvNext == Inv /\ [Next]_vars => Inv'
<1> SUFFICES ASSUME Inv, Next PROVE Inv'
  BY InvStutter
<1>1. ASSUME NEW p \in Writers, NEW x \in Sessions, NEW op \in Commands, NEW n \in NoteVals,
             op = "note" => n \in Notes, Enter(p, op, x, n)
      PROVE  Inv'
  BY <1>1, EnterTasks, EnterWorld, EnterPlace, EnterTold DEF Inv
<1>2. ASSUME NEW p \in Tasks, NEW x \in Sessions, RestoreBegin(p, x) PROVE Inv'
  BY <1>2, RestoreBeginTasks, RestoreBeginWorld, RestoreBeginPlace, RestoreBeginTold DEF Inv
<1>3. ASSUME NEW p \in Tasks, Rescan(p) PROVE Inv'
  BY <1>3, RescanTasks, RescanWorld, RescanPlace, RescanTold DEF Inv
<1>4. ASSUME NEW p \in Tasks, NEW x \in Sessions, ReadBegin(p, x) PROVE Inv'
  BY <1>4, ReadBeginTasks, ReadBeginWorld, ReadBeginPlace, ReadBeginTold DEF Inv
<1>5. ASSUME NEW p \in Tasks, NEW x \in Sessions, RefreshBegin(p, x) PROVE Inv'
  BY <1>5, RefreshBeginTasks, RefreshBeginWorld, RefreshBeginPlace, RefreshBeginTold DEF Inv
<1>6. ASSUME NEW x \in Sessions, NEW d \in Dirs, Corrupts(x, d) PROVE Inv'
  BY <1>6, CorruptsTasks, CorruptsWorld, CorruptsPlace, CorruptsTold DEF Inv
<1>7. ASSUME NEW x \in Sessions, NEW d \in Dirs, External(x, d) PROVE Inv'
  BY <1>7, ExternalTasks, ExternalWorld, ExternalPlace, ExternalTold DEF Inv
<1>8. ASSUME NEW p \in Writers, Command(p) PROVE Inv'
  <2>1. p \in Tasks
    BY DEF Tasks
  <2>2. "gone" \in NoteVals /\ Notes \subseteq NoteVals
    BY DEF NoteVals
  <2>3. PICK x \in Sessions : \/ \E op \in {"create", "update", "delete"} : Enter(p, op, x, "gone")
                              \/ \E t \in Notes : Enter(p, "note", x, t)
                              \/ RestoreBegin(p, x)
    BY <1>8 DEF Command
  <2>4. ASSUME NEW op \in {"create", "update", "delete"}, Enter(p, op, x, "gone") PROVE Inv'
    BY <1>1, <2>2, <2>4 DEF Commands
  <2>5. ASSUME NEW t \in Notes, Enter(p, "note", x, t) PROVE Inv'
    BY <1>1, <2>2, <2>5 DEF Commands
  <2>6. QED
    BY <1>2, <2>1, <2>3, <2>4, <2>5
<1>9. Writers \subseteq Tasks /\ Readers \subseteq Tasks
  BY DEF Tasks
<1>10. QED
  BY <1>3, <1>4, <1>5, <1>6, <1>7, <1>8, <1>9, InvStep DEF Next

\* The inductive invariant holds of every state the store can be in.
THEOREM StoreInvariant == Spec => []Inv
BY InvInit, InvNext, PTL DEF Spec

\* The store's files, catalog, index and tasks keep their types.
THEOREM VaultTypeOK == Spec => []TypeOK
<1>1. Inv => TypeOK
  BY DEF Inv, BaseInv
<1>2. QED
  BY <1>1, StoreInvariant, PTL

\* A session that nobody deleted stays in the index, whatever becomes of its
\* metadata, unless it was written to behind a reader's back or met corrupt and
\* uncatalogued (rebuild.rs, rebuild_with_scan and refresh_one).
THEOREM NothingVanishesAlways == Spec => []NothingVanishes
<1>1. Inv => NothingVanishes
  BY DEF Inv, Told, Kept, NothingVanishes
<1>2. QED
  BY <1>1, StoreInvariant, PTL

\* When nothing runs the index says what the files say (index.rs), but for
\* sessions that were changed behind a reader's back and not read since.
THEOREM IndexAgreesAlways == Spec => []IndexAgrees
<1>1. ASSUME Inv, Quiet, NEW s \in Sessions, s \notin skew \cup lapse, ~ Corrupt(s)
      PROVE  index[s] = Truth(s)
  <2>1. ~ Tailing(s) /\ ~ Publishing(s)
    BY <1>1 DEF Quiet, Tailing, Publishing, Idle
  <2>2. IndexOK(s) /\ World(s) /\ BaseInv
    BY <1>1 DEF Inv, Told
  <2>3. CASE Healthy(s) = {}
    <3>1. \A d \in Dirs : file[s][d].meta = "gone"
      BY <1>1, <2>2, <2>3, FileType DEF Healthy, Corrupt, Metas, BaseInv
    <3>2. Homeless(s)
      BY <3>1 DEF Homeless, Home
    <3>3. QED
      BY <1>1, <2>1, <2>2, <2>3, <3>2 DEF IndexOK, Truth
  <2>4. CASE Healthy(s) # {}
    <3>1. Scan[s].dir \in Dirs /\ Home(s, Scan[s].dir)
      BY <2>2, <2>4, ScanIs DEF BaseInv, Healthy, Home, Good
    <3>2. Tells(s, Scan[s].dir)
      BY <1>1, <2>1, <2>2, <3>1 DEF IndexOK
    <3>3. index[s] \in Entry /\ file[s][Scan[s].dir] \in Content
      BY <2>2, <3>1, <3>2, FileType DEF Tells, BaseInv, TypeOK
    <3>4. index[s] = file[s][Scan[s].dir]
      BY <2>1, <3>2, <3>3 DEF Tells, Entry, Content
    <3>5. QED
      BY <2>4, <3>4 DEF Truth
  <2>5. QED
    BY <2>3, <2>4
<1>2. Inv => IndexAgrees
  BY <1>1 DEF IndexAgrees
<1>3. QED
  BY <1>2, StoreInvariant, PTL

\* When nothing runs the catalog names no directory without a session
\* (locations.rs): the next write does not make one anew.
THEOREM CatalogSoundAlways == Spec => []CatalogSound
<1>1. ASSUME Inv, Quiet, NEW s \in Sessions, s \notin skew \cup lapse, catalog[s] # None
      PROVE  file[s][catalog[s]].meta # "gone"
  <2>1. ~ Tailing(s) /\ CatalogOK(s)
    BY <1>1 DEF Quiet, Tailing, Idle, Inv, Place
  <2>2. PICK d \in Dirs : Home(s, d)
    BY <1>1, <2>1 DEF CatalogOK, Homeless
  <2>3. catalog[s] = d
    BY <1>1, <2>1, <2>2 DEF CatalogOK
  <2>4. QED
    BY <2>2, <2>3 DEF Home
<1>2. Inv => CatalogSound
  BY <1>1 DEF CatalogSound
<1>3. QED
  BY <1>2, StoreInvariant, PTL
=============================================================================
