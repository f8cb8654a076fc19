------------------------------ MODULE VaultIndex ------------------------------
(***************************************************************************)
(* The session store of vault-write: the files of the sessions, the catalog *)
(* that says in which directory a session lives, the in-memory index, and   *)
(* the operations that keep the three together (content.rs, locations.rs,   *)
(* index.rs, rebuild.rs).  Writes, deletes and restores hold the store-wide *)
(* write lock while they touch files; refreshes and the content pass of a   *)
(* rescan read without it, and some updates of catalog and index come after *)
(* it was let go.  Each action is what one task does between two awaits or  *)
(* two locks.                                                               *)
(*                                                                          *)
(* A session may live in the directory named after its id ("plain"), in a   *)
(* provisional one ("untitled") or in one named after its title.  Of the    *)
(* files there are the metadata and the note.  The watcher and the focus    *)
(* handler may start a refresh or a rescan at any time.  Not modelled: ids  *)
(* claimed by two directories, and I/O errors of the store's own writes.    *)
(***************************************************************************)
EXTENDS Naturals, FiniteSets

CONSTANTS
    Sessions,     \* session ids
    Writers,      \* store commands that may run at once (a bound)
    Readers,      \* refreshes and rescans that may run at once (a bound)
    Notes,        \* note texts
    MaxDeletes,   \* how many deletes there may be (a bound)
    MaxExternal,  \* how many changes from outside there may be (a bound)
    None

Dirs == {"plain", "untitled", "titled"}
Good == {"new", "titled"}
Metas == Good \cup {"gone", "corrupt"}
NoteVals == Notes \cup {"gone"}
Ops == {"none", "create", "update", "note", "delete", "restore", "read", "refresh", "rescan"}
Pcs == {"idle", "want", "lookup", "warm", "fill", "at", "publish", "tail", "drop", "note",
        "apply", "rescan"}

ASSUME TasksAssumption == Writers \cap Readers = {} /\ None \notin Writers \cup Readers
ASSUME NoneAssumption == None \notin Sessions \cup Notes \cup Dirs \cup Metas
ASSUME NotesAssumption == "gone" \notin Notes
ASSUME BoundsAssumption == MaxDeletes \in Nat /\ MaxExternal \in Nat

VARIABLES
    file,        \* the session directories on disk
    trash,       \* numbers of the trashed directories that are still there
    catalog,     \* SessionStore.locations
    index,       \* VaultIndex.sessions
    deleted,     \* SessionStore.recent_deletions
    lock,        \* holder of the store-wide write lock
    task,        \* where every task is, and what it carries
    deletions,   \* deletes so far
    externals,   \* changes from outside so far
    known,       \* history: sessions that were created
    doomed,      \* history: sessions a delete or an outsider took away
    skew,        \* history: sessions whose files changed behind a reader's back,
                 \*   or from outside, and that were not read undisturbed since
    lapse        \* history: sessions a cold lookup has catalogued by an old scan, or
                 \*   a refresh or a rescan has met corrupt and not catalogued

store == <<catalog, index, deleted>>
disk == <<file, trash>>
bounds == <<deletions, externals>>
history == <<known, doomed, skew, lapse>>
vars == <<disk, store, lock, task, bounds, history>>

Tasks == Writers \cup Readers
Nothing == [meta |-> "gone", note |-> "gone"]
Content == [meta : Metas, note : NoteVals]
Places == Dirs \cup {None}
Record == [n : Nat, dir : Dirs, was : Content]
Entry == [meta : Good, note : NoteVals]
Seen == [Sessions -> [dir : Places, meta : Metas]]
TaskState == [pc : Pcs, op : Ops, s : Sessions \cup {None}, dir : Places, meta : Metas,
              note : NoteVals, seen : Seen, todo : SUBSET Sessions, kept : SUBSET Sessions,
              removed : BOOLEAN, rec : Record \cup {None},
              moved : SUBSET Sessions, clean : SUBSET Sessions]
Idle == [pc |-> "idle", op |-> "none", s |-> None, dir |-> None, meta |-> "gone",
         note |-> "gone", seen |-> [x \in Sessions |-> [dir |-> None, meta |-> "gone"]],
         todo |-> {}, kept |-> {}, removed |-> FALSE, rec |-> None,
         moved |-> {}, clean |-> {}]

ASSUME AbsentAssumption == None \notin Record \cup Entry
-----------------------------------------------------------------------------
(* Files *)

There(s, d) == file[s][d] # Nothing
Corrupt(s) == \E d \in Dirs : file[s][d].meta = "corrupt"
Healthy(s) == {d \in Dirs : file[s][d].meta \in Good}

\* Discovery: the directory of every session whose metadata parses.
Scan == [s \in Sessions |->
            IF Healthy(s) = {} THEN [dir |-> None, meta |-> "gone"]
            ELSE LET d == CHOOSE x \in Healthy(s) : TRUE
                 IN  [dir |-> d, meta |-> file[s][d].meta]]

\* Sessions that a walk does not find, and the catalog does not know either.
Unfound == {s \in Sessions : Corrupt(s) /\ catalog[s] = None}

\* Directory a task works in: a session found nowhere falls back to the plain one.
At(p) == IF task[p].dir = None THEN "plain" ELSE task[p].dir

\* The store is new, or its startup rescan is over.
Init ==
    \E there \in SUBSET Sessions, warm \in BOOLEAN :
        /\ file = [s \in Sessions |-> [x \in Dirs |->
                     IF s \in there /\ x = "untitled" THEN [meta |-> "new", note |-> "gone"]
                     ELSE Nothing]]
        /\ catalog = [s \in Sessions |-> IF s \in there /\ warm THEN "untitled" ELSE None]
        /\ index = [s \in Sessions |-> IF s \in there /\ warm
                                       THEN [meta |-> "new", note |-> "gone"] ELSE None]
        /\ known = there
        /\ trash = {} /\ deleted = [s \in Sessions |-> None]
        /\ lock = None /\ task = [p \in Tasks |-> Idle]
        /\ deletions = 0 /\ externals = 0
        /\ doomed = {} /\ skew = (IF warm THEN {} ELSE there) /\ lapse = {}

\* Files of s change: whoever is reading them has been overtaken.
Overtake(tasks, s) == [q \in Tasks |-> [tasks[q] EXCEPT !.clean = @ \ {s}]]
Overtaken(s) == \E q \in Tasks : s \in task[q].clean
Publishing(s) == \E q \in Tasks : task[q].pc = "publish" /\ task[q].s = s
Tailing(s) == \E q \in Tasks : task[q].pc = "tail" /\ task[q].s = s
NoteChange(s) == skew' = IF Overtaken(s) THEN skew \cup {s} ELSE skew

\* The directory of s moves: whoever is about to catalogue an old scan is told.
Moved(tasks, s) ==
    [q \in Tasks |-> IF tasks[q].pc \in {"warm", "fill"}
                     THEN [tasks[q] EXCEPT !.moved = @ \cup {s}] ELSE tasks[q]]
-----------------------------------------------------------------------------
(* Resolving a session's directory *)

\* Ids are new when they are created; what is deleted has been.
Created(s) == s \in known /\ ~ \E p \in Tasks : task[p].op = "create" /\ task[p].s = s

\* A catalogued session is where the catalog says; otherwise the vault is walked.
Resolving(r) ==
    IF catalog[r.s] # None THEN [r EXCEPT !.pc = "at", !.dir = catalog[r.s]]
    ELSE [r EXCEPT !.pc = "warm", !.seen = Scan]

\* A lookup is over; so is a page's read, for which nothing follows that matters.
Resolved(r) == IF r.op = "read" THEN Idle
               ELSE [r EXCEPT !.pc = "at", !.seen = Idle.seen, !.moved = {}]

\* Write commands take the lock first.
Enter(p, op, s, note) ==
    /\ task[p] = Idle
    /\ lock = None
    /\ op = "create" => s \notin known
    /\ op = "delete" => Created(s) /\ deletions < MaxDeletes
    /\ lock' = p
    /\ task' = [task EXCEPT ![p] = Resolving([Idle EXCEPT !.op = op, !.s = s, !.note = note])]
    /\ deletions' = IF op = "delete" THEN deletions + 1 ELSE deletions
    /\ known' = IF op = "create" THEN known \cup {s} ELSE known
    /\ UNCHANGED <<disk, store, externals, doomed, skew, lapse>>

\* The refresh that ends an undo.
Lookup(p) ==
    /\ task[p].pc = "lookup"
    /\ task' = [task EXCEPT ![p] = Resolving(@)]
    /\ lapse' = lapse \cup ({task[p].s} \cap Unfound)
    /\ UNCHANGED <<disk, store, lock, bounds, known, doomed, skew>>

\* The walk found what it found; it is catalogued only if nothing was removed
\* from the catalog since it began.
CheckRemovals(p) ==
    /\ task[p].pc = "warm"
    /\ LET found == [task[p] EXCEPT !.dir = task[p].seen[task[p].s].dir, !.removed = FALSE]
       IN  task' = [task EXCEPT ![p] = IF task[p].removed THEN Resolved(found)
                                       ELSE [found EXCEPT !.pc = "fill"]]
    /\ UNCHANGED <<disk, store, lock, bounds, history>>

\* Other sessions only fill gaps; the session asked for is set.  If it lives in
\* the plain directory nothing else was walked.
Fill(p) ==
    /\ task[p].pc = "fill"
    /\ LET s == task[p].s
           seen == task[p].seen
           others == IF seen[s].dir = "plain" THEN {}
                     ELSE {x \in Sessions \ {s} : catalog[x] = None /\ seen[x].dir # None}
           filled == others \cup (IF seen[s].dir # None THEN {s} ELSE {})
       IN  /\ catalog' = [x \in Sessions |-> IF x \in filled THEN seen[x].dir ELSE catalog[x]]
           /\ lapse' = lapse \cup (filled \cap task[p].moved)
           /\ task' = [task EXCEPT ![p] = Resolved(@)]
    /\ UNCHANGED <<disk, index, deleted, lock, bounds, known, doomed, skew>>

\* Mutant: removals are not counted.
UncataloguedSilently(tasks) == tasks

\* catalog_remove counts, also when there was nothing to remove.
Uncatalogued(tasks) ==
    [q \in Tasks |-> IF tasks[q].pc = "warm" THEN [tasks[q] EXCEPT !.removed = TRUE] ELSE tasks[q]]
-----------------------------------------------------------------------------
(* Writes *)

\* Mutant: an entry that is there is taken to be current.
UpsertedOnce(s, meta) ==
    [index EXCEPT ![s] = IF @ = None THEN [meta |-> meta, note |-> "gone"] ELSE @]

Upserted(s, meta) ==
    [index EXCEPT ![s] =
        [meta |-> meta, note |-> IF index[s] = None THEN "gone" ELSE index[s].note]]

\* A new session goes to a fresh provisional directory, or adopts the ghost of
\* the plain one.
Create(p) ==
    /\ task[p].pc = "at" /\ task[p].op = "create"
    /\ LET s == task[p].s
           d == IF There(s, "plain") THEN "plain" ELSE "untitled"
       IN  /\ file' = [file EXCEPT ![s][d].meta = "new"]
           /\ catalog' = [catalog EXCEPT ![s] = d]
           /\ index' = Upserted(s, "new")
           /\ task' = Overtake([task EXCEPT ![p] = Idle], s)
           /\ skew' = IF Overtaken(s) \/ file[s][d].note # "gone" THEN skew \cup {s} ELSE skew
    /\ lock' = None
    /\ UNCHANGED <<trash, deleted, bounds, known, doomed, lapse>>

\* A title: the metadata must be there.  The first one renames a provisional
\* directory, unless a recording defers that or the name is taken.
Update(p) ==
    /\ task[p].pc = "at" /\ task[p].op = "update"
    /\ lock' = None
    /\ LET s == task[p].s
           d == At(p)
           idle == [task EXCEPT ![p] = Idle]
       IN  IF file[s][d].meta \notin Good
           THEN task' = idle /\ UNCHANGED <<file, catalog, index, skew>>
           ELSE /\ \E e \in {d} \cup {x \in {"titled"} : d = "untitled" /\ ~ There(s, x)} :
                      /\ file' = [file EXCEPT
                             ![s] = [@ EXCEPT ![d] = Nothing,
                                              ![e] = [meta |-> "titled", note |-> file[s][d].note]]]
                      /\ catalog' = [catalog EXCEPT ![s] = e]
                      /\ task' = Overtake(IF e = d THEN idle ELSE Moved(idle, s), s)
                /\ index' = Upserted(s, "titled")
                /\ NoteChange(s)
    /\ UNCHANGED <<trash, deleted, bounds, known, doomed, lapse>>

\* The note is written whatever is there; the index follows after the lock.
WriteNote(p) ==
    /\ task[p].pc = "at" /\ task[p].op = "note"
    /\ LET s == task[p].s
       IN  /\ file' = [file EXCEPT ![s][At(p)].note = task[p].note]
           /\ task' = Overtake([task EXCEPT ![p] = [@ EXCEPT !.pc = "publish", !.dir = None]], s)
           /\ skew' = IF Overtaken(s) \/ Publishing(s)
                      THEN skew \cup {s} ELSE skew
    /\ lock' = None
    /\ UNCHANGED <<trash, store, bounds, known, doomed, lapse>>

PublishNote(p) ==
    /\ task[p].pc = "publish"
    /\ LET s == task[p].s
       IN  index' = IF index[s] = None THEN index ELSE [index EXCEPT ![s].note = task[p].note]
    /\ task' = [task EXCEPT ![p] = Idle]
    /\ UNCHANGED <<disk, catalog, deleted, lock, bounds, history>>

\* The directory goes to the trash under the lock; record, catalog and index
\* follow after it.
Delete(p) ==
    /\ task[p].pc = "at" /\ task[p].op = "delete"
    /\ LET s == task[p].s
           d == At(p)
           rec == [n |-> deletions, dir |-> d, was |-> file[s][d]]
       IN  /\ file' = [file EXCEPT ![s][d] = Nothing]
           /\ trash' = IF There(s, d) THEN trash \cup {deletions} ELSE trash
           /\ task' = Overtake(Moved([task EXCEPT ![p] = [@ EXCEPT
                           !.pc = "tail", !.dir = None,
                           !.rec = IF There(s, d) THEN rec ELSE None]], s), s)
           /\ NoteChange(s)
           /\ doomed' = doomed \cup {s}
    /\ lock' = None
    /\ UNCHANGED <<store, bounds, known, lapse>>

\* From here on the count of removals is to keep s from being catalogued.
Counted(tasks, s) ==
    [q \in Tasks |-> IF tasks[q].pc = "warm" THEN [tasks[q] EXCEPT !.moved = @ \ {s}] ELSE tasks[q]]

DeleteTail(p) ==
    /\ task[p].pc = "tail"
    /\ LET s == task[p].s
       IN  /\ deleted' = IF task[p].rec = None THEN deleted
                         ELSE [deleted EXCEPT ![s] = task[p].rec]
           /\ catalog' = [catalog EXCEPT ![s] = None]
           /\ index' = [index EXCEPT ![s] = None]
           /\ task' = Uncatalogued(Counted([task EXCEPT ![p] = Idle], s))
    /\ UNCHANGED <<disk, lock, bounds, history>>

\* Undo takes the record before it waits for the lock.
RestoreBegin(p, s) ==
    /\ task[p] = Idle
    /\ deleted[s] # None
    /\ task' = [task EXCEPT ![p] = [Idle EXCEPT !.pc = "want", !.op = "restore", !.s = s,
                                                !.rec = deleted[s]]]
    /\ UNCHANGED <<disk, store, lock, bounds, history>>

\* An undo that has expired forgets the record; one whose place is taken, or
\* whose metadata does not parse, keeps it; a good one ends with a refresh.
Restore(p) ==
    /\ task[p].pc = "want"
    /\ lock = None
    /\ LET s == task[p].s
           rec == task[p].rec
           expired == rec.n \notin trash \/ rec.was.meta = "gone"
           refused == ~ expired /\ (rec.was.meta = "corrupt" \/ There(s, rec.dir))
       IN  /\ deleted' = IF refused THEN deleted ELSE [deleted EXCEPT ![s] = None]
           /\ IF expired \/ refused
              THEN task' = [task EXCEPT ![p] = Idle] /\ UNCHANGED <<disk, catalog, skew>>
              ELSE /\ file' = [file EXCEPT ![s][rec.dir] = rec.was]
                   /\ trash' = trash \ {rec.n}
                   /\ catalog' = [catalog EXCEPT ![s] = rec.dir]
                   /\ task' = [Overtake(task, s) EXCEPT ![p] =
                          [Idle EXCEPT !.pc = "lookup", !.op = "refresh", !.s = s, !.clean = {s}]]
                   /\ skew' = skew \cup {s}
    /\ UNCHANGED <<index, lock, bounds, known, doomed, lapse>>
-----------------------------------------------------------------------------
(* Reads, refreshes and rescans *)

\* A page reads an artifact: all it does is what its lookup does, if one is due.
ReadBegin(p, s) ==
    /\ task[p] = Idle
    /\ catalog[s] = None
    /\ task' = [task EXCEPT ![p] = Resolving([Idle EXCEPT !.op = "read", !.s = s])]
    /\ UNCHANGED <<disk, store, lock, bounds, history>>

RefreshBegin(p, s) ==
    /\ task[p] = Idle
    /\ task' = [task EXCEPT ![p] = Resolving([Idle EXCEPT !.op = "refresh", !.s = s,
                                                          !.clean = {s}])]
    /\ lapse' = lapse \cup ({s} \cap Unfound)
    /\ UNCHANGED <<disk, store, lock, bounds, known, doomed, skew>>

\* read_meta: only absent metadata takes the session out.
ReadMeta(p) ==
    /\ task[p].pc = "at" /\ task[p].op = "refresh"
    /\ LET meta == file[task[p].s][At(p)].meta
       IN  task' = [task EXCEPT ![p] = [@ EXCEPT !.pc = IF meta = "gone" THEN "drop" ELSE "note",
                                                 !.dir = None, !.meta = meta]]
    /\ UNCHANGED <<disk, store, lock, bounds, history>>

\* What p read of s, undisturbed, is the truth again, if nothing older is still
\* to come.
Settled(p) ==
    {s \in task[p].clean : /\ ~ Corrupt(s) /\ ~ Publishing(s) /\ ~ Tailing(s)
                           /\ \A q \in Tasks \ {p} :
                                  /\ task[q].op = "refresh" /\ task[q].s = s => s \in task[q].clean
                                  /\ task[q].op = "rescan" => s \in task[q].clean}
Settle(p, s) == skew' = skew \ ({s} \cap Settled(p))

Drop(p) ==
    /\ task[p].pc = "drop"
    /\ LET s == task[p].s
       IN  /\ catalog' = [catalog EXCEPT ![s] = None]
           /\ index' = [index EXCEPT ![s] = None]
           /\ Settle(p, s)
    /\ task' = Uncatalogued([task EXCEPT ![p] = Idle])
    /\ UNCHANGED <<disk, deleted, lock, bounds, known, doomed, lapse>>

\* read_note resolves the directory once more.
NoteDir(s) == IF catalog[s] # None THEN catalog[s]
              ELSE IF Scan[s].dir # None THEN Scan[s].dir ELSE "plain"

ReadNote(p) ==
    /\ task[p].pc = "note"
    /\ task' = [task EXCEPT ![p] = [@ EXCEPT !.pc = "apply",
                                             !.note = file[task[p].s][NoteDir(task[p].s)].note]]
    /\ UNCHANGED <<disk, store, lock, bounds, history>>

\* Corrupt metadata leave the entry, and let a note that could be read in.
Applied(s, meta, note) ==
    CASE meta \in Good -> [index EXCEPT ![s] = [meta |-> meta, note |-> note]]
      [] meta = "corrupt" /\ index[s] # None /\ note # "gone" -> [index EXCEPT ![s].note = note]
      [] OTHER -> index

\* Under the index lock.
Apply(p) ==
    /\ task[p].pc = "apply"
    /\ LET s == task[p].s
           meta == task[p].meta
           note == task[p].note
       IN  /\ index' = Applied(s, meta, note)
           /\ Settle(p, s)
           /\ task' = [task EXCEPT ![p] =
                 IF task[p].op = "refresh" THEN Idle
                 ELSE [@ EXCEPT !.pc = "rescan", !.todo = task[p].todo \ {s}, !.s = None,
                                !.note = "gone", !.meta = "gone"]]
    /\ UNCHANGED <<disk, catalog, deleted, lock, bounds, known, doomed, lapse>>

\* Mutant: a directory whose metadata do not parse protects nothing.
ProtectsGone == {s \in Sessions : catalog[s] # None /\ file[s][catalog[s]].meta = "gone"}

\* A session whose catalogued directory is corrupt is protected.
Protected == {s \in Sessions : catalog[s] # None /\ file[s][catalog[s]].meta = "corrupt"}

\* rebuild_index walks the vault and swaps the catalog under the write lock.
Rescan(p) ==
    /\ task[p] = Idle
    /\ lock = None
    /\ LET kept == Protected
           found == {s \in Sessions : Scan[s].dir # None}
       IN  /\ catalog' = [s \in Sessions |-> IF s \in found THEN Scan[s].dir
                                             ELSE IF s \in kept THEN catalog[s] ELSE None]
           /\ task' = [task EXCEPT ![p] = [Idle EXCEPT
                           !.pc = "rescan", !.op = "rescan", !.seen = Scan, !.todo = found,
                           !.kept = kept,
                           !.clean = {s \in Sessions : ~ Corrupt(s)}]]
    /\ lapse' = lapse \cup Unfound
    /\ UNCHANGED <<disk, index, deleted, lock, bounds, known, doomed, skew>>

\* The content pass, without the lock, with the metadata of the walk.  Several
\* sessions are read at once in the code; they share nothing.
RescanSession(p) ==
    /\ task[p].pc = "rescan"
    /\ \E s \in task[p].todo :
           task' = [task EXCEPT ![p] = [@ EXCEPT !.pc = "apply", !.s = s,
                                                 !.meta = task[p].seen[s].meta,
                                                 !.note = file[s][NoteDir(s)].note]]
    /\ UNCHANGED <<disk, store, lock, bounds, history>>

\* Then everything the walk did not find leaves the index.
Prune(p) ==
    /\ task[p].pc = "rescan"
    /\ task[p].todo = {}
    /\ LET present == {s \in Sessions : task[p].seen[s].dir # None}
           stale == Sessions \ (present \cup task[p].kept)
       IN  /\ index' = [s \in Sessions |-> IF s \in stale THEN None ELSE index[s]]
           /\ skew' = skew \ (stale \cap Settled(p))
    /\ task' = [task EXCEPT ![p] = Idle]
    /\ UNCHANGED <<disk, catalog, deleted, lock, bounds, known, doomed, lapse>>
-----------------------------------------------------------------------------
\* Another program damages the metadata of s; or it edits the note or removes
\* the directory.
Corrupts(s, d) ==
    /\ file[s][d].meta \in Good
    /\ externals < MaxExternal
    /\ externals' = externals + 1
    /\ file' = [file EXCEPT ![s][d].meta = "corrupt"]
    /\ UNCHANGED <<trash, store, lock, task, deletions, history>>

External(s, d) ==
    /\ externals < MaxExternal
    /\ externals' = externals + 1
    /\ There(s, d)
    /\ \E c \in {Nothing} \cup {[file[s][d] EXCEPT !.note = t] : t \in Notes} :
           /\ c # file[s][d]
           /\ file' = [file EXCEPT ![s][d] = c]
           /\ doomed' = IF c = Nothing THEN doomed \cup {s} ELSE doomed
    /\ task' = Overtake(Moved(task, s), s)
    /\ skew' = skew \cup {s}
    /\ UNCHANGED <<trash, store, lock, deletions, known, lapse>>

Command(p) ==
    \E s \in Sessions :
        \/ \E op \in {"create", "update", "delete"} : Enter(p, op, s, "gone")
        \/ \E t \in Notes : Enter(p, "note", s, t)
        \/ RestoreBegin(p, s)

Step(p) ==
    \/ Lookup(p) \/ CheckRemovals(p) \/ Fill(p)
    \/ Create(p) \/ Update(p) \/ WriteNote(p) \/ PublishNote(p)
    \/ Delete(p) \/ DeleteTail(p) \/ Restore(p)
    \/ ReadMeta(p) \/ Drop(p) \/ ReadNote(p) \/ Apply(p)
    \/ RescanSession(p) \/ Prune(p)

Next ==
    \/ \E p \in Writers : Command(p)
    \/ \E p \in Readers : Rescan(p) \/ \E s \in Sessions : ReadBegin(p, s) \/ RefreshBegin(p, s)
    \/ \E p \in Tasks : Step(p)
    \/ \E s \in Sessions, d \in Dirs : Corrupts(s, d) \/ External(s, d)

Spec == Init /\ [][Next]_vars
-----------------------------------------------------------------------------
(***************************************************************************)
(* Properties                                                              *)
(***************************************************************************)
TypeOK ==
    /\ file \in [Sessions -> [Dirs -> Content]]
    /\ trash \subseteq 1 .. MaxDeletes
    /\ catalog \in [Sessions -> Places]
    /\ index \in [Sessions -> Entry \cup {None}]
    /\ deleted \in [Sessions -> Record \cup {None}]
    /\ lock \in Tasks \cup {None}
    /\ task \in [Tasks -> TaskState]
    /\ deletions \in 0 .. MaxDeletes /\ externals \in 0 .. MaxExternal
    /\ known \subseteq Sessions /\ doomed \subseteq Sessions
    /\ skew \subseteq Sessions /\ lapse \subseteq Sessions

Quiet == \A p \in Tasks : task[p] = Idle

\* A session that nobody deleted stays in the index, whatever becomes of its
\* metadata: corruption never looks like deletion.  The exceptions are a session
\* that was written to while a refresh or a rescan was reading, and a corrupt one
\* that the catalog had lost when a refresh or a rescan met it.
NothingVanishes ==
    \A s \in Sessions : Created(s) /\ index[s] = None => s \in doomed \cup skew \cup lapse

\* When nothing runs, the index says of a session what its files say, unless a
\* write met a reader or an outsider changed the files, and nobody has read
\* them undisturbed since.
Truth(s) == IF Healthy(s) = {} THEN None ELSE file[s][Scan[s].dir]
IndexAgrees ==
    Quiet => \A s \in Sessions : s \in skew \cup lapse \/ Corrupt(s) \/ index[s] = Truth(s)

\* When nothing runs, the catalog never names a directory that holds no session:
\* the next write would create it anew, beside the session's own or in place of
\* one in the trash.
CatalogSound ==
    Quiet => \A s \in Sessions : \/ s \in skew \cup lapse
                                 \/ catalog[s] = None
                                 \/ file[s][catalog[s]].meta # "gone"

\* A rescan does not drop a session because its metadata no longer parse, when
\* no write or edit met a reader: "corruption must never look like deletion"
\* (index.rs, rebuild.rs).  The code breaks this: a rescan protects what the
\* catalog knows, and the catalog may lack a session that the index has.
CorruptionIsNotDeletion ==
    [][\A p \in Readers, s \in Sessions :
          /\ task[p].op = "rescan" /\ task'[p] = Idle
          /\ Corrupt(s) /\ s \notin skew
          /\ index[s] # None
          => index'[s] # None]_vars
=============================================================================
