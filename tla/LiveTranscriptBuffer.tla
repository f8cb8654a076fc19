------------------------ MODULE LiveTranscriptBuffer ------------------------
(***************************************************************************)
(* The debounced transcript writer of vault-write (transcript.rs), for one  *)
(* session.  Live words are buffered in memory and are nowhere else until a *)
(* flush lands them in transcript.json.  A flush copies the buffer under    *)
(* the live lock, lets go, waits for the store-wide write lock and then     *)
(* merges its copy into the file: appends, other flushes, batch writes,     *)
(* speaker renames and vault moves come between.  Each step below is what   *)
(* one task does while it holds one lock, or between two locks.             *)
(*                                                                          *)
(* Words are model values and the words of a buffer or an entry are a set:  *)
(* their order is the appends'.  Of the hints only "this entry carries a    *)
(* speaker label" is kept.  Time is abstract: a debounce may fire at any    *)
(* moment.  The lock's queue is abstract as well: between the copy and the  *)
(* wait a task can be overtaken, so every order of acquisition is possible. *)
(***************************************************************************)
EXTENDS Naturals, FiniteSets

CONSTANTS
    Flushers,     \* the debounce tasks that may exist at once (a bound)
    Callers,      \* the commands that may run at once (a bound)
    Transcripts,  \* transcript ids of the session
    Spoken,       \* live words, each appended once
    BatchWord,    \* what a batch run writes
    FailingOps,   \* the operations whose file access may fail
    MaxFail,      \* how often it may fail (a bound)
    None          \* no transcript yet, nobody holds the lock

Pcs == {"idle", "asleep", "want", "write", "failed", "resume", "found", "label",
        "settle", "frozen"}
Ops == {"none", "debounce", "flush", "switch", "write", "replace", "assign", "freeze"}

ASSUME TasksAssumption == Flushers \cap Callers = {} /\ None \notin Flushers \cup Callers
ASSUME NoneAssumption == None \notin Transcripts
ASSUME BatchAssumption == BatchWord \notin Spoken
ASSUME FailAssumption == FailingOps \subseteq Ops /\ MaxFail \in Nat

VARIABLES
    live,       \* the LiveTranscriptBuffer of the session
    disk,       \* transcript.json, one entry per transcript
    lock,       \* holder of the store-wide write lock
    task,       \* where every task is, and what it carries
    failures,   \* file accesses that failed so far
    fate,       \* history: what has become of every live word
    batched,    \* history: transcripts whose batch words landed
    older,      \* history: per task, the unlanded content older than its own
    stale,      \* history: tasks whose content was overtaken on the file
    lapse       \* history: one of the unguarded windows was hit:
                \*   a copy landed after newer content of its transcript had,
                \*   a flush failed whose words had left the buffer meanwhile,
                \*   a switch of transcripts cleared a buffer dirty again,
                \*   a switch went on to a transcript that had come and gone

fileVars == <<disk, lock, failures>>
history == <<fate, batched, older, stale, lapse>>
vars == <<live, fileVars, task, history>>

Tasks == Flushers \cup Callers
Words == Spoken \cup {BatchWord}
NoEntry == [there |-> FALSE, words |-> {}, label |-> FALSE]
Entry == [there : BOOLEAN, words : SUBSET Words, label : BOOLEAN]
TaskState == [pc : Pcs, op : Ops, tid : Transcripts \cup {None}, words : SUBSET Words,
              next : Transcripts \cup {None} \cup (Transcripts \X Spoken),
              read : [Transcripts -> Entry]]
Fate == [tid : Transcripts \cup {None}, is : {"unsaid", "owed", "replaced", "superseded"}]
Unsaid == [tid |-> None, is |-> "unsaid"]
Idle == [pc |-> "idle", op |-> "none", tid |-> None, words |-> {},
         next |-> None, read |-> [t \in Transcripts |-> NoEntry]]
-----------------------------------------------------------------------------
\* A task whose content is fixed and has not landed: it waits for the lock,
\* writes, or is about to mark the buffer dirty again.
InFlight == {p \in Tasks : task[p].pc \in {"want", "write", "failed"}}

Touches(p, op, t) == op = "replace" \/ task[p].op = "replace" \/ task[p].tid = t

\* Content fixed now is newer than that of every task in flight.
FixContent(p, op, t) ==
    /\ older' = [q \in Tasks |-> IF q = p THEN {r \in InFlight \ {p} : Touches(r, op, t)}
                                          ELSE older[q] \ {p}]
    /\ stale' = stale \ {p}

\* Content that lands makes the older content in flight stale; stale content
\* that lands itself is the first window.
NoteLanding(p) ==
    /\ stale' = (stale \cup older[p]) \ {p}
    /\ older' = [q \in Tasks |-> IF q = p THEN {} ELSE older[q] \ {p}]
    /\ lapse' = (lapse \/ p \in stale)

\* Content that is given up.
GiveUp(p) ==
    /\ stale' = stale \ {p}
    /\ older' = [q \in Tasks |-> IF q = p THEN {} ELSE older[q] \ {p}]

Init ==
    /\ live = [tid |-> None, words |-> {}, dirty |-> FALSE]
    /\ disk = [t \in Transcripts |-> NoEntry]
    /\ lock = None
    /\ task = [p \in Tasks |-> Idle]
    /\ failures = 0
    /\ fate = [w \in Spoken |-> Unsaid]
    /\ batched = {}
    /\ older = [p \in Tasks |-> {}]
    /\ stale = {} /\ lapse = FALSE
-----------------------------------------------------------------------------
(* The buffer *)

\* Mutant: the buffer is never looked at.
NeverDirty(t) == FALSE

\* A word of another transcript finds unflushed words.
SwitchDirty(t) == live.dirty /\ live.tid \notin {None, t}

\* The second half of append_transcript, in one hold of the live lock.
Buffered(t, w, replaced) ==
    [tid   |-> t,
     words |-> (IF live.tid = t THEN live.words \ replaced ELSE {}) \cup {w},
     dirty |-> TRUE]

\* Mutant: a buffer with words in it is taken for one that has a task.
SpawnIfEmpty(tasks, wasDirty) ==
    IF wasDirty \/ live.words # {} THEN task' = tasks
    ELSE \E f \in Flushers :
            /\ tasks[f].pc = "idle"
            /\ task' = [tasks EXCEPT ![f] = [Idle EXCEPT !.pc = "asleep"]]

\* Only the step from clean to dirty spawns a debounce task.
SpawnFlusher(tasks, wasDirty) ==
    IF wasDirty THEN task' = tasks
    ELSE \E f \in Flushers :
            /\ tasks[f].pc = "idle"
            /\ task' = [tasks EXCEPT ![f] = [Idle EXCEPT !.pc = "asleep"]]

NoteSpoken(t, w, replaced) ==
    fate' = [v \in Spoken |-> IF v = w THEN [tid |-> t, is |-> "owed"]
                              ELSE IF v \in replaced THEN [fate[v] EXCEPT !.is = "replaced"]
                              ELSE fate[v]]

Append(p, t, w, replaced) ==
    /\ task[p] = Idle
    /\ ~ SwitchDirty(t)
    /\ live' = Buffered(t, w, replaced)
    /\ SpawnFlusher(task, live.dirty)
    /\ NoteSpoken(t, w, replaced)
    /\ UNCHANGED <<fileVars, batched, older, stale, lapse>>

\* The copy a flush takes; dirty is cleared before the I/O.
TakeCopy(p, op, next) ==
    /\ live.dirty
    /\ live' = [live EXCEPT !.dirty = FALSE]
    /\ task' = [task EXCEPT ![p] = [Idle EXCEPT !.pc = "want", !.op = op, !.tid = live.tid,
                                                !.words = live.words, !.next = next]]
    /\ FixContent(p, op, live.tid)
    /\ UNCHANGED <<fileVars, fate, batched, lapse>>

\* A word of another transcript: the dirty buffer is flushed first.  The word
\* itself is next; it is not acknowledged before AppendAfterSwitch.
AppendSwitch(p, t, w) ==
    /\ task[p] = Idle
    /\ SwitchDirty(t)
    /\ TakeCopy(p, "switch", <<t, w>>)

\* Other appends have brought words of the new transcript meanwhile, and a third
\* has taken the buffer since: the next flush of the new one will not hold them.
ComesBack(t) ==
    live.tid # t /\ \E v \in Spoken : fate[v] = [tid |-> t, is |-> "owed"]

\* Under a new hold of the live lock: whatever the buffer holds by now of
\* another transcript is cleared, also if it is dirty again (a window).  That
\* the transcript is the buffer's, or new, is not looked at again (a window).
AppendAfterSwitch(p) ==
    /\ task[p].pc = "resume"
    /\ LET t == task[p].next[1]
           w == task[p].next[2]
       IN  /\ live' = Buffered(t, w, {})
           /\ SpawnFlusher([task EXCEPT ![p] = Idle], live.dirty)
           /\ NoteSpoken(t, w, {})
           /\ lapse' = (lapse \/ SwitchDirty(t) \/ ComesBack(t))
    /\ UNCHANGED <<fileVars, batched, older, stale>>
-----------------------------------------------------------------------------
(* Flushing *)

FlushNow(p) ==
    /\ task[p] = Idle
    /\ TakeCopy(p, "flush", None)

\* The debounce is over: copy, or find the buffer clean and end.
Wake(f) ==
    /\ task[f].pc = "asleep"
    /\ \/ TakeCopy(f, "debounce", None)
       \/ /\ ~ live.dirty
          /\ task' = [task EXCEPT ![f] = Idle]
          /\ UNCHANGED <<live, fileVars, history>>

\* Mutant: no lock around read, merge and write.
AcquireUnlocked(p) ==
    /\ task[p].pc = "want"
    /\ lock' = p
    /\ task' = [task EXCEPT ![p] = [@ EXCEPT !.pc = "write", !.read = disk]]
    /\ UNCHANGED <<live, disk, failures, history>>

\* persist_transcript: the lock, then the file as it is now.
Acquire(p) ==
    /\ task[p].pc = "want"
    /\ lock = None
    /\ lock' = p
    /\ task' = [task EXCEPT ![p] = [@ EXCEPT !.pc = "write", !.read = disk]]
    /\ UNCHANGED <<live, disk, failures, history>>

Merged(p) ==
    LET new == [there |-> TRUE, words |-> task[p].words, label |-> FALSE]
    IN  IF task[p].op = "replace"
        THEN [t \in Transcripts |-> IF t = task[p].tid THEN new ELSE NoEntry]
        ELSE [task[p].read EXCEPT ![task[p].tid] = new]

AfterLanding(p) ==
    LET goOn(pc) == [Idle EXCEPT !.pc = pc, !.op = task[p].op, !.next = task[p].next]
    IN  CASE task[p].op = "switch" -> goOn("resume")
          [] task[p].op = "assign" -> goOn("label")
          [] task[p].op = "freeze" -> goOn("settle")
          [] OTHER -> Idle

\* The merged file is renamed over the old one.  Only a rename of a speaker
\* keeps the lock.
Land(p) ==
    /\ task[p].pc = "write"
    /\ disk' = Merged(p)
    /\ task' = [task EXCEPT ![p] = AfterLanding(p)]
    /\ lock' = IF task[p].op = "assign" THEN p ELSE None
    /\ batched' = CASE task[p].op = "write"   -> batched \cup {task[p].tid}
                    [] task[p].op = "replace" -> {task[p].tid}
                    [] OTHER -> batched
    /\ NoteLanding(p)
    /\ UNCHANGED <<live, failures, fate>>

\* The file access fails: a flush will mark the buffer dirty again, a batch
\* write has nothing to undo.
Fail(p) ==
    /\ task[p].pc = "write"
    /\ task[p].op \in FailingOps
    /\ failures < MaxFail
    /\ failures' = failures + 1
    /\ lock' = IF task[p].op = "assign" THEN p ELSE None
    /\ IF task[p].op \in {"write", "replace"}
       THEN /\ task' = [task EXCEPT ![p] = Idle]
            /\ GiveUp(p)
       ELSE /\ task' = [task EXCEPT ![p] = [@ EXCEPT !.pc = "failed", !.read = Idle.read]]
            /\ UNCHANGED <<older, stale>>
    /\ UNCHANGED <<live, disk, fate, batched, lapse>>

\* A replace that fails after it has moved the old file to the trash.
FailTrashed(p) ==
    /\ task[p].pc = "write"
    /\ task[p].op = "replace" /\ "replace" \in FailingOps
    /\ failures < MaxFail
    /\ failures' = failures + 1
    /\ \E t \in Transcripts \ {task[p].tid} : disk[t].there
    /\ disk' = [t \in Transcripts |-> NoEntry]
    /\ batched' = {}
    /\ lock' = None
    /\ task' = [task EXCEPT ![p] = Idle]
    /\ NoteLanding(p)
    /\ UNCHANGED <<live, fate>>

\* The copy that failed to land is no longer in the buffer (a window).
Orphaned(p) ==
    \/ live.tid # task[p].tid
    \/ \E w \in task[p].words \ live.words : fate[w].is # "replaced"

\* A failed flush marks the buffer dirty; the debounce task tries again, any
\* other caller reports the error and is done.
Redirty(p) ==
    /\ task[p].pc = "failed"
    /\ live' = [live EXCEPT !.dirty = TRUE]
    /\ lapse' = (lapse \/ Orphaned(p))
    /\ task' = [task EXCEPT ![p] = IF p \in Flushers THEN [Idle EXCEPT !.pc = "asleep"] ELSE Idle]
    /\ lock' = IF lock = p THEN None ELSE lock
    /\ GiveUp(p)
    /\ UNCHANGED <<disk, failures, fate, batched>>
-----------------------------------------------------------------------------
(* Batch writes, speaker renames and vault moves *)

\* Mutant: the buffer stays dirty.
ClearedWords(op, t) ==
    IF op = "replace" \/ live.tid = t THEN [live EXCEPT !.words = {}] ELSE live

\* A replace supersedes whatever is buffered, a write its own transcript.
Cleared(op, t) ==
    IF op = "replace" \/ live.tid = t
    THEN [live EXCEPT !.words = {}, !.dirty = FALSE] ELSE live

\* write_transcript and replace_session_transcripts: the buffer they supersede
\* is cleared under the live lock, then they wait for the write lock.  The
\* desktop queues a session's batch writes one after the other.
BatchClear(p, op, t) ==
    /\ task[p] = Idle
    /\ \A q \in Callers : task[q].op \notin {"write", "replace"}
    /\ live' = Cleared(op, t)
    /\ task' = [task EXCEPT ![p] = [Idle EXCEPT !.pc = "want", !.op = op, !.tid = t,
                                                !.words = {BatchWord}]]
    /\ FixContent(p, op, t)
    /\ fate' = [w \in Spoken |-> IF fate[w] # Unsaid /\ (op = "replace" \/ fate[w].tid = t)
                                 THEN [fate[w] EXCEPT !.is = "superseded"] ELSE fate[w]]
    /\ batched' = IF op = "replace" THEN {} ELSE batched \ {t}
    /\ UNCHANGED <<fileVars, lapse>>

\* assign_transcript_speaker finds the session by the transcript, takes the
\* write lock, and lands a dirty buffer first.
AssignFind(p, t) ==
    /\ task[p] = Idle
    /\ disk[t].there
    /\ task' = [task EXCEPT ![p] = [Idle EXCEPT !.pc = "found", !.op = "assign", !.next = t]]
    /\ UNCHANGED <<live, fileVars, history>>

AssignLock(p) ==
    /\ task[p].pc = "found"
    /\ lock = None
    /\ lock' = p
    /\ IF live.dirty
       THEN /\ live' = [live EXCEPT !.dirty = FALSE]
            /\ task' = [task EXCEPT ![p] = [@ EXCEPT !.pc = "write", !.tid = live.tid,
                                                     !.words = live.words, !.read = disk]]
            /\ FixContent(p, "assign", live.tid)
       ELSE /\ task' = [task EXCEPT ![p].pc = "label"]
            /\ UNCHANGED <<live, older, stale>>
    /\ UNCHANGED <<disk, failures, fate, batched, lapse>>

\* Then the label is added to the entry, if it is still there.
AssignLabel(p) ==
    /\ task[p].pc = "label"
    /\ LET t == task[p].next
       IN  /\ disk' = IF disk[t].there THEN [disk EXCEPT ![t].label = TRUE] ELSE disk
           /\ stale' = IF disk[t].there
                       THEN stale \cup {q \in InFlight : Touches(q, "assign", t)} ELSE stale
    /\ lock' = None
    /\ task' = [task EXCEPT ![p] = Idle]
    /\ UNCHANGED <<live, failures, fate, batched, older, lapse>>

\* freeze_for_vault_move: flush, lock, refuse if the buffer is dirty again.
\* The other ground to refuse, a recording lease, is RecordingLease's.
FreezeBegin(p) ==
    /\ task[p] = Idle
    /\ \/ TakeCopy(p, "freeze", None)
       \/ /\ ~ live.dirty
          /\ task' = [task EXCEPT ![p] = [Idle EXCEPT !.pc = "settle", !.op = "freeze"]]
          /\ UNCHANGED <<live, fileVars, history>>

FreezeLock(p) ==
    /\ task[p].pc = "settle"
    /\ lock = None
    /\ IF live.dirty THEN lock' = lock /\ task' = [task EXCEPT ![p] = Idle]
       ELSE lock' = p /\ task' = [task EXCEPT ![p].pc = "frozen"]
    /\ UNCHANGED <<live, disk, failures, history>>

Thaw(p) ==
    /\ task[p].pc = "frozen"
    /\ lock' = None
    /\ task' = [task EXCEPT ![p] = Idle]
    /\ UNCHANGED <<live, disk, failures, history>>
-----------------------------------------------------------------------------
\* Words that no append has brought or is about to bring.
Upcoming ==
    {w \in Spoken : /\ fate[w] = Unsaid
                    /\ \A p \in Callers : task[p].next \notin Transcripts \X {w}}

\* The words a final may replace: at most one here (a bound).
Replaceable(t) == {{}} \cup {{w} : w \in IF live.tid = t THEN live.words ELSE {}}

\* A recording appends to a transcript id of its own, made up when it starts.
Fresh(t) ==
    /\ \A w \in Spoken : fate[w].tid # t
    /\ ~ disk[t].there
    /\ \A p \in InFlight : task[p].tid # t

Speak(p) == \E t \in {x \in Transcripts : x = live.tid \/ Fresh(x)}, w \in Upcoming :
    \/ \E r \in Replaceable(t) : Append(p, t, w, r)
    \/ AppendSwitch(p, t, w)

Batch(p) == \E t \in Transcripts, op \in {"write", "replace"} : BatchClear(p, op, t)

Assign(p) == \E t \in Transcripts : AssignFind(p, t)

Step(p) ==
    \/ Acquire(p) \/ Land(p) \/ Redirty(p)
    \/ AppendAfterSwitch(p) \/ AssignLock(p) \/ AssignLabel(p)
    \/ FreezeLock(p) \/ Thaw(p)

Next ==
    \/ \E p \in Callers : Speak(p) \/ FlushNow(p) \/ Batch(p) \/ Assign(p) \/ FreezeBegin(p)
    \/ \E f \in Flushers : Wake(f)
    \/ \E p \in Tasks : Step(p) \/ Fail(p) \/ FailTrashed(p)

Spec == Init /\ [][Next]_vars

-----------------------------------------------------------------------------
(***************************************************************************)
(* Properties                                                              *)
(***************************************************************************)
TypeOK ==
    /\ live \in [tid : Transcripts \cup {None}, words : SUBSET Spoken, dirty : BOOLEAN]
    /\ disk \in [Transcripts -> Entry]
    /\ lock \in Tasks \cup {None}
    /\ task \in [Tasks -> TaskState]
    /\ failures \in 0 .. MaxFail
    /\ fate \in [Spoken -> Fate]
    /\ batched \subseteq Transcripts
    /\ older \in [Tasks -> SUBSET Tasks]
    /\ stale \subseteq Tasks
    /\ lapse \in BOOLEAN

Owed(w) == fate[w].is = "owed"
OnDisk(w) == w \in disk[fate[w].tid].words
Carried(w) == \E p \in InFlight : task[p].tid = fate[w].tid /\ w \in task[p].words
WillBeFlushed(w) == live.dirty /\ live.tid = fate[w].tid /\ w \in live.words

\* A live word that was accepted and neither replaced nor superseded by a batch
\* is in the file, on its way there in some task's copy, or in a buffer marked
\* dirty: never only in a buffer that looks flushed, and never nowhere.  It
\* holds until one of the windows named by lapse is hit.
NothingForgotten ==
    lapse \/ \A w \in Spoken : Owed(w) => OnDisk(w) \/ Carried(w) \/ WillBeFlushed(w)

\* A dirty buffer always has a debounce task that has still to look at it, so no
\* word waits for the next explicit flush: although only the step from clean to
\* dirty spawns one, and explicit flushes, batch writes and renames clean the
\* buffer behind its back.
DirtyHasFlusher == live.dirty => \E f \in Flushers : task[f].pc = "asleep"

\* After a batch write has landed, the file holds of that transcript the batch's
\* words and live words that were appended later: no pending debounced flush
\* brings the superseded words back, or writes the emptied buffer over it.
SupersededStaysOut ==
    lapse \/ \A t \in batched :
        LET since == {w \in Spoken : fate[w].tid = t /\ fate[w].is \in {"owed", "replaced"}}
        IN  /\ disk[t].words \subseteq since \cup {BatchWord}
            /\ since = {} => disk[t].words = {BatchWord}

\* transcript.json holds every transcript of the session, and each write rewrites
\* all of it: a write for one transcript must leave every other entry as it is
\* at that moment, whatever was written while it waited.  Only a replace may
\* drop entries.
KeepsOthers ==
    [][\A t \in Transcripts : disk'[t] # disk[t] =>
          \E p \in Tasks : /\ task'[p] # task[p]
                           /\ \/ task[p].op = "replace"
                              \/ task[p].pc = "write" /\ task[p].tid = t
                              \/ task[p].pc = "label" /\ task[p].next = t]_vars

\* When freeze_for_vault_move has frozen the store, every live word accepted so
\* far is in the file, so the vault is copied with it: lib.rs says it "flushes
\* the live transcript buffers first -- those words exist nowhere else".  The
\* code breaks this: a flush that has taken its copy has already marked the
\* buffer clean and waits for the lock the freeze holds.
FrozenIsComplete ==
    [][\A p \in Callers : task[p].pc # "frozen" /\ task'[p].pc = "frozen" =>
          \A w \in Spoken : Owed(w) => OnDisk(w)]_vars
=============================================================================
