--------------------- MODULE LiveTranscriptBufferProofs ---------------------
(* Theorems about LiveTranscriptBuffer, for every set of tasks, transcripts  *)
(* and words.                                                                *)
EXTENDS LiveTranscriptBuffer, TLAPS

(***************************************************************************)
(* Type correctness                                                        *)
(***************************************************************************)
\* What a task that switches transcripts carries is a transcript and a word; a
\* task in flight has content for some transcript; a batch write has nothing to
\* undo.
SoundTask ==
    {s \in TaskState : /\ s.op = "switch" => s.next \in Transcripts \X Spoken
                       /\ s.pc = "resume" => s.op = "switch"
                       /\ s.pc \in {"want", "write", "failed"} => s.tid \in Transcripts
                       /\ s.pc = "failed" => s.op \notin {"write", "replace"}}

\* A buffer that was never used is clean, and nobody has a copy of it.
LiveNamed ==
    live.tid = None =>
        /\ ~ live.dirty
        /\ \A p \in Tasks : task[p].pc \in {"want", "write", "failed"} =>
               task[p].op \in {"write", "replace"}

TypeInv == TypeOK /\ task \in [Tasks -> SoundTask] /\ LiveNamed

\* An idle task is a task state.
LEMMA IdleType == Idle \in SoundTask /\ [Idle EXCEPT !.pc = "asleep"] \in SoundTask
<1>1. Idle \in TaskState /\ Idle.op = "none" /\ Idle.pc = "idle"
  BY DEF Idle, TaskState, Pcs, Ops, NoEntry, Entry, Words
<1>2. [Idle EXCEPT !.pc = "asleep"] \in TaskState
  BY <1>1 DEF TaskState, Pcs
<1>3. [Idle EXCEPT !.pc = "asleep"].op = "none" /\ [Idle EXCEPT !.pc = "asleep"].pc = "asleep"
  BY DEF Idle
<1> QED
  BY <1>1, <1>2, <1>3 DEF SoundTask

LEMMA IdlePc == Idle.pc = "idle"
BY DEF Idle

\* The initial state is type correct.
LEMMA InitType == Init => TypeInv
<1> SUFFICES ASSUME Init PROVE TypeInv
  OBVIOUS
<1>1. task \in [Tasks -> SoundTask]
  BY IdleType DEF Init
<1>5. task \in [Tasks -> TaskState]
  BY <1>1 DEF SoundTask
<1>2. fate \in [Spoken -> Fate]
  BY DEF Init, Unsaid, Fate
<1>3. disk \in [Transcripts -> Entry]
  BY DEF Init, NoEntry, Entry, Words
<1>4. failures \in 0 .. MaxFail
  BY FailAssumption DEF Init
<1>6. LiveNamed
  BY DEF Init, LiveNamed, Idle
<1> QED
  BY <1>1, <1>2, <1>3, <1>4, <1>5, <1>6 DEF Init, TypeInv, TypeOK

\* The bookkeeping of overtaken content keeps its types.
LEMMA FixContentType ==
    ASSUME TypeOK, NEW p \in Tasks, NEW op, NEW t, FixContent(p, op, t)
    PROVE  older' \in [Tasks -> SUBSET Tasks] /\ stale' \in SUBSET Tasks
BY DEF TypeOK, FixContent, InFlight

LEMMA NoteLandingType ==
    ASSUME TypeOK, NEW p \in Tasks, NoteLanding(p)
    PROVE  older' \in [Tasks -> SUBSET Tasks] /\ stale' \in SUBSET Tasks /\ lapse' \in BOOLEAN
<1>1. older' \in [Tasks -> SUBSET Tasks]
  BY DEF TypeOK, NoteLanding
<1>2. stale' \in SUBSET Tasks
  BY DEF TypeOK, NoteLanding
<1>3. lapse' \in BOOLEAN
  BY DEF TypeOK, NoteLanding
<1> QED
  BY <1>1, <1>2, <1>3

LEMMA GiveUpType ==
    ASSUME TypeOK, NEW p \in Tasks, GiveUp(p)
    PROVE  older' \in [Tasks -> SUBSET Tasks] /\ stale' \in SUBSET Tasks
BY DEF TypeOK, GiveUp

\* So does a word that is accepted, and the buffer it is put in.
LEMMA SpokenType ==
    ASSUME TypeOK, NEW t \in Transcripts, NEW w \in Spoken, NEW r, NoteSpoken(t, w, r)
    PROVE  fate' \in [Spoken -> Fate]
<1>1. \A v \in Spoken : fate[v] \in Fate
  BY DEF TypeOK
<1>2. \A v \in Spoken : [fate[v] EXCEPT !.is = "replaced"] \in Fate
  BY <1>1 DEF Fate
<1>3. [tid |-> t, is |-> "owed"] \in Fate
  BY DEF Fate
<1> QED
  BY <1>1, <1>2, <1>3 DEF NoteSpoken

LEMMA BufferedType ==
    ASSUME TypeOK, NEW t \in Transcripts, NEW w \in Spoken, NEW r
    PROVE  Buffered(t, w, r) \in [tid : Transcripts \cup {None}, words : SUBSET Spoken,
                                  dirty : BOOLEAN]
<1>1. live.words \in SUBSET Spoken
  BY DEF TypeOK
<1> QED
  BY <1>1 DEF Buffered

LEMMA SpawnType ==
    ASSUME NEW tasks \in [Tasks -> SoundTask], NEW b, SpawnFlusher(tasks, b)
    PROVE  task' \in [Tasks -> SoundTask]
BY IdleType DEF SpawnFlusher, Tasks

\* One task takes a sound state.
LEMMA TaskUpdate ==
    ASSUME TypeInv, NEW p, NEW s \in SoundTask, task' = [task EXCEPT ![p] = s]
    PROVE  task' \in [Tasks -> SoundTask]
BY DEF TypeInv

\* A buffer with a name is as it should be.
LEMMA NamedSuffices == ASSUME live'.tid \in Transcripts PROVE LiveNamed'
BY NoneAssumption DEF LiveNamed

\* A step that copies nothing from the buffer.
LEMMA NamedKept ==
    ASSUME TypeInv, NEW p, live'.tid = live.tid, live'.dirty => live.dirty,
           NEW s \in SoundTask, task' = [task EXCEPT ![p] = s],
           \/ s.pc \notin {"want", "write", "failed"}
           \/ s.op \in {"write", "replace"}
           \/ s.op = task[p].op /\ task[p].pc \in {"want", "write", "failed"}
    PROVE  LiveNamed'
<1> SUFFICES ASSUME live.tid = None
             PROVE  /\ ~ live'.dirty
                    /\ \A q \in Tasks : task'[q].pc \in {"want", "write", "failed"} =>
                           task'[q].op \in {"write", "replace"}
  BY DEF LiveNamed
<1>1. \A q \in Tasks : task'[q] = task[q] \/ (q = p /\ task'[q] = s)
  BY DEF TypeInv
<1> QED
  BY <1>1 DEF TypeInv, LiveNamed

\* It is enough to show the variables that change.
LEMMA SoundIsTyped == [Tasks -> SoundTask] \subseteq [Tasks -> TaskState]
BY DEF SoundTask

\* An append.
LEMMA AppendType ==
    ASSUME TypeInv, NEW p \in Callers, NEW t \in Transcripts, NEW w \in Spoken, NEW r,
           Append(p, t, w, r)
    PROVE  TypeInv'
<1>1. task' \in [Tasks -> SoundTask]
  BY SpawnType DEF Append, TypeInv
<1>2. fate' \in [Spoken -> Fate]
  BY SpokenType DEF Append, TypeInv
<1>3. live' \in [tid : Transcripts \cup {None}, words : SUBSET Spoken, dirty : BOOLEAN]
  BY BufferedType DEF Append, TypeInv
<1>4. LiveNamed'
  BY NamedSuffices DEF Append, Buffered
<1> QED
  BY <1>1, <1>2, <1>3, <1>4, SoundIsTyped DEF Append, TypeInv, TypeOK, fileVars

\* A copy for a flush.
LEMMA TakeCopyType ==
    ASSUME TypeInv, NEW p \in Tasks, NEW op \in Ops,
           NEW next \in Transcripts \cup {None} \cup (Transcripts \X Spoken),
           op = "switch" => next \in Transcripts \X Spoken, TakeCopy(p, op, next)
    PROVE  TypeInv'
<1> DEFINE s == [Idle EXCEPT !.pc = "want", !.op = op, !.tid = live.tid,
                             !.words = live.words, !.next = next]
<1>1. live.tid \in Transcripts /\ live.words \in SUBSET Words
  BY DEF TypeInv, TypeOK, Words, TakeCopy, LiveNamed
<1>2. s \in TaskState
  BY <1>1, IdleType DEF SoundTask, TaskState, Pcs
<1>3. s.op = op /\ s.next = next /\ s.pc = "want" /\ s.tid = live.tid
  BY DEF Idle
<1>4. s \in SoundTask
  BY <1>1, <1>2, <1>3 DEF SoundTask
<1>5. task' \in [Tasks -> SoundTask]
  <2>1. task' = [task EXCEPT ![p] = s]
    BY DEF TakeCopy
  <2> QED
    BY <1>4, <2>1, TaskUpdate
<1>6. live' \in [tid : Transcripts \cup {None}, words : SUBSET Spoken, dirty : BOOLEAN]
  BY DEF TypeInv, TypeOK, TakeCopy
<1>7. older' \in [Tasks -> SUBSET Tasks] /\ stale' \in SUBSET Tasks
  BY FixContentType DEF TypeInv, TakeCopy
<1>8. LiveNamed'
  BY <1>1, NamedSuffices DEF TakeCopy, TypeInv, TypeOK
<1> QED
  BY <1>5, <1>6, <1>7, <1>8, SoundIsTyped DEF TypeInv, TypeOK, TakeCopy, fileVars

\* The buffer is taken over for another transcript.
LEMMA AppendAfterSwitchType ==
    ASSUME TypeInv, NEW p \in Tasks, AppendAfterSwitch(p)
    PROVE  TypeInv'
<1>1. PICK t \in Transcripts, w \in Spoken : task[p].next = <<t, w>>
  BY DEF TypeInv, SoundTask, AppendAfterSwitch
<1>2. /\ live' = Buffered(t, w, {})
      /\ SpawnFlusher([task EXCEPT ![p] = Idle], live.dirty)
      /\ NoteSpoken(t, w, {})
      /\ lapse' = (lapse \/ SwitchDirty(t) \/ ComesBack(t))
  BY <1>1 DEF AppendAfterSwitch
<1>3. [task EXCEPT ![p] = Idle] \in [Tasks -> SoundTask]
  BY IdleType DEF TypeInv
<1>4. task' \in [Tasks -> SoundTask]
  BY <1>2, <1>3, SpawnType
<1>5. fate' \in [Spoken -> Fate]
  BY <1>2, SpokenType DEF TypeInv
<1>6. live' \in [tid : Transcripts \cup {None}, words : SUBSET Spoken, dirty : BOOLEAN]
  BY <1>2, BufferedType DEF TypeInv
<1>7. lapse' \in BOOLEAN
  BY <1>2 DEF SwitchDirty, ComesBack, TypeInv, TypeOK
<1>8. LiveNamed'
  BY <1>2, NamedSuffices DEF Buffered
<1> QED
  BY <1>4, <1>5, <1>6, <1>7, <1>8, SoundIsTyped
     DEF AppendAfterSwitch, TypeInv, TypeOK, fileVars

\* A debounce task that finds the buffer clean.
LEMMA WakeType ==
    ASSUME TypeInv, NEW f \in Flushers, Wake(f)
    PROVE  TypeInv'
<1>1. CASE TakeCopy(f, "debounce", None)
  BY <1>1, TakeCopyType DEF Tasks, Ops
<1>2. CASE task' = [task EXCEPT ![f] = Idle] /\ UNCHANGED <<live, fileVars, history>>
  <2>1. LiveNamed'
    BY <1>2, IdleType, IdlePc, NamedKept
  <2> QED
    BY <1>2, <2>1, IdleType, TaskUpdate, SoundIsTyped DEF TypeInv, TypeOK, fileVars, history
<1> QED
  BY <1>1, <1>2 DEF Wake

\* A task moves on and reads the file, or forgets what it read.
Moved(x, pc, r) == [x EXCEPT !.pc = pc, !.read = r]

LEMMA MovedType ==
    ASSUME NEW x \in SoundTask, NEW pc \in Pcs, NEW r \in [Transcripts -> Entry]
    PROVE  /\ Moved(x, pc, r) \in TaskState
           /\ Moved(x, pc, r).pc = pc
           /\ Moved(x, pc, r).op = x.op
           /\ Moved(x, pc, r).tid = x.tid
           /\ Moved(x, pc, r).next = x.next
BY DEF SoundTask, TaskState, Moved

\* A task reads the file under the lock.
LEMMA AcquireType ==
    ASSUME TypeInv, NEW p \in Tasks, Acquire(p)
    PROVE  TypeInv'
<1>1. Moved(task[p], "write", disk) \in SoundTask
  <2>1. disk \in [Transcripts -> Entry]
    BY DEF TypeInv, TypeOK
  <2>2. task[p] \in SoundTask /\ task[p].pc = "want" /\ "write" \in Pcs
    BY DEF Acquire, TypeInv, Pcs
  <2> QED
    BY <2>1, <2>2, MovedType DEF SoundTask
<1>2. task' \in [Tasks -> SoundTask]
  BY <1>1, TaskUpdate DEF Acquire, Moved
<1>3. lock' \in Tasks \cup {None}
  BY DEF Acquire
<1>4. LiveNamed'
  <2> DEFINE s == Moved(task[p], "write", disk)
  <2>1. s.op = task[p].op /\ task[p].pc = "want"
    BY DEF Acquire, TypeInv, SoundTask, TaskState, Moved
  <2>2. task' = [task EXCEPT ![p] = s] /\ live' = live
    BY DEF Acquire, Moved
  <2> HIDE DEF s
  <2> QED
    BY <1>1, <2>1, <2>2, NamedKept DEF s
<1> QED
  BY <1>2, <1>3, <1>4, SoundIsTyped DEF Acquire, TypeInv, TypeOK, history

\* What a write leaves on the file are entries.
LEMMA MergedType ==
    ASSUME TypeInv, NEW p \in Tasks, task[p].pc = "write"
    PROVE  Merged(p) \in [Transcripts -> Entry]
<1> DEFINE new == [there |-> TRUE, words |-> task[p].words, label |-> FALSE]
<1>1. /\ task[p].words \in SUBSET Words
      /\ task[p].read \in [Transcripts -> Entry]
      /\ task[p].tid \in Transcripts
  BY DEF TypeInv, SoundTask, TaskState
<1>2. new \in Entry /\ NoEntry \in Entry
  BY <1>1 DEF Entry, NoEntry
<1>3. CASE task[p].op = "replace"
  <2>1. Merged(p) = [t \in Transcripts |-> IF t = task[p].tid THEN new ELSE NoEntry]
    BY <1>3 DEF Merged
  <2> HIDE DEF new
  <2> QED
    BY <1>2, <2>1
<1>4. CASE task[p].op # "replace"
  <2>1. Merged(p) = [task[p].read EXCEPT ![task[p].tid] = new]
    BY <1>4 DEF Merged
  <2> HIDE DEF new
  <2> QED
    BY <1>1, <1>2, <2>1
<1> QED
  BY <1>3, <1>4

LEMMA AfterLandingType ==
    ASSUME TypeInv, NEW p \in Tasks
    PROVE  AfterLanding(p) \in SoundTask
<1> DEFINE goOn(pc) == [Idle EXCEPT !.pc = pc, !.op = task[p].op, !.next = task[p].next]
<1>1. /\ task[p].op \in Ops
      /\ task[p].next \in Transcripts \cup {None} \cup (Transcripts \X Spoken)
      /\ task[p].op = "switch" => task[p].next \in Transcripts \X Spoken
  BY DEF TypeInv, SoundTask, TaskState
<1>2. ASSUME NEW pc \in {"resume", "label", "settle"}, pc = "resume" => task[p].op = "switch"
      PROVE  goOn(pc) \in SoundTask
  <2>1. goOn(pc) \in TaskState
    BY <1>1, IdleType DEF SoundTask, TaskState, Pcs
  <2>2. goOn(pc).pc = pc /\ goOn(pc).op = task[p].op /\ goOn(pc).next = task[p].next
    BY DEF Idle
  <2> QED
    BY <1>1, <1>2, <2>1, <2>2 DEF SoundTask
<1>3. CASE task[p].op = "switch"
  <2>1. AfterLanding(p) = goOn("resume")
    BY <1>3 DEF AfterLanding
  <2> QED
    BY <1>2, <1>3, <2>1
<1>4. CASE task[p].op = "assign"
  <2>1. AfterLanding(p) = goOn("label")
    BY <1>4 DEF AfterLanding
  <2> QED
    BY <1>2, <2>1
<1>5. CASE task[p].op = "freeze"
  <2>1. AfterLanding(p) = goOn("settle")
    BY <1>5 DEF AfterLanding
  <2> QED
    BY <1>2, <2>1
<1>6. CASE task[p].op \notin {"switch", "assign", "freeze"}
  BY <1>6, IdleType DEF AfterLanding
<1> QED
  BY <1>3, <1>4, <1>5, <1>6

LEMMA AfterLandingPc ==
    ASSUME NEW p PROVE AfterLanding(p).pc \in {"idle", "resume", "label", "settle"}
BY DEF AfterLanding, Idle

\* The merged file lands.
LEMMA LandType ==
    ASSUME TypeInv, NEW p \in Tasks, Land(p)
    PROVE  TypeInv'
<1>1. disk' \in [Transcripts -> Entry]
  BY MergedType DEF Land
<1>2. task' \in [Tasks -> SoundTask]
  BY AfterLandingType, TaskUpdate DEF Land
<1>3. lock' \in Tasks \cup {None}
  BY DEF Land
<1>4. batched' \subseteq Transcripts
  <2>1. CASE task[p].op = "write"
    BY <2>1 DEF Land, TypeInv, TypeOK, SoundTask
  <2>2. CASE task[p].op = "replace"
    BY <2>2 DEF Land, TypeInv, SoundTask
  <2>3. CASE task[p].op \notin {"write", "replace"}
    BY <2>3 DEF Land, TypeInv, TypeOK
  <2> QED
    BY <2>1, <2>2, <2>3
<1>5. older' \in [Tasks -> SUBSET Tasks] /\ stale' \in SUBSET Tasks /\ lapse' \in BOOLEAN
  BY NoteLandingType DEF Land, TypeInv
<1>6. LiveNamed'
  BY AfterLandingType, AfterLandingPc, NamedKept DEF Land
<1> QED
  BY <1>1, <1>2, <1>3, <1>4, <1>5, <1>6, SoundIsTyped DEF Land, TypeInv, TypeOK

\* A file access fails.
LEMMA FailType ==
    ASSUME TypeInv, NEW p \in Tasks, Fail(p) \/ FailTrashed(p)
    PROVE  TypeInv'
<1>1. failures' \in 0 .. MaxFail
  BY FailAssumption DEF Fail, FailTrashed, TypeInv, TypeOK
<1>2. lock' \in Tasks \cup {None}
  BY DEF Fail, FailTrashed
<1>3. older' \in [Tasks -> SUBSET Tasks] /\ stale' \in SUBSET Tasks /\ lapse' \in BOOLEAN
  <2>1. UNCHANGED <<older, stale, lapse>> => <1>3!1
    BY DEF TypeInv, TypeOK
  <2>2. CASE GiveUp(p) /\ lapse' = lapse
    BY <2>2, GiveUpType DEF TypeInv, TypeOK
  <2>3. CASE NoteLanding(p)
    BY <2>3, NoteLandingType DEF TypeInv
  <2> QED
    BY <2>1, <2>2, <2>3 DEF Fail, FailTrashed, TypeInv, TypeOK
<1>4. disk' \in [Transcripts -> Entry] /\ batched' \subseteq Transcripts
  <2>1. NoEntry \in Entry
    BY DEF NoEntry, Entry
  <2> QED
    BY <2>1 DEF Fail, FailTrashed, TypeInv, TypeOK
<1>5. PICK s \in SoundTask :
          /\ task' = [task EXCEPT ![p] = s]
          /\ \/ s.pc = "idle"
             \/ s.op = task[p].op /\ task[p].pc = "write"
  <2>1. CASE task' = [task EXCEPT ![p] = Idle]
    BY <2>1, IdleType, IdlePc
  <2>2. CASE /\ task' = [task EXCEPT ![p] = [@ EXCEPT !.pc = "failed", !.read = Idle.read]]
             /\ task[p].pc = "write"
             /\ task[p].op \notin {"write", "replace"}
    <3> DEFINE s == Moved(task[p], "failed", Idle.read)
    <3>1. Idle.read \in [Transcripts -> Entry]
      BY IdleType DEF SoundTask, TaskState
    <3>2. task[p] \in SoundTask /\ "failed" \in Pcs
      BY DEF TypeInv, Pcs
    <3>3. s \in SoundTask /\ s.op = task[p].op
      <4>1. /\ s \in TaskState
            /\ s.pc = "failed" /\ s.op = task[p].op /\ s.tid = task[p].tid
            /\ s.next = task[p].next
        BY <3>1, <3>2, MovedType
      <4> QED
        BY <2>2, <3>2, <4>1 DEF SoundTask
    <3>4. task' = [task EXCEPT ![p] = s]
      BY <2>2 DEF Moved
    <3> QED
      BY <2>2, <3>3, <3>4
  <2> QED
    BY <2>1, <2>2 DEF Fail, FailTrashed
<1>6. task' \in [Tasks -> SoundTask]
  BY <1>5, TaskUpdate
<1>7. LiveNamed'
  BY <1>5, NamedKept DEF Fail, FailTrashed
<1> QED
  BY <1>1, <1>2, <1>3, <1>4, <1>6, <1>7, SoundIsTyped DEF Fail, FailTrashed, TypeInv, TypeOK

\* A failed flush marks the buffer dirty.
LEMMA RedirtyType ==
    ASSUME TypeInv, NEW p \in Tasks, Redirty(p)
    PROVE  TypeInv'
<1>1. live' \in [tid : Transcripts \cup {None}, words : SUBSET Spoken, dirty : BOOLEAN]
  BY DEF Redirty, TypeInv, TypeOK
<1>2. task' \in [Tasks -> SoundTask]
  BY IdleType, TaskUpdate DEF Redirty
<1>3. live'.tid \in Transcripts
  <2>1. live.tid # None
    BY DEF Redirty, TypeInv, SoundTask, LiveNamed
  <2> QED
    BY <2>1 DEF Redirty, TypeInv, TypeOK
<1>4. older' \in [Tasks -> SUBSET Tasks] /\ stale' \in SUBSET Tasks
  BY GiveUpType DEF Redirty, TypeInv
<1>5. lapse' \in BOOLEAN
  BY DEF Redirty, TypeInv, TypeOK, Orphaned
<1>6. lock' \in Tasks \cup {None}
  BY DEF Redirty, TypeInv, TypeOK
<1> QED
  BY <1>1, <1>2, <1>3, <1>4, <1>5, <1>6, NamedSuffices, SoundIsTyped
     DEF Redirty, TypeInv, TypeOK

\* A batch write begins.
LEMMA BatchClearType ==
    ASSUME TypeInv, NEW p \in Callers, NEW t \in Transcripts, NEW op \in {"write", "replace"},
           BatchClear(p, op, t)
    PROVE  TypeInv'
<1> DEFINE s == [Idle EXCEPT !.pc = "want", !.op = op, !.tid = t, !.words = {BatchWord}]
<1>1. live' \in [tid : Transcripts \cup {None}, words : SUBSET Spoken, dirty : BOOLEAN]
  BY DEF BatchClear, Cleared, TypeInv, TypeOK
<1>2. s \in SoundTask /\ s.op = op
  <2>1. s \in TaskState
    BY IdleType DEF SoundTask, TaskState, Pcs, Ops, Words
  <2>2. s.op = op /\ s.pc = "want" /\ s.tid = t
    BY DEF Idle
  <2> QED
    BY <2>1, <2>2 DEF SoundTask
<1>3. task' = [task EXCEPT ![p] = s]
  BY DEF BatchClear
<1>4. task' \in [Tasks -> SoundTask]
  BY <1>2, <1>3, TaskUpdate
<1>5. LiveNamed'
  <2>1. live'.tid = live.tid /\ (live'.dirty => live.dirty)
    BY DEF BatchClear, Cleared, TypeInv, TypeOK
  <2> HIDE DEF s
  <2> QED
    BY <1>2, <1>3, <2>1, NamedKept
<1>6. older' \in [Tasks -> SUBSET Tasks] /\ stale' \in SUBSET Tasks
  BY FixContentType DEF BatchClear, TypeInv, Tasks
<1>7. fate' \in [Spoken -> Fate]
  <2>1. \A w \in Spoken : fate[w] \in Fate /\ [fate[w] EXCEPT !.is = "superseded"] \in Fate
    BY DEF TypeInv, TypeOK, Fate
  <2> QED
    BY <2>1 DEF BatchClear
<1>8. batched' \subseteq Transcripts
  BY DEF BatchClear, TypeInv, TypeOK
<1> QED
  BY <1>1, <1>4, <1>5, <1>6, <1>7, <1>8, SoundIsTyped DEF BatchClear, TypeInv, TypeOK, fileVars

\* A task that only moves on: nothing in flight.
LEMMA MoveOn ==
    ASSUME TypeInv, NEW p \in Tasks, NEW s \in SoundTask, task' = [task EXCEPT ![p] = s],
           s.pc \notin {"want", "write", "failed"}, live' = live,
           lock' \in Tasks \cup {None}, disk' \in [Transcripts -> Entry], stale' \in SUBSET Tasks,
           UNCHANGED <<failures, fate, batched, older, lapse>>
    PROVE  TypeInv'
<1>1. task' \in [Tasks -> SoundTask]
  BY TaskUpdate
<1>2. LiveNamed'
  BY NamedKept
<1> QED
  BY <1>1, <1>2, SoundIsTyped DEF TypeInv, TypeOK

\* A task's pc changes.
LEMMA PcType ==
    ASSUME NEW x \in SoundTask, NEW pc \in {"label", "frozen"}
    PROVE  [x EXCEPT !.pc = pc] \in SoundTask /\ [x EXCEPT !.pc = pc].pc = pc
<1>1. [x EXCEPT !.pc = pc] \in TaskState
  BY DEF SoundTask, TaskState, Pcs
<1>2. /\ [x EXCEPT !.pc = pc].pc = pc /\ [x EXCEPT !.pc = pc].op = x.op
      /\ [x EXCEPT !.pc = pc].next = x.next
  BY DEF SoundTask, TaskState
<1> QED
  BY <1>1, <1>2 DEF SoundTask

\* The steps of a rename of a speaker.
LEMMA AssignFindType ==
    ASSUME TypeInv, NEW p \in Callers, NEW t \in Transcripts, AssignFind(p, t)
    PROVE  TypeInv'
<1> DEFINE s == [Idle EXCEPT !.pc = "found", !.op = "assign", !.next = t]
<1>1. s \in TaskState
  BY IdleType DEF SoundTask, TaskState, Pcs, Ops
<1>2. s.pc = "found" /\ s.op = "assign"
  BY DEF Idle
<1>3. s \in SoundTask
  BY <1>1, <1>2 DEF SoundTask
<1>4. task' = [task EXCEPT ![p] = s]
  BY DEF AssignFind
<1> HIDE DEF s
<1>5. p \in Tasks
  BY DEF Tasks
<1> QED
  BY <1>2, <1>3, <1>4, <1>5, MoveOn DEF AssignFind, TypeInv, TypeOK, fileVars, history

LEMMA AssignLockType ==
    ASSUME TypeInv, NEW p \in Tasks, AssignLock(p)
    PROVE  TypeInv'
<1>1. CASE live.dirty
  <2> DEFINE s == [task[p] EXCEPT !.pc = "write", !.tid = live.tid, !.words = live.words,
                                  !.read = disk]
  <2>1. live.tid \in Transcripts /\ live.words \in SUBSET Words /\ disk \in [Transcripts -> Entry]
    BY <1>1 DEF TypeInv, TypeOK, LiveNamed, Words
  <2>2. task[p] \in SoundTask
    BY DEF TypeInv
  <2>3. s \in TaskState
    BY <2>1, <2>2 DEF SoundTask, TaskState, Pcs
  <2>4. s.pc = "write" /\ s.op = task[p].op /\ s.next = task[p].next /\ s.tid = live.tid
    BY <2>2 DEF SoundTask, TaskState
  <2>5. s \in SoundTask
    BY <2>1, <2>2, <2>3, <2>4 DEF SoundTask
  <2>6. task' = [task EXCEPT ![p] = s]
    BY <1>1 DEF AssignLock
  <2> HIDE DEF s
  <2>7. task' \in [Tasks -> SoundTask]
    BY <2>5, <2>6, TaskUpdate
  <2>8. older' \in [Tasks -> SUBSET Tasks] /\ stale' \in SUBSET Tasks
    BY <1>1, FixContentType DEF AssignLock, TypeInv
  <2>9. live' \in [tid : Transcripts \cup {None}, words : SUBSET Spoken, dirty : BOOLEAN]
    BY <1>1 DEF AssignLock, TypeInv, TypeOK
  <2>10. LiveNamed'
    BY <1>1, <2>1, NamedSuffices DEF AssignLock, TypeInv, TypeOK
  <2> QED
    BY <2>7, <2>8, <2>9, <2>10, SoundIsTyped DEF AssignLock, TypeInv, TypeOK
<1>2. CASE ~ live.dirty
  <2>1. task' = [task EXCEPT ![p] = [task[p] EXCEPT !.pc = "label"]]
    BY <1>2 DEF AssignLock, TypeInv
  <2>2. task[p] \in SoundTask
    BY DEF TypeInv
  <2> QED
    BY <1>2, <2>1, <2>2, PcType, MoveOn DEF AssignLock, TypeInv, TypeOK
<1> QED
  BY <1>1, <1>2

LEMMA AssignLabelType ==
    ASSUME TypeInv, NEW p \in Tasks, AssignLabel(p)
    PROVE  TypeInv'
<1>1. disk' \in [Transcripts -> Entry]
  <2>1. disk \in [Transcripts -> Entry]
    BY DEF TypeInv, TypeOK
  <2>2. CASE disk[task[p].next].there
    <3>1. disk' = [disk EXCEPT ![task[p].next].label = TRUE]
      BY <2>2 DEF AssignLabel
    <3>2. \A e \in Entry : [e EXCEPT !.label = TRUE] \in Entry
      BY DEF Entry
    <3>3. disk' = [disk EXCEPT ![task[p].next] = [disk[task[p].next] EXCEPT !.label = TRUE]]
      BY <2>1, <3>1
    <3> QED
      BY <2>1, <3>2, <3>3
  <2>3. CASE ~ disk[task[p].next].there
    BY <2>1, <2>3 DEF AssignLabel
  <2> QED
    BY <2>2, <2>3
<1>2. stale' \in SUBSET Tasks
  BY DEF AssignLabel, TypeInv, TypeOK, InFlight
<1> QED
  BY <1>1, <1>2, IdleType, IdlePc, MoveOn DEF AssignLabel

\* The steps of a vault move.
LEMMA FreezeBeginType ==
    ASSUME TypeInv, NEW p \in Callers, FreezeBegin(p)
    PROVE  TypeInv'
<1>1. p \in Tasks
  BY DEF Tasks
<1>2. CASE TakeCopy(p, "freeze", None)
  BY <1>1, <1>2, TakeCopyType DEF Ops
<1>3. CASE /\ task' = [task EXCEPT ![p] = [Idle EXCEPT !.pc = "settle", !.op = "freeze"]]
           /\ UNCHANGED <<live, fileVars, history>>
  <2> DEFINE s == [Idle EXCEPT !.pc = "settle", !.op = "freeze"]
  <2>1. s \in TaskState
    BY IdleType DEF SoundTask, TaskState, Pcs, Ops
  <2>2. s.pc = "settle" /\ s.op = "freeze"
    BY DEF Idle
  <2>3. s \in SoundTask
    BY <2>1, <2>2 DEF SoundTask
  <2>4. task' = [task EXCEPT ![p] = s]
    BY <1>3
  <2> HIDE DEF s
  <2> QED
    BY <1>1, <1>3, <2>2, <2>3, <2>4, MoveOn DEF TypeInv, TypeOK, fileVars, history
<1> QED
  BY <1>2, <1>3 DEF FreezeBegin

LEMMA FreezeEndType ==
    ASSUME TypeInv, NEW p \in Tasks, FreezeLock(p) \/ Thaw(p)
    PROVE  TypeInv'
<1>1. task[p] \in SoundTask
  BY DEF TypeInv
<1>2. PICK s \in SoundTask : /\ task' = [task EXCEPT ![p] = s]
                             /\ s.pc \in {"idle", "frozen"}
  <2>1. CASE task' = [task EXCEPT ![p] = Idle]
    BY <2>1, IdleType, IdlePc
  <2>2. CASE task' = [task EXCEPT ![p].pc = "frozen"]
    <3>1. task' = [task EXCEPT ![p] = [task[p] EXCEPT !.pc = "frozen"]]
      BY <2>2 DEF TypeInv
    <3> QED
      BY <1>1, <3>1, PcType
  <2> QED
    BY <2>1, <2>2 DEF FreezeLock, Thaw
<1>3. lock' \in Tasks \cup {None} /\ UNCHANGED <<live, disk, failures, history>>
  BY DEF FreezeLock, Thaw, TypeInv, TypeOK
<1> QED
  BY <1>2, <1>3, MoveOn DEF TypeInv, TypeOK, history

\* Every step keeps the types.
LEMMA NextType == ASSUME TypeInv, [Next]_vars PROVE TypeInv'
<1> USE DEF Tasks
<1>1. ASSUME NEW p \in Callers, Speak(p)
      PROVE  TypeInv'
  <2>1. PICK t \in Transcripts, w \in Spoken :
            (\E r \in Replaceable(t) : Append(p, t, w, r)) \/ AppendSwitch(p, t, w)
    BY <1>1 DEF Speak, Upcoming
  <2>2. CASE AppendSwitch(p, t, w)
    BY <2>2, TakeCopyType DEF AppendSwitch, Ops
  <2> QED
    BY <2>1, <2>2, AppendType
<1>2. ASSUME NEW p \in Callers, FlushNow(p)
      PROVE  TypeInv'
  BY <1>2, TakeCopyType DEF FlushNow, Ops
<1>3. ASSUME NEW p \in Callers, Batch(p) \/ Assign(p) \/ FreezeBegin(p)
      PROVE  TypeInv'
  BY <1>3, BatchClearType, AssignFindType, FreezeBeginType DEF Batch, Assign
<1>4. ASSUME NEW f \in Flushers, Wake(f)
      PROVE  TypeInv'
  BY <1>4, WakeType
<1>5. ASSUME NEW p \in Tasks, Step(p)
      PROVE  TypeInv'
  BY <1>5, AcquireType, LandType, RedirtyType, AppendAfterSwitchType, AssignLockType,
     AssignLabelType, FreezeEndType DEF Step
<1>6. ASSUME NEW p \in Tasks, Fail(p) \/ FailTrashed(p)
      PROVE  TypeInv'
  BY <1>6, FailType
<1>7. CASE UNCHANGED vars
  BY <1>7 DEF vars, fileVars, history, TypeInv, TypeOK, LiveNamed
<1> QED
  BY <1>1, <1>2, <1>3, <1>4, <1>5, <1>6, <1>7 DEF Next

\* Every reachable state is type correct.
THEOREM TypeCorrect == Spec => []TypeOK
<1>1. TypeInv => TypeOK
  BY DEF TypeInv
<1> QED
  BY <1>1, InitType, NextType, PTL DEF Spec

(***************************************************************************)
(* The write lock                                                          *)
(***************************************************************************)
\* The store-wide lock is held from the read of the file to its rename, by a
\* rename of a speaker to its end, and by a vault move until it thaws.
Holds(p) ==
    \/ task[p].pc \in {"write", "label", "frozen"}
    \/ task[p].pc = "failed" /\ task[p].op = "assign"

\* Whoever needs the lock has it, and the file is still as the writer read it.
LockInv ==
    \A p \in Tasks : /\ Holds(p) => lock = p
                     /\ task[p].pc = "write" => task[p].read = disk

\* A step of one task by which nobody else's claim on the lock is touched.
LEMMA LockStep ==
    ASSUME TypeInv, LockInv, NEW p \in Tasks, NEW s, task' = [task EXCEPT ![p] = s],
           \/ lock' = lock
           \/ lock \in {None, p},
           \/ s.pc \notin {"write", "label", "frozen"} /\ ~ (s.pc = "failed" /\ s.op = "assign")
           \/ lock' = p,
           s.pc = "write" => s.read = disk',
           disk' = disk \/ lock = p
    PROVE  LockInv'
<1> SUFFICES ASSUME NEW q \in Tasks
             PROVE  /\ Holds(q)' => lock' = q
                    /\ task'[q].pc = "write" => task'[q].read = disk'
  BY DEF LockInv, Holds
<1>1. CASE q = p
  <2>1. task'[q] = s
    BY <1>1 DEF TypeInv
  <2> QED
    BY <1>1, <2>1 DEF Holds
<1>2. CASE q # p
  <2>1. task'[q] = task[q]
    BY <1>2 DEF TypeInv
  <2>2. lock \in {None, p} => ~ Holds(q)
    BY <1>2, TasksAssumption DEF LockInv, Tasks
  <2> QED
    BY <1>2, <2>1, <2>2 DEF LockInv, Holds
<1> QED
  BY <1>1, <1>2

\* Steps that take no lock and touch no file.
LEMMA LockUntouched ==
    ASSUME LockInv, lock' = lock, disk' = disk,
           \A q \in Tasks : \/ task'[q] = task[q]
                            \/ task'[q].pc \notin {"write", "label", "frozen", "failed"}
    PROVE  LockInv'
BY DEF LockInv, Holds

LEMMA SpawnCases ==
    ASSUME NEW tasks \in [Tasks -> SoundTask], NEW b, SpawnFlusher(tasks, b), NEW q \in Tasks
    PROVE  task'[q] = tasks[q] \/ task'[q].pc = "asleep"
<1>1. [Idle EXCEPT !.pc = "asleep"].pc = "asleep"
  BY DEF Idle
<1> QED
  BY <1>1 DEF SpawnFlusher, Tasks

LEMMA CopyLock ==
    ASSUME TypeInv, LockInv, NEW p \in Tasks, NEW op, NEW next, TakeCopy(p, op, next)
    PROVE  LockInv'
<1> DEFINE s == [Idle EXCEPT !.pc = "want", !.op = op, !.tid = live.tid,
                             !.words = live.words, !.next = next]
<1>1. s.pc = "want"
  BY DEF Idle
<1>2. task' = [task EXCEPT ![p] = s] /\ lock' = lock /\ disk' = disk
  BY DEF TakeCopy, fileVars
<1> HIDE DEF s
<1> QED
  BY <1>1, <1>2, LockUntouched DEF TypeInv

LEMMA AppendLock ==
    ASSUME TypeInv, LockInv, NEW p \in Tasks, NEW t, NEW w, NEW r,
           Append(p, t, w, r) \/ AppendAfterSwitch(p)
    PROVE  LockInv'
<1>1. lock' = lock /\ disk' = disk
  BY DEF Append, AppendAfterSwitch, fileVars
<1>2. CASE Append(p, t, w, r)
  BY <1>1, <1>2, SpawnCases, LockUntouched DEF Append, TypeInv
<1>3. CASE AppendAfterSwitch(p)
  <2> DEFINE tasks == [task EXCEPT ![p] = Idle]
  <2>1. SpawnFlusher(tasks, live.dirty)
    BY <1>3 DEF AppendAfterSwitch
  <2>2. tasks \in [Tasks -> SoundTask]
    BY IdleType DEF TypeInv
  <2>3. \A q \in Tasks : tasks[q] = task[q] \/ tasks[q].pc = "idle"
    BY IdlePc DEF TypeInv
  <2> HIDE DEF tasks
  <2> QED
    BY <1>1, <2>1, <2>2, <2>3, SpawnCases, LockUntouched
<1> QED
  BY <1>2, <1>3

LEMMA AcquireLock ==
    ASSUME TypeInv, LockInv, NEW p \in Tasks, Acquire(p)
    PROVE  LockInv'
<1> DEFINE s == Moved(task[p], "write", disk)
<1>1. s.read = disk
  BY DEF Moved, TypeInv, SoundTask, TaskState
<1>2. task' = [task EXCEPT ![p] = s] /\ lock = None /\ lock' = p /\ disk' = disk
  BY DEF Acquire, Moved
<1> HIDE DEF s
<1> QED
  BY <1>1, <1>2, LockStep

LEMMA LandLock ==
    ASSUME TypeInv, LockInv, NEW p \in Tasks, Land(p)
    PROVE  LockInv'
<1>1. lock = p
  BY DEF Land, LockInv, Holds
<1>2. /\ AfterLanding(p).pc \in {"idle", "resume", "label", "settle"}
      /\ task[p].op # "assign" => AfterLanding(p).pc # "label"
  BY AfterLandingPc, IdlePc DEF AfterLanding, Idle
<1>3. task' = [task EXCEPT ![p] = AfterLanding(p)]
  BY DEF Land
<1>4. task[p].op = "assign" => lock' = p
  BY DEF Land
<1> QED
  BY <1>1, <1>2, <1>3, <1>4, LockStep

LEMMA FailLock ==
    ASSUME TypeInv, LockInv, NEW p \in Tasks, Fail(p) \/ FailTrashed(p)
    PROVE  LockInv'
<1>1. lock = p
  BY DEF Fail, FailTrashed, LockInv, Holds
<1>2. CASE task' = [task EXCEPT ![p] = Idle]
  BY <1>1, <1>2, IdlePc, LockStep
<1>3. CASE /\ Fail(p)
           /\ task' = [task EXCEPT ![p] = [@ EXCEPT !.pc = "failed", !.read = Idle.read]]
  <2> DEFINE s == Moved(task[p], "failed", Idle.read)
  <2>1. s.pc = "failed" /\ s.op = task[p].op
    BY DEF Moved, TypeInv, SoundTask, TaskState
  <2>2. task' = [task EXCEPT ![p] = s]
    BY <1>3 DEF Moved
  <2>3. disk' = disk /\ (task[p].op = "assign" => lock' = p)
    BY <1>3 DEF Fail
  <2> HIDE DEF s
  <2> QED
    BY <1>1, <2>1, <2>2, <2>3, LockStep
<1> QED
  BY <1>2, <1>3 DEF Fail, FailTrashed

LEMMA RedirtyLock ==
    ASSUME TypeInv, LockInv, NEW p \in Tasks, Redirty(p)
    PROVE  LockInv'
<1>1. PICK s : task' = [task EXCEPT ![p] = s] /\ s.pc \in {"asleep", "idle"}
  <2>1. [Idle EXCEPT !.pc = "asleep"].pc = "asleep"
    BY DEF Idle
  <2> QED
    BY <2>1, IdlePc DEF Redirty
<1>2. disk' = disk /\ (lock' = lock \/ lock = p)
  BY DEF Redirty
<1> QED
  BY <1>1, <1>2, LockStep

LEMMA BatchLock ==
    ASSUME TypeInv, LockInv, NEW p \in Callers, NEW t, NEW op,
           BatchClear(p, op, t) \/ AssignFind(p, t)
    PROVE  LockInv'
<1>1. PICK s : task' = [task EXCEPT ![p] = s] /\ s.pc \in {"want", "found"}
  <2> DEFINE want == [Idle EXCEPT !.pc = "want", !.op = op, !.tid = t, !.words = {BatchWord}]
             found == [Idle EXCEPT !.pc = "found", !.op = "assign", !.next = t]
  <2>1. want.pc = "want" /\ found.pc = "found"
    BY DEF Idle
  <2>2. task' = [task EXCEPT ![p] = want] \/ task' = [task EXCEPT ![p] = found]
    BY DEF BatchClear, AssignFind
  <2> HIDE DEF want, found
  <2> QED
    BY <2>1, <2>2
<1>2. disk' = disk /\ lock' = lock /\ p \in Tasks
  BY DEF BatchClear, AssignFind, fileVars, Tasks
<1> QED
  BY <1>1, <1>2, LockUntouched DEF TypeInv

LEMMA AssignLockLock ==
    ASSUME TypeInv, LockInv, NEW p \in Tasks, AssignLock(p)
    PROVE  LockInv'
<1>1. PICK s : task' = [task EXCEPT ![p] = s] /\ (s.pc = "write" => s.read = disk)
  <2>1. CASE live.dirty
    <3> DEFINE s == [task[p] EXCEPT !.pc = "write", !.tid = live.tid, !.words = live.words,
                                    !.read = disk]
    <3>1. s.read = disk
      BY DEF TypeInv, SoundTask, TaskState
    <3>2. task' = [task EXCEPT ![p] = s]
      BY <2>1 DEF AssignLock
    <3> QED
      BY <3>1, <3>2
  <2>2. CASE ~ live.dirty
    <3>1. task' = [task EXCEPT ![p] = [task[p] EXCEPT !.pc = "label"]]
      BY <2>2 DEF AssignLock, TypeInv
    <3>2. [task[p] EXCEPT !.pc = "label"].pc = "label"
      BY DEF TypeInv, SoundTask, TaskState
    <3> QED
      BY <3>1, <3>2
  <2> QED
    BY <2>1, <2>2
<1>2. disk' = disk /\ lock = None /\ lock' = p
  BY DEF AssignLock
<1> QED
  BY <1>1, <1>2, LockStep

LEMMA EndLock ==
    ASSUME TypeInv, LockInv, NEW p \in Tasks, AssignLabel(p) \/ Thaw(p)
    PROVE  LockInv'
<1>1. lock = p
  BY DEF AssignLabel, Thaw, LockInv, Holds
<1>2. task' = [task EXCEPT ![p] = Idle]
  BY DEF AssignLabel, Thaw
<1> QED
  BY <1>1, <1>2, IdlePc, LockStep

LEMMA FreezeLockLock ==
    ASSUME TypeInv, LockInv, NEW p \in Tasks, FreezeLock(p)
    PROVE  LockInv'
<1>1. CASE task' = [task EXCEPT ![p] = Idle] /\ lock' = lock
  BY <1>1, IdlePc, LockStep DEF FreezeLock
<1>2. CASE task' = [task EXCEPT ![p].pc = "frozen"] /\ lock' = p
  <2>1. task' = [task EXCEPT ![p] = [task[p] EXCEPT !.pc = "frozen"]]
    BY <1>2 DEF TypeInv
  <2>2. [task[p] EXCEPT !.pc = "frozen"].pc = "frozen"
    BY DEF TypeInv, SoundTask, TaskState
  <2> QED
    BY <1>2, <2>1, <2>2, LockStep DEF FreezeLock
<1> QED
  BY <1>1, <1>2 DEF FreezeLock

LEMMA FreezeBeginLock ==
    ASSUME TypeInv, LockInv, NEW p \in Callers, FreezeBegin(p)
    PROVE  LockInv'
<1>1. p \in Tasks
  BY DEF Tasks
<1>2. CASE TakeCopy(p, "freeze", None)
  BY <1>1, <1>2, CopyLock
<1>3. CASE /\ task' = [task EXCEPT ![p] = [Idle EXCEPT !.pc = "settle", !.op = "freeze"]]
           /\ UNCHANGED <<live, fileVars, history>>
  <2>1. [Idle EXCEPT !.pc = "settle", !.op = "freeze"].pc = "settle"
    BY DEF Idle
  <2> QED
    BY <1>1, <1>3, <2>1, LockUntouched DEF TypeInv, fileVars
<1> QED
  BY <1>2, <1>3 DEF FreezeBegin

\* The lock invariant is inductive.
LEMMA LockNext == ASSUME TypeInv, LockInv, [Next]_vars PROVE LockInv'
<1> USE DEF Tasks
<1>1. ASSUME NEW p \in Callers, Speak(p)
      PROVE  LockInv'
  BY <1>1, CopyLock, AppendLock DEF Speak, AppendSwitch
<1>2. ASSUME NEW p \in Callers, FlushNow(p) \/ Batch(p) \/ Assign(p) \/ FreezeBegin(p)
      PROVE  LockInv'
  BY <1>2, CopyLock, BatchLock, FreezeBeginLock DEF FlushNow, Batch, Assign
<1>3. ASSUME NEW f \in Flushers, Wake(f)
      PROVE  LockInv'
  <2>1. CASE TakeCopy(f, "debounce", None)
    BY <2>1, CopyLock
  <2>2. CASE task' = [task EXCEPT ![f] = Idle] /\ UNCHANGED <<live, fileVars, history>>
    BY <2>2, IdlePc, LockUntouched DEF TypeInv, fileVars
  <2> QED
    BY <1>3, <2>1, <2>2 DEF Wake
<1>4. ASSUME NEW p \in Tasks, Step(p)
      PROVE  LockInv'
  BY <1>4, AcquireLock, LandLock, RedirtyLock, AppendLock, AssignLockLock, EndLock,
     FreezeLockLock DEF Step
<1>5. ASSUME NEW p \in Tasks, Fail(p) \/ FailTrashed(p)
      PROVE  LockInv'
  BY <1>5, FailLock
<1>6. CASE UNCHANGED vars
  BY <1>6 DEF vars, fileVars, LockInv, Holds
<1> QED
  BY <1>1, <1>2, <1>3, <1>4, <1>5, <1>6 DEF Next

\* Nobody needs the lock at first.
LEMMA LockInit == Init => LockInv
BY IdlePc DEF Init, LockInv, Holds

\* A step that changes an entry of the file is its writer's.
LEMMA KeepsOthersStep ==
    ASSUME TypeInv, LockInv, [Next]_vars, NEW t \in Transcripts, disk'[t] # disk[t]
    PROVE  \E p \in Tasks : /\ task'[p] # task[p]
                            /\ \/ task[p].op = "replace"
                               \/ task[p].pc = "write" /\ task[p].tid = t
                               \/ task[p].pc = "label" /\ task[p].next = t
<1>1. PICK p \in Tasks : Land(p) \/ FailTrashed(p) \/ AssignLabel(p)
  <2> USE DEF Tasks
  <2>1. ASSUME NEW p \in Callers,
               Speak(p) \/ FlushNow(p) \/ Batch(p) \/ Assign(p) \/ FreezeBegin(p)
        PROVE  disk' = disk
    BY <2>1 DEF Speak, Append, AppendSwitch, FlushNow, Batch, Assign, FreezeBegin, TakeCopy,
       BatchClear, AssignFind, fileVars
  <2>2. ASSUME NEW f \in Flushers, Wake(f)
        PROVE  disk' = disk
    BY <2>2 DEF Wake, TakeCopy, fileVars
  <2>3. ASSUME NEW p \in Tasks, Step(p), ~ Land(p), ~ AssignLabel(p)
        PROVE  disk' = disk
    BY <2>3 DEF Step, Acquire, Redirty, AppendAfterSwitch, AssignLock, FreezeLock, Thaw, fileVars
  <2>4. ASSUME NEW p \in Tasks, Fail(p)
        PROVE  disk' = disk
    BY <2>4 DEF Fail
  <2> QED
    BY <2>1, <2>2, <2>3, <2>4 DEF Next, vars, fileVars
<1>2. CASE Land(p)
  <2>1. task'[p].pc # task[p].pc /\ task[p].pc = "write"
    BY <1>2, AfterLandingPc DEF Land, TypeInv
  <2>2. task[p].op # "replace" => task[p].tid = t
    <3>1. task[p].read = disk /\ disk' = Merged(p)
      BY <1>2, <2>1 DEF Land, LockInv
    <3> QED
      BY <3>1 DEF Merged, TypeInv, TypeOK
  <2> QED
    BY <2>1, <2>2
<1>3. CASE FailTrashed(p)
  BY <1>3, IdlePc DEF FailTrashed, TypeInv
<1>4. CASE AssignLabel(p)
  <2>1. task'[p].pc # task[p].pc /\ task[p].pc = "label"
    BY <1>4, IdlePc DEF AssignLabel, TypeInv
  <2>2. task[p].next = t
    BY <1>4 DEF AssignLabel, TypeInv, TypeOK
  <2> QED
    BY <2>1, <2>2
<1> QED
  BY <1>1, <1>2, <1>3, <1>4

\* A write for one transcript leaves every other entry as it is.
THEOREM OthersKept == Spec => KeepsOthers
<1> DEFINE Other == \A t \in Transcripts : disk'[t] # disk[t] =>
        \E p \in Tasks : /\ task'[p] # task[p]
                         /\ \/ task[p].op = "replace"
                            \/ task[p].pc = "write" /\ task[p].tid = t
                            \/ task[p].pc = "label" /\ task[p].next = t
<1>1. TypeInv /\ LockInv /\ [Next]_vars => [Other]_vars
  BY KeepsOthersStep
<1> HIDE DEF Other
<1>2. Spec => []TypeInv
  BY InitType, NextType, PTL DEF Spec
<1>3. TypeInv /\ LockInv /\ [Next]_vars => LockInv'
  BY LockNext
<1>4. Spec => [](TypeInv /\ LockInv)
  BY <1>2, <1>3, LockInit, PTL DEF Spec
<1>5. Spec => [][Other]_vars
  BY <1>1, <1>4, PTL DEF Spec
<1> QED
  BY <1>5 DEF KeepsOthers, Other

(***************************************************************************)
(* The debounce task                                                       *)
(***************************************************************************)
\* While only debounced flushes and batch writes fail, no command marks the
\* buffer dirty again.
FlusherInv ==
    /\ DirtyHasFlusher
    /\ \A p \in Callers : task[p].op # "debounce" /\ task[p].pc # "failed"

LEMMA FlusherInit == Init => FlusherInv
<1>1. Idle.op = "none"
  BY DEF Idle
<1> QED
  BY <1>1, IdlePc DEF Init, FlusherInv, DirtyHasFlusher, Tasks

\* A command goes on and the buffer gets no dirtier.
LEMMA FlusherCommand ==
    ASSUME TypeInv, FlusherInv, NEW p \in Callers, NEW s, task' = [task EXCEPT ![p] = s],
           live'.dirty => live.dirty, s.op # "debounce", s.pc # "failed"
    PROVE  FlusherInv'
BY TasksAssumption DEF FlusherInv, DirtyHasFlusher, TypeInv, Tasks

\* So does a debounce task that is not asleep.
LEMMA FlusherTask ==
    ASSUME TypeInv, FlusherInv, NEW f \in Flushers, NEW s, task' = [task EXCEPT ![f] = s],
           \/ (live'.dirty => live.dirty) /\ task[f].pc # "asleep"
           \/ ~ live'.dirty
           \/ s.pc = "asleep"
    PROVE  FlusherInv'
BY TasksAssumption DEF FlusherInv, DirtyHasFlusher, TypeInv, Tasks

\* A word is appended, and a clean buffer gets its task.
LEMMA FlusherSpawn ==
    ASSUME TypeInv, FlusherInv, NEW p \in Callers, NEW tasks \in [Tasks -> SoundTask],
           \A q \in Tasks : \/ tasks[q] = task[q]
                            \/ q = p /\ tasks[q] = Idle,
           SpawnFlusher(tasks, live.dirty)
    PROVE  FlusherInv'
<1>1. Idle.op = "none" /\ [Idle EXCEPT !.pc = "asleep"].pc = "asleep"
  BY DEF Idle
<1>2. CASE live.dirty
  BY <1>1, <1>2, IdlePc, TasksAssumption
     DEF SpawnFlusher, FlusherInv, DirtyHasFlusher, TypeInv, Tasks
<1>3. CASE ~ live.dirty
  <2>1. PICK f \in Flushers : task' = [tasks EXCEPT ![f] = [Idle EXCEPT !.pc = "asleep"]]
    BY <1>3 DEF SpawnFlusher
  <2>2. task'[f].pc = "asleep"
    BY <1>1, <2>1 DEF Tasks
  <2>3. \A c \in Callers : task'[c] = task[c] \/ task'[c] = Idle
    BY <2>1, TasksAssumption DEF Tasks
  <2> QED
    BY <1>1, <2>2, <2>3, IdlePc DEF FlusherInv, DirtyHasFlusher
<1> QED
  BY <1>2, <1>3

\* A task takes its copy: the buffer is clean.
LEMMA FlusherCopy ==
    ASSUME TypeInv, FlusherInv, NEW p \in Tasks, NEW op, NEW next, TakeCopy(p, op, next),
           p \in Callers => op # "debounce"
    PROVE  FlusherInv'
<1> DEFINE s == [Idle EXCEPT !.pc = "want", !.op = op, !.tid = live.tid,
                             !.words = live.words, !.next = next]
<1>1. s.pc = "want" /\ s.op = op
  BY DEF Idle
<1>2. task' = [task EXCEPT ![p] = s] /\ ~ live'.dirty
  BY DEF TakeCopy, TypeInv, TypeOK
<1> HIDE DEF s
<1> QED
  BY <1>1, <1>2, FlusherCommand, FlusherTask DEF Tasks

\* Any other step of a task that is not asleep.
LEMMA FlusherStep ==
    ASSUME TypeInv, FlusherInv, NEW p \in Tasks, NEW s, task' = [task EXCEPT ![p] = s],
           live'.dirty => live.dirty, task[p].pc # "asleep",
           p \in Callers => s.op # "debounce" /\ s.pc # "failed"
    PROVE  FlusherInv'
BY FlusherCommand, FlusherTask DEF Tasks

\* Where the steps of a task take it.
LEMMA StepTo ==
    ASSUME TypeInv, NEW p \in Tasks,
           Acquire(p) \/ Land(p) \/ AssignLock(p) \/ AssignLabel(p) \/ FreezeLock(p) \/ Thaw(p)
    PROVE  /\ \E s : /\ task' = [task EXCEPT ![p] = s]
                     /\ s.op \in {task[p].op, "none"} /\ s.pc # "failed"
           /\ task[p].pc # "asleep"
           /\ live'.dirty => live.dirty
<1>0. Idle.op = "none" /\ task[p] \in SoundTask /\ task[p].op \in Ops
  BY DEF Idle, TypeInv, SoundTask, TaskState
<1>1. CASE Acquire(p)
  <2>1. task' = [task EXCEPT ![p] = Moved(task[p], "write", disk)]
    BY <1>1 DEF Acquire, Moved
  <2>2. /\ Moved(task[p], "write", disk).op = task[p].op
        /\ Moved(task[p], "write", disk).pc = "write"
    BY <1>0 DEF Moved, SoundTask, TaskState
  <2> QED
    BY <1>1, <2>1, <2>2 DEF Acquire
<1>2. CASE Land(p)
  <2>1. AfterLanding(p).op \in {task[p].op, "none"}
    BY <1>0 DEF AfterLanding, Idle
  <2> QED
    BY <1>2, <2>1, AfterLandingPc DEF Land
<1>3. CASE AssignLock(p)
  <2>1. CASE live.dirty
    <3> DEFINE s == [task[p] EXCEPT !.pc = "write", !.tid = live.tid, !.words = live.words,
                                    !.read = disk]
    <3>1. s.op = task[p].op /\ s.pc = "write"
      BY <1>0 DEF SoundTask, TaskState
    <3>2. task' = [task EXCEPT ![p] = s]
      BY <1>3, <2>1 DEF AssignLock
    <3> HIDE DEF s
    <3> QED
      BY <1>3, <2>1, <3>1, <3>2 DEF AssignLock
  <2>2. CASE ~ live.dirty
    <3>1. task' = [task EXCEPT ![p] = [task[p] EXCEPT !.pc = "label"]]
      BY <1>3, <2>2 DEF AssignLock, TypeInv
    <3>2. [task[p] EXCEPT !.pc = "label"].op = task[p].op
      BY <1>0 DEF SoundTask, TaskState
    <3>3. [task[p] EXCEPT !.pc = "label"].pc = "label"
      BY <1>0, PcType
    <3> QED
      BY <1>3, <2>2, <3>1, <3>2, <3>3 DEF AssignLock
  <2> QED
    BY <2>1, <2>2
<1>4. CASE AssignLabel(p) \/ Thaw(p)
  BY <1>0, <1>4, IdlePc DEF AssignLabel, Thaw
<1>5. CASE FreezeLock(p)
  <2>1. CASE task' = [task EXCEPT ![p].pc = "frozen"]
    <3>1. task' = [task EXCEPT ![p] = [task[p] EXCEPT !.pc = "frozen"]]
      BY <2>1 DEF TypeInv
    <3>2. [task[p] EXCEPT !.pc = "frozen"].op = task[p].op
      BY <1>0 DEF SoundTask, TaskState
    <3>3. [task[p] EXCEPT !.pc = "frozen"].pc = "frozen"
      BY <1>0, PcType
    <3> QED
      BY <1>5, <3>1, <3>2, <3>3 DEF FreezeLock
  <2>2. CASE task' = [task EXCEPT ![p] = Idle]
    BY <1>0, <1>5, <2>2, IdlePc DEF FreezeLock
  <2> QED
    BY <1>5, <2>1, <2>2 DEF FreezeLock
<1> QED
  BY <1>1, <1>2, <1>3, <1>4, <1>5

\* Every step leaves a dirty buffer with a debounce task.
LEMMA FlusherNext ==
    ASSUME FailingOps \subseteq {"debounce", "write", "replace"}, TypeInv, FlusherInv, [Next]_vars
    PROVE  FlusherInv'
<1> USE DEF Tasks
<1>0. Idle.op = "none"
  BY DEF Idle
<1>1. ASSUME NEW p \in Callers, Speak(p) \/ FlushNow(p)
      PROVE  FlusherInv'
  <2>1. ASSUME NEW t, NEW w, NEW r, Append(p, t, w, r)
        PROVE  FlusherInv'
    BY <2>1, FlusherSpawn DEF Append, TypeInv
  <2> QED
    BY <1>1, <2>1, FlusherCopy DEF Speak, AppendSwitch, FlushNow
<1>2. ASSUME NEW p \in Callers, Batch(p)
      PROVE  FlusherInv'
  <2>1. PICK t \in Transcripts, op \in {"write", "replace"} : BatchClear(p, op, t)
    BY <1>2 DEF Batch
  <2> DEFINE s == [Idle EXCEPT !.pc = "want", !.op = op, !.tid = t, !.words = {BatchWord}]
  <2>2. s.pc = "want" /\ s.op = op /\ task' = [task EXCEPT ![p] = s]
    BY <2>1 DEF Idle, BatchClear
  <2>3. live'.dirty => live.dirty
    BY <2>1 DEF BatchClear, Cleared, TypeInv, TypeOK
  <2> HIDE DEF s
  <2> QED
    BY <2>2, <2>3, FlusherCommand
<1>3. ASSUME NEW p \in Callers, Assign(p)
      PROVE  FlusherInv'
  <2>1. PICK t \in Transcripts : AssignFind(p, t)
    BY <1>3 DEF Assign
  <2> DEFINE s == [Idle EXCEPT !.pc = "found", !.op = "assign", !.next = t]
  <2>2. s.pc = "found" /\ s.op = "assign" /\ task' = [task EXCEPT ![p] = s] /\ live' = live
    BY <2>1 DEF Idle, AssignFind
  <2> HIDE DEF s
  <2> QED
    BY <2>2, FlusherCommand
<1>4. ASSUME NEW p \in Callers, FreezeBegin(p)
      PROVE  FlusherInv'
  <2> DEFINE s == [Idle EXCEPT !.pc = "settle", !.op = "freeze"]
  <2>1. CASE TakeCopy(p, "freeze", None)
    BY <2>1, FlusherCopy
  <2>2. CASE task' = [task EXCEPT ![p] = s] /\ live' = live
    <3>1. s.pc = "settle" /\ s.op = "freeze"
      BY DEF Idle
    <3> HIDE DEF s
    <3> QED
      BY <2>2, <3>1, FlusherCommand
  <2> QED
    BY <1>4, <2>1, <2>2 DEF FreezeBegin
<1>5. ASSUME NEW f \in Flushers, Wake(f)
      PROVE  FlusherInv'
  <2>1. CASE TakeCopy(f, "debounce", None)
    BY <2>1, FlusherCopy, TasksAssumption
  <2>2. CASE task' = [task EXCEPT ![f] = Idle] /\ live' = live /\ ~ live.dirty
    BY <2>2, FlusherTask
  <2> QED
    BY <1>5, <2>1, <2>2 DEF Wake
<1>6. ASSUME NEW p \in Tasks, Step(p)
      PROVE  FlusherInv'
  <2>1. CASE Acquire(p) \/ Land(p) \/ AssignLock(p) \/ AssignLabel(p) \/ FreezeLock(p) \/ Thaw(p)
    <3>1. p \in Callers => task[p].op # "debounce"
      BY DEF FlusherInv
    <3> QED
      BY <2>1, <3>1, StepTo, FlusherStep
  <2>2. CASE AppendAfterSwitch(p)
    <3> DEFINE tasks == [task EXCEPT ![p] = Idle]
    <3>1. SpawnFlusher(tasks, live.dirty) /\ task[p].pc = "resume"
      BY <2>2 DEF AppendAfterSwitch
    <3>2. tasks \in [Tasks -> SoundTask]
      BY IdleType DEF TypeInv
    <3>3. \A q \in Tasks : tasks[q] = task[q] \/ (q = p /\ tasks[q] = Idle)
      BY DEF TypeInv
    <3> HIDE DEF tasks
    <3>4. CASE p \in Callers
      BY <3>1, <3>2, <3>3, <3>4, FlusherSpawn
    <3>5. CASE p \in Flushers
      <4>1. \A c \in Callers : tasks[c] = task[c]
        BY <3>3, <3>5, TasksAssumption
      <4>2. CASE live.dirty
        BY <3>1, <3>3, <4>1, <4>2 DEF SpawnFlusher, FlusherInv, DirtyHasFlusher
      <4>3. CASE ~ live.dirty
        <5>1. PICK f \in Flushers : task' = [tasks EXCEPT ![f] = [Idle EXCEPT !.pc = "asleep"]]
          BY <3>1, <4>3 DEF SpawnFlusher
        <5>2. task'[f].pc = "asleep"
          BY <3>2, <5>1 DEF Idle
        <5>3. \A c \in Callers : task'[c] = task[c]
          BY <4>1, <5>1, <3>2, TasksAssumption
        <5> QED
          BY <5>2, <5>3 DEF FlusherInv, DirtyHasFlusher
      <4> QED
        BY <4>2, <4>3
    <3> QED
      BY <3>4, <3>5
  <2>3. CASE Redirty(p)
    <3>1. p \in Flushers
      BY <2>3 DEF Redirty, FlusherInv
    <3>2. [Idle EXCEPT !.pc = "asleep"].pc = "asleep"
      BY DEF Idle
    <3> QED
      BY <2>3, <3>1, <3>2, FlusherTask DEF Redirty
  <2> QED
    BY <1>6, <2>1, <2>2, <2>3 DEF Step
<1>7. ASSUME NEW p \in Tasks, Fail(p) \/ FailTrashed(p)
      PROVE  FlusherInv'
  <2>1. live' = live /\ task[p].pc = "write"
    BY <1>7 DEF Fail, FailTrashed
  <2>2. CASE task' = [task EXCEPT ![p] = Idle]
    BY <1>0, <2>1, <2>2, IdlePc, FlusherStep
  <2>3. CASE /\ task' = [task EXCEPT ![p] = [@ EXCEPT !.pc = "failed", !.read = Idle.read]]
             /\ task[p].op \in FailingOps \ {"write", "replace"}
    <3>1. p \notin Callers
      BY <2>3 DEF FlusherInv
    <3>2. task' = [task EXCEPT ![p] = Moved(task[p], "failed", Idle.read)]
      BY <2>3 DEF Moved
    <3> QED
      BY <2>1, <3>1, <3>2, FlusherStep
  <2> QED
    BY <1>7, <2>2, <2>3 DEF Fail, FailTrashed
<1>8. CASE UNCHANGED vars
  BY <1>8 DEF vars, FlusherInv, DirtyHasFlusher
<1> QED
  BY <1>1, <1>2, <1>3, <1>4, <1>5, <1>6, <1>7, <1>8 DEF Next

\* While only debounced flushes and batch writes fail, a dirty buffer always has
\* a debounce task that has still to look at it.
THEOREM AlwaysAFlusher ==
    ASSUME FailingOps \subseteq {"debounce", "write", "replace"}
    PROVE  Spec => []DirtyHasFlusher
<1>1. TypeInv /\ FlusherInv /\ [Next]_vars => FlusherInv'
  BY FlusherNext
<1>2. FlusherInv => DirtyHasFlusher
  BY DEF FlusherInv
<1> QED
  BY <1>1, <1>2, InitType, NextType, FlusherInit, PTL DEF Spec

(***************************************************************************)
(* No word is forgotten, and none comes back                               *)
(***************************************************************************)
\* A batch write carries the batch's words, every other task in flight a copy
\* of the buffer.
IsBatch(p) == task[p].op \in {"write", "replace"}
Copies == {p \in InFlight : ~ IsBatch(p)}

\* The live words of a transcript that no batch write has superseded.
Since(t) == {w \in Spoken : fate[w].tid = t /\ fate[w].is \in {"owed", "replaced"}}

\* A word has a transcript from its append on.
FateNamed ==
    \A w \in Spoken :
        fate[w] = Unsaid \/ (fate[w].tid \in Transcripts /\ fate[w].is # "unsaid")

\* The word of an append that waits for its switch has not been heard elsewhere.
NextWords ==
    \A p \in Tasks : task[p].op = "switch" =>
        /\ p \in Callers
        /\ fate[task[p].next[2]] = Unsaid
        /\ \A q \in Tasks \ {p} : task[q].op = "switch" => task[q].next[2] # task[p].next[2]

\* There is one batch write at a time.
OneBatch ==
    \A p \in Tasks : IsBatch(p) =>
        /\ p \in Callers \cap InFlight
        /\ task[p].words = {BatchWord}
        /\ \A q \in Tasks \ {p} : ~ IsBatch(q)

\* What is in the buffer is owed to the buffer's transcript; what is in a copy
\* was appended to the copy's; and only a batch write leaves a buffer empty.
BufferFate == \A w \in live.words : fate[w] = [tid |-> live.tid, is |-> "owed"]

CopyFate ==
    \A p \in Copies :
        /\ task[p].words \subseteq Spoken
        /\ \A w \in task[p].words : fate[w].tid = task[p].tid /\ fate[w].is # "unsaid"

EmptyBuffer == live.words = {} => Since(live.tid) = {}

WordsInv == FateNamed /\ NextWords /\ OneBatch /\ BufferFate /\ CopyFate /\ EmptyBuffer

\* Until a window is hit, the buffer holds every word that its transcript is owed.
InBuffer == \A w \in Spoken : Owed(w) /\ fate[w].tid = live.tid => w \in live.words

\* No flush writes an empty buffer.
NotEmpty == (live.dirty => live.words # {}) /\ \A p \in Copies : task[p].words # {}

\* Content that is newer than q's carries the word.
Newer(q, w) ==
    \E r \in InFlight : task[r].tid = fate[w].tid /\ w \in task[r].words /\ q \in older[r]

\* Content that may still land holds every word owed to the entries it writes,
\* or comes before newer content or a dirty buffer that does.
NotLost ==
    \A q \in InFlight \ stale, w \in Spoken :
        Owed(w) /\ (task[q].op = "replace" \/ task[q].tid = fate[w].tid) =>
            \/ task[q].tid = fate[w].tid /\ w \in task[q].words
            \/ Newer(q, w)
            \/ WillBeFlushed(w)

\* A copy that may still land after a batch write holds no word of before it.
Fine(q) == task[q].words \subseteq Since(task[q].tid)

FineCopies ==
    \A q \in Copies \ stale :
        /\ task[q].tid \in batched => Fine(q)
        /\ \A p \in InFlight :
               IsBatch(p) /\ task[p].tid = task[q].tid /\ q \notin older[p] => Fine(q)

KeptInv ==
    lapse \/ /\ InBuffer /\ NotEmpty /\ NotLost /\ FineCopies
             /\ NothingForgotten /\ SupersededStaysOut

\* Nothing is said at first.
LEMMA KeptInit == Init => WordsInv /\ KeptInv
<1> SUFFICES ASSUME Init PROVE WordsInv /\ KeptInv
  OBVIOUS
<1>1. Idle.op = "none" /\ Idle.pc = "idle" /\ Unsaid.is = "unsaid" /\ Unsaid.tid = None
  BY DEF Idle, Unsaid
<1>2. /\ \A p \in Tasks : task[p] = Idle
      /\ \A w \in Spoken : fate[w] = Unsaid
      /\ live.words = {} /\ ~ live.dirty /\ batched = {} /\ Copies = {} /\ InFlight = {}
  BY <1>1 DEF Init, Copies, InFlight
<1>3. WordsInv
  BY <1>1, <1>2 DEF WordsInv, FateNamed, NextWords, OneBatch, IsBatch, BufferFate, CopyFate,
     EmptyBuffer, Since
<1>4. KeptInv
  BY <1>1, <1>2 DEF KeptInv, InBuffer, NotEmpty, NotLost, FineCopies, NothingForgotten,
     SupersededStaysOut, Owed
<1> QED
  BY <1>3, <1>4

\* Whether a task is in flight, and whether it is of no interest here.
Flying(x) == x.pc \in {"want", "write", "failed"}
Empty(x) == ~ Flying(x) /\ x.op \notin {"switch", "write", "replace"}

SameContent(x, y) ==
    /\ (Flying(x) <=> Flying(y))
    /\ x.op = y.op /\ x.tid = y.tid /\ x.words = y.words /\ x.next = y.next

\* Nothing is fixed, lands or is given up.
QuietTasks ==
    \A q \in Tasks : \/ SameContent(task'[q], task[q])
                     \/ Empty(task'[q]) /\ ~ Flying(task[q])

LEMMA QuietFlight ==
    ASSUME QuietTasks, OneBatch
    PROVE  /\ InFlight' = InFlight /\ Copies' = Copies
           /\ \A q \in InFlight : /\ task'[q].op = task[q].op /\ task'[q].tid = task[q].tid
                                  /\ task'[q].words = task[q].words
           /\ \A q \in Tasks : task'[q].op = "switch" =>
                  task[q].op = "switch" /\ task'[q].next = task[q].next
           /\ \A q \in Tasks : IsBatch(q)' = IsBatch(q)
<1>1. \A q \in Tasks : Flying(task'[q]) <=> Flying(task[q])
  BY DEF QuietTasks, SameContent, Empty
<1>2. InFlight' = InFlight
  BY <1>1 DEF InFlight, Flying
<1>3. \A q \in InFlight : SameContent(task'[q], task[q])
  BY DEF QuietTasks, InFlight, Empty, Flying
<1>4. \A q \in Tasks : IsBatch(q)' = IsBatch(q)
  BY <1>3 DEF QuietTasks, SameContent, Empty, IsBatch, OneBatch, InFlight, Flying
<1>5. Copies' = Copies
  BY <1>2, <1>4 DEF Copies, InFlight
<1> QED
  BY <1>2, <1>3, <1>4, <1>5 DEF QuietTasks, SameContent, Empty

LEMMA QuietWords ==
    ASSUME QuietTasks, WordsInv, live' = live, fate' = fate
    PROVE  WordsInv'
<1> USE QuietFlight DEF WordsInv
<1>1. FateNamed' /\ BufferFate' /\ EmptyBuffer'
  BY DEF FateNamed, BufferFate, EmptyBuffer, Since
<1>2. NextWords'
  BY DEF NextWords
<1>3. OneBatch'
  BY DEF OneBatch
<1>4. CopyFate'
  BY DEF CopyFate, Copies
<1> QED
  BY <1>1, <1>2, <1>3, <1>4

LEMMA QuietKept ==
    ASSUME QuietTasks, WordsInv, KeptInv, live' = live, fate' = fate, batched' = batched,
           older' = older, lapse' = lapse, stale \subseteq stale',
           \A t \in Transcripts : disk'[t].words = disk[t].words,
           TypeInv
    PROVE  KeptInv'
<1> SUFFICES ASSUME ~ lapse PROVE KeptInv'
  BY DEF KeptInv
<1> USE QuietFlight DEF WordsInv, KeptInv
<1>1. InBuffer' /\ NotEmpty'
  BY DEF InBuffer, NotEmpty, Owed, Copies
<1>2. NotLost'
  BY DEF NotLost, Owed, Newer, WillBeFlushed
<1>3. FineCopies'
  BY DEF FineCopies, Fine, Since, Copies, InFlight
<1>4. NothingForgotten'
  <2>1. \A w \in Spoken : Owed(w) => fate[w].tid \in Transcripts
    BY DEF FateNamed, Unsaid, Owed
  <2> QED
    BY <2>1 DEF NothingForgotten, Owed, OnDisk, Carried, WillBeFlushed
<1>5. SupersededStaysOut'
  BY DEF SupersededStaysOut, TypeInv, TypeOK
<1> QED
  BY <1>1, <1>2, <1>3, <1>4, <1>5

\* A word is put in the buffer, the words it replaces leave it.  The tasks in
\* flight have nothing to do with it.
HeardStep(t, w, r) ==
    /\ r \subseteq IF live.tid = t THEN live.words ELSE {}
    /\ fate[w] = Unsaid
    /\ live' = Buffered(t, w, r)
    /\ NoteSpoken(t, w, r)
    /\ QuietTasks
    /\ \A q \in Tasks : task'[q].op = "switch" => task'[q].next[2] # w
    /\ UNCHANGED <<disk, batched, older, stale>>

LEMMA HeardFate ==
    ASSUME TypeInv, WordsInv, NEW t \in Transcripts, NEW w \in Spoken, NEW r, HeardStep(t, w, r)
    PROVE  /\ fate'[w] = [tid |-> t, is |-> "owed"]
           /\ fate'[w].tid = t /\ fate'[w].is = "owed"
           /\ \A v \in r : /\ v \in Spoken /\ v # w /\ fate[v] # Unsaid
                           /\ fate[v].tid = t /\ fate[v].is = "owed"
                           /\ fate'[v].tid = t /\ fate'[v].is = "replaced"
           /\ \A v \in Spoken : v \in r \/ v = w \/ fate'[v] = fate[v]
           /\ \A s \in Transcripts : Since(s) \subseteq Since(s)'
<1>1. \A v \in r : fate[v] = [tid |-> t, is |-> "owed"] /\ v \in Spoken
  BY DEF HeardStep, WordsInv, BufferFate, TypeInv, TypeOK
<1>2. w \notin r
  BY <1>1, NoneAssumption DEF HeardStep, Unsaid
<1>3. \A v \in r : fate'[v] = [tid |-> t, is |-> "replaced"]
  BY <1>1, <1>2 DEF HeardStep, NoteSpoken
<1>4. fate'[w] = [tid |-> t, is |-> "owed"]
  BY DEF HeardStep, NoteSpoken
<1>5. \A v \in Spoken : v \in r \/ v = w \/ fate'[v] = fate[v]
  BY DEF HeardStep, NoteSpoken
<1>6. ASSUME NEW s \in Transcripts, NEW v \in Since(s) PROVE v \in Since(s)'
  <2>1. v # w
    BY <1>6 DEF HeardStep, Unsaid, Since
  <2> QED
    BY <1>1, <1>3, <1>5, <1>6, <2>1 DEF Since
<1>7. \A v \in r : fate[v] # Unsaid
  BY <1>1, NoneAssumption DEF Unsaid
<1> QED
  BY <1>1, <1>2, <1>3, <1>4, <1>5, <1>6, <1>7

LEMMA HeardWords ==
    ASSUME TypeInv, WordsInv, NEW t \in Transcripts, NEW w \in Spoken, NEW r, HeardStep(t, w, r)
    PROVE  WordsInv'
<1>9. /\ fate'[w] = [tid |-> t, is |-> "owed"]
      /\ fate'[w].tid = t /\ fate'[w].is = "owed"
      /\ \A v \in r : /\ v \in Spoken /\ v # w /\ fate[v] # Unsaid
                      /\ fate[v].tid = t /\ fate[v].is = "owed"
                      /\ fate'[v].tid = t /\ fate'[v].is = "replaced"
      /\ \A v \in Spoken : v \in r \/ v = w \/ fate'[v] = fate[v]
      /\ \A s \in Transcripts : Since(s) \subseteq Since(s)'
      /\ fate[w].is = "unsaid"
  BY HeardFate DEF HeardStep, Unsaid
<1> USE DEF WordsInv
<1>0. /\ live'.tid = t /\ w \in live'.words
      /\ \A v \in live'.words : v = w \/ (live.tid = t /\ v \in live.words \ r)
  BY DEF HeardStep, Buffered
<1>1. FateNamed'
  BY <1>9 DEF FateNamed
<1>2. NextWords'
  <2>1. ASSUME NEW q \in Tasks, task'[q].op = "switch"
        PROVE  /\ q \in Callers /\ fate[task'[q].next[2]] = Unsaid /\ task'[q].next[2] # w
               /\ task[q].op = "switch" /\ task'[q].next = task[q].next
               /\ task'[q].next[2] \in Spoken
    <3>1. task[q].op = "switch" /\ task'[q].next = task[q].next
      BY <2>1, QuietFlight DEF HeardStep
    <3>2. task[q].next \in Transcripts \X Spoken
      BY <3>1 DEF TypeInv, SoundTask
    <3> QED
      BY <2>1, <3>1, <3>2 DEF HeardStep, NextWords
  <2>2. \A v \in Spoken : fate[v] = Unsaid /\ v # w => fate'[v] = Unsaid
    BY <1>9
  <2> QED
    BY <2>1, <2>2 DEF NextWords
<1>3. OneBatch'
  BY QuietFlight DEF OneBatch, HeardStep
<1>4. BufferFate'
  BY <1>0, <1>9 DEF BufferFate, TypeInv, TypeOK
<1>5. CopyFate'
  <2>1. \A v \in Spoken : fate[v].is # "unsaid" =>
            fate'[v].tid = fate[v].tid /\ fate'[v].is # "unsaid"
    BY <1>9 DEF Unsaid
  <2> QED
    BY <2>1, QuietFlight DEF CopyFate, Copies, HeardStep
<1>6. EmptyBuffer'
  BY <1>0 DEF EmptyBuffer
<1> QED
  BY <1>1, <1>2, <1>3, <1>4, <1>5, <1>6

LEMMA HeardKept ==
    ASSUME TypeInv, WordsInv, KeptInv, NEW t \in Transcripts, NEW w \in Spoken, NEW r,
           HeardStep(t, w, r), lapse => lapse',
           ~ lapse' => ~ SwitchDirty(t) /\ ~ ComesBack(t)
    PROVE  KeptInv'
<1> SUFFICES ASSUME ~ lapse' PROVE KeptInv'
  BY DEF KeptInv
<1>9. /\ fate'[w] = [tid |-> t, is |-> "owed"]
      /\ fate'[w].tid = t /\ fate'[w].is = "owed"
      /\ \A v \in r : /\ v \in Spoken /\ v # w /\ fate[v] # Unsaid
                      /\ fate[v].tid = t /\ fate[v].is = "owed"
                      /\ fate'[v].tid = t /\ fate'[v].is = "replaced"
      /\ \A v \in Spoken : v \in r \/ v = w \/ fate'[v] = fate[v]
      /\ \A s \in Transcripts : Since(s) \subseteq Since(s)'
      /\ fate[w].is = "unsaid"
  BY HeardFate DEF HeardStep, Unsaid
<1> USE DEF WordsInv, KeptInv
<1>0. /\ live'.tid = t /\ live'.dirty /\ w \in live'.words
      /\ live.tid = t => live'.words = (live.words \ r) \cup {w}
      /\ live.dirty => live.tid \in {None, t}
  BY DEF HeardStep, Buffered, SwitchDirty, TypeInv, TypeOK
<1>00. /\ InFlight' = InFlight /\ Copies' = Copies /\ stale' = stale /\ older' = older
       /\ \A q \in InFlight : /\ task'[q].op = task[q].op /\ task'[q].tid = task[q].tid
                              /\ task'[q].words = task[q].words
       /\ disk' = disk /\ batched' = batched
  BY QuietFlight DEF HeardStep
<1>1. ASSUME NEW v \in Spoken, Owed(v)', v # w
      PROVE  /\ Owed(v) /\ fate'[v] = fate[v] /\ v \notin r /\ fate[v].tid \in Transcripts
             /\ WillBeFlushed(v) => WillBeFlushed(v)'
  <2>1. Owed(v) /\ fate'[v] = fate[v] /\ v \notin r
    BY <1>1, <1>9 DEF Owed
  <2>2. fate[v].tid \in Transcripts
    BY <2>1 DEF FateNamed, Owed, Unsaid
  <2> QED
    BY <1>0, <2>1, <2>2, NoneAssumption DEF WillBeFlushed
<1>2. Owed(w)' /\ WillBeFlushed(w)'
  BY <1>0, <1>9 DEF Owed, WillBeFlushed
<1>3. InBuffer'
  <2> SUFFICES ASSUME NEW v \in Spoken, Owed(v)', fate'[v].tid = t, v # w
               PROVE  v \in live'.words
    BY <1>0 DEF InBuffer
  <2>1. fate[v] = [tid |-> t, is |-> "owed"]
    BY <1>1 DEF Owed, TypeInv, TypeOK, Fate
  <2>2. live.tid = t
    BY <2>1 DEF ComesBack
  <2> QED
    BY <1>0, <1>1, <2>1, <2>2 DEF InBuffer
<1>4. NotEmpty'
  BY <1>0, <1>00 DEF NotEmpty, Copies
<1>5. NotLost'
  BY <1>00, <1>1, <1>2 DEF NotLost, Newer
<1>6. FineCopies'
  <2>1. \A q \in Copies : Fine(q) => Fine(q)'
    <3>1. \A q \in Copies : task[q].tid \in Transcripts
      BY DEF Copies, InFlight, TypeInv, SoundTask
    <3> QED
      BY <1>00, <3>1, <1>9 DEF Fine, Copies
  <2>2. \A p \in Tasks : IsBatch(p)' <=> IsBatch(p)
    BY QuietFlight DEF HeardStep
  <2> QED
    BY <1>00, <2>1, <2>2 DEF FineCopies, Copies, InFlight
<1>7. NothingForgotten'
  BY <1>00, <1>1, <1>2 DEF NothingForgotten, OnDisk, Carried
<1>8. SupersededStaysOut'
  <2>1. \A s \in batched : /\ disk[s].words \subseteq Since(s) \cup {BatchWord}
                           /\ Since(s) = {} => disk[s].words = {BatchWord}
    BY DEF SupersededStaysOut, Since
  <2>2. batched \subseteq Transcripts
    BY DEF TypeInv, TypeOK
  <2>3. \A s \in batched : /\ disk[s].words \subseteq Since(s)' \cup {BatchWord}
                           /\ Since(s)' = {} => disk[s].words = {BatchWord}
    BY <2>1, <2>2, <1>9
  <2> QED
    BY <1>00, <2>3 DEF SupersededStaysOut, Since
<1> QED
  BY <1>3, <1>4, <1>5, <1>6, <1>7, <1>8

\* A task takes a copy of the dirty buffer, and the buffer is clean.
CopyStep(p, s, op) ==
    /\ live.dirty /\ live' = [live EXCEPT !.dirty = FALSE]
    /\ ~ Flying(task[p]) /\ task' = [task EXCEPT ![p] = s]
    /\ Flying(s) /\ s.op \notin {"write", "replace"}
    /\ s.tid = live.tid /\ s.words = live.words
    /\ s.op = "switch" => /\ p \in Callers /\ fate[s.next[2]] = Unsaid
                          /\ \A q \in Tasks \ {p} :
                                 task[q].op = "switch" => task[q].next[2] # s.next[2]
    /\ op # "replace" /\ FixContent(p, op, live.tid)
    /\ UNCHANGED <<disk, fate, batched, lapse>>

LEMMA CopyFlight ==
    ASSUME TypeInv, OneBatch, NEW p \in Tasks, NEW s, NEW op, CopyStep(p, s, op)
    PROVE  /\ p \notin InFlight /\ InFlight' = InFlight \cup {p} /\ Copies' = Copies \cup {p}
           /\ InFlight \subseteq Tasks /\ Copies \subseteq Tasks
           /\ task'[p] = s /\ \A q \in Tasks \ {p} : task'[q] = task[q]
           /\ \A q \in Tasks : IsBatch(q)' => q # p /\ IsBatch(q)
           /\ live'.tid = live.tid /\ live'.words = live.words /\ live.dirty /\ ~ live'.dirty
           /\ s.tid = live.tid /\ s.words = live.words /\ s.op \notin {"write", "replace"}
           /\ older'[p] = {r \in InFlight \ {p} : task[r].op = "replace" \/ task[r].tid = live.tid}
           /\ \A q \in Tasks \ {p} : older'[q] = older[q] \ {p}
           /\ stale' = stale \ {p} /\ fate' = fate /\ disk' = disk /\ batched' = batched
<1>1. task'[p] = s /\ \A q \in Tasks \ {p} : task'[q] = task[q]
  BY DEF CopyStep, TypeInv
<1>2. p \notin InFlight /\ InFlight' = InFlight \cup {p}
  BY <1>1 DEF InFlight, CopyStep, Flying
<1>3. \A q \in Tasks : IsBatch(q)' => q # p /\ IsBatch(q)
  BY <1>1 DEF IsBatch, CopyStep
<1>4. Copies' = Copies \cup {p}
  BY <1>1, <1>2, <1>3 DEF Copies, CopyStep, IsBatch, InFlight
<1>5. live'.tid = live.tid /\ live'.words = live.words /\ ~ live'.dirty
  BY DEF CopyStep, TypeInv, TypeOK
<1>6. \A r : Touches(r, op, live.tid) <=> task[r].op = "replace" \/ task[r].tid = live.tid
  BY DEF Touches, CopyStep
<1>7. /\ older' = [q \in Tasks |-> IF q = p THEN {r \in InFlight \ {p} : Touches(r, op, live.tid)}
                                            ELSE older[q] \ {p}]
      /\ stale' = stale \ {p}
  BY DEF CopyStep, FixContent
<1>8. {r \in InFlight \ {p} : Touches(r, op, live.tid)}
        = {r \in InFlight \ {p} : task[r].op = "replace" \/ task[r].tid = live.tid}
  BY <1>6
<1>9. older'[p] = {r \in InFlight \ {p} : task[r].op = "replace" \/ task[r].tid = live.tid}
  BY <1>7, <1>8
<1>10. \A q \in Tasks \ {p} : older'[q] = older[q] \ {p}
  BY <1>7
<1> QED
  BY <1>1, <1>2, <1>3, <1>4, <1>5, <1>7, <1>9, <1>10 DEF CopyStep, InFlight, Copies

LEMMA CopyWords ==
    ASSUME TypeInv, WordsInv, NEW p \in Tasks, NEW s, NEW op, CopyStep(p, s, op)
    PROVE  WordsInv'
<1> USE CopyFlight DEF WordsInv
<1>1. FateNamed' /\ BufferFate' /\ EmptyBuffer'
  BY DEF FateNamed, BufferFate, EmptyBuffer, Since, CopyStep
<1>2. NextWords'
  BY DEF NextWords, CopyStep
<1>3. OneBatch'
  BY DEF OneBatch, InFlight
<1>4. CopyFate'
  <2>1. task'[p].words = live.words /\ task'[p].tid = live.tid /\ live.words \subseteq Spoken
    BY DEF CopyStep, TypeInv, TypeOK
  <2>2. \A w \in live.words : fate[w].tid = live.tid /\ fate[w].is # "unsaid"
    BY DEF BufferFate
  <2>3. \A q \in Copies : q # p => task'[q] = task[q]
    BY DEF Copies, InFlight
  <2>4. Copies' = Copies \cup {p} /\ fate' = fate
    BY DEF CopyStep
  <2> QED
    BY <2>1, <2>2, <2>3, <2>4 DEF CopyFate
<1> QED
  BY <1>1, <1>2, <1>3, <1>4

LEMMA CopyKept ==
    ASSUME TypeInv, WordsInv, KeptInv, NEW p \in Tasks, NEW s, NEW op, CopyStep(p, s, op)
    PROVE  KeptInv'
<1> SUFFICES ASSUME ~ lapse PROVE KeptInv'
  BY DEF KeptInv, CopyStep
<1> USE DEF WordsInv, KeptInv
<1>0. /\ p \notin InFlight /\ InFlight' = InFlight \cup {p} /\ Copies' = Copies \cup {p}
      /\ InFlight \subseteq Tasks /\ Copies \subseteq Tasks
      /\ task'[p] = s /\ \A q \in Tasks \ {p} : task'[q] = task[q]
      /\ \A q \in Tasks : IsBatch(q)' => q # p /\ IsBatch(q)
      /\ live'.tid = live.tid /\ live'.words = live.words /\ live.dirty /\ ~ live'.dirty
      /\ s.tid = live.tid /\ s.words = live.words /\ s.op \notin {"write", "replace"}
      /\ older'[p] = {r \in InFlight \ {p} : task[r].op = "replace" \/ task[r].tid = live.tid}
      /\ \A q \in Tasks \ {p} : older'[q] = older[q] \ {p}
      /\ stale' = stale \ {p} /\ fate' = fate /\ disk' = disk /\ batched' = batched
  BY CopyFlight
<1>1. InBuffer' /\ NotEmpty'
  BY <1>0 DEF InBuffer, NotEmpty, Owed
<1>2. NotLost'
  <2> SUFFICES ASSUME NEW q \in InFlight' \ stale', NEW w \in Spoken, Owed(w),
                      task'[q].op = "replace" \/ task'[q].tid = fate[w].tid
               PROVE  \/ task'[q].tid = fate[w].tid /\ w \in task'[q].words
                      \/ Newer(q, w)'
    BY <1>0 DEF NotLost, Owed
  <2>1. CASE q = p
    BY <1>0, <2>1 DEF InBuffer
  <2>2. CASE q # p
    <3>1. q \in InFlight \ stale /\ task'[q] = task[q]
      BY <1>0, <2>2
    <3>2. CASE Newer(q, w)
      <4>1. PICK r \in InFlight : task[r].tid = fate[w].tid /\ w \in task[r].words /\ q \in older[r]
        BY <3>2 DEF Newer
      <4>2. task'[r] = task[r] /\ r \in InFlight' /\ q \in older'[r]
        BY <1>0, <2>2, <4>1
      <4> QED
        BY <1>0, <4>1, <4>2 DEF Newer
    <3>3. CASE WillBeFlushed(w)
      <4>1. q \in older'[p]
        BY <1>0, <2>2, <3>1, <3>3 DEF WillBeFlushed
      <4> QED
        BY <1>0, <3>3, <4>1 DEF Newer, WillBeFlushed
    <3> QED
      BY <3>1, <3>2, <3>3 DEF NotLost
  <2> QED
    BY <2>1, <2>2
<1>3. FineCopies'
  <2>1. Fine(p)'
    BY <1>0 DEF Fine, Since, BufferFate, TypeInv, TypeOK
  <2>2. \A q \in Copies : q # p => (Fine(q) => Fine(q)') /\ task'[q].tid = task[q].tid
    BY <1>0 DEF Fine, Since
  <2> QED
    BY <1>0, <2>1, <2>2 DEF FineCopies
<1>4. NothingForgotten'
  BY <1>0 DEF NothingForgotten, Owed, OnDisk, Carried, WillBeFlushed
<1>5. SupersededStaysOut'
  BY <1>0 DEF SupersededStaysOut
<1> QED
  BY <1>1, <1>2, <1>3, <1>4, <1>5

\* A batch write supersedes what was appended before.
Hit(op, t, w) == fate[w] # Unsaid /\ (op = "replace" \/ fate[w].tid = t)

LEMMA BatchFlight ==
    ASSUME TypeInv, WordsInv, NEW p \in Callers, NEW t \in Transcripts,
           NEW op \in {"write", "replace"}, BatchClear(p, op, t)
    PROVE  /\ p \in Tasks /\ p \notin InFlight /\ InFlight' = InFlight \cup {p} /\ Copies' = Copies
           /\ InFlight \subseteq Tasks /\ Copies \subseteq InFlight
           /\ task'[p].op = op /\ task'[p].tid = t /\ task'[p].words = {BatchWord}
           /\ \A q \in Tasks \ {p} : task'[q] = task[q] /\ ~ IsBatch(q)
           /\ \A q \in Tasks : IsBatch(q)' <=> q = p
           /\ live'.tid = live.tid
           /\ IF op = "replace" \/ live.tid = t THEN live'.words = {} /\ ~ live'.dirty
                                                ELSE live' = live
           /\ \A w \in Spoken : IF Hit(op, t, w)
                                THEN fate'[w].tid = fate[w].tid /\ fate'[w].is = "superseded"
                                ELSE fate'[w] = fate[w]
           /\ op = "replace" => older'[p] = InFlight
           /\ \A q \in InFlight : task[q].tid = t => q \in older'[p]
           /\ \A q \in Tasks \ {p} : older'[q] = older[q] \ {p}
           /\ stale' = stale \ {p} /\ disk' = disk /\ lapse' = lapse
           /\ batched' = IF op = "replace" THEN {} ELSE batched \ {t}
<1> DEFINE s == [Idle EXCEPT !.pc = "want", !.op = op, !.tid = t, !.words = {BatchWord}]
<1>1. s.pc = "want" /\ s.op = op /\ s.tid = t /\ s.words = {BatchWord}
  BY DEF Idle
<1>2. task' = [task EXCEPT ![p] = s] /\ p \in Tasks
  BY DEF BatchClear, Tasks
<1> HIDE DEF s
<1>3. task'[p] = s /\ \A q \in Tasks \ {p} : task'[q] = task[q]
  BY <1>2 DEF TypeInv
<1>4. p \notin InFlight /\ InFlight' = InFlight \cup {p}
  BY <1>1, <1>2, <1>3, IdlePc DEF InFlight, BatchClear
<1>5. \A q \in Tasks \ {p} : ~ IsBatch(q)
  BY DEF BatchClear, IsBatch, WordsInv, OneBatch
<1>6. \A q \in Tasks : IsBatch(q)' <=> q = p
  BY <1>1, <1>3, <1>5 DEF IsBatch
<1>7. Copies' = Copies
  BY <1>3, <1>4, <1>5, <1>6 DEF Copies, InFlight
<1>8. /\ live'.tid = live.tid
      /\ IF op = "replace" \/ live.tid = t THEN live'.words = {} /\ ~ live'.dirty
                                           ELSE live' = live
  BY DEF BatchClear, Cleared, TypeInv, TypeOK
<1>9. ASSUME NEW w \in Spoken
      PROVE  IF Hit(op, t, w) THEN fate'[w].tid = fate[w].tid /\ fate'[w].is = "superseded"
                              ELSE fate'[w] = fate[w]
  <2>1. fate'[w] = IF Hit(op, t, w) THEN [fate[w] EXCEPT !.is = "superseded"] ELSE fate[w]
    BY DEF BatchClear, Hit
  <2>2. fate[w] \in Fate
    BY DEF TypeInv, TypeOK
  <2> QED
    BY <2>1, <2>2 DEF Fate
<1>10. /\ older'[p] = {r \in InFlight \ {p} : Touches(r, op, t)}
       /\ \A q \in Tasks \ {p} : older'[q] = older[q] \ {p}
       /\ stale' = stale \ {p}
  BY <1>2 DEF BatchClear, FixContent
<1>11. /\ op = "replace" => older'[p] = InFlight
       /\ \A q \in InFlight : task[q].tid = t => q \in older'[p]
  BY <1>4, <1>10 DEF Touches
<1>12. /\ disk' = disk /\ lapse' = lapse
       /\ batched' = IF op = "replace" THEN {} ELSE batched \ {t}
  BY DEF BatchClear, fileVars
<1> QED
  BY <1>1, <1>2, <1>3, <1>4, <1>5, <1>6, <1>7, <1>8, <1>9, <1>10, <1>11, <1>12
     DEF InFlight, Copies

LEMMA BatchWords ==
    ASSUME TypeInv, WordsInv, NEW p \in Callers, NEW t \in Transcripts,
           NEW op \in {"write", "replace"}, BatchClear(p, op, t)
    PROVE  WordsInv'
<1> USE BatchFlight DEF WordsInv
<1>1. \A w \in Spoken : /\ fate[w] = Unsaid <=> fate'[w] = Unsaid
                        /\ fate'[w].tid = fate[w].tid
                        /\ fate[w].is # "unsaid" => fate'[w].is # "unsaid"
  BY DEF Hit, Unsaid
<1>2. FateNamed'
  BY <1>1 DEF FateNamed
<1>3. NextWords'
  <2>1. \A q \in Tasks : task'[q].op = "switch" =>
            /\ q # p /\ task'[q] = task[q] /\ task[q].next[2] \in Spoken
    BY DEF TypeInv, SoundTask
  <2> QED
    BY <1>1, <2>1 DEF NextWords
<1>4. OneBatch'
  BY DEF OneBatch
<1>5. BufferFate'
  <2>1. \A w \in live'.words : live' = live /\ op = "write" /\ live.tid # t /\ w \in Spoken
    BY DEF TypeInv, TypeOK
  <2> QED
    BY <2>1 DEF BufferFate, Hit
<1>6. CopyFate'
  BY <1>1 DEF CopyFate
<1>7. EmptyBuffer'
  <2>1. \A w \in Since(live.tid)' : fate'[w] = fate[w] /\ ~ Hit(op, t, w) /\ w \in Since(live.tid)
    BY DEF Since
  <2>2. op = "replace" \/ live.tid = t => Since(live.tid)' = {}
    BY <2>1 DEF Since, Hit, Unsaid
  <2> QED
    BY <2>1, <2>2 DEF EmptyBuffer
<1> QED
  BY <1>2, <1>3, <1>4, <1>5, <1>6, <1>7

LEMMA BatchKept ==
    ASSUME TypeInv, WordsInv, KeptInv, NEW p \in Callers, NEW t \in Transcripts,
           NEW op \in {"write", "replace"}, BatchClear(p, op, t)
    PROVE  KeptInv'
<1> SUFFICES ASSUME ~ lapse PROVE KeptInv'
  BY BatchFlight DEF KeptInv
<1> USE BatchFlight DEF WordsInv, KeptInv
<1>1. ASSUME NEW w \in Spoken, Owed(w)'
      PROVE  /\ fate'[w] = fate[w] /\ Owed(w) /\ op = "write" /\ fate[w].tid # t
             /\ WillBeFlushed(w) => WillBeFlushed(w)'
  <2>1. ~ Hit(op, t, w)
    BY <1>1 DEF Owed
  <2>2. fate'[w] = fate[w] /\ Owed(w) /\ fate[w] # Unsaid
    BY <1>1, <2>1 DEF Owed, Unsaid
  <2> QED
    BY <2>1, <2>2 DEF Hit, WillBeFlushed
<1>2. InBuffer'
  BY <1>1 DEF InBuffer
<1>3. NotEmpty'
  BY DEF NotEmpty
<1>4. NotLost'
  <2> SUFFICES ASSUME NEW q \in InFlight' \ stale', NEW w \in Spoken, Owed(w)',
                      task'[q].op = "replace" \/ task'[q].tid = fate'[w].tid
               PROVE  \/ task'[q].tid = fate'[w].tid /\ w \in task'[q].words
                      \/ Newer(q, w)'
                      \/ WillBeFlushed(w)'
    BY DEF NotLost
  <2>1. q # p /\ q \in InFlight \ stale /\ task'[q] = task[q]
    BY <1>1
  <2>2. CASE Newer(q, w)
    <3>1. PICK r \in InFlight : task[r].tid = fate[w].tid /\ w \in task[r].words /\ q \in older[r]
      BY <2>2 DEF Newer
    <3>2. task'[r] = task[r] /\ r \in InFlight' /\ q \in older'[r]
      BY <2>1, <3>1
    <3> QED
      BY <1>1, <3>1, <3>2 DEF Newer
  <2> QED
    BY <1>1, <2>1, <2>2 DEF NotLost
<1>5. \A s \in Transcripts : s # t /\ op = "write" => Since(s)' = Since(s)
  BY DEF Since, Hit
<1>6. FineCopies'
  <2> SUFFICES ASSUME NEW q \in Copies \ stale, task[q].tid \in batched'
               PROVE  Fine(q)'
    BY DEF FineCopies, InFlight
  <2>1. op = "write" /\ task[q].tid # t /\ task[q].tid \in Transcripts
    BY DEF TypeInv, TypeOK
  <2>2. Fine(q) /\ task'[q] = task[q]
    BY <2>1 DEF FineCopies
  <2> QED
    BY <1>5, <2>1, <2>2 DEF Fine
<1>7. NothingForgotten'
  BY <1>1 DEF NothingForgotten, OnDisk, Carried
<1>8. SupersededStaysOut'
  <2>1. \A s \in batched' : s \in batched /\ Since(s)' = Since(s)
    BY <1>5 DEF TypeInv, TypeOK
  <2> QED
    BY <2>1 DEF SupersededStaysOut, Since
<1> QED
  BY <1>2, <1>3, <1>4, <1>6, <1>7, <1>8

\* A task's content lands or is given up; only a switch goes on with its word.
LeaveStep(p, s) ==
    /\ p \in InFlight /\ task' = [task EXCEPT ![p] = s]
    /\ ~ Flying(s) /\ s.op \notin {"write", "replace"}
    /\ s.op = "switch" => task[p].op = "switch" /\ s.next = task[p].next
    /\ fate' = fate /\ live'.tid = live.tid /\ live'.words = live.words

LEMMA LeaveFlight ==
    ASSUME TypeInv, NEW p, NEW s, LeaveStep(p, s)
    PROVE  /\ p \in Tasks /\ task'[p] = s /\ \A q \in Tasks \ {p} : task'[q] = task[q]
           /\ InFlight' = InFlight \ {p} /\ Copies' = Copies \ {p}
           /\ InFlight \subseteq Tasks /\ Copies \subseteq InFlight
           /\ \A q \in Tasks : IsBatch(q)' <=> q # p /\ IsBatch(q)
<1>1. p \in Tasks /\ task'[p] = s /\ \A q \in Tasks \ {p} : task'[q] = task[q]
  BY DEF LeaveStep, InFlight, TypeInv
<1>2. InFlight' = InFlight \ {p}
  BY <1>1 DEF InFlight, LeaveStep, Flying
<1>3. \A q \in Tasks : IsBatch(q)' <=> q # p /\ IsBatch(q)
  BY <1>1 DEF IsBatch, LeaveStep
<1>4. Copies' = Copies \ {p}
  BY <1>1, <1>2, <1>3 DEF Copies, InFlight
<1> QED
  BY <1>1, <1>2, <1>3, <1>4 DEF InFlight, Copies

LEMMA LeaveWords ==
    ASSUME TypeInv, WordsInv, NEW p, NEW s, LeaveStep(p, s)
    PROVE  WordsInv'
<1> USE LeaveFlight DEF WordsInv
<1>1. FateNamed' /\ BufferFate' /\ EmptyBuffer'
  BY DEF FateNamed, BufferFate, EmptyBuffer, Since, LeaveStep
<1>2. NextWords'
  BY DEF NextWords, LeaveStep
<1>3. OneBatch'
  BY DEF OneBatch
<1>4. CopyFate'
  <2>1. fate' = fate /\ \A q \in Copies' : q \in Copies /\ task'[q] = task[q]
    BY DEF LeaveStep
  <2> QED
    BY <2>1 DEF CopyFate
<1> QED
  BY <1>1, <1>2, <1>3, <1>4

\* Content lands.  What it lands on is the file as it was read.
LandStep(p) ==
    /\ NoteLanding(p) /\ live' = live
    /\ \A t \in Transcripts :
           task[p].op # "replace" /\ t # task[p].tid => disk'[t].words = disk[t].words
    /\ \A w \in Spoken : w \in task[p].words => w \in disk'[task[p].tid].words
    /\ \A t \in batched' :
           \/ t \in batched /\ task[p].op # "replace" /\ t # task[p].tid
           \/ t = task[p].tid /\ disk'[t].words = task[p].words /\ (IsBatch(p) \/ t \in batched)

LEMMA LandKept ==
    ASSUME TypeInv, WordsInv, KeptInv, NEW p, NEW s, LeaveStep(p, s), LandStep(p)
    PROVE  KeptInv'
<1> SUFFICES ASSUME ~ lapse' PROVE KeptInv'
  BY DEF KeptInv
<1> USE LeaveFlight DEF WordsInv, KeptInv
<1>0. /\ p \in InFlight \ stale /\ ~ lapse
      /\ fate' = fate /\ live' = live /\ stale' = (stale \cup older[p]) \ {p}
      /\ \A q \in Tasks \ {p} : older'[q] = older[q] \ {p}
  BY DEF LeaveStep, LandStep, NoteLanding
<1>1. InBuffer' /\ NotEmpty'
  BY <1>0 DEF InBuffer, NotEmpty, Owed
<1>2. NotLost'
  <2> SUFFICES ASSUME NEW q \in InFlight' \ stale', NEW w \in Spoken, Owed(w),
                      task[q].op = "replace" \/ task[q].tid = fate[w].tid
               PROVE  \/ task'[q].tid = fate[w].tid /\ w \in task'[q].words
                      \/ Newer(q, w)'
                      \/ WillBeFlushed(w)
    BY <1>0 DEF NotLost, Owed, WillBeFlushed
  <2>1. q # p /\ q \in InFlight \ stale /\ task'[q] = task[q] /\ q \notin older[p]
    BY <1>0
  <2>2. CASE Newer(q, w)
    <3>1. PICK r \in InFlight : task[r].tid = fate[w].tid /\ w \in task[r].words /\ q \in older[r]
      BY <2>2 DEF Newer
    <3>2. task'[r] = task[r] /\ r \in InFlight' /\ q \in older'[r]
      BY <1>0, <2>1, <3>1
    <3> QED
      BY <1>0, <3>1, <3>2 DEF Newer
  <2> QED
    BY <1>0, <2>1, <2>2 DEF NotLost
<1>3. FineCopies'
  <2> SUFFICES ASSUME NEW q \in Copies' \ stale'
               PROVE  /\ task'[q].tid \in batched' => Fine(q)'
                      /\ \A b \in InFlight' :
                             IsBatch(b)' /\ task'[b].tid = task'[q].tid /\ q \notin older'[b]
                                => Fine(q)'
    BY DEF FineCopies
  <2>1. q # p /\ q \in Copies \ stale /\ task'[q] = task[q] /\ q \notin older[p]
    BY <1>0
  <2>2. Fine(q)' <=> Fine(q)
    BY <1>0, <2>1 DEF Fine, Since
  <2>3. task'[q].tid \in batched' => Fine(q)
    BY <1>0, <2>1 DEF FineCopies, LandStep
  <2>4. \A b \in InFlight' : IsBatch(b)' /\ task'[b].tid = task'[q].tid /\ q \notin older'[b]
                                => Fine(q)
    BY <1>0, <2>1 DEF FineCopies
  <2> QED
    BY <2>2, <2>3, <2>4
<1>4. NothingForgotten'
  <2> SUFFICES ASSUME NEW w \in Spoken, Owed(w)
               PROVE  OnDisk(w)' \/ Carried(w)' \/ WillBeFlushed(w)'
    BY <1>0 DEF NothingForgotten, Owed
  <2>0. WillBeFlushed(w)' <=> WillBeFlushed(w)
    BY <1>0 DEF WillBeFlushed
  <2>1. fate[w].tid \in Transcripts
    BY DEF FateNamed, Owed, Unsaid
  <2>2. \A r \in InFlight : task[r].tid = fate[w].tid /\ w \in task[r].words =>
            OnDisk(w)' \/ Carried(w)'
    BY <1>0 DEF LandStep, OnDisk, Carried
  <2>3. CASE task[p].op = "replace" \/ task[p].tid = fate[w].tid
    BY <1>0, <2>0, <2>2, <2>3 DEF NotLost, Newer
  <2>4. CASE task[p].op # "replace" /\ task[p].tid # fate[w].tid
    <3>1. OnDisk(w) => OnDisk(w)'
      BY <1>0, <2>1, <2>4 DEF OnDisk, LandStep
    <3> QED
      BY <1>0, <2>0, <2>2, <3>1 DEF NothingForgotten, Carried
  <2> QED
    BY <2>3, <2>4
<1>5. SupersededStaysOut'
  <2>1. ASSUME NEW t \in batched'
        PROVE  /\ disk'[t].words \subseteq Since(t) \cup {BatchWord}
               /\ Since(t) = {} => disk'[t].words = {BatchWord}
    <3>1. CASE t \in batched /\ task[p].op # "replace" /\ t # task[p].tid
      <4>1. disk'[t].words = disk[t].words
        BY <3>1 DEF LandStep, TypeInv, TypeOK
      <4> QED
        BY <1>0, <3>1, <4>1 DEF SupersededStaysOut, Since
    <3>2. CASE t = task[p].tid /\ disk'[t].words = task[p].words /\ IsBatch(p)
      BY <1>0, <3>2 DEF OneBatch
    <3>3. CASE t = task[p].tid /\ disk'[t].words = task[p].words /\ t \in batched /\ ~ IsBatch(p)
      <4>1. p \in Copies \ stale
        BY <1>0, <3>3 DEF Copies
      <4> QED
        BY <1>0, <3>3, <4>1 DEF FineCopies, Fine, NotEmpty
    <3> QED
      BY <2>1, <3>1, <3>2, <3>3 DEF LandStep
  <2> QED
    BY <1>0, <2>1 DEF SupersededStaysOut, Since
<1> QED
  BY <1>1, <1>2, <1>3, <1>4, <1>5

\* A batch write is given up.
LEMMA FailKept ==
    ASSUME TypeInv, WordsInv, KeptInv, NEW p, NEW s, LeaveStep(p, s), GiveUp(p), IsBatch(p),
           live' = live, disk' = disk, batched' = batched, lapse' = lapse
    PROVE  KeptInv'
<1> SUFFICES ASSUME ~ lapse PROVE KeptInv'
  BY DEF KeptInv
<1> USE LeaveFlight DEF WordsInv, KeptInv
<1>0. /\ fate' = fate /\ stale' = stale \ {p} /\ p \in InFlight /\ p \notin Copies
      /\ \A q \in Tasks \ {p} : older'[q] = older[q] \ {p}
      /\ \A w \in Spoken : w \notin task[p].words
  BY BatchAssumption DEF LeaveStep, GiveUp, OneBatch, Copies
<1>1. InBuffer' /\ NotEmpty'
  BY <1>0 DEF InBuffer, NotEmpty, Owed
<1>2. NotLost'
  <2> SUFFICES ASSUME NEW q \in InFlight' \ stale', NEW w \in Spoken, Owed(w),
                      task[q].op = "replace" \/ task[q].tid = fate[w].tid
               PROVE  \/ task'[q].tid = fate[w].tid /\ w \in task'[q].words
                      \/ Newer(q, w)'
                      \/ WillBeFlushed(w)
    BY <1>0 DEF NotLost, Owed, WillBeFlushed
  <2>1. q # p /\ q \in InFlight \ stale /\ task'[q] = task[q]
    BY <1>0
  <2>2. CASE Newer(q, w)
    <3>1. PICK r \in InFlight : task[r].tid = fate[w].tid /\ w \in task[r].words /\ q \in older[r]
      BY <2>2 DEF Newer
    <3>2. task'[r] = task[r] /\ r \in InFlight' /\ q \in older'[r]
      BY <1>0, <2>1, <3>1
    <3> QED
      BY <1>0, <3>1, <3>2 DEF Newer
  <2> QED
    BY <1>0, <2>1, <2>2 DEF NotLost
<1>3. FineCopies'
  <2>1. \A q \in Copies' : q \in Copies /\ task'[q] = task[q] /\ (Fine(q) => Fine(q)')
    BY <1>0 DEF Fine, Since
  <2> QED
    BY <1>0, <2>1 DEF FineCopies
<1>4. NothingForgotten'
  BY <1>0 DEF NothingForgotten, Owed, OnDisk, Carried, WillBeFlushed
<1>5. SupersededStaysOut'
  BY <1>0 DEF SupersededStaysOut
<1> QED
  BY <1>1, <1>2, <1>3, <1>4, <1>5

\* A failed flush leaves its words to the buffer, where they still are.
LEMMA RedirtyKept ==
    ASSUME TypeInv, WordsInv, KeptInv, NEW p \in Copies, NEW s, LeaveStep(p, s), GiveUp(p),
           live' = [live EXCEPT !.dirty = TRUE], disk' = disk, batched' = batched,
           lapse' = (lapse \/ Orphaned(p))
    PROVE  KeptInv'
<1> SUFFICES ASSUME ~ lapse' PROVE KeptInv'
  BY DEF KeptInv
<1> USE LeaveFlight DEF WordsInv, KeptInv
<1>0. /\ ~ lapse /\ ~ Orphaned(p)
      /\ fate' = fate /\ stale' = stale \ {p} /\ p \in InFlight
      /\ \A q \in Tasks \ {p} : older'[q] = older[q] \ {p}
      /\ live'.tid = live.tid /\ live'.words = live.words /\ live'.dirty
  BY DEF LeaveStep, GiveUp, TypeInv, TypeOK
<1>1. ASSUME NEW w \in Spoken, Owed(w)
      PROVE  /\ w \in task[p].words => WillBeFlushed(w)'
             /\ WillBeFlushed(w) => WillBeFlushed(w)'
  <2>1. w \in task[p].words => w \in live.words /\ fate[w].tid = live.tid
    BY <1>0, <1>1 DEF Orphaned, Owed, CopyFate
  <2> QED
    BY <1>0, <2>1 DEF WillBeFlushed
<1>2. InBuffer'
  BY <1>0 DEF InBuffer, Owed
<1>3. NotEmpty'
  <2>1. PICK w \in task[p].words : w \in live.words \/ (fate[w].is = "replaced" /\ w \in Spoken)
    BY <1>0 DEF NotEmpty, Orphaned, CopyFate
  <2>2. fate[w].tid = live.tid
    BY <1>0 DEF Orphaned, CopyFate
  <2>3. live.words # {}
    BY <2>1, <2>2 DEF EmptyBuffer, Since
  <2> QED
    BY <1>0, <2>3 DEF NotEmpty
<1>4. NotLost'
  <2> SUFFICES ASSUME NEW q \in InFlight' \ stale', NEW w \in Spoken, Owed(w),
                      task[q].op = "replace" \/ task[q].tid = fate[w].tid
               PROVE  \/ task'[q].tid = fate[w].tid /\ w \in task'[q].words
                      \/ Newer(q, w)'
                      \/ WillBeFlushed(w)'
    BY <1>0 DEF NotLost, Owed
  <2>1. q # p /\ q \in InFlight \ stale /\ task'[q] = task[q]
    BY <1>0
  <2>2. CASE Newer(q, w)
    <3>1. PICK r \in InFlight : task[r].tid = fate[w].tid /\ w \in task[r].words /\ q \in older[r]
      BY <2>2 DEF Newer
    <3>2. r # p => task'[r] = task[r] /\ r \in InFlight' /\ q \in older'[r]
      BY <1>0, <2>1, <3>1
    <3> QED
      BY <1>0, <1>1, <3>1, <3>2 DEF Newer
  <2> QED
    BY <1>0, <1>1, <2>1, <2>2 DEF NotLost
<1>5. FineCopies'
  <2>1. \A q \in Copies' : q \in Copies /\ task'[q] = task[q] /\ (Fine(q) => Fine(q)')
    BY <1>0 DEF Fine, Since
  <2> QED
    BY <1>0, <2>1 DEF FineCopies
<1>6. NothingForgotten'
  <2> SUFFICES ASSUME NEW w \in Spoken, Owed(w)
               PROVE  OnDisk(w)' \/ Carried(w)' \/ WillBeFlushed(w)'
    BY <1>0 DEF NothingForgotten, Owed
  <2>1. OnDisk(w)' <=> OnDisk(w)
    BY <1>0 DEF OnDisk
  <2>2. Carried(w) => Carried(w)' \/ WillBeFlushed(w)'
    BY <1>0, <1>1 DEF Carried
  <2> QED
    BY <1>0, <1>1, <2>1, <2>2 DEF NothingForgotten
<1>7. SupersededStaysOut'
  BY <1>0 DEF SupersededStaysOut
<1> QED
  BY <1>2, <1>3, <1>4, <1>5, <1>6, <1>7

-----------------------------------------------------------------------------
\* Which of these steps an action is.
HistInv == WordsInv /\ KeptInv

LEMMA QuietMove ==
    ASSUME TypeInv, NEW p \in Tasks, NEW s, task' = [task EXCEPT ![p] = s],
           SameContent(s, task[p]) \/ (Empty(s) /\ ~ Flying(task[p]))
    PROVE  QuietTasks
<1>1. \A q \in Tasks : task'[q] = IF q = p THEN s ELSE task[q]
  BY DEF TypeInv
<1> QED
  BY <1>1 DEF QuietTasks, SameContent

LEMMA QuietHist ==
    ASSUME TypeInv, HistInv, QuietTasks, UNCHANGED <<live, fate, batched, older, lapse>>,
           stale \subseteq stale', \A t \in Transcripts : disk'[t].words = disk[t].words
    PROVE  HistInv'
BY QuietWords, QuietKept DEF HistInv

LEMMA IdleEmpty == Empty(Idle) /\ Empty([Idle EXCEPT !.pc = "asleep"])
BY DEF Idle, Empty, Flying

\* A task that waits, asks for the lock, or ends with nothing in hand.
LEMMA WaitHist ==
    ASSUME TypeInv, HistInv, NEW p \in Tasks,
           \/ Acquire(p) \/ FreezeLock(p) \/ Thaw(p)
           \/ \E t \in Transcripts : AssignFind(p, t)
           \/ AssignLock(p) /\ ~ live.dirty
           \/ Fail(p) /\ ~ IsBatch(p)
    PROVE  HistInv'
<1> DEFINE to(pc) == [task[p] EXCEPT !.pc = pc]
<1>0. /\ task[p] \in SoundTask /\ task[p] \in TaskState
      /\ \A pc \in Pcs : /\ to(pc).pc = pc /\ to(pc).op = task[p].op /\ to(pc).tid = task[p].tid
                         /\ to(pc).words = task[p].words /\ to(pc).next = task[p].next
  BY DEF TypeInv, SoundTask, TaskState
<1>1. UNCHANGED <<live, fate, batched, older, stale, lapse, disk>>
  BY DEF Acquire, FreezeLock, Thaw, AssignFind, AssignLock, Fail, history, fileVars, IsBatch
<1>2. PICK s : /\ task' = [task EXCEPT ![p] = s]
               /\ SameContent(s, task[p]) \/ (Empty(s) /\ ~ Flying(task[p]))
  <2>1. CASE Acquire(p)
    <3>1. SameContent(Moved(task[p], "write", disk), task[p])
      BY <1>0, <2>1 DEF SameContent, Moved, Flying, Acquire, TaskState
    <3> QED
      BY <2>1, <3>1 DEF Acquire, Moved
  <2>2. CASE Fail(p) /\ ~ IsBatch(p)
    <3>1. SameContent(Moved(task[p], "failed", Idle.read), task[p])
      BY <1>0, <2>2 DEF SameContent, Moved, Flying, Fail, TaskState
    <3>2. task' = [task EXCEPT ![p] = Moved(task[p], "failed", Idle.read)]
      BY <2>2 DEF Fail, Moved, IsBatch
    <3> QED
      BY <3>1, <3>2
  <2>3. CASE AssignLock(p) /\ ~ live.dirty
    <3>1. SameContent(to("label"), task[p])
      BY <1>0, <2>3 DEF SameContent, Flying, AssignLock, Pcs
    <3>2. task' = [task EXCEPT ![p] = to("label")]
      BY <2>3 DEF AssignLock, TypeInv
    <3> QED
      BY <3>1, <3>2
  <2>4. CASE FreezeLock(p)
    <3>1. SameContent(to("frozen"), task[p]) /\ ~ Flying(task[p])
      BY <1>0, <2>4 DEF SameContent, Flying, FreezeLock, Pcs
    <3>2. task' = [task EXCEPT ![p] = to("frozen")] \/ task' = [task EXCEPT ![p] = Idle]
      BY <2>4 DEF FreezeLock, TypeInv
    <3> QED
      BY <3>1, <3>2, IdleEmpty
  <2>5. CASE Thaw(p)
    BY <2>5, IdleEmpty DEF Thaw, Flying
  <2>6. ASSUME NEW t \in Transcripts, AssignFind(p, t)
        PROVE  \E s : /\ task' = [task EXCEPT ![p] = s]
                      /\ SameContent(s, task[p]) \/ (Empty(s) /\ ~ Flying(task[p]))
    <3>1. Empty([Idle EXCEPT !.pc = "found", !.op = "assign", !.next = t])
      BY DEF Idle, Empty, Flying
    <3> QED
      BY <2>6, <3>1, IdleEmpty DEF AssignFind, Empty
  <2> QED
    BY <2>1, <2>2, <2>3, <2>4, <2>5, <2>6
<1> QED
  BY <1>1, <1>2, QuietMove, QuietHist

\* A label goes to an entry of the file; what was about to land is overtaken.
LEMMA LabelHist ==
    ASSUME TypeInv, HistInv, NEW p \in Tasks, AssignLabel(p)
    PROVE  HistInv'
<1>1. QuietTasks
  BY IdleEmpty, QuietMove DEF AssignLabel, Flying
<1>2. UNCHANGED <<live, fate, batched, older, lapse>> /\ stale \subseteq stale'
  BY DEF AssignLabel
<1>3. ASSUME NEW t \in Transcripts PROVE disk'[t].words = disk[t].words
  <2>1. disk[t] \in Entry /\ disk \in [Transcripts -> Entry]
    BY DEF TypeInv, TypeOK
  <2>2. disk'[t] = disk[t] \/ disk'[t] = [disk[t] EXCEPT !.label = TRUE]
    BY <2>1 DEF AssignLabel
  <2> QED
    BY <2>1, <2>2 DEF Entry
<1> QED
  BY <1>1, <1>2, <1>3, QuietHist

\* Copies.
LEMMA TakeCopyHist ==
    ASSUME TypeInv, HistInv, NEW p \in Tasks, NEW op, NEW next, TakeCopy(p, op, next),
           ~ Flying(task[p]), op \notin {"write", "replace"},
           op = "switch" =>
               /\ p \in Callers /\ fate[next[2]] = Unsaid
               /\ \A q \in Tasks \ {p} : task[q].op = "switch" => task[q].next[2] # next[2]
    PROVE  HistInv'
<1> DEFINE s == [Idle EXCEPT !.pc = "want", !.op = op, !.tid = live.tid,
                             !.words = live.words, !.next = next]
<1>1. s.pc = "want" /\ s.op = op /\ s.tid = live.tid /\ s.words = live.words /\ s.next = next
  BY DEF Idle
<1>2. task' = [task EXCEPT ![p] = s]
  BY DEF TakeCopy
<1> HIDE DEF s
<1>3. CopyStep(p, s, op)
  BY <1>1, <1>2 DEF CopyStep, TakeCopy, Flying, fileVars
<1> QED
  BY <1>3, CopyWords, CopyKept DEF HistInv

LEMMA AssignLockHist ==
    ASSUME TypeInv, HistInv, NEW p \in Tasks, AssignLock(p), live.dirty
    PROVE  HistInv'
<1> DEFINE s == [task[p] EXCEPT !.pc = "write", !.tid = live.tid, !.words = live.words,
                                !.read = disk]
<1>1. task[p] \in TaskState
  BY DEF TypeInv, SoundTask
<1>2. /\ s.pc = "write" /\ s.op = task[p].op /\ s.tid = live.tid /\ s.words = live.words
      /\ s.next = task[p].next
  BY <1>1 DEF TaskState
<1>3. task' = [task EXCEPT ![p] = s]
  BY DEF AssignLock
<1> HIDE DEF s
<1>4. ~ Flying(task[p])
  BY DEF AssignLock, Flying
<1>5. task[p].op \notin {"write", "replace"}
  BY <1>4 DEF HistInv, WordsInv, OneBatch, IsBatch, InFlight, Flying
<1>6. s.op = "switch" => /\ p \in Callers /\ fate[s.next[2]] = Unsaid
                         /\ \A q \in Tasks \ {p} :
                                task[q].op = "switch" => task[q].next[2] # s.next[2]
  BY <1>2 DEF HistInv, WordsInv, NextWords
<1>7. CopyStep(p, s, "assign")
  BY <1>2, <1>3, <1>4, <1>5, <1>6 DEF CopyStep, AssignLock, Flying
<1> QED
  BY <1>7, CopyWords, CopyKept DEF HistInv

\* Nobody else is about to bring an upcoming word.
LEMMA UpcomingAlone ==
    ASSUME TypeInv, HistInv, NEW w \in Upcoming
    PROVE  /\ fate[w] = Unsaid
           /\ \A q \in Tasks : task[q].op = "switch" => task[q].next[2] # w
<1> SUFFICES ASSUME NEW q \in Tasks, task[q].op = "switch", task[q].next[2] = w
             PROVE  FALSE
  BY DEF Upcoming
<1>1. q \in Callers /\ task[q].next \in Transcripts \X Spoken
  BY DEF HistInv, WordsInv, NextWords, TypeInv, SoundTask
<1> QED
  BY <1>1 DEF Upcoming

\* Appends.
LEMMA SpawnQuiet ==
    ASSUME TypeInv, NEW tasks \in [Tasks -> SoundTask], NEW b, SpawnFlusher(tasks, b),
           \A q \in Tasks : tasks[q] = task[q] \/ (tasks[q] = Idle /\ ~ Flying(task[q]))
    PROVE  /\ QuietTasks
           /\ \A q \in Tasks : task'[q].op = "switch" => task'[q] = task[q]
<1> DEFINE s == [Idle EXCEPT !.pc = "asleep"]
<1>1. Idle.op = "none" /\ s.op = "none"
  BY DEF Idle
<1>2. \A q \in Tasks : task'[q] = tasks[q] \/ (task'[q] = s /\ tasks[q].pc = "idle")
  <2>1. CASE task' = tasks
    BY <2>1
  <2>2. ASSUME NEW f \in Flushers, tasks[f].pc = "idle", task' = [tasks EXCEPT ![f] = s]
        PROVE  \A q \in Tasks : task'[q] = tasks[q] \/ (task'[q] = s /\ tasks[q].pc = "idle")
    <3> HIDE DEF s
    <3> QED
      BY <2>2 DEF Tasks
  <2> QED
    BY <2>1, <2>2 DEF SpawnFlusher
<1>3. \A q \in Tasks : task'[q] = task[q] \/ (task'[q] \in {Idle, s} /\ ~ Flying(task[q]))
  BY <1>2 DEF Flying
<1>4. QuietTasks
  BY <1>3, IdleEmpty DEF QuietTasks, SameContent
<1> QED
  BY <1>1, <1>3, <1>4

LEMMA HeardHist ==
    ASSUME TypeInv, HistInv, NEW t \in Transcripts, NEW w \in Spoken, NEW r,
           HeardStep(t, w, r), lapse' = (lapse \/ SwitchDirty(t) \/ ComesBack(t))
    PROVE  HistInv'
BY HeardWords, HeardKept DEF HistInv

LEMMA AppendHist ==
    ASSUME TypeInv, HistInv, NEW p \in Callers, NEW t \in Transcripts,
           t = live.tid \/ Fresh(t), NEW w \in Upcoming, NEW r \in Replaceable(t),
           Append(p, t, w, r)
    PROVE  HistInv'
<1>1. QuietTasks /\ \A q \in Tasks : task'[q].op = "switch" => task'[q].next[2] # w
  BY SpawnQuiet, UpcomingAlone DEF Append, TypeInv
<1>2. HeardStep(t, w, r)
  BY <1>1, UpcomingAlone DEF HeardStep, Append, Replaceable, fileVars
<1>3. ~ ComesBack(t)
  <2>1. \A v \in Spoken : fate[v] = [tid |-> t, is |-> "owed"] => fate[v].tid = t
    OBVIOUS
  <2> QED
    BY <2>1 DEF ComesBack, Fresh
<1>4. lapse' = (lapse \/ SwitchDirty(t) \/ ComesBack(t))
  BY <1>3 DEF Append, TypeInv, TypeOK
<1> QED
  BY <1>2, <1>4, HeardHist DEF Upcoming

LEMMA AppendAfterSwitchHist ==
    ASSUME TypeInv, HistInv, NEW p \in Tasks, AppendAfterSwitch(p)
    PROVE  HistInv'
<1> DEFINE tasks == [task EXCEPT ![p] = Idle]
<1>0. task[p].op = "switch" /\ ~ Flying(task[p])
  BY DEF TypeInv, SoundTask, AppendAfterSwitch, Flying
<1>1. PICK t \in Transcripts, w \in Spoken : task[p].next = <<t, w>>
  BY <1>0 DEF TypeInv, SoundTask
<1>2. /\ live' = Buffered(t, w, {}) /\ NoteSpoken(t, w, {})
      /\ SpawnFlusher(tasks, live.dirty)
      /\ lapse' = (lapse \/ SwitchDirty(t) \/ ComesBack(t))
      /\ UNCHANGED <<disk, batched, older, stale>>
  BY <1>1 DEF AppendAfterSwitch, fileVars
<1>3. /\ tasks \in [Tasks -> SoundTask] /\ tasks[p] = Idle
      /\ \A q \in Tasks : q # p => tasks[q] = task[q]
  BY IdleType DEF TypeInv
<1> HIDE DEF tasks
<1>4. /\ QuietTasks
      /\ \A q \in Tasks : task'[q].op = "switch" => task'[q] = task[q]
  BY <1>0, <1>2, <1>3, SpawnQuiet
<1>5. task'[p].op # "switch"
  <2>1. task'[p] = Idle \/ task'[p] = [Idle EXCEPT !.pc = "asleep"]
    BY <1>2, <1>3 DEF SpawnFlusher, Tasks
  <2> QED
    BY <2>1, IdleEmpty DEF Empty
<1>6. fate[w] = Unsaid /\ \A q \in Tasks : task'[q].op = "switch" => task'[q].next[2] # w
  BY <1>0, <1>1, <1>4, <1>5 DEF HistInv, WordsInv, NextWords
<1>7. HeardStep(t, w, {})
  BY <1>2, <1>4, <1>6 DEF HeardStep
<1> QED
  BY <1>2, <1>7, HeardHist

\* Landings and what is given up.
LEMMA AfterLandingLeaves ==
    ASSUME TypeInv, NEW p
    PROVE  /\ ~ Flying(AfterLanding(p)) /\ AfterLanding(p).op \notin {"write", "replace"}
           /\ AfterLanding(p).op = "switch" =>
                  task[p].op = "switch" /\ AfterLanding(p).next = task[p].next
<1>1. AfterLanding(p).pc \in {"idle", "resume", "label", "settle"}
  BY AfterLandingPc
<1>2. \/ AfterLanding(p).op = "none"
      \/ /\ AfterLanding(p).op = task[p].op /\ AfterLanding(p).next = task[p].next
         /\ task[p].op \in {"switch", "assign", "freeze"}
  BY DEF AfterLanding, Idle
<1> QED
  BY <1>1, <1>2 DEF Flying

LEMMA LandHist ==
    ASSUME TypeInv, LockInv, HistInv, NEW p \in Tasks, Land(p)
    PROVE  HistInv'
<1>1. LeaveStep(p, AfterLanding(p))
  BY AfterLandingLeaves DEF LeaveStep, Land, InFlight
<1>2. /\ disk \in [Transcripts -> Entry] /\ task[p].tid \in Transcripts
      /\ task[p].read = disk /\ disk' = Merged(p)
  BY DEF Land, LockInv, TypeInv, TypeOK, SoundTask
<1>3. disk'[task[p].tid].words = task[p].words
  BY <1>2 DEF Merged
<1>4. \A t \in Transcripts : task[p].op # "replace" /\ t # task[p].tid => disk'[t] = disk[t]
  BY <1>2 DEF Merged
<1>5. ASSUME NEW t \in batched'
      PROVE  \/ t \in batched /\ task[p].op # "replace" /\ t # task[p].tid
             \/ t = task[p].tid /\ (IsBatch(p) \/ t \in batched)
  <2>1. CASE task[p].op = "write"
    BY <1>5, <2>1 DEF Land, IsBatch
  <2>2. CASE task[p].op = "replace"
    BY <1>5, <2>2 DEF Land, IsBatch
  <2>3. CASE task[p].op \notin {"write", "replace"}
    BY <1>5, <2>3 DEF Land
  <2> QED
    BY <2>1, <2>2, <2>3
<1>6. LandStep(p)
  BY <1>3, <1>4, <1>5 DEF LandStep, Land
<1> QED
  BY <1>1, <1>6, LeaveWords, LandKept DEF HistInv

LEMMA FailHist ==
    ASSUME TypeInv, HistInv, NEW p \in Tasks, Fail(p) \/ FailTrashed(p)
    PROVE  HistInv'
<1>1. CASE Fail(p) /\ ~ IsBatch(p)
  BY <1>1, WaitHist
<1>2. CASE Fail(p) /\ IsBatch(p)
  <2>1. LeaveStep(p, Idle)
    BY <1>2, IdleEmpty DEF LeaveStep, Fail, IsBatch, InFlight, Empty
  <2>2. GiveUp(p) /\ UNCHANGED <<live, disk, batched, lapse>>
    BY <1>2 DEF Fail, IsBatch
  <2> QED
    BY <1>2, <2>1, <2>2, LeaveWords, FailKept DEF HistInv
<1>3. CASE FailTrashed(p)
  <2>1. LeaveStep(p, Idle)
    BY <1>3, IdleEmpty DEF LeaveStep, FailTrashed, InFlight, Empty
  <2>2. \A w \in Spoken : w \notin task[p].words
    BY <1>3, BatchAssumption DEF FailTrashed, HistInv, WordsInv, OneBatch, IsBatch
  <2>3. LandStep(p)
    BY <1>3, <2>2 DEF LandStep, FailTrashed
  <2> QED
    BY <2>1, <2>3, LeaveWords, LandKept DEF HistInv
<1> QED
  BY <1>1, <1>2, <1>3

LEMMA RedirtyHist ==
    ASSUME TypeInv, HistInv, NEW p \in Tasks, Redirty(p)
    PROVE  HistInv'
<1>1. p \in Copies
  BY DEF Redirty, Copies, InFlight, IsBatch, TypeInv, SoundTask
<1>2. PICK s \in {Idle, [Idle EXCEPT !.pc = "asleep"]} : task' = [task EXCEPT ![p] = s]
  BY DEF Redirty
<1>3. LeaveStep(p, s)
  BY <1>1, <1>2, IdleEmpty DEF LeaveStep, Redirty, Copies, Empty, TypeInv, TypeOK
<1>4. /\ GiveUp(p) /\ live' = [live EXCEPT !.dirty = TRUE] /\ UNCHANGED <<disk, batched>>
      /\ lapse' = (lapse \/ Orphaned(p))
  BY DEF Redirty
<1> QED
  BY <1>1, <1>3, <1>4, LeaveWords, RedirtyKept DEF HistInv

\* The invariant about the words is inductive.
LEMMA HistNext == ASSUME TypeInv, LockInv, HistInv, [Next]_vars PROVE HistInv'
<1> USE DEF Tasks
<1>0. Idle.op = "none" /\ ~ Flying(Idle)
  BY DEF Idle, Flying
<1>1. ASSUME NEW p \in Callers, Speak(p)
      PROVE  HistInv'
  <2>1. PICK t \in Transcripts, w \in Upcoming :
            /\ t = live.tid \/ Fresh(t)
            /\ \/ \E r \in Replaceable(t) : Append(p, t, w, r)
               \/ AppendSwitch(p, t, w)
    BY <1>1 DEF Speak
  <2>2. ASSUME AppendSwitch(p, t, w) PROVE HistInv'
    <3>1. fate[w] = Unsaid /\ \A q \in Tasks : task[q].op = "switch" => task[q].next[2] # w
      BY UpcomingAlone
    <3>2. TakeCopy(p, "switch", <<t, w>>) /\ ~ Flying(task[p])
      BY <1>0, <2>2 DEF AppendSwitch
    <3> QED
      BY <3>1, <3>2, TakeCopyHist
  <2> QED
    BY <2>1, <2>2, AppendHist
<1>2. ASSUME NEW p \in Callers, FlushNow(p)
      PROVE  HistInv'
  BY <1>0, <1>2, TakeCopyHist DEF FlushNow
<1>3. ASSUME NEW p \in Callers, Batch(p)
      PROVE  HistInv'
  BY <1>3, BatchWords, BatchKept DEF Batch, HistInv
<1>4. ASSUME NEW p \in Callers, Assign(p)
      PROVE  HistInv'
  BY <1>4, WaitHist DEF Assign
<1>5. ASSUME NEW p \in Tasks, TakeCopy(p, "freeze", None) \/ TakeCopy(p, "debounce", None),
             task[p] = Idle \/ task[p].pc = "asleep"
      PROVE  HistInv'
  <2>1. ~ Flying(task[p])
    BY <1>0, <1>5 DEF Flying
  <2> QED
    BY <1>5, <2>1, TakeCopyHist
<1>6. ASSUME NEW p \in Tasks, task[p] = Idle \/ task[p].pc = "asleep",
             \/ task' = [task EXCEPT ![p] = Idle]
             \/ task' = [task EXCEPT ![p] = [Idle EXCEPT !.pc = "settle", !.op = "freeze"]],
             UNCHANGED <<live, fileVars, history>>
      PROVE  HistInv'
  <2>1. Empty(Idle) /\ Empty([Idle EXCEPT !.pc = "settle", !.op = "freeze"])
    BY DEF Idle, Empty, Flying
  <2>2. ~ Flying(task[p])
    BY <1>0, <1>6 DEF Flying
  <2>3. QuietTasks
    BY <1>6, <2>1, <2>2, QuietMove
  <2> QED
    BY <1>6, <2>3, QuietHist DEF fileVars, history
<1>7. ASSUME NEW p \in Tasks, Wake(p) \/ FreezeBegin(p)
      PROVE  HistInv'
  BY <1>5, <1>6, <1>7 DEF Wake, FreezeBegin
<1>8. ASSUME NEW p \in Tasks, Step(p)
      PROVE  HistInv'
  <2>1. CASE AssignLock(p)
    BY <2>1, WaitHist, AssignLockHist
  <2> QED
    BY <1>8, <2>1, WaitHist, LandHist, RedirtyHist, AppendAfterSwitchHist, LabelHist DEF Step
<1>9. ASSUME NEW p \in Tasks, Fail(p) \/ FailTrashed(p)
      PROVE  HistInv'
  BY <1>9, FailHist
<1>10. CASE UNCHANGED vars
  <2>1. QuietTasks
    BY <1>10 DEF vars, QuietTasks, SameContent
  <2> QED
    BY <1>10, <2>1, QuietHist DEF vars, fileVars, history
<1> QED
  BY <1>1, <1>2, <1>3, <1>4, <1>7, <1>8, <1>9, <1>10 DEF Next

\* Until one of the windows is hit, every word that was accepted and neither
\* replaced nor superseded is in the file, in a copy on its way there, or in a
\* dirty buffer: whichever file accesses fail.
THEOREM NothingForgottenAlways == Spec => []NothingForgotten
<1>1. HistInv => NothingForgotten
  BY DEF HistInv, KeptInv, NothingForgotten
<1>2. TypeInv /\ LockInv /\ HistInv /\ [Next]_vars => HistInv'
  BY HistNext
<1>3. Init => HistInv
  BY KeptInit DEF HistInv
<1> QED
  BY <1>1, <1>2, <1>3, InitType, NextType, LockInit, LockNext, PTL DEF Spec

\* Until then, what a batch write has superseded does not come back.
THEOREM SupersededStaysOutAlways == Spec => []SupersededStaysOut
<1>1. HistInv => SupersededStaysOut
  BY DEF HistInv, KeptInv, SupersededStaysOut
<1>2. TypeInv /\ LockInv /\ HistInv /\ [Next]_vars => HistInv'
  BY HistNext
<1>3. Init => HistInv
  BY KeptInit DEF HistInv
<1> QED
  BY <1>1, <1>2, <1>3, InitType, NextType, LockInit, LockNext, PTL DEF Spec
=============================================================================
