------------------------- MODULE BatchTranscription -------------------------
(***************************************************************************)
(* Batch transcription: the page that starts, follows and stops the runs   *)
(* of its sessions (general-batch.ts, general.ts), and the plugin's        *)
(* registry of runs (listener2/ext.rs) with, for every run, the call that  *)
(* starts it, its task, the worker that transcribes for it and the monitor *)
(* of its idle time.                                                       *)
(*                                                                         *)
(* Events carry the session's id and no run's: the page takes whatever     *)
(* comes for the session as news of the run it is waiting for.  An event   *)
(* is heard in the step that sends it: what a channel could delay, the     *)
(* sender can, and events of one process stay in order.                    *)
(***************************************************************************)
EXTENDS Naturals

CONSTANTS Sessions, Runs,
          MaxStops,    \* bound: stop commands
          MaxNews,     \* bound: progress events of a run
          None

ASSUME NoneAssumption == None \notin Runs \cup Sessions
ASSUME BoundsAssumption == MaxStops \in Nat /\ MaxNews \in Nat

VARIABLES
    sess,      \* the session a run was started for, or None
    streams,   \* whether its provider streams: a named actor, and an idle timeout
    closure,   \* the page's promise and listener: "none", "listen", "open", "shut"
    start,     \* where start_transcription is for the run
    refused,   \* its error is on the way to the page
    state,     \* BatchTerminalState, "none" before there is a control
    registry,  \* BatchSessionRegistry: the run registered for a session, or None
    handle,    \* whether its entry has the task's abort handle
    aborted,   \* whether its task was aborted
    task,      \* where the run's task is
    worker,    \* who transcribes: "none", "on", "done" (has answered), "gone"
    pend,      \* a progress event that passed the check and is not sent yet
    news,      \* progress events so far
    monitor,   \* where the idle monitor is
    stop,      \* the stop command of a session: where it is, and the run it took
    stops,     \* stop commands so far
    heard,     \* history: the runs whose events a run of the page acted on
    overlap    \* history: runs stopped or timed out while an event was half sent

page == <<closure, heard>>
back == <<state, registry, handle, aborted>>
work == <<task, worker, pend, news>>
vars == <<sess, streams, page, start, refused, back, work, monitor, stop, stops, overlap>>

NoStop == [pc |-> "none", run |-> None]

Init ==
    /\ sess = [r \in Runs |-> None]
    /\ streams = [r \in Runs |-> FALSE]
    /\ closure = [r \in Runs |-> "none"] /\ heard = [r \in Runs |-> {}]
    /\ start = [r \in Runs |-> "none"] /\ refused = [r \in Runs |-> FALSE]
    /\ state = [r \in Runs |-> "none"] /\ registry = [s \in Sessions |-> None]
    /\ handle = [r \in Runs |-> FALSE] /\ aborted = [r \in Runs |-> FALSE]
    /\ task = [r \in Runs |-> "none"] /\ worker = [r \in Runs |-> "none"]
    /\ pend = [r \in Runs |-> FALSE] /\ news = [r \in Runs |-> 0]
    /\ monitor = [r \in Runs |-> "none"]
    /\ stop = [s \in Sessions |-> NoStop] /\ stops = 0
    /\ overlap = {}
-----------------------------------------------------------------------------
(***************************************************************************)
(* The page                                                                *)
(***************************************************************************)
\* getSessionMode(s) = "running_batch"
Transcribing(s) == \E r \in Runs : sess[r] = s /\ closure[r] \in {"listen", "open"}

Fresh == CHOOSE r \in Runs : sess[r] = None

\* startTranscription refuses a session that is being transcribed.
PageStarts(s, streaming) ==
    /\ \E r \in Runs : sess[r] = None
    /\ ~ Transcribing(s)
    /\ sess' = [sess EXCEPT ![Fresh] = s]
    /\ streams' = [streams EXCEPT ![Fresh] = streaming]
    /\ closure' = [closure EXCEPT ![Fresh] = "listen"]
    /\ UNCHANGED <<heard, start, refused, back, work, monitor, stop, stops, overlap>>

\* listen() is answered and startTranscription called, whether or not an event
\* has settled the run by the time the plugin looks; or listen() fails.
Listens(r) ==
    /\ closure[r] = "listen"
    /\ \/ closure' = [closure EXCEPT ![r] = "open"] /\ start' = [start EXCEPT ![r] = "look"]
       \/ closure' = [closure EXCEPT ![r] = "shut"] /\ UNCHANGED start
    /\ UNCHANGED <<sess, streams, heard, refused, back, work, monitor, stop, stops, overlap>>

Ending == {"completed", "failed", "stopped"}

\* Whose news the page takes an event of a session to be: the run it has open.
Listener(s) == {q \in Runs : sess[q] = s /\ closure[q] = "open"}

\* Run r sends an event.  The page drops what comes when no run is open.
Send(r, what) ==
    /\ heard' = [q \in Runs |-> IF q \in Listener(sess[r]) THEN heard[q] \cup {r} ELSE heard[q]]
    /\ closure' = [q \in Runs |-> IF q \in Listener(sess[r]) /\ what \in Ending
                                  THEN "shut" ELSE closure[q]]

\* A refused start fails the run, unless it is settled.
Refused(r) ==
    /\ refused[r]
    /\ refused' = [refused EXCEPT ![r] = FALSE]
    /\ closure' = [closure EXCEPT ![r] = "shut"]
    /\ UNCHANGED <<sess, streams, heard, start, back, work, monitor, stop, stops, overlap>>

\* The stop button is there while the session is being transcribed.
PageStops(s) ==
    /\ Transcribing(s) /\ stop[s] = NoStop
    /\ stops < MaxStops /\ stops' = stops + 1
    /\ stop' = [stop EXCEPT ![s].pc = "take"]
    /\ UNCHANGED <<sess, streams, page, start, refused, back, work, monitor, overlap>>
-----------------------------------------------------------------------------
(***************************************************************************)
(* start_transcription                                                     *)
(***************************************************************************)
Returns(r) == start' = [start EXCEPT ![r] = "done"] /\ UNCHANGED refused
Refuses(r) == start' = [start EXCEPT ![r] = "done"] /\ refused' = [refused EXCEPT ![r] = TRUE]

\* Mutant: a start for a session that runs already is taken for done.
LooksIdempotent(r) ==
    /\ start[r] = "look"
    /\ LET s == sess[r] IN
       IF registry[s] # None /\ state[registry[s]] = "running"
       THEN Returns(r) /\ UNCHANGED registry
       ELSE /\ registry' = [registry EXCEPT ![s] = None]
            /\ start' = [start EXCEPT ![r] = "insert"] /\ UNCHANGED refused
    /\ UNCHANGED <<sess, streams, page, state, handle, aborted, work, monitor, stop, stops, overlap>>

\* A session that runs already is refused.
Looks(r) ==
    /\ start[r] = "look"
    /\ LET s == sess[r] IN
       IF registry[s] # None /\ state[registry[s]] = "running"
       THEN Refuses(r) /\ UNCHANGED registry
       ELSE /\ registry' = [registry EXCEPT ![s] = None]
            /\ start' = [start EXCEPT ![r] = "insert"] /\ UNCHANGED refused
    /\ UNCHANGED <<sess, streams, page, state, handle, aborted, work, monitor, stop, stops, overlap>>

\* The lock was released in between: the new entry replaces whatever is there.
Inserts(r) ==
    /\ start[r] = "insert"
    /\ registry' = [registry EXCEPT ![sess[r]] = r]
    /\ state' = [state EXCEPT ![r] = "running"]
    /\ task' = [task EXCEPT ![r] = "work"]
    /\ start' = [start EXCEPT ![r] = "record"]
    /\ UNCHANGED <<sess, streams, page, refused, handle, aborted, worker, pend, news, monitor, stop, stops, overlap>>

\* An abort reaches a task where it awaits; once it has its result it awaits nothing.
Aborted(r) == [aborted EXCEPT ![r] = task[r] = "work"]

\* The entry gets the abort handle, if it is still there and still the run's.
\* A provider that streams is then watched for idleness.
Records(r) ==
    /\ start[r] = "record"
    /\ CASE registry[sess[r]] = r /\ state[r] = "running" ->
              /\ handle' = [handle EXCEPT ![r] = TRUE]
              /\ monitor' = IF streams[r] THEN [monitor EXCEPT ![r] = "watch"] ELSE monitor
              /\ Returns(r) /\ UNCHANGED aborted
         [] registry[sess[r]] = r /\ state[r] # "running" ->
              /\ handle' = [handle EXCEPT ![r] = TRUE]
              /\ start' = [start EXCEPT ![r] = "drop"]
              /\ UNCHANGED <<monitor, aborted, refused>>
         [] registry[sess[r]] = None ->
              aborted' = Aborted(r) /\ Returns(r) /\ UNCHANGED <<handle, monitor>>
         [] OTHER ->
              aborted' = Aborted(r) /\ Refuses(r) /\ UNCHANGED <<handle, monitor>>
    /\ UNCHANGED <<sess, streams, page, state, registry, work, stop, stops, overlap>>

\* Mutant: the session's entry is removed, whosever it is.
RemovedAny(r) == [registry EXCEPT ![sess[r]] = None]

\* remove_batch_session
Removed(r) == [s \in Sessions |-> IF registry[s] = r THEN None ELSE registry[s]]

Drops(r) ==
    /\ start[r] = "drop"
    /\ registry' = Removed(r)
    /\ Returns(r)
    /\ UNCHANGED <<sess, streams, page, state, handle, aborted, work, monitor, stop, stops, overlap>>

-----------------------------------------------------------------------------
(***************************************************************************)
(* The run's task and its worker                                           *)
(***************************************************************************)
\* Mutant: the check before an event is dropped.
MayEmitAlways(r) == state[r] # "none"

\* should_emit_event, for everything a task or worker sends before it is finished.
MayEmit(r) == state[r] = "running"

\* A streaming run's actor has one name for all runs; whoever comes while
\* another holds it fails.  A worker of another kind is a blocking thread.
NameFree == \A r \in Runs : streams[r] => worker[r] \notin {"on", "done"}

Employs(r) ==
    /\ task[r] = "work" /\ worker[r] = "none"
    /\ streams[r] => NameFree
    /\ worker' = [worker EXCEPT ![r] = "on"]
    /\ UNCHANGED <<sess, streams, page, start, refused, back, task, pend, news, monitor, stop, stops, overlap>>

\* Progress is checked first and sent later, with no lock held in between.
ChecksNews(r) ==
    /\ worker[r] = "on" /\ ~ pend[r] /\ news[r] < MaxNews
    /\ MayEmit(r)
    /\ pend' = [pend EXCEPT ![r] = TRUE] /\ news' = [news EXCEPT ![r] = @ + 1]
    /\ UNCHANGED <<sess, streams, page, start, refused, back, task, worker, monitor, stop, stops, overlap>>

SendsNews(r) ==
    /\ pend[r]
    /\ pend' = [pend EXCEPT ![r] = FALSE]
    /\ Send(r, "progress")
    /\ UNCHANGED <<sess, streams, start, refused, back, task, worker, news, monitor, stop, stops, overlap>>

\* The actor tells the task from its post_stop, and gives its name back after it.
WorkerAnswers(r) ==
    /\ worker[r] = "on" /\ ~ pend[r]
    /\ worker' = [worker EXCEPT ![r] = IF streams[r] THEN "done" ELSE "gone"]
    /\ UNCHANGED <<sess, streams, page, start, refused, back, task, pend, news, monitor, stop, stops, overlap>>

WorkerEnds(r) ==
    /\ worker[r] = "done"
    /\ worker' = [worker EXCEPT ![r] = "gone"]
    /\ UNCHANGED <<sess, streams, page, start, refused, back, task, pend, news, monitor, stop, stops, overlap>>

\* The task has its result and checks whether it may tell it.
Concludes(r, what) == task' = [task EXCEPT ![r] = IF MayEmit(r) THEN what ELSE "finish"]

Completes(r) ==
    /\ task[r] = "work" /\ worker[r] \in {"done", "gone"}
    /\ Concludes(r, "completed")
    /\ UNCHANGED <<sess, streams, page, start, refused, back, worker, pend, news, monitor, stop, stops, overlap>>

\* A run may fail at any time; the guard it drops stops a streaming actor.
Fails(r) ==
    /\ task[r] = "work" /\ worker[r] = "on" => streams[r] /\ ~ pend[r]
    /\ task[r] = "work"
    /\ Concludes(r, "failed")
    /\ worker' = [worker EXCEPT ![r] = IF @ = "on" THEN "done" ELSE @]
    /\ UNCHANGED <<sess, streams, page, start, refused, back, pend, news, monitor, stop, stops, overlap>>

Tells(r) ==
    /\ task[r] \in {"completed", "failed"}
    /\ Send(r, task[r])
    /\ task' = [task EXCEPT ![r] = "finish"]
    /\ UNCHANGED <<sess, streams, start, refused, back, worker, pend, news, monitor, stop, stops, overlap>>

\* finish_batch_session: the state first, the registry after it.
Finishes(r) ==
    /\ task[r] = "finish"
    /\ state' = [state EXCEPT ![r] = IF @ = "running" THEN "finished" ELSE @]
    /\ task' = [task EXCEPT ![r] = "remove"]
    /\ UNCHANGED <<sess, streams, page, start, refused, registry, handle, aborted, worker, pend, news, monitor,
                   stop, stops, overlap>>

Leaves(r) ==
    /\ task[r] = "remove"
    /\ registry' = Removed(r)
    /\ task' = [task EXCEPT ![r] = "gone"]
    /\ UNCHANGED <<sess, streams, page, start, refused, state, handle, aborted, worker, pend, news, monitor,
                   stop, stops, overlap>>

Aborts(r) ==
    /\ aborted[r] /\ task[r] = "work"
    /\ task' = [task EXCEPT ![r] = "gone"]
    /\ UNCHANGED <<sess, streams, page, start, refused, back, worker, pend, news, monitor, stop, stops, overlap>>
-----------------------------------------------------------------------------
(***************************************************************************)
(* Ends that come from outside: the monitor and the stop command           *)
(***************************************************************************)
\* A run between the check of an event and its last word.
HalfSent(r) == pend[r] \/ task[r] \in {"completed", "failed", "finish"}
NoteOverlap(r) == overlap' = IF HalfSent(r) THEN overlap \cup {r} ELSE overlap

\* mark_terminal_state
Marks(r, end) == state' = IF state[r] = "running" THEN [state EXCEPT ![r] = end] ELSE state

\* No progress for idle_timeout; the monitor of a run that has ended does nothing.
TimesOut(r) ==
    /\ monitor[r] = "watch" /\ state[r] = "running"
    /\ Marks(r, "timedout")
    /\ monitor' = [monitor EXCEPT ![r] = "remove"]
    /\ NoteOverlap(r)
    /\ UNCHANGED <<sess, streams, page, start, refused, registry, handle, aborted, work, stop, stops>>

MonitorRemoves(r) ==
    /\ monitor[r] = "remove"
    /\ registry' = Removed(r)
    /\ monitor' = [monitor EXCEPT ![r] = "emit"]
    /\ UNCHANGED <<sess, streams, page, start, refused, state, handle, aborted, work, stop, stops, overlap>>

MonitorTells(r) ==
    /\ monitor[r] = "emit"
    /\ Send(r, "failed")
    /\ aborted' = Aborted(r)
    /\ monitor' = [monitor EXCEPT ![r] = "done"]
    /\ UNCHANGED <<sess, streams, start, refused, state, registry, handle, work, stop, stops, overlap>>

\* stop_batch_session takes the entry; a stop that finds none does nothing.
Takes(s) ==
    /\ stop[s].pc = "take"
    /\ registry' = [registry EXCEPT ![s] = None]
    /\ stop' = [stop EXCEPT ![s] = IF registry[s] = None THEN NoStop
                                   ELSE [pc |-> "mark", run |-> registry[s]]]
    /\ UNCHANGED <<sess, streams, page, start, refused, state, handle, aborted, work, monitor, stops, overlap>>

\* abort_batch_entry: an entry whose start has not come so far has no handle.
StopAborts(r) == aborted' = IF handle[r] THEN Aborted(r) ELSE aborted

StopMarks(s) ==
    /\ stop[s].pc = "mark"
    /\ LET r == stop[s].run
       IN  /\ Marks(r, "stopped")
           /\ IF state[r] = "running"
              THEN NoteOverlap(r) /\ stop' = [stop EXCEPT ![s].pc = "emit"] /\ UNCHANGED aborted
              ELSE StopAborts(r) /\ stop' = [stop EXCEPT ![s] = NoStop] /\ UNCHANGED overlap
    /\ UNCHANGED <<sess, streams, page, start, refused, registry, handle, work, monitor, stops>>

StopTells(s) ==
    /\ stop[s].pc = "emit"
    /\ Send(stop[s].run, "stopped")
    /\ StopAborts(stop[s].run)
    /\ stop' = [stop EXCEPT ![s] = NoStop]
    /\ UNCHANGED <<sess, streams, start, refused, state, registry, handle, work, monitor, stops, overlap>>
-----------------------------------------------------------------------------
\* A call of the page or the plugin, once begun, goes on.
Call(r) == Listens(r) \/ Refused(r) \/ Looks(r) \/ Inserts(r) \/ Records(r)
           \/ Drops(r)
Told(r) == Tells(r) \/ Finishes(r) \/ Leaves(r) \/ Aborts(r) \/ SendsNews(r) \/ WorkerEnds(r)
           \/ MonitorRemoves(r) \/ MonitorTells(r)
Provider(r) == Employs(r) \/ ChecksNews(r) \/ WorkerAnswers(r) \/ Completes(r) \/ Fails(r)
Stopping(s) == Takes(s) \/ StopMarks(s) \/ StopTells(s)

Next ==
    \/ \E s \in Sessions : \/ PageStops(s) \/ Stopping(s)
                           \/ \E streaming \in BOOLEAN : PageStarts(s, streaming)
    \/ \E r \in Runs : Call(r) \/ Told(r) \/ Provider(r) \/ TimesOut(r)

\* A provider that streams may hang for ever: the monitor is there for that.
\* The others are trusted to return, with a result or an error.
Fairness ==
    /\ \A s \in Sessions : WF_vars(Stopping(s))
    /\ \A r \in Runs : /\ WF_vars(Call(r)) /\ WF_vars(Told(r)) /\ WF_vars(TimesOut(r))
                       /\ WF_vars(~ streams[r] /\ Provider(r))

Spec == Init /\ [][Next]_vars /\ Fairness
-----------------------------------------------------------------------------
(***************************************************************************)
(* Properties                                                              *)
(***************************************************************************)
TypeOK ==
    /\ sess \in [Runs -> Sessions \cup {None}] /\ streams \in [Runs -> BOOLEAN]
    /\ closure \in [Runs -> {"none", "listen", "open", "shut"}]
    /\ heard \in [Runs -> SUBSET Runs] /\ overlap \in SUBSET Runs
    /\ start \in [Runs -> {"none", "look", "insert", "record", "drop", "done"}]
    /\ refused \in [Runs -> BOOLEAN]
    /\ state \in [Runs -> {"none", "running", "stopped", "timedout", "finished"}]
    /\ registry \in [Sessions -> Runs \cup {None}]
    /\ handle \in [Runs -> BOOLEAN] /\ aborted \in [Runs -> BOOLEAN]
    /\ task \in [Runs -> {"none", "work", "completed", "failed", "finish", "remove", "gone"}]
    /\ worker \in [Runs -> {"none", "on", "done", "gone"}]
    /\ pend \in [Runs -> BOOLEAN] /\ news \in [Runs -> 0 .. MaxNews]
    /\ monitor \in [Runs -> {"none", "watch", "remove", "emit", "done"}]
    /\ stop \in [Sessions -> [pc : {"none", "take", "mark", "emit"}, run : Runs \cup {None}]]
    /\ stops \in 0 .. MaxStops

\* Once a run was ended from outside in the middle of its last word, the events
\* of its session may be taken for another run's.
Crossed(s) == \E r \in overlap : sess[r] = s

\* The page acts, for a run, on no other run's events: progress, a transcript, an
\* error or a stop of an earlier run never reaches the next one.  The events name
\* the session only; what keeps the runs apart is that a run says nothing more
\* after its end.
HearsItself == \A r \in Runs : heard[r] \subseteq {r} \/ Crossed(sess[r])

\* The registry knows the run that goes on, so it can be stopped and a second one
\* is refused; and what it knows somebody is still going to remove, so that the
\* session can be transcribed again.
RegistryAgrees ==
    /\ \A r \in Runs : state[r] = "running" /\ task[r] # "gone"
                       => registry[sess[r]] = r \/ Crossed(sess[r])
                          \/ stop[sess[r]] = [pc |-> "mark", run |-> r]
    /\ \A s \in Sessions : registry[s] # None =>
          \/ start[registry[s]] # "done" \/ task[registry[s]] \notin {"none", "gone"}
          \/ monitor[registry[s]] = "remove"

\* Every transcription the page starts is settled: it never shows a session as
\* being transcribed for ever, whatever is stopped, refused or timed out.
Settles == \A r \in Runs : closure[r] = "listen" ~> closure[r] = "shut"
=============================================================================
