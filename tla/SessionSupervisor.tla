--------------------------- MODULE SessionSupervisor ---------------------------
(***************************************************************************)
(* crates/listener-core/src/actors/session/supervisor.rs with its          *)
(* submodules children.rs and mode.rs: the actor that keeps one recording  *)
(* session alive.  It owns three child actors - the audio source, the live *)
(* transcription listener and the disk recorder - restarts them, falls     *)
(* back to batch transcription when the listener fails, retries the        *)
(* listener on a timer and shuts everything down.                          *)
(*                                                                         *)
(* The supervisor handles one event or message at a time, so a handler is  *)
(* one action; what runs concurrently with it (children dying, the source  *)
(* draining its mailbox, the timer, the root actor's requests) are actions *)
(* of their own.  Actors are named by increasing ids: a late exit event of *)
(* a replaced child carries an id that is in no cell any more.             *)
(***************************************************************************)
EXTENDS RestartTracker, Sequences, FiniteSets

CONSTANTS Langs,      \* values of SessionParams.languages
          Humans,     \* human ids
          NoHuman,    \* self_human_id = None
          Updates,    \* the configurations a session starts with or is sent
          MaxAttempt, \* where listener_retry_attempt saturates (usize::MAX)
          MaxId,      \* bound: no fault or update once this id is in use
          MaxInbox,   \* bound: updates waiting in the supervisor's mailbox
          MaxSourceQ  \* bound: no retry while the source is this far behind

Config == [langs : Langs, humans : SUBSET Humans, me : Humans \cup {NoHuman}]

ASSUME ConfigAssumption == Updates \subseteq Config
ASSUME AttemptAssumption == MaxAttempt \in Nat
ASSUME BoundsAssumption == {MaxId, MaxInbox, MaxSourceQ} \subseteq Nat

VARIABLES phase,        \* "spawned" (pre_start done), "running" or "stopped"
          shuttingDown, \* state.shutting_down: a stop of the actor is queued
          mode,         \* state.mode
          cell,         \* state.source_cell, listener_cell and recorder_cell
          params,       \* state.ctx.params
          timers,       \* RetryListener messages: armed timers and mailbox
          attempt,      \* state.listener_retry_attempt
          tracker,      \* state.source_restarts and recorder_restarts
          told,         \* the last Active lifecycle event of this session
          actors,       \* the child actors, and the events of their exits
          nextId,       \* the id of the next actor
          lcfg,         \* the configuration of the current listener
          source,       \* listener_routing and recorder held by the source
          routeQ, recQ, \* messages waiting in the source's mailbox
          inbox,        \* UpdateConfig messages waiting, oldest first
          asked         \* root sent Shutdown; it is behind all of inbox

supVars == <<phase, shuttingDown, mode, cell, params, timers, attempt,
             tracker, told>>
srcVars == <<source, routeQ, recQ>>
vars == <<supVars, srcVars, actors, nextId, lcfg, inbox, asked>>

Kinds  == {"source", "listener", "recorder"}
Modes  == {"live", "batch"}
Errors == {"none", "auth", "stream"}   \* Option<DegradedError>, by outcome
NoCell == 0
Cells  == [Kinds -> Nat]

-------------------------------------------------------------------------------
(* mode.rs *)

ModeState == [requested : Modes, current : Modes, buffering : BOOLEAN]

\* SessionModeState::new
NewMode(req, cur) ==
  [requested |-> req, current |-> cur, buffering |-> cur = "live"]

ShouldSpawnListener(m) == m.current = "live"

OnListenerAttached(m) == [m EXCEPT !.current = "live", !.buffering = TRUE]

\* Mutant: the fallback forgets to stop buffering.
FallbackKeepsBuffering(m) == [m EXCEPT !.current = "batch"]

EnterBatchFallback(m) == [m EXCEPT !.current = "batch", !.buffering = FALSE]

ShouldRetryListener(m) == m.requested = "live" /\ m.current = "batch"

Attached(id) == [kind |-> "attached", to |-> id]
Buffering    == [kind |-> "buffering", to |-> NoCell]
Dropped      == [kind |-> "dropped", to |-> NoCell]
Routing == [kind : {"attached", "buffering", "dropped"}, to : Nat]

ListenerRouting(m, l) ==
  IF l # NoCell THEN Attached(l)
  ELSE IF m.buffering THEN Buffering ELSE Dropped

-------------------------------------------------------------------------------
(* Which updates need a new listener *)

\* expected_speaker_count; 0 stands for None.
ExpectedSpeakerCount(c) ==
  LET people == c.humans \cup (IF c.me = NoHuman THEN {} ELSE {c.me})
  IN  IF Cardinality(people) > 1 THEN Cardinality(people) ELSE 0

\* Mutant: only the languages are compared.
IgnoresSpeakers(old, new) == old.langs # new.langs

UpdateRequiresRefresh(old, new) ==
  \/ old.langs # new.langs
  \/ ExpectedSpeakerCount(old) # ExpectedSpeakerCount(new)

\* What a listener was opened for (stream), and whom it was last told of.
ListenerConfig == [stream : Updates, people : Updates]
RunsWith(c) == [stream |-> c, people |-> c]

-------------------------------------------------------------------------------
(* Child actors (children.rs; the actor runtime itself is external).        *)
(* A child is registered under the fixed name of its kind, so at most one   *)
(* of each kind lives; a cell may hold a child that is already dead, with   *)
(* the event of its exit still queued.                                      *)

\* The events a child's exit puts on the supervisor's event port.
Exit(id, why) == [id |-> id, why |-> why]
Whys == {"stopped", "auth", "stream", "failed", "device_change"}
ExitEvent == [id : Nat \ {NoCell}, why : Whys]

\* The live child of each kind, whether it was told to stop, and the queue.
Actors == [live : [Kinds -> Nat], stopping : [Kinds -> BOOLEAN],
           exits : Seq(ExitEvent)]

\* How a child of each kind may end by itself.
OwnWhys(k) == CASE k = "listener" -> {"auth", "stream", "failed"}
                [] k = "source"   -> {"device_change", "stream", "failed"}
                [] k = "recorder" -> {"failed"}

Up(a, c, k) == c[k] # NoCell /\ a.live[k] = c[k]

\* Mutant: the child is dropped without being stopped.
DropChild(a, c, k, slow) == a

\* stop_child: stop and wait; a child in slow outlives CHILD_STOP_TIMEOUT.
StopChild(a, c, k, slow) ==
  IF ~Up(a, c, k) THEN a
  ELSE IF k \in slow THEN [a EXCEPT !.stopping[k] = TRUE]
  ELSE [live |-> [a.live EXCEPT ![k] = NoCell],
        stopping |-> a.stopping,
        exits |-> Append(a.exits, Exit(c[k], "stopped"))]

StopAll(a, c, slow) ==
  StopChild(StopChild(StopChild(a, c, "source", slow),
                      c, "listener", slow),
            c, "recorder", slow)

\* shutdown_children, with shutting_down set and the actor's own stop queued.
ShutdownChildren(a, c) ==
  /\ shuttingDown' = TRUE
  /\ cell' = [k \in Kinds |-> NoCell]
  /\ \E slow \in SUBSET Kinds : actors' = StopAll(a, c, slow)

\* A message to the source is lost when there is no live source.
ToSource(a, c, q, m) == IF Up(a, c, "source") THEN Append(q, m) ELSE q

\* What the source holds once its mailbox is drained.
EffectiveRouting  == IF routeQ = <<>> THEN source.routing
                     ELSE routeQ[Len(routeQ)]
EffectiveRecorder == IF recQ = <<>> THEN source.recorder ELSE recQ[Len(recQ)]

\* prepare_listener_refresh: the source's queue of routings after the call.
\* An answer within 500 ms means the source has handled all that came before.
RouteQAfterRefresh(replied, c) ==
  IF ~Up(actors, c, "source") THEN routeQ
  ELSE IF replied THEN <<>>
  ELSE routeQ \o <<Buffering, ListenerRouting(mode, c["listener"])>>

\* ... and what the call leaves in the source itself.
RefreshSource(replied, c) ==
  IF Up(actors, c, "source") /\ replied
  THEN /\ source' = [routing |-> Buffering, recorder |-> EffectiveRecorder]
       /\ recQ' = <<>>
  ELSE UNCHANGED <<source, recQ>>

-------------------------------------------------------------------------------
(* Listener attachment and failure *)

\* spawn_listener succeeded: on_listener_attached, attach_listener_to_source.
\* a, c and q are the children, cells and routing queue the handler has so far.
AttachListener(a, c, q) ==
  /\ a.live["listener"] = NoCell
  /\ actors' = [a EXCEPT !.live["listener"] = nextId]
  /\ cell' = [c EXCEPT !["listener"] = nextId]
  /\ nextId' = nextId + 1
  /\ mode' = OnListenerAttached(mode)
  /\ routeQ' = ToSource(a, c, q, ListenerRouting(mode', nextId))
  /\ lcfg' = RunsWith(params'.cfg)

\* parse_degraded_reason, and StreamError for a child that failed.
DegradedReason(why) == IF why = "auth" THEN "auth" ELSE "stream"

\* Mutant: the listener is retried whatever the failure.
RetryAlways(err) == err # "none"

ShouldRetryFailure(err) == err # "auth"

\* saturating_add
NextAttempt(n) == IF n < MaxAttempt THEN n + 1 ELSE n

\* Mutant: the fallback tells the source nothing.
SilentFallback(a, c, q, err) ==
  /\ mode' = EnterBatchFallback(mode)
  /\ routeQ' = q
  /\ told' = [mode |-> mode'.current, error |-> err]

\* enter_batch_fallback
BatchFallback(a, c, q, err) ==
  /\ mode' = EnterBatchFallback(mode)
  /\ routeQ' = ToSource(a, c, q, ListenerRouting(mode', c["listener"]))
  /\ told' = [mode |-> mode'.current, error |-> err]

\* schedule_listener_retry; t is the number of timers the handler has left.
ScheduleRetry(t) ==
  /\ timers' = t + 1
  /\ attempt' = NextAttempt(attempt)

\* The batch branch of handle_listener_failure.
FallBack(a, c, q, err, t) ==
  /\ BatchFallback(a, c, q, err)
  /\ IF ShouldRetryFailure(err) THEN ScheduleRetry(t)
     ELSE timers' = t /\ UNCHANGED attempt
  /\ actors' = a /\ cell' = c
  /\ UNCHANGED shuttingDown

\* stop_after_listener_failure
StopAfterFailure(a, c, q, err, t) ==
  /\ told' = [mode |-> mode.current, error |-> err]
  /\ ShutdownChildren(a, c)
  /\ routeQ' = q /\ timers' = t
  /\ UNCHANGED <<mode, attempt>>

\* handle_listener_failure
HandleListenerFailure(a, c, q, err, t) ==
  IF params.stopOnFailure
  THEN StopAfterFailure(a, c, q, err, t)
  ELSE FallBack(a, c, q, err, t)

-------------------------------------------------------------------------------
(* The session's life before its first message *)

\* pre_start: the recorder, then the source; the root actor announces Active.
Init ==
  /\ phase = "spawned" /\ shuttingDown = FALSE
  /\ \E req \in Modes, cur \in Modes :
        /\ req = "batch" => cur = "batch"
        /\ mode = NewMode(req, cur)
  /\ params \in [cfg : Updates, stopOnFailure : BOOLEAN]
  /\ cell = [source |-> 2, listener |-> NoCell, recorder |-> 1]
  /\ actors = [live |-> cell, stopping |-> [k \in Kinds |-> FALSE],
               exits |-> <<>>]
  /\ nextId = 3
  /\ source = [routing |-> ListenerRouting(mode, NoCell), recorder |-> 1]
  /\ routeQ = <<>> /\ recQ = <<>>
  /\ tracker = [k \in {"source", "recorder"} |-> NewTracker]
  /\ told = [mode |-> mode.current, error |-> "none"]
  /\ timers = 0 /\ attempt = 0
  /\ lcfg = RunsWith(params.cfg)
  /\ inbox = <<>> /\ asked = FALSE

\* post_start of a session that records only.
PostStartRecordOnly ==
  /\ phase = "spawned" /\ ~ShouldSpawnListener(mode)
  /\ phase' = "running"
  /\ UNCHANGED <<shuttingDown, mode, cell, params, timers, attempt, tracker,
                 told, srcVars, actors, nextId, lcfg, inbox, asked>>

PostStartAttached ==
  /\ phase = "spawned" /\ ShouldSpawnListener(mode)
  /\ phase' = "running"
  /\ UNCHANGED params
  /\ AttachListener(actors, cell, routeQ)
  /\ UNCHANGED <<shuttingDown, timers, attempt, tracker, told, source, recQ,
                 inbox, asked>>

PostStartFailed ==
  /\ phase = "spawned" /\ ShouldSpawnListener(mode)
  /\ phase' = "running"
  /\ HandleListenerFailure(actors, cell, routeQ, "stream", timers)
  /\ UNCHANGED <<params, tracker, source, recQ, nextId, lcfg, inbox, asked>>

-------------------------------------------------------------------------------
(* handle_supervisor_evt *)

\* maybe_reset runs on both trackers before anything else.
ResetTrackers == [k \in DOMAIN tracker |-> MaybeReset(tracker[k])]

Popped == [actors EXCEPT !.exits = Tail(@)]

Noticing == phase = "running" /\ actors.exits # <<>>

\* Mutant: an unknown id is taken for the listener's.
BlamesListener(id) ==
  IF \A k \in Kinds : cell[k] # id THEN {"listener"}
  ELSE {k \in Kinds : cell[k] = id}

\* identify_child: the cells that hold the actor with this id.
IdentifyChild(id) == {k \in Kinds : cell[k] = id}

\* Mutant: exits are ignored whether or not the session is shutting down.
IgnoreAnyExit ==
  /\ Noticing
  /\ actors' = Popped /\ tracker' = ResetTrackers
  /\ UNCHANGED <<phase, shuttingDown, mode, cell, params, timers, attempt,
                 told, srcVars, nextId, lcfg, inbox, asked>>

\* Late events of a supervisor that is shutting down.
IgnoreExit ==
  /\ Noticing /\ shuttingDown
  /\ actors' = Popped /\ tracker' = ResetTrackers
  /\ UNCHANGED <<phase, shuttingDown, mode, cell, params, timers, attempt,
                 told, srcVars, nextId, lcfg, inbox, asked>>

\* The exited actor is in no cell.
UnknownExit ==
  /\ Noticing /\ ~shuttingDown
  /\ IdentifyChild(Head(actors.exits).id) = {}
  /\ actors' = Popped /\ tracker' = ResetTrackers
  /\ UNCHANGED <<phase, shuttingDown, mode, cell, params, timers, attempt,
                 told, srcVars, nextId, lcfg, inbox, asked>>

ListenerExit ==
  /\ Noticing /\ ~shuttingDown
  /\ LET e == Head(actors.exits) IN
       /\ "listener" \in IdentifyChild(e.id)
       /\ HandleListenerFailure(Popped, [cell EXCEPT !["listener"] = NoCell],
                                routeQ, DegradedReason(e.why), timers)
  /\ tracker' = ResetTrackers
  /\ UNCHANGED <<phase, params, source, recQ, nextId, lcfg, inbox, asked>>

\* meltdown
Meltdown(c) ==
  /\ ShutdownChildren(Popped, c)
  /\ UNCHANGED <<phase, mode, params, timers, attempt, told, nextId, lcfg,
                 inbox, asked>>

\* The budget of child k once its exit is counted, if it counts.
Charged(k, counts) ==
  IF counts THEN RecordRestart(ResetTrackers[k]) ELSE ResetTrackers[k]

ChargedTrackers(k, counts) ==
  [ResetTrackers EXCEPT ![k] = Charged(k, counts)]

\* A device change is not counted against the source's budget.
SourceExit ==
  /\ Noticing /\ ~shuttingDown
  /\ LET e == Head(actors.exits)
         counts == e.why # "device_change"
         c == [cell EXCEPT !["source"] = NoCell]
     IN  /\ "source" \in IdentifyChild(e.id)
         /\ tracker' = ChargedTrackers("source", counts)
         /\ \/ /\ counts => WithinBudget(tracker'["source"])
               /\ actors' = [Popped EXCEPT !.live["source"] = nextId]
               /\ cell' = [c EXCEPT !["source"] = nextId]
               /\ nextId' = nextId + 1
               /\ source' = [routing |-> ListenerRouting(mode,
                                                         cell["listener"]),
                             recorder |-> cell["recorder"]]
               /\ routeQ' = <<>> /\ recQ' = <<>>
               /\ UNCHANGED <<phase, shuttingDown, mode, params, timers,
                              attempt, told, lcfg, inbox, asked>>
            \* over budget, or every spawn attempt failed
            \/ Meltdown(c) /\ UNCHANGED srcVars

\* Mutant: only the loss of the recorder is passed on.
SyncLoss(q, r) == IF r = NoCell THEN ToSource(actors, cell, q, r) ELSE q

\* sync_source_recorder
SyncRecorder(q, r) == ToSource(actors, cell, q, r)

RecorderExit ==
  /\ Noticing /\ ~shuttingDown
  /\ LET e == Head(actors.exits)
         c == [cell EXCEPT !["recorder"] = NoCell]
         q == SyncRecorder(recQ, NoCell)
     IN  /\ "recorder" \in IdentifyChild(e.id)
         /\ tracker' = ChargedTrackers("recorder", TRUE)
         /\ \/ /\ WithinBudget(tracker'["recorder"])
               /\ actors' = [Popped EXCEPT !.live["recorder"] = nextId]
               /\ cell' = [c EXCEPT !["recorder"] = nextId]
               /\ nextId' = nextId + 1
               /\ recQ' = SyncRecorder(q, nextId)
               /\ UNCHANGED <<phase, shuttingDown, mode, params, timers,
                              attempt, told, lcfg, inbox, asked, source,
                              routeQ>>
            \/ Meltdown(c) /\ recQ' = q /\ UNCHANGED <<source, routeQ>>

-------------------------------------------------------------------------------
(* handle.  A queued stop of the actor overtakes its messages, so none is    *)
(* handled once shutting_down is set.                                        *)

Ready == phase = "running" /\ ~shuttingDown

\* Mutant: Shutdown stops the children and leaves the actor running.
HandleShutdownHalf ==
  /\ Ready /\ asked /\ inbox = <<>>
  /\ cell' = [k \in Kinds |-> NoCell]
  /\ \E slow \in SUBSET Kinds : actors' = StopAll(actors, cell, slow)
  /\ UNCHANGED <<phase, shuttingDown, mode, params, timers, attempt, tracker, told, srcVars,
                 nextId, lcfg, inbox, asked>>

HandleShutdown ==
  /\ Ready /\ asked /\ inbox = <<>>
  /\ ShutdownChildren(actors, cell)
  /\ UNCHANGED <<phase, mode, params, timers, attempt, tracker, told, srcVars,
                 nextId, lcfg, inbox, asked>>

\* A successful retry resets the back-off and announces the live mode again.
Reconnected ==
  /\ attempt' = 0
  /\ told' = [mode |-> mode'.current, error |-> "none"]

\* retry_listener.  A stale message changes nothing.
RetryListener ==
  /\ Ready /\ timers > 0 /\ Len(routeQ) < MaxSourceQ
  /\ UNCHANGED <<phase, params, tracker, inbox, asked>>
  /\ IF cell["listener"] # NoCell \/ ~ShouldRetryListener(mode)
     THEN /\ timers' = timers - 1
          /\ UNCHANGED <<shuttingDown, mode, cell, attempt, told, srcVars,
                         actors, nextId, lcfg>>
     ELSE \E replied \in BOOLEAN :
            LET q == RouteQAfterRefresh(replied, cell) IN
            /\ RefreshSource(replied, cell)
            /\ \/ /\ AttachListener(actors, cell, q)
                  /\ timers' = timers - 1
                  /\ Reconnected
                  /\ UNCHANGED shuttingDown
               \/ /\ HandleListenerFailure(actors, cell, q, "stream",
                                           timers - 1)
                  /\ UNCHANGED <<nextId, lcfg>>

NeedsRefresh(u) ==
  ShouldSpawnListener(mode) /\ UpdateRequiresRefresh(params.cfg, u)

\* update_config without a refresh: the listener is told of the new people; its
\* stream keeps the languages and the speakers it was opened for.
UpdateConfig ==
  /\ Ready /\ inbox # <<>> /\ ~NeedsRefresh(Head(inbox))
  /\ inbox' = Tail(inbox)
  /\ params' = [params EXCEPT !.cfg = Head(inbox)]
  /\ lcfg' = IF Up(actors, cell, "listener")
             THEN [lcfg EXCEPT !.people = Head(inbox)] ELSE lcfg
  /\ UNCHANGED <<phase, shuttingDown, mode, cell, timers, attempt, tracker,
                 told, srcVars, actors, nextId, asked>>

\* refresh_listener: stop the listener (it may outlive the wait), rewind the
\* source, start a listener that runs with the new configuration.
RefreshListener ==
  /\ Ready /\ inbox # <<>> /\ NeedsRefresh(Head(inbox))
  /\ inbox' = Tail(inbox)
  /\ params' = [params EXCEPT !.cfg = Head(inbox)]
  /\ UNCHANGED <<phase, tracker, asked>>
  /\ \E replied \in BOOLEAN, slow \in SUBSET {"listener"} :
       LET held == cell["listener"] # NoCell
           c == [cell EXCEPT !["listener"] = NoCell]
           a == StopChild(actors, cell, "listener", slow)
           q == IF held THEN RouteQAfterRefresh(replied, c) ELSE routeQ
       IN  /\ IF held THEN RefreshSource(replied, c)
                      ELSE UNCHANGED <<source, recQ>>
           /\ \/ /\ AttachListener(a, c, q)
                 /\ UNCHANGED <<shuttingDown, timers, attempt, told>>
              \/ /\ HandleListenerFailure(a, c, q, "stream", timers)
                 /\ UNCHANGED <<nextId, lcfg>>

\* The queued stop ends the actor.
SupervisorStops ==
  /\ phase = "running" /\ shuttingDown
  /\ phase' = "stopped"
  /\ UNCHANGED <<shuttingDown, mode, cell, params, timers, attempt, tracker,
                 told, srcVars, actors, nextId, lcfg, inbox, asked>>

-------------------------------------------------------------------------------
(* What runs beside the supervisor *)

\* A child ends by itself (a fault) or because it was told to stop before.
ChildExits(k) ==
  /\ actors.live[k] # NoCell
  /\ \E why \in IF actors.stopping[k] THEN {"stopped"} ELSE OwnWhys(k) :
        actors' = [live |-> [actors.live EXCEPT ![k] = NoCell],
                   stopping |-> [actors.stopping EXCEPT ![k] = FALSE],
                   exits |-> Append(actors.exits, Exit(actors.live[k], why))]
  /\ UNCHANGED <<supVars, srcVars, nextId, lcfg, inbox, asked>>

ChildFails(k) == ~actors.stopping[k] /\ nextId <= MaxId /\ ChildExits(k)

ChildStops(k) == actors.stopping[k] /\ ChildExits(k)

\* SourceMsg::SetListenerRouting and PrepareListenerRefresh
SourceSetsRouting ==
  /\ actors.live["source"] # NoCell /\ routeQ # <<>>
  /\ source' = [source EXCEPT !.routing = Head(routeQ)]
  /\ routeQ' = Tail(routeQ)
  /\ UNCHANGED <<supVars, recQ, actors, nextId, lcfg, inbox, asked>>

\* SourceMsg::SetRecorder
SourceSetsRecorder ==
  /\ actors.live["source"] # NoCell /\ recQ # <<>>
  /\ source' = [source EXCEPT !.recorder = Head(recQ)]
  /\ recQ' = Tail(recQ)
  /\ UNCHANGED <<supVars, routeQ, actors, nextId, lcfg, inbox, asked>>

\* RootMsg::UpdateSessionConfig and StopSession reach this supervisor; root
\* forgets it as the active one when it sends Shutdown.
RootUpdates ==
  /\ phase # "stopped" /\ ~asked
  /\ nextId <= MaxId /\ Len(inbox) < MaxInbox
  /\ \E u \in Updates : inbox' = Append(inbox, u)
  /\ UNCHANGED <<supVars, srcVars, actors, nextId, lcfg, asked>>

RootStops ==
  /\ phase # "stopped" /\ ~asked
  /\ asked' = TRUE
  /\ UNCHANGED <<supVars, srcVars, actors, nextId, lcfg, inbox>>

Tick ==
  /\ Ready
  /\ tracker' = [k \in DOMAIN tracker |-> Elapse(tracker[k])]
  /\ UNCHANGED <<phase, shuttingDown, mode, cell, params, timers, attempt,
                 told, srcVars, actors, nextId, lcfg, inbox, asked>>

PostStart == PostStartRecordOnly \/ PostStartAttached \/ PostStartFailed

HandleExit ==
  IgnoreExit \/ UnknownExit \/ ListenerExit \/ SourceExit \/ RecorderExit

HandleUpdate == UpdateConfig \/ RefreshListener

SourceHandles == SourceSetsRouting \/ SourceSetsRecorder

Next ==
  \/ PostStart
  \/ HandleExit
  \/ HandleShutdown
  \/ RetryListener
  \/ HandleUpdate
  \/ SupervisorStops
  \/ \E k \in Kinds : ChildFails(k)
  \/ \E k \in Kinds : ChildStops(k)
  \/ SourceHandles
  \/ RootUpdates
  \/ RootStops
  \/ Tick

\* The runtime schedules the supervisor whenever it has work, a child that was
\* told to stop does so in the end, and the source drains its mailbox.  No
\* fairness for faults, for the root actor or for the clock.
Fairness ==
  /\ WF_vars(PostStart)
  /\ WF_vars(HandleExit)
  /\ WF_vars(HandleShutdown)
  /\ WF_vars(HandleUpdate)
  /\ WF_vars(SupervisorStops)
  /\ WF_vars(RetryListener)
  /\ WF_vars(SourceHandles)
  /\ \A k \in Kinds : WF_vars(ChildStops(k))

Spec == Init /\ [][Next]_vars
FairSpec == Spec /\ Fairness

-------------------------------------------------------------------------------
(* Properties *)

Queues == /\ routeQ \in Seq(Routing)
          /\ recQ \in Seq(Nat)
          /\ inbox \in Seq(Updates)

\* Every variable has its type.
TypeOK ==
  /\ phase \in {"spawned", "running", "stopped"}
  /\ shuttingDown \in BOOLEAN /\ asked \in BOOLEAN
  /\ mode \in ModeState
  /\ cell \in Cells
  /\ params \in [cfg : Updates, stopOnFailure : BOOLEAN]
  /\ timers \in Nat /\ attempt \in 0..MaxAttempt
  /\ tracker \in [{"source", "recorder"} -> Tracker]
  /\ told \in [mode : Modes, error : Errors]
  /\ actors \in Actors
  /\ nextId \in Nat \ {NoCell}
  /\ lcfg \in ListenerConfig
  /\ source \in [routing : Routing, recorder : Nat]
  /\ Queues

\* Once the source has drained its mailbox it routes audio where the session
\* wants it: to the listener in the cell, to the replay buffer, or nowhere -
\* across failures, timed out refreshes, retries and source restarts.
RoutingAgrees ==
  Up(actors, cell, "source") =>
    EffectiveRouting = ListenerRouting(mode, cell["listener"])

\* Once the source has drained its mailbox it records into the recorder the
\* supervisor holds, whichever of the two was restarted last.
RecorderAgrees ==
  Up(actors, cell, "source") => EffectiveRecorder = cell["recorder"]

\* A session runs live exactly while it holds a listener; audio is buffered
\* for a listener only in live mode.
LiveHasListener ==
  Ready => /\ (mode.current = "live") = (cell["listener"] # NoCell)
           /\ (mode.current = "live") = mode.buffering

\* A session that fell back to batch for a failure that may pass has exactly
\* one retry coming, and no other session has any: retries neither pile up
\* nor die out, whatever fails in between.
OneRetry ==
  Ready => timers = IF mode.current = "batch" /\ told.error = "stream"
                    THEN 1 ELSE 0

\* The user was told of the mode the session is in, and of the failure that
\* put it there.
ToldTheMode ==
  /\ told.mode = mode.current
  /\ Ready /\ mode.current = "live" => told.error = "none"

\* A session that has its listener starts the back-off of the next failure
\* from the shortest delay.
FreshBackoff == Ready /\ cell["listener"] # NoCell => attempt = 0

\* The listener's stream is open for the languages and the number of speakers
\* that the session was last given, and the listener names those people.
ListenerConfigured ==
  Ready /\ Up(actors, cell, "listener") =>
    /\ lcfg.stream.langs = params.cfg.langs
    /\ ExpectedSpeakerCount(lcfg.stream) = ExpectedSpeakerCount(params.cfg)
    /\ lcfg.people = params.cfg

\* Every live child is held in its cell or has been told to stop.
NoLeakedChild ==
  \A k \in Kinds : actors.live[k] # NoCell =>
    actors.live[k] = cell[k] \/ actors.stopping[k]

\* A listener that is alive is only replaced by a refresh and only given up
\* by a shutdown; the late exit of an earlier one never takes it away.
HealthyListenerKept ==
  [][Up(actors, cell, "listener") /\ cell'["listener"] # cell["listener"]
       => shuttingDown' \/ inbox' # inbox]_vars

\* Whoever asks the session to stop sees it stop.
ShutdownCompletes == asked ~> phase = "stopped"

\* A source or recorder that died is replaced, or the session shuts down.
DeadChildHandled ==
  \A k \in {"source", "recorder"} :
    (cell[k] # NoCell /\ ~Up(actors, cell, k))
      ~> (Up(actors, cell, k) \/ shuttingDown)
===============================================================================
