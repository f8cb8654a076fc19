------------------------ MODULE SessionSupervisorProofs ------------------------
(***************************************************************************)
(* Theorems about SessionSupervisor and, in the last section, about the     *)
(* RecorderDisk of the recorder it starts, for every value of the constants.*)
(***************************************************************************)
EXTENDS SessionSupervisor, RecorderDisk, SequenceTheorems, TLAPS

USE DEF NoCell

\* Stopping a child keeps the shape of the child actors.
LEMMA StopChildType ==
  ASSUME NEW a \in Actors, NEW c \in Cells, NEW k \in Kinds,
         NEW slow \in SUBSET Kinds
  PROVE  StopChild(a, c, k, slow) \in Actors
<1>1. CASE ~Up(a, c, k)
  BY <1>1 DEF StopChild
<1>2. CASE Up(a, c, k) /\ k \in slow
  BY <1>2 DEF StopChild, Actors, Cells
<1>3. CASE Up(a, c, k) /\ k \notin slow
  <2>1. Exit(c[k], "stopped") \in ExitEvent
    BY <1>3 DEF Exit, ExitEvent, Whys, Up, Cells
  <2>2. QED
    BY <1>3, <2>1 DEF StopChild, Actors, Cells
<1>4. QED
  BY <1>1, <1>2, <1>3

\* So does stopping them all.
LEMMA StopAllType ==
  ASSUME NEW a \in Actors, NEW c \in Cells, NEW slow \in SUBSET Kinds
  PROVE  StopAll(a, c, slow) \in Actors
<1>1. {"source", "listener", "recorder"} \subseteq Kinds
  BY DEF Kinds
<1>2. StopChild(a, c, "source", slow) \in Actors
  BY <1>1, StopChildType
<1>3. StopChild(StopChild(a, c, "source", slow), c, "listener", slow) \in Actors
  BY <1>1, <1>2, StopChildType
<1>4. QED
  BY <1>1, <1>3, StopChildType DEF StopAll

\* The source and the listener are not in each other's way.
LEMMA StopListenerKeepsSource ==
  ASSUME NEW a \in Actors, NEW c \in Cells, NEW slow \in SUBSET Kinds
  PROVE  StopChild(a, c, "listener", slow).live["source"] = a.live["source"]
BY DEF StopChild, Actors, Kinds

-------------------------------------------------------------------------------
(* Type correctness *)

\* What the mode asks for is a routing.
LEMMA RoutingType ==
  ASSUME NEW m \in ModeState, NEW l \in Nat
  PROVE  ListenerRouting(m, l) \in Routing
BY DEF ListenerRouting, Routing, Attached, Buffering, Dropped

\* The operations on the mode give modes.
LEMMA ModeTypes ==
  ASSUME NEW m \in ModeState
  PROVE  /\ OnListenerAttached(m) \in ModeState
         /\ EnterBatchFallback(m) \in ModeState
         /\ OnListenerAttached(m).current = "live"
         /\ OnListenerAttached(m).buffering = TRUE
         /\ EnterBatchFallback(m).current = "batch"
         /\ EnterBatchFallback(m).buffering = FALSE
BY DEF OnListenerAttached, EnterBatchFallback, ModeState, Modes

\* The operations of the restart budget give trackers.
LEMMA TrackerTypes ==
  ASSUME NEW t \in Tracker
  PROVE  /\ MaybeReset(t) \in Tracker
         /\ RecordRestart(t) \in Tracker
         /\ Elapse(t) \in Tracker
BY BudgetAssumption
   DEF Tracker, MaybeReset, RecordRestart, Rewound, NewTracker, Elapse

\* A cast to the source leaves a sequence of messages.
LEMMA ToSourceType ==
  ASSUME NEW a, NEW c, NEW S, NEW q \in Seq(S), NEW m \in S
  PROVE  ToSource(a, c, q, m) \in Seq(S)
BY DEF ToSource

\* What an attached listener leaves behind has its type.
LEMMA AttachType ==
  ASSUME TypeOK, params' \in [cfg : Updates, stopOnFailure : BOOLEAN],
         NEW a \in Actors, NEW c \in Cells, NEW q \in Seq(Routing),
         AttachListener(a, c, q)
  PROVE  /\ actors' \in Actors /\ cell' \in Cells
         /\ nextId' \in Nat \ {NoCell} /\ mode' \in ModeState
         /\ routeQ' \in Seq(Routing) /\ lcfg' \in ListenerConfig
<1>1. nextId \in Nat /\ nextId' \in Nat \ {NoCell}
  BY DEF TypeOK, AttachListener
<1>a. actors' \in Actors
  BY <1>1 DEF AttachListener, Actors
<1>c. cell' \in Cells
  BY <1>1 DEF AttachListener, Cells
<1>2. mode' \in ModeState
  BY ModeTypes DEF TypeOK, AttachListener
<1>3. routeQ' \in Seq(Routing)
  BY <1>2, RoutingType, ToSourceType DEF TypeOK, AttachListener
<1>4. lcfg' \in ListenerConfig
  BY DEF AttachListener, RunsWith, ListenerConfig, TypeOK
<1>5. QED
  BY <1>1, <1>a, <1>c, <1>2, <1>3, <1>4

\* Shutting the children down leaves well-typed children and cells.
LEMMA ShutdownType ==
  ASSUME NEW a \in Actors, NEW c \in Cells, ShutdownChildren(a, c)
  PROVE  actors' \in Actors /\ cell' \in Cells /\ shuttingDown' \in BOOLEAN
BY StopAllType DEF ShutdownChildren, Cells

\* What a handled listener failure leaves behind has its type.
LEMMA FailureType ==
  ASSUME TypeOK, NEW a \in Actors, NEW c \in Cells, NEW q \in Seq(Routing),
         NEW err \in Errors, NEW t \in Nat,
         HandleListenerFailure(a, c, q, err, t)
  PROVE  /\ actors' \in Actors /\ cell' \in Cells /\ mode' \in ModeState
         /\ routeQ' \in Seq(Routing) /\ shuttingDown' \in BOOLEAN
         /\ told' \in [mode : Modes, error : Errors]
         /\ timers' \in Nat /\ attempt' \in 0..MaxAttempt
<1>1. CASE StopAfterFailure(a, c, q, err, t)
  <2>1. actors' \in Actors /\ cell' \in Cells /\ shuttingDown' \in BOOLEAN
    BY <1>1, ShutdownType DEF StopAfterFailure
  <2>2. QED
    BY <1>1, <2>1 DEF StopAfterFailure, TypeOK, ModeState
<1>2. CASE FallBack(a, c, q, err, t)
  <2>1. mode' \in ModeState
    BY <1>2, ModeTypes DEF FallBack, BatchFallback, TypeOK
  <2>2. routeQ' \in Seq(Routing)
    <3>1. c["listener"] \in Nat
      BY DEF Cells, Kinds
    <3>2. QED
      BY <1>2, <2>1, <3>1, RoutingType, ToSourceType DEF FallBack, BatchFallback
  <2>3. told' \in [mode : Modes, error : Errors]
    BY <1>2, <2>1 DEF FallBack, BatchFallback, ModeState
  <2>4. timers' \in Nat /\ attempt' \in 0..MaxAttempt
    BY <1>2, AttemptAssumption
       DEF FallBack, ScheduleRetry, NextAttempt, TypeOK
  <2>5. QED
    BY <1>2, <2>1, <2>2, <2>3, <2>4 DEF FallBack, TypeOK
<1>3. QED
  BY <1>1, <1>2 DEF HandleListenerFailure

\* A supervisor that has started has the types.
LEMMA InitType == Init => TypeOK
<1> SUFFICES ASSUME Init PROVE TypeOK
  OBVIOUS
<1>1. cell \in Cells /\ nextId \in Nat \ {NoCell}
  BY DEF Init, Cells, Kinds
<1>2. mode \in ModeState /\ mode.current \in Modes
  BY DEF Init, NewMode, ModeState, Modes
<1>3. actors \in Actors
  BY <1>1 DEF Init, Actors, Cells
<1>4. params \in [cfg : Updates, stopOnFailure : BOOLEAN] /\ lcfg \in ListenerConfig
  BY DEF Init, RunsWith, ListenerConfig
<1>5. source \in [routing : Routing, recorder : Nat]
  BY <1>2, RoutingType DEF Init
<1>6. tracker \in [{"source", "recorder"} -> Tracker]
  BY DEF Init, Tracker, NewTracker
<1>7. told \in [mode : Modes, error : Errors]
  BY <1>2 DEF Init, Errors
<1>8. Queues
  BY DEF Init, Queues
<1>9. timers \in Nat /\ attempt \in 0..MaxAttempt
  BY AttemptAssumption DEF Init
<1>10. QED
  BY <1>1, <1>2, <1>3, <1>4, <1>5, <1>6, <1>7, <1>8, <1>9 DEF Init, TypeOK

\* The handlers of exit events first pop the queue and age the trackers.
LEMMA NoticingType ==
  ASSUME TypeOK, Noticing
  PROVE  /\ Popped \in Actors
         /\ Head(actors.exits) \in ExitEvent
         /\ ResetTrackers \in [{"source", "recorder"} -> Tracker]
         /\ \A k \in {"source", "recorder"}, b \in BOOLEAN :
              ChargedTrackers(k, b) \in [{"source", "recorder"} -> Tracker]
<1>1. Popped \in Actors /\ Head(actors.exits) \in ExitEvent
  <2>1. actors \in Actors /\ actors.exits # <<>>
    BY DEF TypeOK, Noticing
  <2>2. actors.exits \in Seq(ExitEvent)
    BY <2>1 DEF Actors
  <2>3. Head(actors.exits) \in ExitEvent /\ Tail(actors.exits) \in Seq(ExitEvent)
    BY <2>1, <2>2
  <2>4. QED
    BY <2>1, <2>3 DEF Popped, Actors
<1>2. ResetTrackers \in [{"source", "recorder"} -> Tracker]
  BY TrackerTypes DEF TypeOK, ResetTrackers
<1>3. ASSUME NEW k \in {"source", "recorder"}, NEW b \in BOOLEAN
      PROVE  ChargedTrackers(k, b) \in [{"source", "recorder"} -> Tracker]
  <2>1. Charged(k, b) \in Tracker
    BY <1>2, TrackerTypes DEF Charged
  <2>2. QED
    BY <1>2, <2>1 DEF ChargedTrackers
<1>4. QED
  BY <1>1, <1>2, <1>3

\* What a listener refresh leaves of the source's mailbox has its type.
LEMMA RefreshType ==
  ASSUME TypeOK, NEW c \in Cells, NEW replied \in BOOLEAN
  PROVE  /\ RouteQAfterRefresh(replied, c) \in Seq(Routing)
         /\ RefreshSource(replied, c) =>
              /\ source' \in [routing : Routing, recorder : Nat]
              /\ recQ' \in Seq(Nat)
<1>1. Buffering \in Routing /\ ListenerRouting(mode, c["listener"]) \in Routing
  BY RoutingType DEF TypeOK, Cells, Kinds, Buffering, Routing
<1>2. RouteQAfterRefresh(replied, c) \in Seq(Routing)
  <2>1. routeQ \in Seq(Routing)
    BY DEF TypeOK, Queues
  <2>2. <<Buffering, ListenerRouting(mode, c["listener"])>> \in Seq(Routing)
    BY <1>1
  <2>3. QED
    BY <2>1, <2>2 DEF RouteQAfterRefresh
<1>3. EffectiveRecorder \in Nat
  BY DEF EffectiveRecorder, TypeOK, Queues
<1>4. RefreshSource(replied, c) =>
        source' \in [routing : Routing, recorder : Nat] /\ recQ' \in Seq(Nat)
  <2>1. CASE Up(actors, c, "source") /\ replied
    <3>1. [routing |-> Buffering, recorder |-> EffectiveRecorder]
            \in [routing : Routing, recorder : Nat]
      BY <1>1, <1>3
    <3>2. <<>> \in Seq(Nat)
      OBVIOUS
    <3>3. QED
      BY <2>1, <3>1, <3>2 DEF RefreshSource
  <2>2. CASE ~(Up(actors, c, "source") /\ replied)
    BY <2>2 DEF RefreshSource, TypeOK, Queues
  <2>3. QED
    BY <2>1, <2>2
<1>5. QED
  BY <1>2, <1>4

\* Every step of the supervisor, of its children and of root keeps the types.
LEMMA StepType == TypeOK /\ [Next]_vars => TypeOK'
<1> SUFFICES ASSUME TypeOK, [Next]_vars PROVE TypeOK'
  OBVIOUS
<1> USE DEF supVars, srcVars
<1>0. /\ params \in [cfg : Updates, stopOnFailure : BOOLEAN]
      /\ cell \in Cells /\ actors \in Actors /\ timers \in Nat
      /\ routeQ \in Seq(Routing) /\ recQ \in Seq(Nat) /\ nextId \in Nat \ {NoCell}
      /\ inbox \in Seq(Updates) /\ mode \in ModeState
      /\ cell["listener"] \in Nat /\ cell["recorder"] \in Nat
      /\ "stream" \in Errors
  BY DEF TypeOK, Queues, Cells, Kinds, Errors
<1>1. CASE PostStartRecordOnly
  BY <1>1 DEF PostStartRecordOnly, TypeOK, Queues
<1>2. CASE PostStartAttached
  <2>1. AttachListener(actors, cell, routeQ) /\ params' = params
    BY <1>2 DEF PostStartAttached
  <2>2. /\ actors' \in Actors /\ cell' \in Cells
        /\ nextId' \in Nat \ {NoCell} /\ mode' \in ModeState
        /\ routeQ' \in Seq(Routing) /\ lcfg' \in ListenerConfig
    BY <1>0, <2>1, AttachType
  <2>3. QED
    BY <1>2, <2>2 DEF PostStartAttached, TypeOK, Queues
<1>3. CASE PostStartFailed
  <2>1. HandleListenerFailure(actors, cell, routeQ, "stream", timers)
    BY <1>3 DEF PostStartFailed
  <2>2. /\ actors' \in Actors /\ cell' \in Cells /\ mode' \in ModeState
        /\ routeQ' \in Seq(Routing) /\ shuttingDown' \in BOOLEAN
        /\ told' \in [mode : Modes, error : Errors]
        /\ timers' \in Nat /\ attempt' \in 0..MaxAttempt
    BY <1>0, <2>1, FailureType
  <2>3. QED
    BY <1>3, <2>2 DEF PostStartFailed, TypeOK, Queues
<1>4. CASE IgnoreExit \/ UnknownExit
  <2>1. Noticing
    BY <1>4 DEF IgnoreExit, UnknownExit
  <2>2. QED
    BY <1>4, <2>1, NoticingType DEF IgnoreExit, UnknownExit, TypeOK, Queues
<1>5. CASE ListenerExit
  <2> DEFINE c == [cell EXCEPT !["listener"] = NoCell]
             err == DegradedReason(Head(actors.exits).why)
  <2>1. Noticing /\ HandleListenerFailure(Popped, c, routeQ, err, timers)
    BY <1>5 DEF ListenerExit
  <2>2. c \in Cells /\ err \in Errors
    BY <1>0 DEF Cells, DegradedReason, Errors
  <2>3. Popped \in Actors /\ ResetTrackers \in [{"source", "recorder"} -> Tracker]
    BY <2>1, NoticingType
  <2>4. /\ actors' \in Actors /\ cell' \in Cells /\ mode' \in ModeState
        /\ routeQ' \in Seq(Routing) /\ shuttingDown' \in BOOLEAN
        /\ told' \in [mode : Modes, error : Errors]
        /\ timers' \in Nat /\ attempt' \in 0..MaxAttempt
    BY <1>0, <2>1, <2>2, <2>3, FailureType
  <2>5. QED
    BY <1>5, <2>3, <2>4 DEF ListenerExit, TypeOK, Queues
<1>6. CASE SourceExit
  <2> DEFINE e == Head(actors.exits)
             counts == e.why # "device_change"
             c == [cell EXCEPT !["source"] = NoCell]
  <2>1. Noticing /\ tracker' = ChargedTrackers("source", counts)
    BY <1>6 DEF SourceExit
  <2>2. tracker' \in [{"source", "recorder"} -> Tracker] /\ Popped \in Actors
    BY <2>1, NoticingType
  <2>3. c \in Cells
    BY <1>0 DEF Cells
  <2>4. CASE Meltdown(c) /\ UNCHANGED srcVars
    <3>1. actors' \in Actors /\ cell' \in Cells /\ shuttingDown' \in BOOLEAN
      BY <2>2, <2>3, <2>4, ShutdownType DEF Meltdown
    <3>2. QED
      BY <2>2, <2>4, <3>1 DEF Meltdown, TypeOK, Queues
  <2>5. CASE /\ actors' = [Popped EXCEPT !.live["source"] = nextId]
             /\ cell' = [c EXCEPT !["source"] = nextId]
             /\ nextId' = nextId + 1
             /\ source' = [routing |-> ListenerRouting(mode, cell["listener"]),
                           recorder |-> cell["recorder"]]
             /\ routeQ' = <<>> /\ recQ' = <<>>
             /\ UNCHANGED <<phase, shuttingDown, mode, params, timers,
                            attempt, told, lcfg, inbox, asked>>
    <3>1. actors' \in Actors
      BY <1>0, <2>2, <2>5 DEF Actors
    <3>2. cell' \in Cells /\ nextId' \in Nat \ {NoCell}
      BY <1>0, <2>3, <2>5 DEF Cells
    <3>3. source' \in [routing : Routing, recorder : Nat]
      BY <1>0, <2>5, RoutingType
    <3>4. routeQ' \in Seq(Routing) /\ recQ' \in Seq(Nat)
      BY <2>5
    <3>5. QED
      BY <2>2, <2>5, <3>1, <3>2, <3>3, <3>4 DEF TypeOK, Queues
  <2>6. QED
    BY <1>6, <2>4, <2>5 DEF SourceExit
<1>7. CASE RecorderExit
  <2> DEFINE c == [cell EXCEPT !["recorder"] = NoCell]
             q == SyncRecorder(recQ, NoCell)
  <2>1. Noticing /\ tracker' = ChargedTrackers("recorder", TRUE)
    BY <1>7 DEF RecorderExit
  <2>2. tracker' \in [{"source", "recorder"} -> Tracker] /\ Popped \in Actors
    BY <2>1, NoticingType
  <2>3. c \in Cells /\ q \in Seq(Nat)
    BY <1>0, ToSourceType DEF Cells, SyncRecorder
  <2>4. CASE Meltdown(c) /\ recQ' = q /\ UNCHANGED <<source, routeQ>>
    <3>1. actors' \in Actors /\ cell' \in Cells /\ shuttingDown' \in BOOLEAN
      BY <2>2, <2>3, <2>4, ShutdownType DEF Meltdown
    <3>2. QED
      BY <2>2, <2>3, <2>4, <3>1 DEF Meltdown, TypeOK, Queues
  <2>5. CASE /\ actors' = [Popped EXCEPT !.live["recorder"] = nextId]
             /\ cell' = [c EXCEPT !["recorder"] = nextId]
             /\ nextId' = nextId + 1
             /\ recQ' = SyncRecorder(q, nextId)
             /\ UNCHANGED <<phase, shuttingDown, mode, params, timers,
                            attempt, told, lcfg, inbox, asked, source, routeQ>>
    <3>1. actors' \in Actors
      BY <1>0, <2>2, <2>5 DEF Actors
    <3>2. cell' \in Cells /\ nextId' \in Nat \ {NoCell}
      BY <1>0, <2>3, <2>5 DEF Cells
    <3>3. recQ' \in Seq(Nat)
      BY <1>0, <2>3, <2>5, ToSourceType DEF SyncRecorder
    <3>4. QED
      BY <2>2, <2>5, <3>1, <3>2, <3>3 DEF TypeOK, Queues
  <2>6. QED
    BY <1>7, <2>4, <2>5 DEF RecorderExit
<1>8. CASE HandleShutdown
  <2>1. actors' \in Actors /\ cell' \in Cells /\ shuttingDown' \in BOOLEAN
    BY <1>0, <1>8, ShutdownType DEF HandleShutdown
  <2>2. QED
    BY <1>8, <2>1 DEF HandleShutdown, TypeOK, Queues
<1>9. CASE RetryListener
  <2>1. CASE UNCHANGED <<shuttingDown, mode, cell, attempt, told, srcVars,
                         actors, nextId, lcfg>> /\ timers' = timers - 1
    BY <1>0, <1>9, <2>1 DEF RetryListener, TypeOK, Queues
  <2>2. ASSUME NEW replied \in BOOLEAN,
               RefreshSource(replied, cell),
               \/ /\ AttachListener(actors, cell, RouteQAfterRefresh(replied, cell))
                  /\ timers' = timers - 1
                  /\ Reconnected
                  /\ UNCHANGED shuttingDown
               \/ /\ HandleListenerFailure(actors, cell,
                                           RouteQAfterRefresh(replied, cell),
                                           "stream", timers - 1)
                  /\ UNCHANGED <<nextId, lcfg>>
        PROVE  TypeOK'
    <3> DEFINE q == RouteQAfterRefresh(replied, cell)
    <3>1. /\ q \in Seq(Routing) /\ recQ' \in Seq(Nat)
          /\ source' \in [routing : Routing, recorder : Nat]
      BY <1>0, <2>2, RefreshType
    <3>2. /\ timers - 1 \in Nat
          /\ UNCHANGED <<phase, params, tracker, inbox, asked>>
      BY <1>0, <1>9 DEF RetryListener
    <3>3. CASE AttachListener(actors, cell, q) /\ timers' = timers - 1
               /\ Reconnected /\ UNCHANGED shuttingDown
      <4>1. /\ actors' \in Actors /\ cell' \in Cells
            /\ nextId' \in Nat \ {NoCell} /\ mode' \in ModeState
            /\ routeQ' \in Seq(Routing) /\ lcfg' \in ListenerConfig
        BY <1>0, <3>1, <3>2, <3>3, AttachType
      <4>2. attempt' \in 0..MaxAttempt /\ told' \in [mode : Modes, error : Errors]
        BY <3>3, <4>1, AttemptAssumption DEF Reconnected, ModeState, Errors
      <4>3. QED
        BY <3>1, <3>2, <3>3, <4>1, <4>2 DEF TypeOK, Queues
    <3>4. CASE HandleListenerFailure(actors, cell, q, "stream", timers - 1)
               /\ UNCHANGED <<nextId, lcfg>>
      <4>1. /\ actors' \in Actors /\ cell' \in Cells /\ mode' \in ModeState
            /\ routeQ' \in Seq(Routing) /\ shuttingDown' \in BOOLEAN
            /\ told' \in [mode : Modes, error : Errors]
            /\ timers' \in Nat /\ attempt' \in 0..MaxAttempt
        BY <1>0, <3>1, <3>2, <3>4, FailureType
      <4>2. QED
        BY <3>1, <3>2, <3>4, <4>1 DEF TypeOK, Queues
    <3>5. QED
      BY <2>2, <3>3, <3>4
  <2>3. QED
    BY <1>9, <2>1, <2>2 DEF RetryListener
<1>10. CASE UpdateConfig
  <2>1. Head(inbox) \in Updates /\ Tail(inbox) \in Seq(Updates)
    BY <1>0, <1>10 DEF UpdateConfig
  <2>2. params' \in [cfg : Updates, stopOnFailure : BOOLEAN] /\ lcfg' \in ListenerConfig
    BY <1>0, <1>10, <2>1 DEF UpdateConfig, TypeOK, ListenerConfig
  <2>3. QED
    BY <1>10, <2>1, <2>2 DEF UpdateConfig, TypeOK, Queues
<1>11. CASE RefreshListener
  <2> DEFINE c == [cell EXCEPT !["listener"] = NoCell]
             held == cell["listener"] # NoCell
  <2>1. Head(inbox) \in Updates /\ Tail(inbox) \in Seq(Updates)
    BY <1>0, <1>11 DEF RefreshListener
  <2>2. /\ params' \in [cfg : Updates, stopOnFailure : BOOLEAN]
        /\ inbox' \in Seq(Updates)
        /\ UNCHANGED <<phase, tracker, asked>>
    BY <1>0, <1>11, <2>1 DEF RefreshListener
  <2>3. c \in Cells
    BY <1>0 DEF Cells
  <2>4. ASSUME NEW replied \in BOOLEAN, NEW slow \in SUBSET {"listener"},
               NEW q, q = IF held THEN RouteQAfterRefresh(replied, c) ELSE routeQ,
               NEW a, a = StopChild(actors, cell, "listener", slow),
               IF held THEN RefreshSource(replied, c)
                       ELSE UNCHANGED <<source, recQ>>,
               \/ /\ AttachListener(a, c, q)
                  /\ UNCHANGED <<shuttingDown, timers, attempt, told>>
               \/ /\ HandleListenerFailure(a, c, q, "stream", timers)
                  /\ UNCHANGED <<nextId, lcfg>>
        PROVE  TypeOK'
    <3>1. slow \in SUBSET Kinds /\ "listener" \in Kinds
      BY <2>4 DEF Kinds
    <3>2. a \in Actors
      BY <1>0, <2>4, <3>1, StopChildType
    <3>3. /\ q \in Seq(Routing) /\ recQ' \in Seq(Nat)
          /\ source' \in [routing : Routing, recorder : Nat]
      BY <1>0, <2>3, <2>4, RefreshType DEF TypeOK
    <3>4. CASE AttachListener(a, c, q)
               /\ UNCHANGED <<shuttingDown, timers, attempt, told>>
      <4>1. /\ actors' \in Actors /\ cell' \in Cells
            /\ nextId' \in Nat \ {NoCell} /\ mode' \in ModeState
            /\ routeQ' \in Seq(Routing) /\ lcfg' \in ListenerConfig
        BY <2>2, <2>3, <3>2, <3>3, <3>4, AttachType
      <4>2. QED
        BY <2>2, <3>3, <3>4, <4>1 DEF TypeOK, Queues
    <3>5. CASE HandleListenerFailure(a, c, q, "stream", timers)
               /\ UNCHANGED <<nextId, lcfg>>
      <4>1. /\ actors' \in Actors /\ cell' \in Cells /\ mode' \in ModeState
            /\ routeQ' \in Seq(Routing) /\ shuttingDown' \in BOOLEAN
            /\ told' \in [mode : Modes, error : Errors]
            /\ timers' \in Nat /\ attempt' \in 0..MaxAttempt
        BY <1>0, <2>3, <3>2, <3>3, <3>5, FailureType
      <4>2. QED
        BY <2>2, <3>3, <3>5, <4>1 DEF TypeOK, Queues
    <3>6. QED
      BY <2>4, <3>4, <3>5
  <2>5. QED
    BY <1>11, <2>4 DEF RefreshListener
<1>12. CASE SupervisorStops
  BY <1>12 DEF SupervisorStops, TypeOK, Queues
<1>13. ASSUME NEW k \in Kinds, ChildExits(k)
       PROVE  TypeOK'
  <2>1. PICK why \in IF actors.stopping[k] THEN {"stopped"} ELSE OwnWhys(k) :
          actors' = [live |-> [actors.live EXCEPT ![k] = NoCell],
                     stopping |-> [actors.stopping EXCEPT ![k] = FALSE],
                     exits |-> Append(actors.exits, Exit(actors.live[k], why))]
    BY <1>13 DEF ChildExits
  <2>2. why \in Whys
    BY <2>1 DEF OwnWhys, Whys, Kinds
  <2>3. Exit(actors.live[k], why) \in ExitEvent
    BY <1>0, <1>13, <2>2 DEF ChildExits, Exit, ExitEvent, Actors
  <2>4. actors' \in Actors
    BY <1>0, <2>1, <2>3 DEF Actors
  <2>5. QED
    BY <1>13, <2>4 DEF ChildExits, TypeOK, Queues
<1>14. CASE SourceSetsRouting
  <2>1. Head(routeQ) \in Routing /\ Tail(routeQ) \in Seq(Routing)
    BY <1>0, <1>14 DEF SourceSetsRouting
  <2>2. QED
    BY <1>14, <2>1 DEF SourceSetsRouting, TypeOK, Queues
<1>15. CASE SourceSetsRecorder
  <2>1. Head(recQ) \in Nat /\ Tail(recQ) \in Seq(Nat)
    BY <1>0, <1>15 DEF SourceSetsRecorder
  <2>2. QED
    BY <1>15, <2>1 DEF SourceSetsRecorder, TypeOK, Queues
<1>16. CASE RootUpdates
  BY <1>0, <1>16 DEF RootUpdates, TypeOK, Queues
<1>17. CASE RootStops
  BY <1>17 DEF RootStops, TypeOK, Queues
<1>18. CASE Tick
  <2>1. tracker' \in [{"source", "recorder"} -> Tracker]
    BY <1>18, TrackerTypes DEF Tick, TypeOK
  <2>2. QED
    BY <1>18, <2>1 DEF Tick, TypeOK, Queues
<1>19. CASE UNCHANGED vars
  BY <1>19 DEF vars, TypeOK, Queues
<1>20. QED
  BY <1>1, <1>2, <1>3, <1>4, <1>5, <1>6, <1>7, <1>8, <1>9, <1>10, <1>11, <1>12,
     <1>13, <1>14, <1>15, <1>16, <1>17, <1>18, <1>19
     DEF Next, PostStart, HandleExit, HandleUpdate, SourceHandles, ChildFails,
         ChildStops

\* Every variable of a session always has its type.
THEOREM TypeCorrect == Spec => []TypeOK
BY InitType, StepType, PTL DEF Spec

-------------------------------------------------------------------------------
(* Modes, retries and what the user is told *)

\* A session that has not run its post_start yet.
Unstarted ==
  /\ ~shuttingDown /\ cell["listener"] = NoCell
  /\ timers = 0 /\ attempt = 0 /\ told.error = "none"
  /\ mode.buffering = (mode.current = "live")

\* The inductive invariant: the four properties need each other (a listener
\* can only fail in live mode, where no retry is armed, and a retry can only
\* be armed in batch mode, where there is no listener), the state post_start
\* begins in, and that a session that only records is left alone.
RetryInv ==
  /\ TypeOK
  /\ phase = "spawned" => Unstarted
  /\ mode.requested = "batch" => mode.current = "batch" /\ told.error = "none"
  /\ LiveHasListener
  /\ OneRetry
  /\ ToldTheMode
  /\ FreshBackoff

\* How a session stands after a listener was attached.
LEMMA AttachEffect ==
  ASSUME TypeOK, NEW a, NEW c \in Cells, NEW q, AttachListener(a, c, q)
  PROVE  /\ mode'.requested = mode.requested
         /\ mode'.current = "live" /\ mode'.buffering = TRUE
         /\ cell'["listener"] # NoCell
         /\ cell'["source"] = c["source"] /\ cell'["recorder"] = c["recorder"]
BY DEF TypeOK, AttachListener, OnListenerAttached, ModeState, Cells, Kinds

\* How a session stands after a listener failed, with no retry armed.
LEMMA FailureEffect ==
  ASSUME TypeOK, NEW a, NEW c \in Cells, c["listener"] = NoCell, NEW q,
         NEW err \in {"auth", "stream"}, HandleListenerFailure(a, c, q, err, 0)
  PROVE  /\ mode'.requested = mode.requested
         /\ told' = [mode |-> mode'.current, error |-> err]
         /\ \/ shuttingDown' = TRUE
            \/ /\ mode'.current = "batch" /\ mode'.buffering = FALSE
               /\ cell'["listener"] = NoCell
               /\ timers' = IF err = "stream" THEN 1 ELSE 0
<1>1. CASE StopAfterFailure(a, c, q, err, 0)
  BY <1>1 DEF StopAfterFailure, ShutdownChildren
<1>2. CASE FallBack(a, c, q, err, 0)
  BY <1>2 DEF FallBack, BatchFallback, EnterBatchFallback, ScheduleRetry,
              ShouldRetryFailure, TypeOK, ModeState
<1>3. QED
  BY <1>1, <1>2 DEF HandleListenerFailure

\* A failure handled in a session that asked for live transcription, with no
\* retry armed, re-establishes the invariant.
LEMMA FailureKeepsInv ==
  ASSUME RetryInv, TypeOK', NEW a, NEW c \in Cells, c["listener"] = NoCell,
         NEW q, NEW err \in {"auth", "stream"}, mode.requested = "live",
         phase' = "running", HandleListenerFailure(a, c, q, err, 0)
  PROVE  RetryInv'
<1>1. /\ mode'.requested = mode.requested
      /\ told' = [mode |-> mode'.current, error |-> err]
      /\ \/ shuttingDown' = TRUE
         \/ /\ mode'.current = "batch" /\ mode'.buffering = FALSE
            /\ cell'["listener"] = NoCell
            /\ timers' = IF err = "stream" THEN 1 ELSE 0
  BY FailureEffect DEF RetryInv
<1>2. QED
  BY <1>1 DEF RetryInv, LiveHasListener, OneRetry, ToldTheMode, FreshBackoff, Ready

\* So does an attached listener, once told is right and the back-off is reset.
LEMMA AttachKeepsInv ==
  ASSUME RetryInv, TypeOK', NEW a, NEW c \in Cells, NEW q,
         mode.requested = "live", phase' = "running", timers' = 0,
         attempt' = 0, told' = [mode |-> "live", error |-> "none"],
         AttachListener(a, c, q)
  PROVE  RetryInv'
<1>1. /\ mode'.requested = mode.requested
      /\ mode'.current = "live" /\ mode'.buffering = TRUE
      /\ cell'["listener"] # NoCell
  BY AttachEffect DEF RetryInv
<1>2. QED
  BY <1>1 DEF RetryInv, LiveHasListener, OneRetry, ToldTheMode, FreshBackoff, Ready

\* After pre_start no retry is pending, whatever mode was asked for.
LEMMA RetryInit == Init => RetryInv
<1> SUFFICES ASSUME Init PROVE RetryInv
  OBVIOUS
<1>1. TypeOK
  BY InitType
<1>2. QED
  BY <1>1 DEF Init, RetryInv, Unstarted, NewMode, ModeState, LiveHasListener, OneRetry,
              ToldTheMode, FreshBackoff, Ready

\* Steps that leave modes, retries, back-off and announcements alone, and at
\* most begin a shutdown.
LEMMA QuietKeepsInv ==
  ASSUME RetryInv, TypeOK',
         UNCHANGED <<mode, timers, attempt, told>>,
         phase' = phase \/ (phase' # "spawned" /\ shuttingDown'),
         phase = "spawned" => shuttingDown' = shuttingDown,
         shuttingDown' = TRUE \/ shuttingDown' = shuttingDown,
         Ready' => cell'["listener"] = cell["listener"],
         phase' = "spawned" => cell'["listener"] = cell["listener"]
  PROVE  RetryInv'
BY DEF RetryInv, Unstarted, LiveHasListener, OneRetry, ToldTheMode, FreshBackoff,
       Ready

\* Every step keeps the invariant.
LEMMA RetryStep == RetryInv /\ [Next]_vars => RetryInv'
<1> SUFFICES ASSUME RetryInv, [Next]_vars PROVE RetryInv'
  OBVIOUS
<1> USE DEF supVars, srcVars
<1>0. TypeOK /\ TypeOK'
  BY StepType DEF RetryInv
<1>a. /\ cell \in Cells /\ actors \in Actors /\ mode \in ModeState
      /\ told \in [mode : Modes, error : Errors]
      /\ "listener" \in Kinds /\ "source" \in Kinds /\ "recorder" \in Kinds
  BY <1>0 DEF TypeOK, Kinds
<1>1. CASE PostStartRecordOnly
  BY <1>0, <1>1 DEF PostStartRecordOnly, ShouldSpawnListener, RetryInv, Unstarted,
       LiveHasListener, OneRetry, ToldTheMode, FreshBackoff, Ready, TypeOK,
       ModeState, Modes
<1>2. CASE PostStartAttached
  <2>1. Unstarted /\ mode.current = "live"
    BY <1>2 DEF PostStartAttached, ShouldSpawnListener, RetryInv
  <2>2. mode.requested = "live" /\ told = [mode |-> "live", error |-> "none"]
    BY <1>a, <2>1 DEF RetryInv, Unstarted, ToldTheMode, ModeState, Modes
  <2>3. QED
    BY <1>0, <1>2, <1>a, <2>1, <2>2, AttachKeepsInv DEF PostStartAttached, Unstarted
<1>3. CASE PostStartFailed
  <2>1. Unstarted /\ mode.current = "live"
    BY <1>3 DEF PostStartFailed, ShouldSpawnListener, RetryInv
  <2>2. mode.requested = "live"
    BY <1>a, <2>1 DEF RetryInv, ModeState, Modes
  <2>3. HandleListenerFailure(actors, cell, routeQ, "stream", 0)
    BY <1>3, <2>1 DEF PostStartFailed, Unstarted
  <2>4. QED
    BY <1>0, <1>3, <1>a, <2>1, <2>2, <2>3, FailureKeepsInv
       DEF PostStartFailed, Unstarted
<1>4. CASE IgnoreExit \/ UnknownExit
  BY <1>0, <1>4, QuietKeepsInv DEF IgnoreExit, UnknownExit
<1>5. CASE ListenerExit
  <2> DEFINE c == [cell EXCEPT !["listener"] = NoCell]
             err == DegradedReason(Head(actors.exits).why)
  <2>1. /\ Noticing /\ ~shuttingDown
        /\ "listener" \in IdentifyChild(Head(actors.exits).id)
        /\ HandleListenerFailure(Popped, c, routeQ, err, timers)
        /\ phase' = phase
    BY <1>5 DEF ListenerExit
  <2>2. c \in Cells /\ c["listener"] = NoCell /\ err \in {"auth", "stream"}
    BY <1>a DEF Cells, DegradedReason
  <2>3. cell["listener"] # NoCell
    <3>1. Head(actors.exits) \in ExitEvent
      BY <1>0, <2>1, NoticingType
    <3>2. QED
      BY <2>1, <3>1 DEF IdentifyChild, ExitEvent
  <2>4. Ready /\ phase = "running"
    BY <2>1 DEF Ready, Noticing
  <2>5. mode.current = "live" /\ timers = 0
    BY <2>3, <2>4 DEF RetryInv, LiveHasListener, OneRetry
  <2>6. mode.requested = "live"
    BY <1>a, <2>5 DEF RetryInv, ModeState, Modes
  <2>7. QED
    BY <1>0, <2>1, <2>2, <2>4, <2>5, <2>6, FailureKeepsInv
<1>6. CASE SourceExit
  <2>1. /\ UNCHANGED <<phase, mode, timers, attempt, told>> /\ phase = "running"
        /\ \/ shuttingDown' = TRUE
           \/ /\ shuttingDown' = shuttingDown
              /\ cell'["listener"] = cell["listener"]
    BY <1>6, <1>a DEF SourceExit, Noticing, Meltdown, ShutdownChildren, Cells
  <2>2. QED
    BY <1>0, <2>1, QuietKeepsInv DEF Ready
<1>7. CASE RecorderExit
  <2>1. /\ UNCHANGED <<phase, mode, timers, attempt, told>> /\ phase = "running"
        /\ \/ shuttingDown' = TRUE
           \/ /\ shuttingDown' = shuttingDown
              /\ cell'["listener"] = cell["listener"]
    BY <1>7, <1>a DEF RecorderExit, Noticing, Meltdown, ShutdownChildren, Cells
  <2>2. QED
    BY <1>0, <2>1, QuietKeepsInv DEF Ready
<1>8. CASE HandleShutdown
  <2>1. UNCHANGED <<phase, mode, timers, attempt, told>> /\ phase = "running"
        /\ shuttingDown' = TRUE
    BY <1>8 DEF HandleShutdown, ShutdownChildren, Ready
  <2>2. QED
    BY <1>0, <2>1, QuietKeepsInv DEF Ready
<1>9. CASE RetryListener
  <2>1. Ready /\ timers > 0 /\ phase' = "running" /\ phase = "running"
    BY <1>9 DEF RetryListener, Ready
  <2>2. /\ timers = 1 /\ mode.current = "batch" /\ told.error = "stream"
        /\ cell["listener"] = NoCell
    BY <1>0, <2>1 DEF RetryInv, OneRetry, LiveHasListener, TypeOK
  <2>3. mode.requested = "live" /\ ShouldRetryListener(mode) /\ timers - 1 = 0
    BY <1>a, <2>2 DEF RetryInv, ModeState, Modes, ShouldRetryListener
  <2>4. PICK replied \in BOOLEAN :
          LET q == RouteQAfterRefresh(replied, cell) IN
          \/ /\ AttachListener(actors, cell, q)
             /\ timers' = timers - 1
             /\ Reconnected
             /\ UNCHANGED shuttingDown
          \/ HandleListenerFailure(actors, cell, q, "stream", timers - 1)
    BY <1>9, <2>2, <2>3 DEF RetryListener
  <2>5. CASE /\ AttachListener(actors, cell, RouteQAfterRefresh(replied, cell))
             /\ timers' = timers - 1
             /\ Reconnected
    <3>1. mode'.current = "live"
      BY <1>0, <1>a, <2>5, AttachEffect
    <3>2. QED
      BY <1>0, <1>a, <2>1, <2>3, <2>5, <3>1, AttachKeepsInv DEF Reconnected
  <2>6. CASE HandleListenerFailure(actors, cell, RouteQAfterRefresh(replied, cell),
                                   "stream", timers - 1)
    BY <1>0, <1>a, <2>1, <2>2, <2>3, <2>6, FailureKeepsInv
  <2>7. QED
    BY <2>4, <2>5, <2>6
<1>10. CASE UpdateConfig
  BY <1>0, <1>10, QuietKeepsInv DEF UpdateConfig
<1>11. CASE RefreshListener
  <2> DEFINE c == [cell EXCEPT !["listener"] = NoCell]
  <2>1. Ready /\ phase' = "running" /\ mode.current = "live"
    BY <1>11 DEF RefreshListener, Ready, NeedsRefresh, ShouldSpawnListener
  <2>2. /\ cell["listener"] # NoCell /\ attempt = 0 /\ timers = 0
        /\ told = [mode |-> "live", error |-> "none"]
    BY <1>a, <2>1 DEF RetryInv, LiveHasListener, OneRetry, FreshBackoff, ToldTheMode
  <2>3. mode.requested = "live" /\ c \in Cells /\ c["listener"] = NoCell
    BY <1>a, <2>1 DEF RetryInv, ModeState, Modes, Cells
  <2>4. \E a, q : \/ /\ AttachListener(a, c, q)
                   /\ UNCHANGED <<shuttingDown, timers, attempt, told>>
                \/ HandleListenerFailure(a, c, q, "stream", timers)
    BY <1>11 DEF RefreshListener
  <2>5. PICK a, q : \/ /\ AttachListener(a, c, q)
                      /\ UNCHANGED <<shuttingDown, timers, attempt, told>>
                   \/ HandleListenerFailure(a, c, q, "stream", timers)
    BY <2>4
  <2>6. CASE AttachListener(a, c, q)
             /\ UNCHANGED <<shuttingDown, timers, attempt, told>>
    BY <1>0, <2>1, <2>2, <2>3, <2>6, AttachKeepsInv
  <2>7. CASE HandleListenerFailure(a, c, q, "stream", timers)
    BY <1>0, <2>1, <2>2, <2>3, <2>7, FailureKeepsInv
  <2>8. QED
    BY <2>5, <2>6, <2>7
<1>12. CASE SupervisorStops
  BY <1>0, <1>12, QuietKeepsInv DEF SupervisorStops, Ready
<1>13. ASSUME NEW k \in Kinds, ChildExits(k)
       PROVE  RetryInv'
  BY <1>0, <1>13, QuietKeepsInv DEF ChildExits
<1>14. CASE SourceHandles
  BY <1>0, <1>14, QuietKeepsInv DEF SourceHandles, SourceSetsRouting, SourceSetsRecorder
<1>15. CASE RootUpdates \/ RootStops
  BY <1>0, <1>15, QuietKeepsInv DEF RootUpdates, RootStops
<1>16. CASE Tick
  BY <1>0, <1>16, QuietKeepsInv DEF Tick
<1>17. CASE UNCHANGED vars
  BY <1>0, <1>17, QuietKeepsInv DEF vars
<1>18. QED
  BY <1>1, <1>2, <1>3, <1>4, <1>5, <1>6, <1>7, <1>8, <1>9, <1>10, <1>11, <1>12,
     <1>13, <1>14, <1>15, <1>16, <1>17
     DEF Next, PostStart, HandleExit, HandleUpdate, ChildFails, ChildStops

\* Retries, mode, listener and announcements agree for ever.
LEMMA RetryInvariant == Spec => []RetryInv
BY RetryInit, RetryStep, PTL DEF Spec

\* A running session has exactly one retry coming when it fell back to batch
\* for a failure that may pass, and none otherwise.
THEOREM OneRetryAlways == Spec => []OneRetry
<1>1. RetryInv => OneRetry
  BY DEF RetryInv
<1>2. QED
  BY <1>1, RetryInvariant, PTL

\* A running session is live exactly while it holds a listener.
THEOREM LiveHasListenerAlways == Spec => []LiveHasListener
<1>1. RetryInv => LiveHasListener
  BY DEF RetryInv
<1>2. QED
  BY <1>1, RetryInvariant, PTL

\* The last announcement names the mode the session is in.
THEOREM ToldTheModeAlways == Spec => []ToldTheMode
<1>1. RetryInv => ToldTheMode
  BY DEF RetryInv
<1>2. QED
  BY <1>1, RetryInvariant, PTL

\* A session with its listener starts the next back-off afresh.
THEOREM FreshBackoffAlways == Spec => []FreshBackoff
<1>1. RetryInv => FreshBackoff
  BY DEF RetryInv
<1>2. QED
  BY <1>1, RetryInvariant, PTL

-------------------------------------------------------------------------------
(* What the source does with the audio *)

\* A live source that has just been sent a routing ends up with it.
LEMMA SentIsEffective ==
  ASSUME NEW S, NEW q \in Seq(S), NEW m \in S, NEW a, NEW c, Up(a, c, "source")
  PROVE  /\ ToSource(a, c, q, m) # <<>>
         /\ LET r == ToSource(a, c, q, m) IN r[Len(r)] = m
BY DEF ToSource

\* A sequence and its tail end in the same element.
LEMMA LastOfTail ==
  ASSUME NEW S, NEW q \in Seq(S), q # <<>>, Len(q) # 1
  PROVE  /\ Tail(q) # <<>>
         /\ Tail(q)[Len(Tail(q))] = q[Len(q)]
<1>1. Len(q) \in Nat /\ Len(q) # 0
  BY EmptySeq
<1>2. /\ Tail(q) \in Seq(S) /\ Len(Tail(q)) = Len(q) - 1
      /\ \A i \in 1..Len(Tail(q)) : Tail(q)[i] = q[i + 1]
  BY HeadTailProperties
<1>3. Len(Tail(q)) \in 1..Len(Tail(q))
  BY <1>1, <1>2
<1>4. Tail(q)[Len(Tail(q))] = q[Len(q) - 1 + 1]
  BY <1>2, <1>3
<1>5. Tail(q) # <<>>
  <2>1. Len(Tail(q)) # 0
    BY <1>1, <1>2
  <2>2. QED
    BY <2>1, Len(<<>>) = 0
<1>6. QED
  BY <1>1, <1>4, <1>5

\* Attaching a listener leaves the source with the right routing.
LEMMA AttachRoutes ==
  ASSUME TypeOK, NEW a \in Actors, NEW c \in Cells, NEW q \in Seq(Routing),
         mode' \in ModeState, AttachListener(a, c, q)
  PROVE  RoutingAgrees'
<1> DEFINE m == ListenerRouting(mode', nextId)
<1>1. m \in Routing
  BY RoutingType DEF TypeOK
<1>2. /\ Up(actors, cell, "source")' = Up(a, c, "source")
      /\ cell'["listener"] = nextId
      /\ routeQ' = ToSource(a, c, q, m)
  BY DEF AttachListener, Up, Actors, Cells, Kinds
<1>3. QED
  BY <1>1, <1>2, SentIsEffective DEF RoutingAgrees, EffectiveRouting

\* So does the handling of a listener's failure.
LEMMA FailureRoutes ==
  ASSUME TypeOK, NEW a \in Actors, NEW c \in Cells, NEW q \in Seq(Routing),
         mode' \in ModeState, NEW err, NEW t, HandleListenerFailure(a, c, q, err, t)
  PROVE  RoutingAgrees'
<1>1. CASE StopAfterFailure(a, c, q, err, t)
  BY <1>1 DEF StopAfterFailure, ShutdownChildren, RoutingAgrees, Up, Kinds
<1>2. CASE FallBack(a, c, q, err, t)
  <2> DEFINE m == ListenerRouting(mode', c["listener"])
  <2>1. m \in Routing
    BY RoutingType DEF Cells, Kinds
  <2>2. actors' = a /\ cell' = c /\ routeQ' = ToSource(a, c, q, m)
    BY <1>2 DEF FallBack, BatchFallback
  <2>3. QED
    BY <2>1, <2>2, SentIsEffective DEF RoutingAgrees, EffectiveRouting, Up
<1>3. QED
  BY <1>1, <1>2 DEF HandleListenerFailure

\* Steps that touch neither the routings nor what they should be.
LEMMA QuietRoutes ==
  ASSUME RoutingAgrees, UNCHANGED <<mode, source, routeQ>>,
         Up(actors, cell, "source")' =>
            Up(actors, cell, "source") /\ cell'["listener"] = cell["listener"]
  PROVE  RoutingAgrees'
BY DEF RoutingAgrees, EffectiveRouting

\* Each action that changes the mode or the source also casts the routing.
LEMMA RoutingStep == TypeOK /\ RoutingAgrees /\ [Next]_vars => RoutingAgrees'
<1> SUFFICES ASSUME TypeOK, RoutingAgrees, [Next]_vars PROVE RoutingAgrees'
  OBVIOUS
<1> USE DEF supVars, srcVars
<1>0. /\ cell \in Cells /\ actors \in Actors /\ routeQ \in Seq(Routing)
      /\ mode' \in ModeState /\ source.routing \in Routing
      /\ source \in [routing : Routing, recorder : Nat]
      /\ "listener" \in Kinds /\ "source" \in Kinds /\ "recorder" \in Kinds
  BY StepType DEF TypeOK, Queues, Kinds
<1>1. CASE PostStartRecordOnly
  BY <1>1, QuietRoutes DEF PostStartRecordOnly, Up
<1>2. CASE PostStartAttached
  BY <1>0, <1>2, AttachRoutes DEF PostStartAttached
<1>3. CASE PostStartFailed
  BY <1>0, <1>3, FailureRoutes DEF PostStartFailed
<1>4. CASE IgnoreExit \/ UnknownExit
  BY <1>4, <1>0, QuietRoutes DEF IgnoreExit, UnknownExit, Up, Popped, Actors
<1>5. CASE ListenerExit
  <2>1. Popped \in Actors
    BY <1>5, NoticingType DEF ListenerExit
  <2>2. [cell EXCEPT !["listener"] = NoCell] \in Cells
    BY <1>0 DEF Cells
  <2>3. QED
    BY <1>0, <1>5, <2>1, <2>2, FailureRoutes DEF ListenerExit
<1>6. CASE SourceExit
  <2>1. CASE cell'["source"] = NoCell
    BY <2>1 DEF RoutingAgrees, Up
  <2>2. CASE cell'["source"] # NoCell
    <3>1. /\ routeQ' = <<>> /\ UNCHANGED mode
          /\ source'.routing = ListenerRouting(mode, cell["listener"])
          /\ cell'["listener"] = cell["listener"]
      BY <1>0, <1>6, <2>2 DEF SourceExit, Meltdown, ShutdownChildren, Cells
    <3>2. QED
      BY <3>1 DEF RoutingAgrees, EffectiveRouting
  <2>3. QED
    BY <2>1, <2>2
<1>7. CASE RecorderExit
  <2>1. CASE cell'["source"] = NoCell
    BY <2>1 DEF RoutingAgrees, Up
  <2>2. CASE cell'["source"] # NoCell
    <3>1. /\ UNCHANGED <<mode, source, routeQ>>
          /\ cell'["listener"] = cell["listener"]
          /\ cell'["source"] = cell["source"]
          /\ actors'.live["source"] = actors.live["source"]
      <4>1. /\ cell' = [[cell EXCEPT !["recorder"] = NoCell]
                          EXCEPT !["recorder"] = nextId]
            /\ actors' = [Popped EXCEPT !.live["recorder"] = nextId]
            /\ UNCHANGED <<mode, source, routeQ>>
        BY <1>0, <1>7, <2>2 DEF RecorderExit, Meltdown, ShutdownChildren
      <4>2. Popped.live = actors.live /\ Popped \in Actors
        BY <1>0, <1>7, NoticingType DEF RecorderExit, Popped, Actors
      <4>3. actors'.live["source"] = actors.live["source"]
        BY <4>1, <4>2 DEF Actors
      <4>4. QED
        BY <1>0, <4>1, <4>3 DEF Cells
    <3>2. QED
      BY <3>1, QuietRoutes DEF Up
  <2>3. QED
    BY <2>1, <2>2
<1>8. CASE HandleShutdown
  BY <1>0, <1>8 DEF HandleShutdown, ShutdownChildren, RoutingAgrees, Up
<1>9. CASE RetryListener
  <2>1. CASE UNCHANGED <<mode, cell, srcVars, actors>>
    BY <2>1, QuietRoutes DEF Up
  <2>2. ASSUME NEW replied \in BOOLEAN,
               \/ AttachListener(actors, cell, RouteQAfterRefresh(replied, cell))
               \/ HandleListenerFailure(actors, cell,
                                       RouteQAfterRefresh(replied, cell),
                                       "stream", timers - 1)
        PROVE  RoutingAgrees'
    <3>1. RouteQAfterRefresh(replied, cell) \in Seq(Routing)
      BY <1>0, RefreshType
    <3>2. QED
      BY <1>0, <2>2, <3>1, AttachRoutes, FailureRoutes
  <2>3. QED
    BY <1>9, <2>1, <2>2 DEF RetryListener
<1>10. CASE UpdateConfig
  BY <1>10, QuietRoutes DEF UpdateConfig, Up
<1>11. CASE RefreshListener
  <2> DEFINE c == [cell EXCEPT !["listener"] = NoCell]
  <2>1. c \in Cells
    BY <1>0 DEF Cells
  <2>2. PICK replied \in BOOLEAN, slow \in SUBSET {"listener"} :
          LET q == IF cell["listener"] # NoCell
                   THEN RouteQAfterRefresh(replied, c) ELSE routeQ
              a == StopChild(actors, cell, "listener", slow)
          IN  \/ AttachListener(a, c, q)
              \/ HandleListenerFailure(a, c, q, "stream", timers)
    BY <1>11 DEF RefreshListener
  <2> DEFINE q == IF cell["listener"] # NoCell
                  THEN RouteQAfterRefresh(replied, c) ELSE routeQ
             a == StopChild(actors, cell, "listener", slow)
  <2>3. q \in Seq(Routing)
    BY <1>0, <2>1, RefreshType
  <2>4. a \in Actors
    BY <1>0, StopChildType DEF Kinds
  <2>5. AttachListener(a, c, q) \/ HandleListenerFailure(a, c, q, "stream", timers)
    BY <2>2
  <2> HIDE DEF a, q, c
  <2>6. QED
    BY <1>0, <2>1, <2>3, <2>4, <2>5, AttachRoutes, FailureRoutes
<1>12. CASE SupervisorStops
  BY <1>12, QuietRoutes DEF SupervisorStops, Up
<1>13. ASSUME NEW k \in Kinds, ChildExits(k)
       PROVE  RoutingAgrees'
  <2>1. Up(actors, cell, "source")' => Up(actors, cell, "source")
    BY <1>0, <1>13 DEF ChildExits, Up, Actors, Cells
  <2>2. QED
    BY <1>13, <2>1, QuietRoutes DEF ChildExits
<1>14. CASE SourceSetsRouting
  <2>1. /\ source'.routing = Head(routeQ) /\ routeQ' = Tail(routeQ)
        /\ routeQ # <<>> /\ UNCHANGED <<mode, cell, actors>>
    BY <1>0, <1>14 DEF SourceSetsRouting
  <2>2. EffectiveRouting' = EffectiveRouting
    <3>1. CASE Len(routeQ) = 1
      BY <1>0, <2>1, <3>1 DEF EffectiveRouting
    <3>2. CASE Len(routeQ) # 1
      BY <1>0, <2>1, <3>2, LastOfTail DEF EffectiveRouting
    <3>3. QED
      BY <3>1, <3>2
  <2>3. QED
    BY <2>1, <2>2 DEF RoutingAgrees, Up
<1>15. CASE SourceSetsRecorder
  BY <1>0, <1>15 DEF SourceSetsRecorder, RoutingAgrees, EffectiveRouting, Up
<1>16. CASE RootUpdates \/ RootStops
  BY <1>16, QuietRoutes DEF RootUpdates, RootStops, Up
<1>17. CASE Tick
  BY <1>17, QuietRoutes DEF Tick, Up
<1>18. CASE UNCHANGED vars
  BY <1>18, QuietRoutes DEF vars, Up
<1>19. QED
  BY <1>1, <1>2, <1>3, <1>4, <1>5, <1>6, <1>7, <1>8, <1>9, <1>10, <1>11, <1>12,
     <1>13, <1>14, <1>15, <1>16, <1>17, <1>18
     DEF Next, PostStart, HandleExit, HandleUpdate, SourceHandles, ChildFails,
         ChildStops

\* Once it has drained its mailbox, the source always routes audio where the
\* session wants it.
THEOREM RoutingAgreesAlways == Spec => []RoutingAgrees
<1>1. Init => RoutingAgrees
  BY DEF Init, RoutingAgrees, EffectiveRouting
<1>2. QED
  BY <1>1, InitType, StepType, RoutingStep, PTL DEF Spec

-------------------------------------------------------------------------------
(* What the source records into *)

\* Steps that do not change what the source ends up recording into.
LEMMA QuietRecorder ==
  ASSUME RecorderAgrees, EffectiveRecorder' = EffectiveRecorder,
         Up(actors, cell, "source")' =>
           Up(actors, cell, "source") /\ cell'["recorder"] = cell["recorder"]
  PROVE  RecorderAgrees'
BY DEF RecorderAgrees

\* A listener refresh leaves the recorder that the source will have.
LEMMA RefreshKeepsRecorder ==
  ASSUME NEW replied, NEW c, RefreshSource(replied, c)
  PROVE  EffectiveRecorder' = EffectiveRecorder
BY DEF RefreshSource, EffectiveRecorder

\* Attaching a listener and handling its failure leave the recorder alone.
LEMMA ListenerKeepsRecorder ==
  ASSUME TypeOK, RecorderAgrees, EffectiveRecorder' = EffectiveRecorder,
         NEW a \in Actors, NEW c \in Cells, NEW q, NEW err, NEW t,
         c["source"] = cell["source"], c["recorder"] = cell["recorder"],
         a.live["source"] = actors.live["source"],
         AttachListener(a, c, q) \/ HandleListenerFailure(a, c, q, err, t)
  PROVE  RecorderAgrees'
<1>1. CASE AttachListener(a, c, q)
  BY <1>1, QuietRecorder DEF AttachListener, Up, Actors, Cells, Kinds
<1>2. CASE StopAfterFailure(a, c, q, err, t)
  BY <1>2 DEF StopAfterFailure, ShutdownChildren, RecorderAgrees, Up, Kinds
<1>3. CASE FallBack(a, c, q, err, t)
  BY <1>3, QuietRecorder DEF FallBack, Up
<1>4. QED
  BY <1>1, <1>2, <1>3 DEF HandleListenerFailure

\* Each action that replaces the recorder or the source also casts it.
LEMMA RecorderStep == TypeOK /\ RecorderAgrees /\ [Next]_vars => RecorderAgrees'
<1> SUFFICES ASSUME TypeOK, RecorderAgrees, [Next]_vars PROVE RecorderAgrees'
  OBVIOUS
<1> USE DEF supVars, srcVars
<1>0. /\ cell \in Cells /\ actors \in Actors /\ recQ \in Seq(Nat)
      /\ source \in [routing : Routing, recorder : Nat] /\ nextId \in Nat
      /\ "listener" \in Kinds /\ "source" \in Kinds /\ "recorder" \in Kinds
  BY DEF TypeOK, Queues, Kinds
<1>1. CASE UNCHANGED <<source, recQ, cell, actors>>
  BY <1>1, QuietRecorder DEF EffectiveRecorder, Up
<1>2. CASE PostStartAttached \/ PostStartFailed
  <2>1. EffectiveRecorder' = EffectiveRecorder
    BY <1>2 DEF PostStartAttached, PostStartFailed, EffectiveRecorder
  <2>2. QED
    BY <1>0, <1>2, <2>1, ListenerKeepsRecorder DEF PostStartAttached, PostStartFailed
<1>3. CASE IgnoreExit \/ UnknownExit
  BY <1>3, <1>0, QuietRecorder
     DEF IgnoreExit, UnknownExit, Up, Popped, Actors, EffectiveRecorder
<1>4. CASE ListenerExit
  <2> DEFINE c == [cell EXCEPT !["listener"] = NoCell]
  <2>1. Popped \in Actors /\ Popped.live = actors.live
    BY <1>0, <1>4, NoticingType DEF ListenerExit, Popped, Actors
  <2>2. /\ c \in Cells /\ c["source"] = cell["source"]
        /\ c["recorder"] = cell["recorder"]
    BY <1>0 DEF Cells
  <2>3. EffectiveRecorder' = EffectiveRecorder
    BY <1>4 DEF ListenerExit, EffectiveRecorder
  <2>4. QED
    BY <1>0, <1>4, <2>1, <2>2, <2>3, ListenerKeepsRecorder DEF ListenerExit
<1>5. CASE SourceExit
  <2>1. CASE cell'["source"] = NoCell
    BY <2>1 DEF RecorderAgrees, Up
  <2>2. CASE cell'["source"] # NoCell
    <3>1. /\ recQ' = <<>> /\ source'.recorder = cell["recorder"]
          /\ cell'["recorder"] = cell["recorder"]
      BY <1>0, <1>5, <2>2 DEF SourceExit, Meltdown, ShutdownChildren, Cells
    <3>2. QED
      BY <3>1 DEF RecorderAgrees, EffectiveRecorder
  <2>3. QED
    BY <2>1, <2>2
<1>6. CASE RecorderExit
  <2> DEFINE q == SyncRecorder(recQ, NoCell)
  <2>1. CASE cell'["source"] = NoCell
    BY <2>1 DEF RecorderAgrees, Up
  <2>2. CASE cell'["source"] # NoCell
    <3>1. /\ cell' = [[cell EXCEPT !["recorder"] = NoCell]
                        EXCEPT !["recorder"] = nextId]
          /\ actors' = [Popped EXCEPT !.live["recorder"] = nextId]
          /\ recQ' = SyncRecorder(q, nextId)
      BY <1>0, <1>6, <2>2 DEF RecorderExit, Meltdown, ShutdownChildren
    <3>2. Popped.live = actors.live /\ Popped \in Actors
      BY <1>0, <1>6, NoticingType DEF RecorderExit, Popped, Actors
    <3>3. /\ actors'.live["source"] = actors.live["source"]
          /\ cell'["source"] = cell["source"] /\ cell'["recorder"] = nextId
      BY <1>0, <3>1, <3>2 DEF Actors, Cells
    <3>4. q \in Seq(Nat)
      BY <1>0, ToSourceType DEF SyncRecorder
    <3>5. CASE Up(actors, cell, "source")
      <4>1. recQ' = ToSource(actors, cell, q, nextId)
        BY <3>1 DEF SyncRecorder
      <4>2. recQ' # <<>> /\ recQ'[Len(recQ')] = nextId
        <5> HIDE DEF q
        <5>1. recQ' = Append(q, nextId)
          BY <3>5, <4>1 DEF ToSource
        <5>2. QED
          BY <1>0, <3>4, <5>1
      <4>3. QED
        BY <3>3, <4>2 DEF RecorderAgrees, EffectiveRecorder
    <3>6. CASE ~Up(actors, cell, "source")
      BY <3>3, <3>6 DEF RecorderAgrees, Up
    <3>7. QED
      BY <3>5, <3>6
  <2>3. QED
    BY <2>1, <2>2
<1>7. CASE HandleShutdown
  BY <1>0, <1>7 DEF HandleShutdown, ShutdownChildren, RecorderAgrees, Up
<1>8. CASE RetryListener
  <2>1. CASE UNCHANGED <<source, recQ, cell, actors>>
    BY <1>1, <2>1
  <2>2. ASSUME NEW replied \in BOOLEAN, NEW q, RefreshSource(replied, cell),
               \/ AttachListener(actors, cell, q)
               \/ HandleListenerFailure(actors, cell, q, "stream", timers - 1)
        PROVE  RecorderAgrees'
    BY <1>0, <2>2, RefreshKeepsRecorder, ListenerKeepsRecorder
  <2>3. QED
    BY <1>8, <2>1, <2>2 DEF RetryListener
<1>9. CASE RefreshListener
  <2> DEFINE c == [cell EXCEPT !["listener"] = NoCell]
  <2>1. /\ c \in Cells /\ c["source"] = cell["source"]
        /\ c["recorder"] = cell["recorder"]
    BY <1>0 DEF Cells
  <2>2. PICK replied \in BOOLEAN, slow \in SUBSET {"listener"} :
          \E q :
            LET a == StopChild(actors, cell, "listener", slow)
            IN  /\ RefreshSource(replied, c) \/ UNCHANGED <<source, recQ>>
                /\ \/ AttachListener(a, c, q)
                   \/ HandleListenerFailure(a, c, q, "stream", timers)
    BY <1>9 DEF RefreshListener
  <2> DEFINE a == StopChild(actors, cell, "listener", slow)
  <2>3. EffectiveRecorder' = EffectiveRecorder
    BY <2>2, RefreshKeepsRecorder DEF EffectiveRecorder
  <2>4. a \in Actors /\ a.live["source"] = actors.live["source"]
    BY <1>0, StopChildType, StopListenerKeepsSource DEF Kinds
  <2>5. PICK q : \/ AttachListener(a, c, q)
                 \/ HandleListenerFailure(a, c, q, "stream", timers)
    BY <2>2
  <2> HIDE DEF a, c
  <2>6. QED
    BY <1>0, <2>1, <2>3, <2>4, <2>5, ListenerKeepsRecorder
<1>10. ASSUME NEW k \in Kinds, ChildExits(k)
       PROVE  RecorderAgrees'
  <2>1. Up(actors, cell, "source")' => Up(actors, cell, "source")
    BY <1>0, <1>10 DEF ChildExits, Up, Actors, Cells
  <2>2. QED
    BY <1>10, <2>1, QuietRecorder DEF ChildExits, EffectiveRecorder
<1>11. CASE SourceSetsRouting
  BY <1>0, <1>11, QuietRecorder DEF SourceSetsRouting, EffectiveRecorder, Up
<1>12. CASE SourceSetsRecorder
  <2>1. /\ source'.recorder = Head(recQ) /\ recQ' = Tail(recQ)
        /\ recQ # <<>> /\ UNCHANGED <<cell, actors>>
    BY <1>0, <1>12 DEF SourceSetsRecorder
  <2>2. EffectiveRecorder' = EffectiveRecorder
    <3>1. CASE Len(recQ) = 1
      BY <1>0, <2>1, <3>1 DEF EffectiveRecorder
    <3>2. CASE Len(recQ) # 1
      BY <1>0, <2>1, <3>2, LastOfTail DEF EffectiveRecorder
    <3>3. QED
      BY <3>1, <3>2
  <2>3. QED
    BY <2>1, <2>2, QuietRecorder DEF Up
<1>13. QED
  <2>1. CASE PostStartRecordOnly \/ UpdateConfig \/ SupervisorStops \/ RootUpdates
             \/ RootStops \/ Tick \/ UNCHANGED vars
    BY <1>1, <2>1 DEF PostStartRecordOnly, UpdateConfig, SupervisorStops, RootUpdates,
                      RootStops, Tick, vars
  <2>2. QED
    BY <1>2, <1>3, <1>4, <1>5, <1>6, <1>7, <1>8, <1>9, <1>10, <1>11, <1>12, <2>1
       DEF Next, PostStart, HandleExit, HandleUpdate, SourceHandles, ChildFails,
           ChildStops

\* Once it has drained its mailbox, the source always records into the recorder
\* the supervisor holds.
THEOREM RecorderAgreesAlways == Spec => []RecorderAgrees
<1>1. Init => RecorderAgrees
  BY DEF Init, RecorderAgrees, EffectiveRecorder
<1>2. QED
  BY <1>1, InitType, StepType, RecorderStep, PTL DEF Spec
-------------------------------------------------------------------------------
(* Children are not lost *)

\* The supervisor's view of its children rests on their names: ids are handed
\* out once, no two live children share one, and an exit that is still queued is
\* of a child that lives no more.
NamesOK(a, n) ==
  /\ \A k \in Kinds : a.live[k] < n
  /\ \A j, k \in Kinds : a.live[j] = a.live[k] /\ a.live[j] # NoCell => j = k
  /\ \A i \in DOMAIN a.exits :
       a.exits[i].id < n /\ \A k \in Kinds : a.live[k] # a.exits[i].id

\* Every live child is in its cell or has been told to stop.
Held(a, c) == \A k \in Kinds : a.live[k] # NoCell => a.live[k] = c[k] \/ a.stopping[k]

\* The child k is gone or going.
Ending(a, k) == a.live[k] # NoCell => a.stopping[k]

\* Stopping a child ends that child and leaves the others alone.
LEMMA StopChildEffect ==
  ASSUME NEW a \in Actors, NEW c \in Cells, NEW k \in Kinds, NEW slow \in SUBSET Kinds
  PROVE  /\ (a.live[k] # NoCell => a.live[k] = c[k] \/ a.stopping[k])
              => Ending(StopChild(a, c, k, slow), k)
         /\ \A j \in Kinds \ {k} :
              /\ StopChild(a, c, k, slow).live[j] = a.live[j]
              /\ StopChild(a, c, k, slow).stopping[j] = a.stopping[j]
<1>1. CASE ~Up(a, c, k)
  BY <1>1 DEF StopChild, Ending, Up, Cells
<1>2. CASE Up(a, c, k) /\ k \in slow
  BY <1>2 DEF StopChild, Ending, Up, Actors
<1>3. CASE Up(a, c, k) /\ k \notin slow
  BY <1>3 DEF StopChild, Ending, Up, Actors
<1>4. QED
  BY <1>1, <1>2, <1>3

\* A stopped child's exit is queued under an id that nobody alive has.
LEMMA StopChildNames ==
  ASSUME NEW a \in Actors, NEW c \in Cells, NEW k \in Kinds, NEW slow \in SUBSET Kinds,
         NEW n \in Nat, NamesOK(a, n)
  PROVE  NamesOK(StopChild(a, c, k, slow), n)
<1>1. CASE ~Up(a, c, k)
  BY <1>1 DEF StopChild
<1>2. CASE Up(a, c, k) /\ k \in slow
  BY <1>2 DEF StopChild, NamesOK, Actors
<1>3. CASE Up(a, c, k) /\ k \notin slow
  <2> DEFINE b == StopChild(a, c, k, slow)
  <2>1. /\ b.live = [a.live EXCEPT ![k] = NoCell]
        /\ b.exits = Append(a.exits, Exit(c[k], "stopped"))
    BY <1>3 DEF StopChild
  <2>2. /\ a.live \in [Kinds -> Nat] /\ a.exits \in Seq(ExitEvent)
        /\ c[k] = a.live[k] /\ c[k] # NoCell /\ c[k] \in Nat
    BY <1>3 DEF Actors, Up, Cells
  <2> HIDE DEF b
  <2>3. \A j \in Kinds : b.live[j] = IF j = k THEN NoCell ELSE a.live[j]
    BY <2>1, <2>2
  <2>4. ASSUME NEW i \in DOMAIN b.exits
        PROVE  b.exits[i].id < n /\ \A j \in Kinds : b.live[j] # b.exits[i].id
    <3>1. CASE i \in DOMAIN a.exits
      <4>1. b.exits[i] = a.exits[i] /\ a.exits[i] \in ExitEvent
        BY <2>1, <2>2, <3>1
      <4>2. QED
        BY <2>3, <3>1, <4>1 DEF NamesOK, ExitEvent
    <3>2. CASE i \notin DOMAIN a.exits
      <4>1. b.exits[i] = Exit(c[k], "stopped")
        BY <2>1, <2>2, <2>4, <3>2
      <4>2. QED
        BY <2>2, <2>3, <4>1 DEF NamesOK, Exit
    <3>3. QED
      BY <3>1, <3>2
  <2>5. QED
    BY <2>2, <2>3, <2>4 DEF NamesOK, b
<1>4. QED
  BY <1>1, <1>2, <1>3

\* After a shutdown every child is gone or going.
LEMMA StopAllEffect ==
  ASSUME NEW a \in Actors, NEW c \in Cells, NEW slow \in SUBSET Kinds,
         NEW n \in Nat, NamesOK(a, n), Held(a, c)
  PROVE  /\ NamesOK(StopAll(a, c, slow), n)
         /\ \A k \in Kinds : Ending(StopAll(a, c, slow), k)
<1> DEFINE b1 == StopChild(a, c, "source", slow)
           b2 == StopChild(b1, c, "listener", slow)
           b3 == StopChild(b2, c, "recorder", slow)
<1>0. "source" \in Kinds /\ "listener" \in Kinds /\ "recorder" \in Kinds
  BY DEF Kinds
<1>1. b1 \in Actors /\ b2 \in Actors
  BY <1>0, StopChildType
<1>2. NamesOK(b1, n) /\ NamesOK(b2, n) /\ NamesOK(b3, n)
  BY <1>0, <1>1, StopChildNames
<1>3. /\ Ending(b1, "source")
      /\ b1.live["listener"] = a.live["listener"]
      /\ b1.stopping["listener"] = a.stopping["listener"]
      /\ b1.live["recorder"] = a.live["recorder"]
      /\ b1.stopping["recorder"] = a.stopping["recorder"]
  BY <1>0, StopChildEffect DEF Held
<1>4. /\ Ending(b2, "listener")
      /\ b2.live["source"] = b1.live["source"]
      /\ b2.stopping["source"] = b1.stopping["source"]
      /\ b2.live["recorder"] = b1.live["recorder"]
      /\ b2.stopping["recorder"] = b1.stopping["recorder"]
  BY <1>0, <1>1, <1>3, StopChildEffect DEF Held
<1>5. /\ Ending(b3, "recorder")
      /\ b3.live["source"] = b2.live["source"]
      /\ b3.stopping["source"] = b2.stopping["source"]
      /\ b3.live["listener"] = b2.live["listener"]
      /\ b3.stopping["listener"] = b2.stopping["listener"]
  BY <1>0, <1>1, <1>3, <1>4, StopChildEffect DEF Held
<1>6. StopAll(a, c, slow) = b3
  BY DEF StopAll
<1> HIDE DEF b1, b2, b3
<1>7. QED
  BY <1>2, <1>3, <1>4, <1>5, <1>6 DEF Ending, Kinds

\* The inductive invariant.
ChildInv == NamesOK(actors, nextId) /\ Held(actors, cell) /\ \A k \in Kinds : cell[k] < nextId

\* At first the recorder is 1 and the source 2.
LEMMA ChildInit == Init => ChildInv
<1> SUFFICES ASSUME Init PROVE ChildInv
  OBVIOUS
<1>1. /\ actors.live = [source |-> 2, listener |-> NoCell, recorder |-> 1]
      /\ cell = actors.live /\ actors.exits = <<>> /\ nextId = 3
  BY DEF Init
<1>2. QED
  BY <1>1 DEF ChildInv, NamesOK, Held, Kinds

\* An exit that is noticed is of a child that lives no more, and the queue
\* without it keeps the names.
LEMMA NoticedIsDead ==
  ASSUME TypeOK, ChildInv, Noticing
  PROVE  /\ Popped \in Actors /\ Popped.live = actors.live
         /\ Popped.stopping = actors.stopping
         /\ NamesOK(Popped, nextId)
         /\ \A k \in Kinds : k \in IdentifyChild(Head(actors.exits).id) =>
              actors.live[k] # cell[k]
<1>1. /\ actors.exits \in Seq(ExitEvent) /\ actors.exits # <<>> /\ actors \in Actors
  BY DEF TypeOK, Noticing, Actors
<1>2. /\ Popped \in Actors /\ Popped.live = actors.live
      /\ Popped.stopping = actors.stopping /\ Popped.exits = Tail(actors.exits)
  BY <1>1, NoticingType DEF Popped, Actors
<1>3. \A i \in DOMAIN Popped.exits :
        i + 1 \in DOMAIN actors.exits /\ Popped.exits[i] = actors.exits[i + 1]
  BY <1>1, <1>2, HeadTailProperties
<1>4. NamesOK(Popped, nextId)
  BY <1>2, <1>3 DEF ChildInv, NamesOK
<1>5. Head(actors.exits) = actors.exits[1] /\ 1 \in DOMAIN actors.exits
  BY <1>1
<1>6. QED
  BY <1>2, <1>4, <1>5 DEF ChildInv, NamesOK, IdentifyChild

\* A shutdown takes every child that is held or already stopping.
LEMMA ShutdownKeepsChildren ==
  ASSUME TypeOK, NEW a \in Actors, NEW c \in Cells, NamesOK(a, nextId), Held(a, c),
         ShutdownChildren(a, c), nextId' = nextId
  PROVE  ChildInv'
<1>1. PICK slow \in SUBSET Kinds : actors' = StopAll(a, c, slow)
  BY DEF ShutdownChildren
<1>2. nextId \in Nat /\ nextId > 0
  BY DEF TypeOK
<1>3. NamesOK(actors, nextId)' /\ \A k \in Kinds : Ending(actors, k)'
  BY <1>1, <1>2, StopAllEffect
<1>4. cell' = [k \in Kinds |-> NoCell]
  BY DEF ShutdownChildren
<1>5. QED
  BY <1>2, <1>3, <1>4 DEF ChildInv, Held, Ending

\* A new child has an id of its own.
LEMMA SpawnKeepsChildren ==
  ASSUME TypeOK, NEW a \in Actors, NEW c \in Cells, NEW k \in Kinds,
         NamesOK(a, nextId), \A j \in Kinds \ {k} : a.live[j] # NoCell =>
                                a.live[j] = c[j] \/ a.stopping[j],
         \A j \in Kinds : c[j] < nextId,
         actors' = [a EXCEPT !.live[k] = nextId], cell' = [c EXCEPT ![k] = nextId],
         nextId' = nextId + 1
  PROVE  ChildInv'
<1>1. nextId \in Nat /\ nextId # 0
  BY DEF TypeOK
<1>2. /\ \A j \in Kinds : actors'.live[j] = IF j = k THEN nextId ELSE a.live[j]
      /\ actors'.stopping = a.stopping /\ actors'.exits = a.exits
      /\ a.live \in [Kinds -> Nat] /\ a.exits \in Seq(ExitEvent)
  BY DEF Actors
<1>3. \A j \in Kinds : cell'[j] = IF j = k THEN nextId ELSE c[j]
  BY DEF Cells
<1>4. \A j \in Kinds : cell'[j] < nextId' /\ actors'.live[j] < nextId'
  BY <1>1, <1>2, <1>3 DEF NamesOK, Cells
<1>5. ASSUME NEW i \in DOMAIN actors'.exits
      PROVE  /\ actors'.exits[i].id < nextId'
             /\ \A j \in Kinds : actors'.live[j] # actors'.exits[i].id
  <2>1. a.exits[i] \in ExitEvent /\ actors'.exits[i] = a.exits[i]
    BY <1>2, <1>5
  <2>2. QED
    BY <1>1, <1>2, <1>5, <2>1 DEF NamesOK, ExitEvent
<1>6. NamesOK(actors, nextId)'
  <2>1. \A i, j \in Kinds : actors'.live[i] = actors'.live[j] /\ actors'.live[i] # NoCell
                              => i = j
    BY <1>1, <1>2 DEF NamesOK
  <2>2. QED
    BY <1>4, <1>5, <2>1 DEF NamesOK
<1>7. QED
  BY <1>2, <1>3, <1>4, <1>6 DEF ChildInv, Held

\* Attaching a listener, and handling its failure, keep the invariant.
LEMMA ListenerKeepsChildren ==
  ASSUME TypeOK, NEW a \in Actors, NEW c \in Cells, NEW q, NEW err, NEW t,
         NamesOK(a, nextId), Held(a, c), \A j \in Kinds : c[j] < nextId,
         \/ AttachListener(a, c, q)
         \/ HandleListenerFailure(a, c, q, err, t) /\ nextId' = nextId
  PROVE  ChildInv'
<1>1. CASE AttachListener(a, c, q)
  <2>1. /\ actors' = [a EXCEPT !.live["listener"] = nextId]
        /\ cell' = [c EXCEPT !["listener"] = nextId]
        /\ nextId' = nextId + 1 /\ "listener" \in Kinds
    BY <1>1 DEF AttachListener, Kinds
  <2>2. QED
    BY <2>1, SpawnKeepsChildren DEF Held
<1>2. CASE StopAfterFailure(a, c, q, err, t) /\ nextId' = nextId
  BY <1>2, ShutdownKeepsChildren DEF StopAfterFailure
<1>3. CASE FallBack(a, c, q, err, t) /\ nextId' = nextId
  BY <1>3 DEF FallBack, ChildInv
<1>4. QED
  BY <1>1, <1>2, <1>3 DEF HandleListenerFailure

\* Every step keeps the invariant.
LEMMA ChildStep == TypeOK /\ ChildInv /\ [Next]_vars => ChildInv'
<1> SUFFICES ASSUME TypeOK, ChildInv, [Next]_vars PROVE ChildInv'
  OBVIOUS
<1> USE DEF supVars, srcVars
<1>0. /\ cell \in Cells /\ actors \in Actors /\ nextId \in Nat /\ nextId # 0
      /\ "listener" \in Kinds /\ "source" \in Kinds /\ "recorder" \in Kinds
      /\ NamesOK(actors, nextId) /\ Held(actors, cell)
      /\ \A j \in Kinds : cell[j] < nextId
  BY DEF TypeOK, Kinds, ChildInv
<1>1. CASE UNCHANGED <<actors, cell, nextId>>
  BY <1>1 DEF ChildInv, NamesOK, Held
<1>2. CASE PostStartAttached \/ PostStartFailed
  BY <1>0, <1>2, ListenerKeepsChildren DEF PostStartAttached, PostStartFailed
<1>3. ASSUME Noticing
      PROVE  /\ Popped \in Actors /\ NamesOK(Popped, nextId)
             /\ Held(Popped, cell)
             /\ \A k \in IdentifyChild(Head(actors.exits).id) :
                  /\ [cell EXCEPT ![k] = NoCell] \in Cells
                  /\ Held(Popped, [cell EXCEPT ![k] = NoCell])
                  /\ \A j \in Kinds : [cell EXCEPT ![k] = NoCell][j] < nextId
  BY <1>0, <1>3, NoticedIsDead DEF Held, IdentifyChild, Cells
<1>4. CASE IgnoreExit \/ UnknownExit
  BY <1>0, <1>3, <1>4 DEF IgnoreExit, UnknownExit, ChildInv
<1>5. CASE ListenerExit
  BY <1>3, <1>5, ListenerKeepsChildren DEF ListenerExit
<1>6. CASE SourceExit
  <2> DEFINE c == [cell EXCEPT !["source"] = NoCell]
  <2>1. Noticing /\ "source" \in IdentifyChild(Head(actors.exits).id)
    BY <1>6 DEF SourceExit
  <2>2. /\ c \in Cells /\ Held(Popped, c) /\ \A j \in Kinds : c[j] < nextId
        /\ Popped \in Actors /\ NamesOK(Popped, nextId)
    BY <1>3, <2>1
  <2>3. \/ Meltdown(c)
        \/ /\ actors' = [Popped EXCEPT !.live["source"] = nextId]
           /\ cell' = [c EXCEPT !["source"] = nextId]
           /\ nextId' = nextId + 1
    BY <1>6 DEF SourceExit
  <2> HIDE DEF c
  <2>4. QED
    BY <1>0, <2>2, <2>3, ShutdownKeepsChildren, SpawnKeepsChildren DEF Meltdown, Held
<1>7. CASE RecorderExit
  <2> DEFINE c == [cell EXCEPT !["recorder"] = NoCell]
  <2>1. Noticing /\ "recorder" \in IdentifyChild(Head(actors.exits).id)
    BY <1>7 DEF RecorderExit
  <2>2. /\ c \in Cells /\ Held(Popped, c) /\ \A j \in Kinds : c[j] < nextId
        /\ Popped \in Actors /\ NamesOK(Popped, nextId)
    BY <1>3, <2>1
  <2>3. \/ Meltdown(c)
        \/ /\ actors' = [Popped EXCEPT !.live["recorder"] = nextId]
           /\ cell' = [c EXCEPT !["recorder"] = nextId]
           /\ nextId' = nextId + 1
    BY <1>7 DEF RecorderExit
  <2> HIDE DEF c
  <2>4. QED
    BY <1>0, <2>2, <2>3, ShutdownKeepsChildren, SpawnKeepsChildren DEF Meltdown, Held
<1>8. CASE HandleShutdown
  BY <1>0, <1>8, ShutdownKeepsChildren DEF HandleShutdown
<1>9. CASE RetryListener
  <2>1. \/ UNCHANGED <<actors, cell, nextId>>
        \/ \E q : \/ AttachListener(actors, cell, q)
                  \/ /\ HandleListenerFailure(actors, cell, q, "stream", timers - 1)
                     /\ nextId' = nextId
    BY <1>9 DEF RetryListener
  <2>2. QED
    BY <1>0, <1>1, <2>1, ListenerKeepsChildren
<1>10. CASE RefreshListener
  <2> DEFINE c == [cell EXCEPT !["listener"] = NoCell]
  <2>1. PICK slow \in SUBSET {"listener"} :
          \E q : \/ AttachListener(StopChild(actors, cell, "listener", slow), c, q)
                 \/ /\ HandleListenerFailure(StopChild(actors, cell, "listener", slow),
                                             c, q, "stream", timers)
                    /\ nextId' = nextId
    BY <1>10 DEF RefreshListener
  <2> DEFINE a == StopChild(actors, cell, "listener", slow)
  <2>2. slow \in SUBSET Kinds
    BY <1>0
  <2>3. a \in Actors /\ NamesOK(a, nextId)
    BY <1>0, <2>2, StopChildType, StopChildNames
  <2>4. c \in Cells /\ (\A j \in Kinds : c[j] < nextId)
    BY <1>0 DEF Cells
  <2>5. Held(a, c)
    <3>1. Ending(a, "listener")
      BY <1>0, <2>2, StopChildEffect DEF Held
    <3>2. \A j \in Kinds \ {"listener"} :
            a.live[j] = actors.live[j] /\ a.stopping[j] = actors.stopping[j]
      BY <1>0, <2>2, StopChildEffect
    <3> HIDE DEF a
    <3>3. QED
      BY <1>0, <3>1, <3>2 DEF Held, Ending, Cells
  <2>6. PICK q : \/ AttachListener(a, c, q)
                 \/ /\ HandleListenerFailure(a, c, q, "stream", timers)
                    /\ nextId' = nextId
    BY <2>1
  <2> HIDE DEF a, c
  <2>7. QED
    BY <2>3, <2>4, <2>5, <2>6, ListenerKeepsChildren
<1>11. ASSUME NEW k \in Kinds, ChildExits(k)
       PROVE  ChildInv'
  <2>1. PICK why :
          /\ actors.live[k] # NoCell
          /\ actors'.live = [actors.live EXCEPT ![k] = NoCell]
          /\ actors'.stopping = [actors.stopping EXCEPT ![k] = FALSE]
          /\ actors'.exits = Append(actors.exits, Exit(actors.live[k], why))
    BY <1>11 DEF ChildExits
  <2>2. nextId' = nextId /\ cell' = cell
    BY <1>11 DEF ChildExits
  <2>3. /\ \A j \in Kinds : actors'.live[j] = IF j = k THEN NoCell ELSE actors.live[j]
        /\ \A j \in Kinds \ {k} : actors'.stopping[j] = actors.stopping[j]
        /\ actors.exits \in Seq(ExitEvent) /\ actors.live[k] \in Nat
    BY <1>0, <2>1 DEF Actors
  <2>4. ASSUME NEW i \in DOMAIN actors'.exits
        PROVE  /\ actors'.exits[i].id < nextId
               /\ \A j \in Kinds : actors'.live[j] # actors'.exits[i].id
    <3>1. CASE i \in DOMAIN actors.exits
      <4>1. actors'.exits[i] = actors.exits[i] /\ actors.exits[i] \in ExitEvent
        BY <2>1, <2>3, <3>1
      <4>2. QED
        BY <1>0, <2>3, <3>1, <4>1 DEF NamesOK, ExitEvent
    <3>2. CASE i \notin DOMAIN actors.exits
      <4>1. actors'.exits[i] = Exit(actors.live[k], why)
        BY <2>1, <2>3, <2>4, <3>2
      <4>2. QED
        BY <1>0, <2>1, <2>3, <4>1 DEF NamesOK, Exit
    <3>3. QED
      BY <3>1, <3>2
  <2>5. QED
    BY <1>0, <2>2, <2>3, <2>4 DEF ChildInv, NamesOK, Held
<1>12. QED
  <2>1. CASE PostStartRecordOnly \/ UpdateConfig \/ SupervisorStops \/ SourceHandles
             \/ RootUpdates \/ RootStops \/ Tick \/ UNCHANGED vars
    BY <1>1, <2>1 DEF PostStartRecordOnly, UpdateConfig, SupervisorStops, SourceHandles,
                      SourceSetsRouting, SourceSetsRecorder, RootUpdates, RootStops,
                      Tick, vars
  <2>2. QED
    BY <1>2, <1>4, <1>5, <1>6, <1>7, <1>8, <1>9, <1>10, <1>11, <2>1
       DEF Next, PostStart, HandleExit, HandleUpdate, ChildFails, ChildStops

\* The names hold for ever.
LEMMA ChildInvariant == Spec => []ChildInv
BY ChildInit, ChildStep, InitType, StepType, PTL DEF Spec

\* No child is lost sight of: whatever is restarted, refreshed, given up or shut
\* down, and however late its exit arrives, every child that lives is in its cell
\* or has been told to stop (supervisor.rs, children.rs).
THEOREM NoLeakedChildAlways == Spec => []NoLeakedChild
<1>1. ChildInv => NoLeakedChild
  BY DEF ChildInv, Held, NoLeakedChild
<1>2. QED
  BY <1>1, ChildInvariant, PTL

\* What takes a listener out of its cell that is alive is a refresh or a shutdown:
\* an exit event that names the cell is of a listener that lives no more, and a
\* retry finds the cell empty.
LEMMA HealthyStep ==
  ASSUME RetryInv, ChildInv, [Next]_vars, Up(actors, cell, "listener"),
         cell'["listener"] # cell["listener"]
  PROVE  shuttingDown' \/ inbox' # inbox
<1> USE DEF supVars, srcVars
<1>0. /\ TypeOK /\ cell \in Cells /\ inbox \in Seq(Updates)
      /\ "listener" \in Kinds /\ cell["listener"] # NoCell
      /\ actors.live["listener"] = cell["listener"]
  BY DEF RetryInv, TypeOK, Queues, Kinds, Up
<1>1. CASE PostStart
  BY <1>0, <1>1 DEF PostStart, PostStartRecordOnly, PostStartAttached, PostStartFailed,
                    RetryInv, Unstarted
<1>2. CASE IgnoreExit \/ UnknownExit
  BY <1>2 DEF IgnoreExit, UnknownExit
<1>3. CASE ListenerExit
  BY <1>0, <1>3, NoticedIsDead DEF ListenerExit
<1>4. CASE SourceExit
  BY <1>0, <1>4 DEF SourceExit, Meltdown, ShutdownChildren, Cells
<1>5. CASE RecorderExit
  BY <1>0, <1>5 DEF RecorderExit, Meltdown, ShutdownChildren, Cells
<1>6. CASE HandleShutdown
  BY <1>6 DEF HandleShutdown, ShutdownChildren
<1>7. CASE RetryListener
  BY <1>0, <1>7 DEF RetryListener
<1>8. CASE HandleUpdate
  <2>1. inbox # <<>> /\ inbox' = Tail(inbox)
    BY <1>8 DEF HandleUpdate, UpdateConfig, RefreshListener
  <2>2. Len(Tail(inbox)) = Len(inbox) - 1 /\ Len(inbox) \in Nat
    BY <1>0, <2>1
  <2>3. Len(Tail(inbox)) # Len(inbox)
    BY <2>2
  <2>4. QED
    BY <2>1, <2>3
<1>9. CASE \E k \in Kinds : ChildExits(k)
  BY <1>9 DEF ChildExits
<1>10. QED
  BY <1>1, <1>2, <1>3, <1>4, <1>5, <1>6, <1>7, <1>8, <1>9
     DEF Next, HandleExit, ChildFails, ChildStops, SupervisorStops, SourceHandles,
         SourceSetsRouting, SourceSetsRecorder, RootUpdates, RootStops, Tick, vars

\* A living listener is only replaced by a refresh and given up by a shutdown,
\* never because of the late exit of one before it (supervisor.rs,
\* identify_child).
THEOREM HealthyListenerKeptAlways == Spec => HealthyListenerKept
<1>1. RetryInv /\ ChildInv /\ [Next]_vars =>
        [Up(actors, cell, "listener") /\ cell'["listener"] # cell["listener"]
           => shuttingDown' \/ inbox' # inbox]_vars
  BY HealthyStep
<1>2. QED
  BY <1>1, RetryInvariant, ChildInvariant, PTL DEF Spec, HealthyListenerKept

-------------------------------------------------------------------------------
(* What the listener runs with *)

\* An attached listener runs with the configuration of the session.
LEMMA AttachConfigures ==
  ASSUME NEW a, NEW c, NEW q, AttachListener(a, c, q)
  PROVE  ListenerConfigured'
BY DEF AttachListener, RunsWith, ListenerConfigured

\* A failed listener leaves no listener to configure.
LEMMA FailureUnconfigures ==
  ASSUME NEW a, NEW c, c["listener"] = NoCell, NEW q, NEW err, NEW t,
         HandleListenerFailure(a, c, q, err, t)
  PROVE  ListenerConfigured'
<1>1. CASE StopAfterFailure(a, c, q, err, t)
  BY <1>1 DEF StopAfterFailure, ShutdownChildren, ListenerConfigured, Ready
<1>2. CASE FallBack(a, c, q, err, t)
  BY <1>2 DEF FallBack, ListenerConfigured, Up
<1>3. QED
  BY <1>1, <1>2 DEF HandleListenerFailure

\* Steps that leave a live listener, its configuration and the session's alone.
LEMMA QuietConfig ==
  ASSUME ListenerConfigured, UNCHANGED <<params, lcfg>>,
         Ready' /\ Up(actors, cell, "listener")' =>
            Ready /\ Up(actors, cell, "listener")
  PROVE  ListenerConfigured'
BY DEF ListenerConfigured

\* A change of the configuration that matters to the stream replaces the
\* listener; one that does not is told to it.
LEMMA ConfigStep ==
  RetryInv /\ ListenerConfigured /\ [Next]_vars => ListenerConfigured'
<1> SUFFICES ASSUME RetryInv, ListenerConfigured, [Next]_vars
    PROVE  ListenerConfigured'
  OBVIOUS
<1> USE DEF supVars, srcVars
<1>0. /\ TypeOK /\ cell \in Cells /\ actors \in Actors
      /\ "listener" \in Kinds /\ "source" \in Kinds /\ "recorder" \in Kinds
  BY DEF RetryInv, TypeOK, Kinds
<1>1. CASE UNCHANGED <<phase, shuttingDown, actors, cell, params, lcfg>>
  BY <1>1, QuietConfig DEF Ready, Up
<1>2. CASE PostStart
  BY <1>2, AttachConfigures, FailureUnconfigures
     DEF PostStart, PostStartRecordOnly, PostStartAttached, PostStartFailed,
         RetryInv, Unstarted, ListenerConfigured, Up
<1>3. CASE IgnoreExit \/ UnknownExit
  BY <1>0, <1>3, QuietConfig DEF IgnoreExit, UnknownExit, Ready, Up, Popped, Actors
<1>4. CASE ListenerExit
  <2>1. [cell EXCEPT !["listener"] = NoCell]["listener"] = NoCell
    BY <1>0 DEF Cells
  <2>2. QED
    BY <1>4, <2>1, FailureUnconfigures DEF ListenerExit
<1>5. CASE SourceExit \/ RecorderExit
  <2>1. CASE shuttingDown'
    BY <2>1 DEF ListenerConfigured, Ready
  <2>2. CASE ~shuttingDown'
    <3>1. /\ UNCHANGED <<phase, shuttingDown, params, lcfg>>
          /\ cell'["listener"] = cell["listener"]
          /\ actors'.live["listener"] = actors.live["listener"]
      <4>1. Popped \in Actors /\ Popped.live = actors.live
        BY <1>0, <1>5, NoticingType DEF SourceExit, RecorderExit, Popped, Actors
      <4>2. UNCHANGED <<phase, shuttingDown, params, lcfg>>
        BY <1>5, <2>2 DEF SourceExit, RecorderExit, Meltdown, ShutdownChildren
      <4>3. PICK k \in {"source", "recorder"} :
              /\ cell' = [[cell EXCEPT ![k] = NoCell] EXCEPT ![k] = nextId]
              /\ actors' = [Popped EXCEPT !.live[k] = nextId]
        BY <1>5, <2>2 DEF SourceExit, RecorderExit, Meltdown, ShutdownChildren
      <4>4. actors'.live["listener"] = actors.live["listener"]
        BY <1>0, <4>1, <4>3 DEF Actors
      <4>5. cell'["listener"] = cell["listener"]
        BY <1>0, <4>3 DEF Cells
      <4>6. QED
        BY <4>2, <4>4, <4>5
    <3>2. QED
      BY <3>1, QuietConfig DEF Ready, Up
  <2>3. QED
    BY <2>1, <2>2
<1>6. CASE HandleShutdown
  BY <1>6 DEF HandleShutdown, ShutdownChildren, ListenerConfigured, Ready
<1>7. CASE RetryListener
  BY <1>1, <1>7, AttachConfigures, FailureUnconfigures DEF RetryListener
<1>8. CASE UpdateConfig
  <2> DEFINE u == Head(inbox)
  <2>1. /\ Ready /\ ~NeedsRefresh(u)
        /\ params'.cfg = u /\ UNCHANGED <<actors, cell, mode>>
    BY <1>0, <1>8 DEF UpdateConfig, TypeOK
  <2>2. CASE Up(actors, cell, "listener")
    <3>1. ~UpdateRequiresRefresh(params.cfg, u)
      BY <2>1, <2>2 DEF NeedsRefresh, ShouldSpawnListener, RetryInv, LiveHasListener, Up
    <3>2. lcfg'.stream = lcfg.stream /\ lcfg'.people = u
      BY <1>0, <1>8, <2>2 DEF UpdateConfig, TypeOK, ListenerConfig
    <3>3. QED
      BY <2>1, <2>2, <3>1, <3>2 DEF ListenerConfigured, UpdateRequiresRefresh
  <2>3. CASE ~Up(actors, cell, "listener")
    BY <2>1, <2>3 DEF ListenerConfigured, Up
  <2>4. QED
    BY <2>2, <2>3
<1>9. CASE RefreshListener
  <2> DEFINE c == [cell EXCEPT !["listener"] = NoCell]
  <2>1. c["listener"] = NoCell
    BY <1>0 DEF Cells
  <2>2. \E a, q : \/ AttachListener(a, c, q)
                \/ HandleListenerFailure(a, c, q, "stream", timers)
    BY <1>9 DEF RefreshListener
  <2> HIDE DEF c
  <2>3. QED
    BY <2>1, <2>2, AttachConfigures, FailureUnconfigures
<1>10. CASE SupervisorStops
  BY <1>10 DEF SupervisorStops, ListenerConfigured, Ready
<1>11. ASSUME NEW k \in Kinds, ChildExits(k)
       PROVE  ListenerConfigured'
  <2>1. Up(actors, cell, "listener")' => Up(actors, cell, "listener")
    BY <1>0, <1>11 DEF ChildExits, Up, Actors, Cells
  <2>2. QED
    BY <1>11, <2>1, QuietConfig DEF ChildExits, Ready
<1>12. QED
  <2>1. CASE SourceHandles \/ RootUpdates \/ RootStops \/ Tick \/ UNCHANGED vars
    BY <1>1, <2>1 DEF SourceHandles, SourceSetsRouting, SourceSetsRecorder, RootUpdates,
                      RootStops, Tick, vars
  <2>2. QED
    BY <1>2, <1>3, <1>4, <1>5, <1>6, <1>7, <1>8, <1>9, <1>10, <1>11, <2>1
       DEF Next, HandleExit, HandleUpdate, ChildFails, ChildStops

\* The listener's stream is always open for the languages and the number of
\* speakers the session was last given, and the listener names those people
\* (supervisor.rs, update_config; mode.rs).
THEOREM ListenerConfiguredAlways == Spec => []ListenerConfigured
<1>1. Init => ListenerConfigured
  BY DEF Init, ListenerConfigured, Up
<1>2. QED
  BY <1>1, RetryInvariant, ConfigStep, PTL DEF Spec

-----------------------------------------------------------------------------
(***************************************************************************)
(* The files of the recorder this supervisor starts (RecorderDisk), for     *)
(* every amount of audio and every end of the process.                      *)
(***************************************************************************)
USE DEF Absent

\* No other final file than f exists.
Only(f) == \A g \in {"mp3", "ogg"} : g # f => file[g] = Absent

\* The inductive invariant: which file holds all of the recording at each file
\* operation, and which others are gone by then.
DiskInv ==
  /\ DiskTypeOK
  /\ Only("mp3") \/ Only("ogg")
  /\ NothingLost
  /\ pc \in {"drop_tmp", "decode_mp3", "drop_wav", "rename_tmp", "remove_mp3",
             "remove_wav"} => file["mp3"] = taped
  /\ pc \in {"drop_wav", "rename_tmp"} => file["tmp"] = taped
  /\ pc \in {"decode_ogg", "remove_ogg"} => file["ogg"] = taped
  /\ pc \in {"remove_mp3", "remove_ogg", "record", "encode", "remove_wav"} =>
       file["wav"] = taped
  /\ pc \in {"open_wav", "record", "encode"} =>
       ~Exists("mp3") /\ ~Exists("ogg")
  /\ pc = "closed" => ~Exists("ogg")

\* Before the recorder opens, every earlier piece is in one file.
LEMMA DiskInvInit == DiskInit => DiskInv
BY PiecesAssumption
   DEF DiskInit, DiskInv, DiskTypeOK, Only, NothingLost, NextSource, Pieces, Exists,
       Files, PCs

\* When the MP3 is always written whole, every file operation, every failure of
\* one and every end of the process keep the invariant.
LEMMA DiskInvStep == ~TornEncode /\ DiskInv /\ [DiskNext]_diskVars => DiskInv'
<1> SUFFICES ASSUME ~TornEncode, DiskInv, [DiskNext]_diskVars PROVE DiskInv'
  OBVIOUS
<1> USE DEF DiskInv, DiskTypeOK, Only, NothingLost, NextSource, Pieces, Exists, Files,
            PCs, Opening, Closing, Step
<1>1. CASE Open
  BY <1>1 DEF Open, FirstOperation
<1>2. CASE DropTmp \/ DecodeMp3 \/ DropWav
  BY <1>2 DEF DropTmp, DecodeMp3, DropWav
<1>3. CASE RenameTmp \/ RemoveMp3
  BY <1>3 DEF RenameTmp, RemoveMp3
<1>4. CASE DecodeOgg \/ RemoveOgg
  BY <1>4 DEF DecodeOgg, RemoveOgg
<1>5. CASE OpenWav
  BY <1>5 DEF OpenWav
<1>6. CASE Write
  BY <1>6 DEF Write
<1>7. ASSUME NEW n \in {0, buffered}, NEW to \in {"record", "encode", "down"},
             Save(n, to)
      PROVE  DiskInv'
  BY <1>7 DEF Save
<1>8. CASE Encode \/ RemoveWav
  BY <1>8 DEF Encode, RemoveWav
<1>9. CASE EncodeFails
  <2>1. PICK f \in Leftovers : Step("encode", "closed", f)
    BY <1>9 DEF EncodeFails
  <2>2. f = file
    BY <2>1 DEF Leftovers
  <2>3. QED
    BY <2>1, <2>2
<1>10. CASE Interrupted
  <2>1. PICK f \in Leftovers :
           pc \in Opening \cup Closing /\ Step(pc, "down", f)
    BY <1>10 DEF Interrupted
  <2>2. CASE pc = "decode_mp3"
    <3>1. f["mp3"] = file["mp3"] /\ f["ogg"] = file["ogg"]
          /\ f \in [Files -> Nat \cup {Absent}]
      BY <2>1, <2>2 DEF Leftovers, PartOf
    <3>2. QED
      BY <2>1, <2>2, <3>1
  <2>3. CASE pc = "decode_ogg"
    <3>1. f["mp3"] = file["mp3"] /\ f["ogg"] = file["ogg"]
          /\ f \in [Files -> Nat \cup {Absent}]
      BY <2>1, <2>3 DEF Leftovers, PartOf
    <3>2. QED
      BY <2>1, <2>3, <3>1
  <2>4. CASE pc \notin {"decode_mp3", "decode_ogg"}
    <3>1. f = file
      BY <2>1, <2>4 DEF Leftovers
    <3>2. QED
      BY <2>1, <2>4, <3>1
  <2>5. QED
    BY <2>2, <2>3, <2>4
<1>11. CASE UNCHANGED diskVars
  BY <1>11 DEF diskVars
<1>12. QED
  BY <1>1, <1>2, <1>3, <1>4, <1>5, <1>6, <1>7, <1>8, <1>9, <1>10, <1>11
     DEF DiskNext, OpenNext, CloseNext, Flush, StopRecorder, RecordingEnds

\* At each file operation some file holds the whole recording.
LEMMA DiskInvariant == ~TornEncode => (DiskSpec => []DiskInv)
<1> SUFFICES ASSUME ~TornEncode PROVE DiskSpec => []DiskInv
  OBVIOUS
<1>1. DiskInv /\ [DiskNext]_diskVars => DiskInv'
  BY DiskInvStep
<1>2. QED
  BY <1>1, DiskInvInit, PTL DEF DiskSpec

\* When the MP3 is always written whole, no failure and no end of the process
\* loses or repeats audio that was flushed (disk.rs, prepare_existing_audio_state
\* and finalize_disk_sink).
THEOREM NothingLostWhenWhole == ~TornEncode => (DiskSpec => []NothingLost)
<1> SUFFICES ASSUME ~TornEncode PROVE DiskSpec => []NothingLost
  OBVIOUS
<1>1. DiskInv => NothingLost
  BY DEF DiskInv
<1>2. QED
  BY <1>1, DiskInvariant, PTL

\* ... and a finished session is announced with all of its recording
\* (recorder/mod.rs, resolve_final_audio_path).
THEOREM FinalAudioWhenWhole == ~TornEncode => (DiskSpec => []FinalAudioComplete)
<1> SUFFICES ASSUME ~TornEncode PROVE DiskSpec => []FinalAudioComplete
  OBVIOUS
<1>1. DiskInv => FinalAudioComplete
  BY DEF DiskInv, NothingLost, NextSource, FinalAudioComplete, FinalAudio, Exists, Pieces
<1>2. QED
  BY <1>1, DiskInvariant, PTL
=============================================================================
