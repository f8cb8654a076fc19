------------------------------ MODULE ListenerRoot ------------------------------
(***************************************************************************)
(* crates/listener-core/src/actors/root.rs: the actor that starts, stops   *)
(* and updates recording sessions for the rest of the application, and     *)
(* announces their lifecycle.  A session is run by a supervisor of its     *)
(* own (SessionSupervisor has the inside of one); here a supervisor is     *)
(* the phase it is in, its mailbox, and what it announces by itself.       *)
(*                                                                         *)
(* Root handles one message or event at a time.  StartSession awaits the   *)
(* supervisor's pre_start, so it is split where it awaits, and every other *)
(* handler is split where root has taken a message but not yet looked at   *)
(* its state: the supervisors run on other threads meanwhile.              *)
(***************************************************************************)
EXTENDS Sequences, FiniteSets, Integers

CONSTANTS Sessions,    \* session ids
          NoSession,   \* active_session_id = None
          Supervisors, \* bound: supervisors that may ever be spawned
          NoSup,       \* active_supervisor = None
          MaxInbox,    \* bound: messages waiting for root
          MaxMail,     \* bound: no update while a supervisor has this many
          Faults       \* whether sessions may fail to start or end themselves

ASSUME NoneAssumption == NoSession \notin Sessions /\ NoSup \notin Supervisors
ASSUME BoundsAssumption == {MaxInbox, MaxMail} \subseteq Nat
ASSUME FaultsAssumption == Faults \in BOOLEAN

VARIABLES inbox,         \* messages waiting for root, oldest first
          doing,         \* the message root is handling
          active,        \* state.active_supervisor
          activeSession, \* state.active_session_id
          finalizing,    \* state.finalizing_sessions
          exits,         \* supervision events waiting for root
          phase,         \* where each supervisor is in its life
          owner,         \* the session a supervisor was spawned for
          mail,          \* messages waiting for each supervisor
          linked,        \* supervisors whose exit root is told of
          said           \* the last lifecycle event of each session

rootVars == <<inbox, doing, active, activeSession, finalizing>>
supVars  == <<phase, owner, mail, linked, exits>>
vars     == <<rootVars, supVars, said>>

\* pre_start; handling messages; shutdown_children up to the recorder; the
\* recorder's post_stop, which encodes the audio; the end.
Phases == {"unborn", "starting", "running", "closing", "saving", "stopped",
           "failed"}
Gone   == {"unborn", "stopped", "failed"}

Alive(i) == phase[i] \notin Gone

Message == [op : {"start", "update"}, session : Sessions]
             \cup [op : {"stop"}, session : {NoSession}]
Idle     == [op |-> "none", session |-> NoSession, sup |-> NoSup]
Handling(m)    == [op |-> m.op, session |-> m.session, sup |-> NoSup]
Spawning(s, i) == [op |-> "spawn", session |-> s, sup |-> i]

Doings == {Idle} \cup {Handling(m) : m \in Message}
            \cup {Spawning(s, i) : s \in Sessions, i \in Supervisors}

Shutdown  == "shutdown"   \* SessionMsg::Shutdown; an update is its session id
Announced == {"live", "degraded"}   \* SessionLifecycleEvent::Active
Says      == {"none", "finalizing", "inactive"} \cup Announced

Init ==
  /\ inbox = <<>> /\ doing = Idle
  /\ active = NoSup /\ activeSession = NoSession
  /\ finalizing = [s \in Sessions |-> NoSup]
  /\ exits = <<>>
  /\ phase = [i \in Supervisors |-> "unborn"]
  /\ owner = [i \in Supervisors |-> NoSession]
  /\ mail = [i \in Supervisors |-> <<>>]
  /\ linked = {}
  /\ said = [s \in Sessions |-> "none"]

-------------------------------------------------------------------------------
(* Root's mailbox *)

\* Bound: starts are only sent while there is a supervisor left for each.
StartsWaiting ==
  Cardinality({n \in DOMAIN inbox : inbox[n].op = "start"})
    + (IF doing.op = "start" THEN 1 ELSE 0)
Unborn == {i \in Supervisors : phase[i] = "unborn"}

\* start_capture, stop_capture and update_capture_config send a message.
Send ==
  /\ Len(inbox) < MaxInbox
  /\ \E m \in Message :
        /\ m.op = "start" => StartsWaiting < Cardinality(Unborn)
        /\ m.op = "update" => \A i \in Supervisors : Len(mail[i]) < MaxMail
        /\ inbox' = Append(inbox, m)
  /\ UNCHANGED <<doing, active, activeSession, finalizing, supVars,
                 said>>

\* Supervision events go before messages.
Take ==
  /\ doing = Idle /\ exits = <<>> /\ inbox # <<>>
  /\ doing' = Handling(Head(inbox))
  /\ inbox' = Tail(inbox)
  /\ UNCHANGED <<active, activeSession, finalizing, supVars, said>>

-------------------------------------------------------------------------------
(* StartSession *)

\* Mutant: supervisors that are about to stop are forgotten too.
ForgetsStopping(i) == i # NoSup /\ phase[i] \in {"saving", "stopped"}

\* clear_stopped_supervisors drops those that have stopped.
HasStopped(i) == i # NoSup /\ phase[i] = "stopped"

KeptActive        == IF HasStopped(active) THEN NoSup ELSE active
KeptActiveSession == IF HasStopped(active) THEN NoSession ELSE activeSession
KeptFinalizing ==
  [s \in Sessions |-> IF HasStopped(finalizing[s]) THEN NoSup
                      ELSE finalizing[s]]

ClearStoppedSupervisors ==
  /\ active' = KeptActive
  /\ activeSession' = KeptActiveSession
  /\ finalizing' = KeptFinalizing

\* Mutants: only the active session, or only this session's last supervisor.
BusyIfActive(s)     == KeptActive # NoSup
BusyIfFinalizing(s) == KeptFinalizing[s] # NoSup

SessionAlreadyRunning(s) ==
  KeptActive # NoSup \/ KeptFinalizing[s] # NoSup

StartRefused ==
  /\ doing.op = "start"
  /\ ClearStoppedSupervisors
  /\ SessionAlreadyRunning(doing.session)
  /\ doing' = Idle
  /\ UNCHANGED <<inbox, supVars, said>>

\* vault_base failed.
StartWithoutVault ==
  /\ doing.op = "start" /\ Faults
  /\ ClearStoppedSupervisors
  /\ ~SessionAlreadyRunning(doing.session)
  /\ doing' = Idle
  /\ UNCHANGED <<inbox, supVars, said>>

\* spawn_session_supervisor is called; root waits for the end of pre_start.
StartSpawns ==
  /\ doing.op = "start"
  /\ ClearStoppedSupervisors
  /\ ~SessionAlreadyRunning(doing.session)
  /\ \E i \in Supervisors :
        /\ phase[i] = "unborn"
        /\ phase' = [phase EXCEPT ![i] = "starting"]
        /\ owner' = [owner EXCEPT ![i] = doing.session]
        /\ doing' = Spawning(doing.session, i)
  /\ UNCHANGED <<inbox, mail, linked, exits, said>>

\* pre_start has failed.
StartFailed ==
  /\ doing.op = "spawn" /\ phase[doing.sup] = "failed"
  /\ doing' = Idle
  /\ UNCHANGED <<inbox, active, activeSession, finalizing, supVars, said>>

\* The supervisor has already stopped when root links to it.
StartedTooLate ==
  /\ doing.op = "spawn" /\ phase[doing.sup] = "stopped"
  /\ doing' = Idle
  /\ UNCHANGED <<inbox, active, activeSession, finalizing, supVars, said>>

Started ==
  /\ doing.op = "spawn"
  /\ phase[doing.sup] \in {"running", "closing", "saving"}
  /\ linked' = linked \cup {doing.sup}
  /\ active' = doing.sup /\ activeSession' = doing.session
  /\ said' = [said EXCEPT ![doing.session] = "live"]
  /\ doing' = Idle
  /\ UNCHANGED <<inbox, finalizing, phase, owner, mail, exits>>

-------------------------------------------------------------------------------
(* UpdateSessionConfig and StopSession *)

\* A message to an actor that has stopped is lost.
Cast(i, m) ==
  mail' = IF Alive(i) THEN [mail EXCEPT ![i] = Append(@, m)] ELSE mail

\* Mutant: an update goes to whichever session is active.
UpdateAnySession ==
  /\ doing.op = "update" /\ doing' = Idle
  /\ IF active # NoSup THEN Cast(active, doing.session) ELSE UNCHANGED mail
  /\ UNCHANGED <<inbox, active, activeSession, finalizing, phase,
                 owner, linked, exits, said>>

\* update_session_config_impl
UpdateSession ==
  /\ doing.op = "update" /\ doing' = Idle
  /\ IF activeSession = doing.session /\ active # NoSup
     THEN Cast(active, doing.session) ELSE UNCHANGED mail
  /\ UNCHANGED <<inbox, active, activeSession, finalizing, phase,
                 owner, linked, exits, said>>

\* Mutant: the session is announced as ended when its stop is requested.
StopEndsAtOnce ==
  /\ doing.op = "stop" /\ active # NoSup /\ doing' = Idle
  /\ finalizing' = [finalizing EXCEPT ![activeSession] = active]
  /\ said' = [said EXCEPT ![activeSession] = "inactive"]
  /\ Cast(active, Shutdown)
  /\ active' = NoSup /\ activeSession' = NoSession
  /\ UNCHANGED <<inbox, phase, owner, linked, exits>>

\* Mutant: the supervisor is cloned out of the state, not taken.
StopKeepsActive ==
  /\ doing.op = "stop" /\ active # NoSup /\ doing' = Idle
  /\ finalizing' = [finalizing EXCEPT ![activeSession] = active]
  /\ said' = [said EXCEPT ![activeSession] = "finalizing"]
  /\ Cast(active, Shutdown)
  /\ UNCHANGED <<inbox, active, activeSession, phase, owner, linked, exits>>

\* stop_session_impl
StopSession ==
  /\ doing.op = "stop" /\ active # NoSup /\ doing' = Idle
  /\ finalizing' = [finalizing EXCEPT ![activeSession] = active]
  /\ said' = [said EXCEPT ![activeSession] = "finalizing"]
  /\ Cast(active, Shutdown)
  /\ active' = NoSup /\ activeSession' = NoSession
  /\ UNCHANGED <<inbox, phase, owner, linked, exits>>

StopNothing ==
  /\ doing.op = "stop" /\ active = NoSup /\ doing' = Idle
  /\ UNCHANGED <<inbox, active, activeSession, finalizing, supVars,
                 said>>

-------------------------------------------------------------------------------
(* handle_supervisor_completion *)

Completing == doing = Idle /\ exits # <<>>

OfActive(i) == active = i

ActiveEnds ==
  /\ Completing /\ OfActive(Head(exits))
  /\ exits' = Tail(exits)
  /\ active' = NoSup /\ activeSession' = NoSession
  /\ said' = [said EXCEPT ![activeSession] = "inactive"]
  /\ UNCHANGED <<inbox, doing, finalizing, phase, owner, mail, linked>>

\* Mutant: the entry stays.
FinalizingStays ==
  /\ Completing /\ ~OfActive(Head(exits))
  /\ \E s \in Sessions :
        /\ finalizing[s] = Head(exits)
        /\ UNCHANGED finalizing
        /\ said' = [said EXCEPT ![s] = "inactive"]
  /\ exits' = Tail(exits)
  /\ UNCHANGED <<inbox, doing, active, activeSession, phase, owner,
                 mail, linked>>

FinalizingEnds ==
  /\ Completing /\ ~OfActive(Head(exits))
  /\ \E s \in Sessions :
        /\ finalizing[s] = Head(exits)
        /\ finalizing' = [finalizing EXCEPT ![s] = NoSup]
        /\ said' = [said EXCEPT ![s] = "inactive"]
  /\ exits' = Tail(exits)
  /\ UNCHANGED <<inbox, doing, active, activeSession, phase, owner,
                 mail, linked>>

UnknownEnds ==
  /\ Completing /\ ~OfActive(Head(exits))
  /\ \A s \in Sessions : finalizing[s] # Head(exits)
  /\ exits' = Tail(exits)
  /\ UNCHANGED <<rootVars, phase, owner, mail, linked, said>>

-------------------------------------------------------------------------------
(* The supervisors.  The source and the recorder are registered under one   *)
(* name each, whatever their session; a name is free again at some moment   *)
(* between the request to stop the actor and its end.                       *)

HoldsNames(i) == phase[i] \in {"running", "closing"}
MayHoldNames(i) == phase[i] \in {"running", "closing", "saving"}

\* pre_start of SessionActor
ChildrenSpawned(i) ==
  /\ phase[i] = "starting"
  /\ \A j \in Supervisors : ~HoldsNames(j)
  /\ phase' = [phase EXCEPT ![i] = "running"]
  /\ UNCHANGED <<rootVars, owner, mail, linked, exits, said>>

\* A child fails to start, or its name is taken.
ChildrenFail(i) ==
  /\ phase[i] = "starting"
  /\ Faults \/ \E j \in Supervisors : MayHoldNames(j)
  /\ phase' = [phase EXCEPT ![i] = "failed"]
  /\ UNCHANGED <<rootVars, owner, mail, linked, exits, said>>

\* enter_batch_fallback announces Active with the error.
Degrades(i) ==
  /\ phase[i] = "running"
  /\ said' = [said EXCEPT ![owner[i]] = "degraded"]
  /\ UNCHANGED <<rootVars, supVars>>

HandlesUpdate(i) ==
  /\ phase[i] = "running" /\ mail[i] # <<>> /\ Head(mail[i]) # Shutdown
  /\ mail' = [mail EXCEPT ![i] = Tail(@)]
  /\ UNCHANGED <<rootVars, phase, owner, linked, exits, said>>

HandlesShutdown(i) ==
  /\ phase[i] = "running" /\ mail[i] # <<>> /\ Head(mail[i]) = Shutdown
  /\ mail' = [mail EXCEPT ![i] = Tail(@)]
  /\ phase' = [phase EXCEPT ![i] = "closing"]
  /\ UNCHANGED <<rootVars, owner, linked, exits, said>>

\* meltdown, and stop_after_listener_failure, which announces the error first.
EndsItself(i) ==
  /\ phase[i] = "running" /\ Faults
  /\ phase' = [phase EXCEPT ![i] = "closing"]
  /\ \/ UNCHANGED said
     \/ said' = [said EXCEPT ![owner[i]] = "degraded"]
  /\ UNCHANGED <<rootVars, owner, mail, linked, exits>>

StopsRecorder(i) ==
  /\ phase[i] = "closing"
  /\ phase' = [phase EXCEPT ![i] = "saving"]
  /\ UNCHANGED <<rootVars, owner, mail, linked, exits, said>>

Stops(i) ==
  /\ phase[i] = "saving"
  /\ phase' = [phase EXCEPT ![i] = "stopped"]
  /\ mail' = [mail EXCEPT ![i] = <<>>]
  /\ exits' = IF i \in linked THEN Append(exits, i) ELSE exits
  /\ UNCHANGED <<rootVars, owner, linked, said>>

-------------------------------------------------------------------------------
RootNext ==
  \/ Take
  \/ StartRefused \/ StartWithoutVault \/ StartSpawns
  \/ StartFailed \/ StartedTooLate \/ Started
  \/ UpdateSession \/ StopSession \/ StopNothing
  \/ ActiveEnds \/ FinalizingEnds \/ UnknownEnds

Proceeds(i) ==
  \/ ChildrenSpawned(i) \/ ChildrenFail(i)
  \/ HandlesUpdate(i) \/ HandlesShutdown(i)
  \/ StopsRecorder(i) \/ Stops(i)

SupervisorNext ==
  \E i \in Supervisors : Proceeds(i) \/ Degrades(i) \/ EndsItself(i)

Next == Send \/ RootNext \/ SupervisorNext

Spec == Init /\ [][Next]_vars

\* Root's task and every supervisor's are scheduled; nobody has to send
\* anything, and no session has to degrade or to end by itself.
FairSpec ==
  /\ Spec
  /\ WF_vars(RootNext)
  /\ \A i \in Supervisors : WF_vars(Proceeds(i))

-------------------------------------------------------------------------------
TypeOK ==
  /\ inbox \in Seq(Message)
  /\ doing \in Doings
  /\ active \in Supervisors \cup {NoSup}
  /\ activeSession \in Sessions \cup {NoSession}
  /\ finalizing \in [Sessions -> Supervisors \cup {NoSup}]
  /\ exits \in Seq(Supervisors)
  /\ phase \in [Supervisors -> Phases]
  /\ owner \in [Supervisors -> Sessions \cup {NoSession}]
  /\ mail \in [Supervisors -> Seq(Sessions \cup {Shutdown})]
  /\ linked \subseteq Supervisors
  /\ said \in [Sessions -> Says]

\* No session ever has two supervisors that are still up: the recorders of the
\* two would write to one directory.
OneSupervisorPerSession ==
  \A i, j \in Supervisors :
    Alive(i) /\ Alive(j) /\ owner[i] = owner[j] => i = j

Told(i) == \E n \in DOMAIN mail[i] : mail[i][n] = Shutdown

\* A session is never started next to one that goes on recording: any other
\* supervisor that is up has been told to stop or is stopping.
OneGoesOn ==
  \A i, j \in Supervisors :
    phase[i] \in {"starting", "running"} /\ phase[j] \in {"starting", "running"}
      => i = j \/ Told(i) \/ Told(j)

\* The session root calls active is one whose last announcement is Active: the
\* late exit of an earlier supervisor of it does not end it.
ActiveIsAnnounced ==
  active # NoSup => said[activeSession] \in Announced

\* What root tracks is the supervisor of that session, one it calls finalizing
\* is on its way out, and updates only reach the session they are for.
TracksRightSession ==
  /\ active # NoSup => owner[active] = activeSession
  /\ \A s \in Sessions :
       finalizing[s] # NoSup =>
         /\ owner[finalizing[s]] = s
         /\ phase[finalizing[s]] = "running" => Told(finalizing[s])
  /\ \A i \in Supervisors : \A n \in DOMAIN mail[i] :
       mail[i][n] \in {owner[i], Shutdown}

Starting(i) == doing = Spawning(owner[i], i)

\* Root never loses sight of a supervisor that is up: it is active, finalizing
\* or being started.  So while root says there is no session (State::Inactive),
\* nothing is recorded, as the tray and the window show.
NoOrphan ==
  \A i \in Supervisors :
    Alive(i) => active = i \/ finalizing[owner[i]] = i \/ Starting(i)

\* When a session is announced as ended its audio has been saved: no
\* supervisor of it is up, save one that is being started.
EndedIsSaved ==
  \A i \in Supervisors :
    Alive(i) /\ ~Starting(i) => said[owner[i]] # "inactive"

\* "`Stopped` when the session supervisor winds down -- including after an
\* abnormal supervisor exit": a session that was announced and not yet ended
\* has a supervisor that is up, or whose exit root has still to handle.
EndIsAnnounced ==
  \A s \in Sessions :
    said[s] \in Announced \cup {"finalizing"} =>
      \E i \in Supervisors :
        /\ owner[i] = s
        /\ Alive(i) \/ \E n \in DOMAIN exits : exits[n] = i

\* "canStartLiveSession allows new sessions while another session is
\* finalizing": where nothing fails by itself, a session root has begun to
\* start becomes the active one.
StartsWhileFinalizing ==
  [][doing.op = "spawn" /\ doing' = Idle => active' = doing.sup]_vars

\* A session that is finalizing stops finalizing, whatever else is requested.
FinalizingCompletes ==
  \A s \in Sessions : finalizing[s] # NoSup ~> finalizing[s] = NoSup
===============================================================================
