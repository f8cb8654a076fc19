---------------------------- MODULE ModelManager ----------------------------
(***************************************************************************)
(* The model manager of crates/model-manager: the speech models a local    *)
(* transcription server may load, the one that is loaded, and the monitor  *)
(* task that unloads it after a while without use.  Each caller runs one   *)
(* call of the manager at a time; a call is split where it awaits a lock   *)
(* or the loading thread.  The two mutexes (active, last_activity) and the *)
(* writer's side of the registry's lock are variables holding the task     *)
(* that owns them.                                                         *)
(***************************************************************************)
EXTENDS Naturals

CONSTANTS Callers,   \* the requests that call the manager
          Names,     \* the models' names
          NoName,    \* no model
          Free,      \* the owner of a lock nobody holds
          Monitor,   \* the monitor task
          Timeout,   \* inactivity_timeout, in ticks of the clock
          Never      \* last_activity before the first use

ASSUME ConstantsAssumption ==
    /\ Timeout \in Nat
    /\ Never \notin Nat
    /\ NoName \notin Names
    /\ Free \notin Callers \cup {Monitor}
    /\ Monitor \notin Callers

VARIABLES
    registry,      \* the names that are registered
    default,       \* default_model
    active,        \* the name of the loaded model
    sinceUse,      \* last_activity: ticks since, up to Timeout + 1 (a bound)
    registryLock,  \* who holds registry for writing
    activeLock,    \* who holds active
    activityLock,  \* who holds last_activity
    pc,            \* where each caller is
    wanted,        \* the name each caller's call is about
    monitor        \* where the monitor is

vars == <<registry, default, active, sinceUse, registryLock, activeLock,
          activityLock, pc, wanted, monitor>>

locks == <<registryLock, activeLock, activityLock>>

Places == {"idle", "lookup", "queued", "locking", "loading", "removing"}
Ages == 0 .. Timeout + 1 \cup {Never}

Init ==
    /\ registry \in SUBSET Names
    /\ default \in Names \cup {NoName}
    /\ active = NoName
    /\ sinceUse = Never
    /\ registryLock = Free /\ activeLock = Free /\ activityLock = Free
    /\ pc = [c \in Callers |-> "idle"]
    /\ wanted = [c \in Callers |-> NoName]
    /\ monitor = "sleeping"

IdleTooLong == sinceUse # Never /\ sinceUse > Timeout

----------------------------------------------------------------------------
(* Registration.                                                            *)

Register(n) ==
    /\ registryLock = Free
    /\ registry' = registry \cup {n}
    /\ UNCHANGED <<default, active, sinceUse, locks, pc, wanted, monitor>>

SetDefault(n) ==
    /\ default' = n
    /\ UNCHANGED <<registry, active, sinceUse, locks, pc, wanted, monitor>>

\* unregister keeps the registry locked while it waits for active.
Unregister(c, n) ==
    /\ pc[c] = "idle" /\ registryLock = Free
    /\ registryLock' = c
    /\ registry' = registry \ {n}
    /\ pc' = [pc EXCEPT ![c] = "removing"]
    /\ wanted' = [wanted EXCEPT ![c] = n]
    /\ UNCHANGED <<default, active, sinceUse, activeLock, activityLock, monitor>>

UnloadRemoved(c) ==
    /\ pc[c] = "removing" /\ activeLock = Free
    /\ active' = IF active = wanted[c] THEN NoName ELSE active
    /\ registryLock' = Free
    /\ pc' = [pc EXCEPT ![c] = "idle"]
    /\ UNCHANGED <<registry, default, sinceUse, activeLock, activityLock, wanted,
                   monitor>>

----------------------------------------------------------------------------
(* get: resolve the name, look it up, lock active, lock last_activity, and  *)
(* load while both are held.                                                *)

\* A call without a name asks for the default; with none set it fails at once.
Get(c) ==
    /\ pc[c] = "idle"
    /\ \E n \in Names \cup {default} :
          n # NoName /\ wanted' = [wanted EXCEPT ![c] = n]
    /\ pc' = [pc EXCEPT ![c] = "lookup"]
    /\ UNCHANGED <<registry, default, active, sinceUse, locks, monitor>>

\* The name is not registered, or its file does not exist (exists), and the
\* call fails.
Lookup(c, exists) ==
    /\ pc[c] = "lookup" /\ registryLock = Free
    /\ pc' = [pc EXCEPT ![c] = IF wanted[c] \in registry /\ exists
                               THEN "queued" ELSE "idle"]
    /\ UNCHANGED <<registry, default, active, sinceUse, locks, wanted, monitor>>

LockActive(c) ==
    /\ pc[c] = "queued" /\ activeLock = Free
    /\ activeLock' = c
    /\ pc' = [pc EXCEPT ![c] = "locking"]
    /\ UNCHANGED <<registry, default, active, sinceUse, registryLock,
                   activityLock, wanted, monitor>>

\* The model in the slot answers the call when it has not idled too long and
\* is the one that is wanted.
Serves(n) == active = n /\ ~IdleTooLong

\* Mutant of LockActivity: the old model stays in its slot while the new one loads.
LoadsBesideTheOld(c) ==
    /\ pc[c] = "locking" /\ activityLock = Free
    /\ sinceUse' = 0
    /\ IF Serves(wanted[c])
       THEN /\ pc' = [pc EXCEPT ![c] = "idle"]
            /\ activeLock' = Free
            /\ UNCHANGED <<active, activityLock>>
       ELSE /\ pc' = [pc EXCEPT ![c] = "loading"]
            /\ activityLock' = c
            /\ UNCHANGED <<active, activeLock>>
    /\ UNCHANGED <<registry, default, registryLock, wanted, monitor>>

LockActivity(c) ==
    /\ pc[c] = "locking" /\ activityLock = Free
    /\ sinceUse' = 0
    /\ IF Serves(wanted[c])
       THEN /\ pc' = [pc EXCEPT ![c] = "idle"]
            /\ activeLock' = Free
            /\ UNCHANGED <<active, activityLock>>
       ELSE /\ pc' = [pc EXCEPT ![c] = "loading"]
            /\ active' = NoName
            /\ activityLock' = c
            /\ UNCHANGED activeLock
    /\ UNCHANGED <<registry, default, registryLock, wanted, monitor>>

\* The loading thread is done: the model goes into the slot, or it failed.
Loaded(c, ok) ==
    /\ pc[c] = "loading"
    /\ active' = IF ok THEN wanted[c] ELSE active
    /\ activeLock' = Free /\ activityLock' = Free
    /\ pc' = [pc EXCEPT ![c] = "idle"]
    /\ UNCHANGED <<registry, default, sinceUse, registryLock, wanted, monitor>>

\* A caller that is cancelled at an await drops its guards.
Cancel(c) ==
    /\ pc[c] # "idle"
    /\ pc' = [pc EXCEPT ![c] = "idle"]
    /\ registryLock' = IF registryLock = c THEN Free ELSE registryLock
    /\ activeLock' = IF activeLock = c THEN Free ELSE activeLock
    /\ activityLock' = IF activityLock = c THEN Free ELSE activityLock
    /\ UNCHANGED <<registry, default, active, sinceUse, wanted, monitor>>

KeepAlive ==
    /\ activityLock = Free
    /\ sinceUse' = 0
    /\ UNCHANGED <<registry, default, active, locks, pc, wanted, monitor>>

----------------------------------------------------------------------------
(* The monitor: at a tick of its interval it locks last_activity and, if    *)
(* that is too long ago, locks active as well and unloads the model.        *)

MonitorTick ==
    /\ monitor = "sleeping"
    /\ monitor' = "ticked"
    /\ UNCHANGED <<registry, default, active, sinceUse, locks, pc, wanted>>

\* Mutant of MonitorLooks: the monitor lets go of last_activity before it waits for active.
LooksAndLetsGo ==
    /\ monitor = "ticked" /\ activityLock = Free
    /\ monitor' = IF IdleTooLong THEN "evicting" ELSE "sleeping"
    /\ UNCHANGED <<registry, default, active, sinceUse, registryLock,
                   activeLock, activityLock, pc, wanted>>

MonitorLooks ==
    /\ monitor = "ticked" /\ activityLock = Free
    /\ IF IdleTooLong
       THEN monitor' = "evicting" /\ activityLock' = Monitor
       ELSE monitor' = "sleeping" /\ UNCHANGED activityLock
    /\ UNCHANGED <<registry, default, active, sinceUse, registryLock,
                   activeLock, pc, wanted>>

MonitorEvicts ==
    /\ monitor = "evicting" /\ activeLock = Free
    /\ active' = NoName
    /\ activityLock' = Free
    /\ monitor' = "sleeping"
    /\ UNCHANGED <<registry, default, sinceUse, registryLock, activeLock, pc,
                   wanted>>

Tick ==
    /\ sinceUse # Never /\ sinceUse <= Timeout
    /\ sinceUse' = sinceUse + 1
    /\ UNCHANGED <<registry, default, active, locks, pc, wanted, monitor>>

----------------------------------------------------------------------------
Next ==
    \/ \E n \in Names : Register(n) \/ SetDefault(n)
    \/ \E c \in Callers, n \in Names : Unregister(c, n)
    \/ \E c \in Callers : \/ UnloadRemoved(c) \/ Get(c) \/ LockActive(c)
                          \/ LockActivity(c) \/ Cancel(c)
    \/ \E c \in Callers, ok \in BOOLEAN : Lookup(c, ok) \/ Loaded(c, ok)
    \/ KeepAlive
    \/ MonitorTick \/ MonitorLooks \/ MonitorEvicts
    \/ Tick

Spec == Init /\ [][Next]_vars

\* tokio's mutexes are handed out in the order they are asked for, so a task
\* cannot be passed over for ever; a load ends.  Nobody has to cancel.
Fairness ==
    /\ \A c \in Callers :
          /\ SF_vars(UnloadRemoved(c))
          /\ SF_vars(\E exists \in BOOLEAN : Lookup(c, exists))
          /\ SF_vars(LockActive(c))
          /\ SF_vars(LockActivity(c))
          /\ WF_vars(\E ok \in BOOLEAN : Loaded(c, ok))
    /\ SF_vars(MonitorLooks) /\ SF_vars(MonitorEvicts)

FairSpec == Spec /\ Fairness

----------------------------------------------------------------------------
(* Every variable has its type (manager.rs 8-20). *)
TypeOK ==
    /\ registry \in SUBSET Names
    /\ default \in Names \cup {NoName}
    /\ active \in Names \cup {NoName}
    /\ sinceUse \in Ages
    /\ registryLock \in Callers \cup {Free}
    /\ activeLock \in Callers \cup {Free}
    /\ activityLock \in Callers \cup {Free, Monitor}
    /\ pc \in [Callers -> Places]
    /\ wanted \in [Callers -> Names \cup {NoName}]
    /\ monitor \in {"sleeping", "ticked", "evicting"}

(* A model that was used no longer than the timeout ago leaves its slot only *)
(* because a call asked for another model or unregistered this one: the      *)
(* monitor's decision to evict cannot go stale, because it keeps             *)
(* last_activity locked until the model is gone (manager.rs 150-155).        *)
OnlyIdleEvicted ==
    [][(active # NoName /\ active' # active)
          => \/ IdleTooLong
             \/ \E c \in Callers : pc[c] = "locking" /\ wanted[c] # active
             \/ \E c \in Callers : pc[c] = "removing" /\ wanted[c] = active]_vars

(* One model is in memory for the manager: while a call loads one, the slot  *)
(* is empty, and no other call loads (manager.rs 94-120).                    *)
OneModelAtATime ==
    \A c \in Callers : pc[c] = "loading" =>
        /\ active = NoName
        /\ \A d \in Callers : pc[d] = "loading" => d = c

(* Every call that is waiting ends: the tests of the crate await a get after *)
(* the timeout and unwrap its answer (lib.rs 62-69, 126-131).                *)
GetAnswered ==
    \A c \in Callers : pc[c] \in {"queued", "locking"} ~> pc[c] = "idle"

=============================================================================
