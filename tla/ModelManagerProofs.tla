-------------------------- MODULE ModelManagerProofs --------------------------
(* Theorems about ModelManager, for every set of callers and of models and    *)
(* every timeout.                                                             *)
EXTENDS ModelManager, TLAPS

\* Who is where holds which lock.
LocksOK ==
    /\ \A c \in Callers :
          /\ pc[c] \in {"locking", "loading"} <=> activeLock = c
          /\ pc[c] = "loading" <=> activityLock = c
          /\ pc[c] = "removing" <=> registryLock = c
    /\ monitor = "evicting" <=> activityLock = Monitor

\* What the monitor saw is still so when it evicts, and a call that loads does
\* it beside an empty slot.
ManagerInv ==
    /\ TypeOK
    /\ LocksOK
    /\ monitor = "evicting" => IdleTooLong
    /\ \A c \in Callers : pc[c] = "loading" => active = NoName

\* At first every lock is free and the slot is empty.
LEMMA ManagerInit == Init => ManagerInv
BY ConstantsAssumption
   DEF Init, ManagerInv, TypeOK, LocksOK, IdleTooLong, Places, Ages

\* Every await point of every call, and of the monitor, keeps the invariant.
LEMMA ManagerStep == ManagerInv /\ [Next]_vars => ManagerInv'
<1> SUFFICES ASSUME ManagerInv, [Next]_vars PROVE ManagerInv'
  OBVIOUS
<1> USE ConstantsAssumption
        DEF ManagerInv, TypeOK, LocksOK, IdleTooLong, Places, Ages, locks
<1>1. ASSUME NEW n \in Names, Register(n) \/ SetDefault(n) PROVE ManagerInv'
  BY <1>1 DEF Register, SetDefault
<1>2. ASSUME NEW c \in Callers, NEW n \in Names, Unregister(c, n)
      PROVE  ManagerInv'
  BY <1>2 DEF Unregister
<1>3. ASSUME NEW c \in Callers, UnloadRemoved(c) PROVE ManagerInv'
  BY <1>3 DEF UnloadRemoved
<1>4. ASSUME NEW c \in Callers, Get(c) PROVE ManagerInv'
  BY <1>4 DEF Get
<1>5. ASSUME NEW c \in Callers, NEW ok \in BOOLEAN, Lookup(c, ok)
      PROVE  ManagerInv'
  BY <1>5 DEF Lookup
<1>6. ASSUME NEW c \in Callers, LockActive(c) PROVE ManagerInv'
  BY <1>6 DEF LockActive
<1>7. ASSUME NEW c \in Callers, LockActivity(c) PROVE ManagerInv'
  <2>1. CASE Serves(wanted[c])
    BY <1>7, <2>1 DEF LockActivity
  <2>2. CASE ~Serves(wanted[c])
    BY <1>7, <2>2 DEF LockActivity
  <2>3. QED
    BY <2>1, <2>2
<1>8. ASSUME NEW c \in Callers, NEW ok \in BOOLEAN, Loaded(c, ok)
      PROVE  ManagerInv'
  BY <1>8 DEF Loaded
<1>9. ASSUME NEW c \in Callers, Cancel(c) PROVE ManagerInv'
  BY <1>9 DEF Cancel
<1>10. CASE KeepAlive
  BY <1>10 DEF KeepAlive
<1>11. CASE MonitorTick
  BY <1>11 DEF MonitorTick
<1>12. CASE MonitorLooks
  BY <1>12 DEF MonitorLooks
<1>13. CASE MonitorEvicts
  BY <1>13 DEF MonitorEvicts
<1>14. CASE Tick
  BY <1>14 DEF Tick
<1>15. CASE UNCHANGED vars
  BY <1>15 DEF vars
<1>16. QED
  BY <1>1, <1>2, <1>3, <1>4, <1>5, <1>6, <1>7, <1>8, <1>9, <1>10, <1>11, <1>12,
     <1>13, <1>14, <1>15 DEF Next

\* The lock discipline holds for ever: a task is where its locks say it is.
THEOREM ManagerInvAlways == Spec => []ManagerInv
BY ManagerInit, ManagerStep, PTL DEF Spec

\* Two calls never load at once, and never beside a loaded model
\* (manager.rs 94-120).
THEOREM OneModelAlways == Spec => []OneModelAtATime
<1>1. ManagerInv => OneModelAtATime
  BY DEF ManagerInv, LocksOK, OneModelAtATime
<1>2. QED
  BY <1>1, ManagerInvAlways, PTL

\* What a step may do to the loaded model; the body of OnlyIdleEvicted.
MayUnload ==
    (active # NoName /\ active' # active)
      => \/ IdleTooLong
         \/ \E c \in Callers : pc[c] = "locking" /\ wanted[c] # active
         \/ \E c \in Callers : pc[c] = "removing" /\ wanted[c] = active

\* Only an eviction, a replacement and an unregister empty the slot.
LEMMA UnloadStep == ManagerInv /\ [Next]_vars => [MayUnload]_vars
<1> SUFFICES ASSUME ManagerInv, Next, active # NoName, active' # active
    PROVE  \/ IdleTooLong
           \/ \E c \in Callers : pc[c] = "locking" /\ wanted[c] # active
           \/ \E c \in Callers : pc[c] = "removing" /\ wanted[c] = active
  BY DEF MayUnload
<1>1. ASSUME NEW c \in Callers, UnloadRemoved(c)
      PROVE  pc[c] = "removing" /\ wanted[c] = active
  BY <1>1 DEF UnloadRemoved
<1>2. ASSUME NEW c \in Callers, LockActivity(c)
      PROVE  IdleTooLong \/ (pc[c] = "locking" /\ wanted[c] # active)
  BY <1>2 DEF LockActivity, Serves
<1>3. ASSUME NEW c \in Callers, NEW ok \in BOOLEAN, Loaded(c, ok) PROVE FALSE
  BY <1>3 DEF Loaded, ManagerInv
<1>4. MonitorEvicts => IdleTooLong
  BY DEF MonitorEvicts, ManagerInv
<1>5. \/ \E c \in Callers : UnloadRemoved(c) \/ LockActivity(c)
      \/ \E c \in Callers, ok \in BOOLEAN : Loaded(c, ok)
      \/ MonitorEvicts
  BY DEF Next, Register, SetDefault, Unregister, Get, LockActive, Cancel, Lookup,
         KeepAlive, MonitorTick, MonitorLooks, Tick
<1>6. QED
  BY <1>1, <1>2, <1>3, <1>4, <1>5

\* The monitor never unloads a model that was used within the timeout, however
\* its steps and the calls interleave (manager.rs 150-155).
THEOREM OnlyIdleEvictedAlways == Spec => OnlyIdleEvicted
<1>1. ManagerInv /\ [Next]_vars => [MayUnload]_vars
  BY UnloadStep
<1>2. QED
  BY <1>1, ManagerInvAlways, PTL DEF Spec, OnlyIdleEvicted, MayUnload
===============================================================================
