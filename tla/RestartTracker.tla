---------------------------- MODULE RestartTracker ----------------------------
(***************************************************************************)
(* crates/supervisor/src/restart.rs: the restart budget a supervisor keeps *)
(* for one child.  A tracker counts restarts inside a window that starts   *)
(* at window_start; here the window is measured by its age, the time       *)
(* elapsed since window_start, in ticks of a discrete clock.               *)
(***************************************************************************)
EXTENDS Naturals

CONSTANTS MaxRestarts,   \* RestartBudget.max_restarts
          Window,        \* RestartBudget.max_window, in ticks
          ResetAfter     \* RestartBudget.reset_after, in ticks

ASSUME BudgetAssumption == /\ MaxRestarts \in Nat
                           /\ Window \in Nat
                           /\ ResetAfter \in Nat

Tracker == [count : Nat, age : Nat]

NewTracker == [count |-> 0, age |-> 0]

\* A new window starts once the old one is over.
Rewound(t) == IF t.age > Window THEN NewTracker ELSE t

\* record_restart: counts the restart, in a new window if the old one is over.
RecordRestart(t) == [Rewound(t) EXCEPT !.count = @ + 1]

\* The result of record_restart, read from the tracker it leaves behind.
WithinBudget(t) == t.count <= MaxRestarts

\* maybe_reset: a tracker that was quiet for long enough starts afresh.
MaybeReset(t) == IF t.age > ResetAfter THEN NewTracker ELSE t

\* One tick of the clock.  Ages beyond both thresholds are indistinguishable.
Elapse(t) == IF t.age > Window /\ t.age > ResetAfter
             THEN t
             ELSE [t EXCEPT !.age = @ + 1]
===============================================================================
