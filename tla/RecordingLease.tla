----------------------------- MODULE RecordingLease -----------------------------
(***************************************************************************)
(* crates/vault-write/src/locations.rs and content.rs: the leases that     *)
(* keep a session's directory where it is while a recorder holds absolute  *)
(* paths into it, and what goes on around them: the starts of a recording  *)
(* (general-live.ts, start_capture), the capture events and the worker     *)
(* that stamps _meta.json from them (recording_meta.rs), the first title   *)
(* that renames the directory, the user's rename and the move of a vault.  *)
(*                                                                         *)
(* One session, since the leases of two have nothing in common.  The store *)
(* has one write lock, and an operation that awaits while it holds it is   *)
(* split there: note_recording_active and the recorder do not take it.     *)
(***************************************************************************)
EXTENDS Integers, Sequences, FiniteSets

CONSTANTS Starts,    \* attempts to start a recording of the session
          NoStart,   \* no recording
          Titles,    \* titles, each with the directory name made of it
          NoTitle,   \* the empty title
          MaxStamps, \* bound: no start while this many stamps are waiting
          Faults,    \* whether reservations, hooks, starts and renames may fail
          Overlaps   \* whether a start may be under way when a recording ends

Untitled == "Untitled"   \* the provisional name of the directory

ASSUME NoneAssumption == NoStart \notin Starts /\ NoTitle \notin Titles
ASSUME UntitledAssumption == Untitled \notin Titles
ASSUME BoundAssumption == MaxStamps \in Nat
ASSUME FlagsAssumption == Faults \in BOOLEAN /\ Overlaps \in BOOLEAN

VARIABLES leases, \* active_recordings of the session; 0 when it has no entry
          lock,   \* what holds the write lock between two steps
          dir,    \* the name of the directory
          title,  \* the title in _meta.json
          failed, \* whether the last rename failed, which is only logged
          step,   \* where each start is
          held,   \* the leases a start thinks it holds: page's, command's
          path,   \* the directory the page was told
          take,   \* where the recording is
          by,     \* the start it comes from
          recDir, \* the directory its recorder has open
          stamps  \* capture events the worker has not applied yet

startVars == <<step, held, path>>
takeVars  == <<take, by, recDir>>
nameVars  == <<dir, title, failed>>
vars      == <<leases, lock, nameVars, startVars, takeVars, stamps>>

Names == Titles \cup {Untitled}

Init ==
  /\ leases = 0 /\ lock = "free"
  /\ dir = Untitled /\ title = NoTitle /\ failed = FALSE
  /\ step = [s \in Starts |-> "idle"]
  /\ held = [s \in Starts |-> {}]
  /\ path = [s \in Starts |-> Untitled]
  /\ take = "none" /\ by = NoStart /\ recDir = Untitled
  /\ stamps = <<>>

-------------------------------------------------------------------------------
(* The leases *)

\* Mutants: reservations are not counted; a release drops every lease.
ReservedOnce(n) == IF n = 0 THEN 1 ELSE n
ReleasedAll(n)  == 0

Reserved(n) == n + 1
Released(n) == IF n > 0 THEN n - 1 ELSE 0
Noted(n)    == IF n = 0 THEN 1 ELSE n   \* entry(id).or_insert(1)

At(s, from, to) == step[s] = from /\ step' = [step EXCEPT ![s] = to]

\* prepare_recording: on success who has a lease; a start goes on without one.
Prepare(s, who) ==
  \/ /\ leases' = Reserved(leases)
     /\ held' = [held EXCEPT ![s] = @ \cup {who}]
  \/ /\ Faults
     /\ UNCHANGED <<leases, held>>

\* release_recording_prepare; the deferred rename is tried when it was the last.
Release ==
  /\ leases' = Released(leases)
  /\ lock' = IF leases = 1 THEN "check" ELSE "free"

-------------------------------------------------------------------------------
(* startLiveSession and start_capture *)

Ending == take = "closed" \/ \E n \in DOMAIN stamps : stamps[n] = "end"

\* The page reserves the directory and is told where it is.
PageReserves(s) ==
  /\ lock = "free"
  /\ Len(stamps) < MaxStamps
  /\ Overlaps \/ ~Ending
  /\ At(s, "idle", "hook")
  /\ Prepare(s, "page")
  /\ path' = [path EXCEPT ![s] = dir]
  /\ UNCHANGED <<lock, nameVars, takeVars, stamps>>

\* The BeforeListeningStarted hook, or a sibling of it, fails.
HookFails(s) ==
  /\ Faults
  /\ At(s, "hook", "failed")
  /\ UNCHANGED <<leases, lock, nameVars, held, path, takeVars, stamps>>

\* The hook is done: start_capture takes a lease of its own, then asks root.
CommandReserves(s) ==
  /\ lock = "free"
  /\ At(s, "hook", "asked")
  /\ Prepare(s, "command")
  /\ UNCHANGED <<lock, nameVars, path, takeVars, stamps>>

\* SessionAlreadyRunning, or a start that fails.
RootRefuses(s) ==
  /\ take \in {"live", "closed"} \/ (Faults /\ take # "opened")
  /\ At(s, "asked", "refused")
  /\ UNCHANGED <<leases, lock, nameVars, held, path, takeVars, stamps>>

\* pre_start of the recorder looks the directory up and opens its files.
RecorderOpens(s) ==
  /\ take = "none"
  /\ At(s, "asked", "recording")
  /\ take' = "opened" /\ by' = s /\ recDir' = dir
  /\ UNCHANGED <<leases, lock, nameVars, held, path, stamps>>

\* Another child fails to start: the recorder is stopped again.
ChildFails ==
  /\ Faults /\ take = "opened"
  /\ At(by, "recording", "refused")
  /\ take' = "none" /\ by' = NoStart
  /\ UNCHANGED <<leases, lock, nameVars, held, path, recDir, stamps>>

\* The start has failed; each side gives back the lease it was granted.
GivesBack(s, who, from, to) ==
  /\ At(s, from, to)
  /\ held' = [held EXCEPT ![s] = @ \ {who}]
  /\ \/ who \in held[s] /\ lock = "free" /\ Release
     \/ who \notin held[s] /\ UNCHANGED <<leases, lock>>
  /\ UNCHANGED <<nameVars, path, takeVars, stamps>>

CommandReleases(s) == GivesBack(s, "command", "refused", "failed")
PageReleases(s)    == GivesBack(s, "page", "failed", "idle")

-------------------------------------------------------------------------------
(* The capture events and the worker of recording_meta.rs *)

\* Started: the lease is noted at once, without the lock, and a stamp queued.
Announces ==
  /\ take = "opened" /\ take' = "live"
  /\ leases' = Noted(leases)
  /\ stamps' = Append(stamps, "start")
  /\ UNCHANGED <<lock, nameVars, startVars, by, recDir>>

\* The recorder has saved the audio and let go of its files.
RecorderCloses ==
  /\ take = "live" /\ take' = "closed"
  /\ Overlaps \/ \A s \in Starts \ {by} : step[s] = "idle"
  /\ UNCHANGED <<leases, lock, nameVars, startVars, by, recDir, stamps>>

\* Stopped.
Ends ==
  /\ take = "closed" /\ take' = "none"
  /\ by' = NoStart
  /\ At(by, "recording", "idle")
  /\ held' = [held EXCEPT ![by] = {}]
  /\ stamps' = Append(stamps, "end")
  /\ UNCHANGED <<leases, lock, nameVars, path, recDir>>

NextStamp(which) ==
  /\ lock = "free"
  /\ stamps # <<>> /\ Head(stamps) = which
  /\ stamps' = Tail(stamps)

\* mark_recording_started; the meta it writes finds the rename deferred.
StampStart ==
  /\ NextStamp("start")
  /\ leases' = Noted(leases)
  /\ UNCHANGED <<lock, nameVars, startVars, takeVars>>

\* Mutants: only one lease is released; they are cleared after the meta write.
EndReleasesOne ==
  /\ NextStamp("end")
  /\ leases' = Released(leases) /\ lock' = "check"
  /\ UNCHANGED <<nameVars, startVars, takeVars>>
EndClearsLast ==
  /\ NextStamp("end")
  /\ leases' = 0
  /\ UNCHANGED <<lock, nameVars, startVars, takeVars>>

\* mark_recording_ended clears the leases before it writes the meta.
StampEnd ==
  /\ NextStamp("end")
  /\ leases' = 0 /\ lock' = "check"
  /\ UNCHANGED <<nameVars, startVars, takeVars>>

-------------------------------------------------------------------------------
(* Names *)

\* update_meta
SetTitle ==
  /\ lock = "free" /\ lock' = "check"
  /\ \E t \in Titles \cup {NoTitle} : title' = t
  /\ UNCHANGED <<leases, dir, failed, startVars, takeVars, stamps>>

Renames == title # NoTitle /\ dir = Untitled /\ leases = 0

\* reconcile_provisional_name_locked, up to the probe for a free name.
Reconcile ==
  /\ lock = "check"
  /\ lock' = IF Renames THEN "rename" ELSE "free"
  /\ failed' = FALSE
  /\ UNCHANGED <<leases, dir, title, startVars, takeVars, stamps>>

\* rename_session_dir_to_title, up to its probe.
UserRenames ==
  /\ lock = "free" /\ leases = 0
  /\ title # NoTitle /\ dir # title
  /\ lock' = "rename"
  /\ UNCHANGED <<leases, nameVars, startVars, takeVars, stamps>>

\* rename_session_dir_locked
RenameDir ==
  /\ lock = "rename" /\ lock' = "free"
  /\ dir' = title /\ failed' = FALSE
  /\ UNCHANGED <<leases, title, startVars, takeVars, stamps>>

\* Every name is taken, or the rename fails.
RenameFails ==
  /\ Faults /\ lock = "rename" /\ lock' = "free"
  /\ failed' = TRUE
  /\ UNCHANGED <<leases, dir, title, startVars, takeVars, stamps>>

-------------------------------------------------------------------------------
(* freeze_for_vault_move *)

\* Mutant: the leases are not looked at.
FreezesAlways ==
  /\ lock = "free" /\ lock' = "move"
  /\ UNCHANGED <<leases, nameVars, startVars, takeVars, stamps>>

Freeze ==
  /\ lock = "free" /\ leases = 0 /\ lock' = "move"
  /\ UNCHANGED <<leases, nameVars, startVars, takeVars, stamps>>

\* The VaultMoveGuard is dropped.
Thaw ==
  /\ lock = "move" /\ lock' = "free"
  /\ UNCHANGED <<leases, nameVars, startVars, takeVars, stamps>>

-------------------------------------------------------------------------------
StartNext(s) ==
  \/ PageReserves(s) \/ HookFails(s) \/ CommandReserves(s)
  \/ RootRefuses(s) \/ RecorderOpens(s)
  \/ CommandReleases(s) \/ PageReleases(s)

Next ==
  \/ \E s \in Starts : StartNext(s)
  \/ ChildFails \/ Announces \/ RecorderCloses \/ Ends
  \/ StampStart \/ StampEnd
  \/ SetTitle \/ Reconcile \/ UserRenames \/ RenameDir \/ RenameFails
  \/ Freeze \/ Thaw

Spec == Init /\ [][Next]_vars

-------------------------------------------------------------------------------
Steps == {"idle", "hook", "asked", "recording", "refused", "failed"}

TypeOK ==
  /\ leases \in Nat
  /\ lock \in {"free", "check", "rename", "move"}
  /\ dir \in Names /\ title \in Titles \cup {NoTitle}
  /\ failed \in BOOLEAN
  /\ step \in [Starts -> Steps]
  /\ held \in [Starts -> SUBSET {"page", "command"}]
  /\ path \in [Starts -> Names]
  /\ take \in {"none", "opened", "live", "closed"}
  /\ by \in Starts \cup {NoStart}
  /\ recDir \in Names
  /\ stamps \in Seq({"start", "end"})

\* The recorder has files open in the directory, under a lease.
Protected == take \in {"opened", "live"} /\ held[by] # {}

\* "Renaming mid-recording is unsafe": the directory a recorder has open keeps
\* its name until the audio is saved, whatever is titled, renamed, started a
\* second time or given back meanwhile.
RecorderDirStays == Protected => recDir = dir

\* The path the pre-start hook is given is one that no rename moves: "the
\* returned path cannot be renamed away by a first-title reconcile between now
\* and recorder open (the pre-start hook and the recorder both use it)".
HookDirStays ==
  \A s \in Starts : step[s] = "hook" /\ "page" \in held[s] => path[s] = dir

\* Nothing is recorded into a vault that is being moved, and no hook is at work
\* in it.
NoMoveWhileRecording ==
  lock = "move" =>
    /\ ~Protected
    /\ \A s \in Starts : step[s] = "hook" => "page" \notin held[s]

\* Once every start has ended or failed, and every stamp is applied, no lease
\* is left: one too many would put off the rename for ever.
NoLeakedLease ==
  /\ \A s \in Starts : step[s] = "idle"
  /\ take = "none" /\ stamps = <<>> /\ lock = "free"
  => leases = 0

\* A rename that was put off is not forgotten: a session with a title and
\* without a lease has a directory that is named after a title, or the rename
\* was tried since and failed.
RenameNotForgotten ==
  lock \in {"free", "move"} /\ leases = 0 =>
    title = NoTitle \/ dir # Untitled \/ failed
===============================================================================
