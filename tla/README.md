# Verification of the recording path and the session store

This directory holds TLA+ models of the parts of this repository that must not
go wrong while a meeting is recorded, transcribed and kept: the actors of
`crates/listener-core` that capture, transcribe and save a session, with the
restart budget they use (`crates/supervisor`) and the files they leave
(`crates/mp3`); the store of the sessions (`crates/vault-write`) with its leases,
its transcript buffer and its index; batch transcription
(`crates/listener2-core`, its plugin and the page that follows it); and the model
downloader and the model manager of the local transcription servers. All paths below are relative to the repository.

## The system

A desktop application (Tauri: Rust core, TypeScript window), a command line
tool, about 140 Rust crates and 29 plugins. One meeting is one *session*, a
directory of the *vault* with notes, transcript and audio. What keeps state and
runs concurrently:

| part | state | operations | interacts with |
| --- | --- | --- | --- |
| root actor, `listener-core/src/actors/root.rs` | active session and supervisor, table of finalizing sessions | start, update, stop, snapshot; exits of supervisors | called by the plugin; spawns, links and casts to supervisors; emits lifecycle events |
| session supervisor, `actors/session/supervisor.rs`, `supervisor/{children,mode}.rs` | cells of the three children, transcription mode, retry timer, restart trackers | exits of children, retry, update, shutdown | spawns, stops and restarts source, listener, recorder |
| source actor, `actors/source/` | routing, recorder, backlog, replay history | frames, routing, refresh, failures of the stream | audio device; casts audio to listener and recorder |
| listener actor, `actors/listener/` | websocket task, offsets | audio in, transcript out, finalize | transcription server |
| recorder actor, `actors/recorder/` | WAV writer | append, flush; on stop encode to MP3 | the session's directory |
| restart budget, `supervisor/src/restart.rs` | count and start of a window | record, reset | session supervisor |
| plugin runtime, `plugins/transcription/src/listener/` | cache of session modes | tray tasks, events to the window | root, tray, window |
| recording leases, `vault-write/src/locations.rs`, `desktop/src-tauri/src/recording_meta.rs` | leases per session, the store's write lock, stamps to apply | prepare, release, note, stamp, rename, freeze | starts of the window and the plugin, lifecycle events, directory renames |
| model manager, `model-manager/src/manager.rs` | registry, default, loaded model, last use | get, keep alive, register, unregister, monitor | transcription services |
| transcript buffer, `vault-write/src/transcript.rs` | words of a session not on disk yet, a dirty mark | append, debounced and explicit flush, batch write, relabel | write lock, `transcript.json`, vault moves |
| session store, `vault-write/src/{content,locations,index,rebuild}.rs` | catalog of directories, index, undo records | create, title, note, delete, undo, lookup, refresh, rescan | the vault's files, the watcher, other programs |
| model downloader, `model-downloader/src/` | download per model, generations | download, cancel, delete | file system, window |
| batch transcription, `listener2-core`, `plugins/transcription/src/listener2/`, `store/zustand/listener/general-batch.ts` | registry of runs, state of each run, the page's listener | start, stop, idle timeout, finish | transcription servers, window |
| window store, `desktop/src/store/zustand/listener/` | the window's idea of the capture | event handlers | lifecycle events |

`PROJECT.json` lists these and the parts that are not modelled, each with the
reason, and the hazards with their lines.

What is hard here: the supervisor and the root are actors, so each handles one
message at a time, but everything they talk to goes on meanwhile. Exits arrive
for children that were replaced already; casts are lost with the actor they
were sent to; a timed-out request is answered later; a timer fires after the
reason for it has gone; the process dies between two file operations.

For each part, what makes it correct:

- root: never two supervisors on one session, never two sessions recording,
  nothing recording that the root does not know of, announcements that match.
- supervisor: audio goes where the mode says; exactly one retry; no child leaks
  or dies unnoticed; the budget holds; a requested stop completes.
- recorder: whatever is interrupted, no flushed audio is lost or repeated.
- model manager: one model at a time, no eviction of a model in use, no call
  waits for ever.
- leases: a directory is never renamed under a recorder or a hook, no lease is
  left over, no deferred rename is forgotten.
- transcript buffer: an accepted word is in the file, on its way there, or in a
  buffer somebody will flush; what a batch run superseded does not come back.
- session store: a session that nobody deleted stays; once all is quiet, index
  and catalog say what the files say.
- downloader: one task at a time works on a model, nothing is left over, what is
  told complete is whole, every request ends.
- batch transcription: the page acts on the events of the run it waits for only;
  the registry knows the run that goes on; every run the page starts is settled.

## Modules

| module | code | kind |
| --- | --- | --- |
| `RestartTracker` | `supervisor/src/restart.rs` | operators |
| `SessionSupervisor` | `session/supervisor.rs`, `children.rs`, `mode.rs`; the source's routing and recorder handlers | state machine, extends `RestartTracker` |
| `SessionSupervisorProofs` | | theorems about the supervisor, and about `RecorderDisk` |
| `RecorderDisk` | `recorder/disk.rs`, `recorder/mod.rs`, `mp3/src/wav.rs` | state machine, every file operation a step |
| `ListenerRoot` | `root.rs`, `session/lifecycle.rs`; the supervisors as phases | state machine |
| `ListenerRootProofs` | | theorems |
| `ModelManager` | `model-manager/src/manager.rs` | state machine, every await a step |
| `ModelManagerProofs` | | theorems |
| `RecordingLease` | `vault-write/src/{locations,content,lib}.rs`, `recording_meta.rs`, `start_capture`, `startLiveSession` | state machine of one session |
| `RecordingLeaseProofs` | | theorems |
| `LiveTranscriptBuffer` | `vault-write/src/transcript.rs`, `freeze_for_vault_move`, the caller in `useStartListening.ts` | state machine of one session |
| `LiveTranscriptBufferProofs` | | theorems |
| `VaultIndex` | `vault-write/src/{content,locations,index,rebuild,lib}.rs`, `vault_watch.rs` | state machine: files, catalog, index |
| `VaultIndexProofs` | | theorems |
| `DownloadSlot` | `downloads_registry.rs` | abstract specification |
| `ModelDownloader` | `model-downloader/src/`, `local-model`, `file`, `am` | state machine, implements `DownloadSlot` |
| `ModelDownloaderProofs` | | theorems, the refinement among them |
| `BatchTranscription` | `plugins/transcription/src/listener2/ext.rs`, `listener2-core/src/batch/`, `general-batch.ts`, `general.ts` | state machine, page and plugin composed |
| `BatchTranscriptionProofs` | | theorems |
| `MC...` | | constants for TLC |

`Mutant:` marks an operator that is not part of a specification: it is a
plausible bug in the definition that follows it, kept to show that a property
would notice.

### SessionSupervisor

A handler of the supervisor is one action: only the supervisor's own task
touches its state, and what the handler awaits (spawning a child, stopping one,
asking the source) has its possible outcomes inside the action, failures and
timeouts included. Concurrent with it: children that fail or obey a stop, the
source that handles its mailbox, the retry timer, requests of the root, the
clock.

- Children have increasing ids (`nextId`), so a late exit names a child no cell
  holds any more; `actors.exits` is the supervision port. Supervision events
  are handled before messages, and a stop before both, as ractor does it.
- `routeQ` and `recQ` are the source's mailbox, split by what a message
  changes: the routing and the recorder are independent, and order is kept
  within each. They are dropped when a source is replaced.
- `timers` counts armed retry timers and RetryListener messages alike: between
  firing and handling nothing distinguishes them.
- `asked` is a Shutdown waiting behind `inbox`.
- A restart tracker has the age of its window in ticks; both thresholds are
  compared with `>`, as the code does.
- Error texts are reduced to the outcomes the code tells apart (`auth` is not
  retried, `stream` is).

The initial state is a supervisor whose `pre_start` is done, and the last
lifecycle event is the root's Active; `ListenerRoot` has the other order too.

### RecorderDisk

A file is the number of pieces of audio in it. Each operation of
`create_disk_sink` and `finalize_disk_sink` is a step; before or in the middle
of each, the process may be killed or the operation fail, and `Leftovers` says
what that may leave. Power loss, after which an operating system may lose what
was written, is not modelled, so `sync_file` and `sync_dir` do not appear.
`TornEncode` says whether writing the MP3 may be cut short: the code writes it
in place, so TRUE is the code, and FALSE is the idealisation under which the
rest is shown correct.

### ListenerRoot

Handlers are split where the root has taken a message but not yet looked at its
state, and where `StartSession` awaits the supervisor's `pre_start`; the rest of
a handler is one step. Supervisors have a phase: their `pre_start`, running,
stopping the source and the listener, saving the recorder's audio, stopped. The
child actors' names are global: a start fails while another supervisor's
children hold them, and while a supervisor is saving the name may or may not be
free. The supervisor's own name contains the session id; it cannot collide,
because of `OneSupervisorPerSession`. A supervisor that stops notifies the root
and becomes stopped in one step. `Faults` says whether sessions may fail by
themselves; the two violation runs switch it off to show that they need no
failure. A recorder that outlives `CHILD_STOP_TIMEOUT` is not in this module.

### ModelManager

The two mutexes and the registry's write lock are variables with their owner;
a call is split at every await, may be cancelled at each, and the monitor is a
task of its own. Time since the last use stops growing just above the timeout.

### RecordingLease

One session: the leases of two have nothing in common, and the write lock they
share only delays. A start goes through the window (`startLiveSession`: reserve,
hook), the plugin (`start_capture`: reserve again, ask the root) and the
recorder, which looks the directory up when it opens its files; a start that is
refused or fails gives its leases back one by one. The root is reduced to what a
start can tell: it refuses while a recording is opened, live or finalizing.
`lock` is what holds the store's write lock between two steps: a name being
checked, a rename under way, a vault being moved. `note_recording_active` and
the recorder do not take it. Started and Stopped note and queue at once, as
listeners run inside `emit`; the stamps are applied later, in order. A title has
one directory name; the suffixes that avoid collisions are left out. `failed` is
history: the code logs a rename that failed and tries it again with the next title
or release.

`Faults` lets reservations, hooks, starts and renames fail; the properties then
speak of the starts that did get a lease, since the code records without one.
`Overlaps` says whether a start may be under way while an earlier recording ends
and until its stamp is applied. The window refuses to start a session it shows
as finalizing, but not one whose Stopped event has arrived and whose stamp is
waiting, so TRUE is the code.

### LiveTranscriptBuffer

A flush is three steps: it copies the buffer and clears the dirty mark under the
live lock (`TakeCopy`), waits for the write lock (`Acquire`) and merges its copy
into `transcript.json` (`Land`, `Fail`). Appends, batch writes, relabels and
freezes come between them. A word is appended once; of an entry of the file its
words and whether it has a speaker label are kept. `older`, `stale` and `fate`
are history: which copies are older than what is on disk, and what became of a
word. `lapse` is set in the four windows the code leaves open and does not claim
to close (a copy lands after newer content of its transcript; a flush fails
whose words have left the buffer; a switch of transcripts clears a buffer that
was made dirty again; a switch that had to flush first goes on without looking
again at whose buffer it is, and its own transcript has words in flight by then);
`NothingForgotten` and `SupersededStaysOut` say that there is no other one. The
last window (`ComesBack`) takes three transcripts and four words, more than the
run has: the proof found it. `FailingOps` says which operations' file access may
fail.

### VaultIndex

The files of a session, the catalog and the index are three functions on
sessions, and a task carries what it has read. Commands of the store hold the
write lock while they touch files; the tails of `delete_session` and
`write_note`, refreshes and the content pass of a rescan do not, and are steps
of their own. A rescan is a walk, one step per session, and the prune. Another
program may damage a `_meta.json`, remove a directory or put one back at any
moment. `skew` is history: the sessions whose files were written while a reader
was at work, or from outside, and that nobody has read undisturbed since: the
code documents that the index may lag behind there (`rebuild.rs:176-178`), and
the properties except them. A session also stays there while the tail of a delete
is still to come (`Tailing`): of two deletes at once the second finds nothing to
trash, but removes the session from catalog and index when it gets there, even one
that an undo has put back (`content.rs:519`). `lapse` names the sessions that a cold
lookup catalogued by an old walk, or that a refresh or a rescan met corrupt and
uncatalogued.

### ModelDownloader and DownloadSlot

A request is a generation. Its task waits at a gate until the task it replaces
is over, then downloads, verifies, unpacks or promotes, cleans up, and leaves
the registry; each of these is a step, and the token is looked at only while
bytes come in. `DownloadSlot` is the promise: each model has one slot, the last
request holds it, a request that lost it is called off, only the holder gives it
back. `ModelDownloader` implements it with its registry as the slot and
`Fate` as a request's fate.

### BatchTranscription

The page, `start_transcription`, a run's task, its worker, its idle monitor and
the stop command are processes; each step is what one does while it holds one
lock, or one event sent. Events name a session, not a run, so `Send` delivers to
whatever run of the session the page has open: that is how a late event could
reach the next run. `overlap` is history: the runs that a stop or a timeout ended
between the check of an event and its sending.

## Runs

| run | question | bounds |
| --- | --- | --- |
| `supervisor_safety` | routing, mode, recorder, retries, children and the listener's configuration stay consistent under every failure | child ids up to 4 before faults stop, one waiting update, three configurations, one restart each |
| `supervisor_live` | a stop completes, a dead child is handled | one configuration, one restart |
| `recorder_whole` | no audio is lost or repeated | two earlier pieces, four in all |
| `root_safety` | what the root tracks, announces and runs agree; a finalizing session stops finalizing | two sessions, three supervisors, one waiting message beside the one being handled |
| `models_safety` | one model at a time, only idle models evicted | three callers, two models, timeout 2 |
| `models_lockorder` | *violation*: a get waits for ever | two callers, one model, timeout 1 |
| `lease_safety` | a directory in use is not renamed or moved, leases come to nothing, renames are not forgotten | three starts, two titles, two waiting stamps; faults; no start overlaps an end |
| `transcript_safety` | no word is left behind, none comes back, no write drops another's entry | two words, two transcripts, two debounce tasks, two commands, one failing write |
| `transcript_frozen` | *violation*: a vault is frozen without the words of a flush | one word, one transcript, one task, one command |
| `vault_safety` | a session does not vanish; index and catalog agree with the files | one session, two commands, one reader, one note, one delete, one change from outside |
| `downloader_safety` | one task per model, nothing left over, complete is whole, requests end; `DownloadSlot` is implemented | one model, three requests, two commands at once |
| `batch_safety` | runs are kept apart, the registry knows the live one, every run is settled | one session, two runs, one stop command, one progress event each |

Why the bounds are enough: two ids per kind of child are what a late exit of a
replaced child needs, and four ids let every kind be replaced once while another
fails; two sessions and three supervisors are the smallest numbers with which a
session finalizes, is restarted and meets another; the properties compare
neighbouring generations (three starts are one that records, one that is
refused next to it, and the next recording; three requests are one that works,
one that replaces it and one that replaces the replacement; two runs are one
that ends and the next). Sessions, and models of the downloader, have nothing in
common but a lock that delays, so one is enough where several tasks work on it;
two words of two transcripts are what one flush needs to undo another's, and two
commands with a reader are what it takes to come between two steps of a write.
Nothing in the code counts further except the restart budget, whose limits are
constants of the model. A bound is a guard of an action of the environment, never
of a handler.

The type invariants are not in the runs: TLC checked them while the modules were
written, and TLAPS proves them, or a stronger invariant, for every module of the runs.

`MCSessionSupervisor` gives `supervisor_safety` a VIEW that forgets the
configuration of a listener that is gone; nothing reads it again.

Most runs do not check for deadlock: a session ends, the number of supervisors is
bounded, and tasks return. `models_lockorder` shows its deadlock
as a liveness violation. The exceptions are `RecorderDisk`, `RecordingLease`,
`LiveTranscriptBuffer` and `VaultIndex`, where something can always happen and TLC
checks that.

### Fairness

- `SessionSupervisor`: the runtime schedules an actor that has a message, a
  child that was told to stop stops, a delayed message is delivered. Weak
  fairness, nothing for faults, updates, stop requests or the clock.
- `ListenerRoot`: weak fairness of the root's and of every supervisor's task.
  Nobody has to send a message.
- `ModelManager`: strong fairness of each lock acquisition, because tokio's
  mutex is handed out in the order of the requests; a load ends. Nobody cancels.
- `ModelDownloader`: weak fairness of tasks and of commands that wait. Of the
  network it is assumed that a connection goes on or breaks: the client has no
  timeout, so a server that falls silent for ever holds its task, and every
  request that replaces it (`manager.rs:109`).
- `BatchTranscription`: weak fairness of calls, tasks, the stop command and the
  idle monitor; nothing for a provider that streams, which may hang for ever (that
  is what the monitor is for); a provider that does not stream is trusted to
  return, as the code does (it gives such a run no timeout).

### What the violations show

1. `models_lockorder`: `get` locks `active` then `last_activity`, the monitor the
   other way round; a get after an idle time can wait for ever, and every later
   one with it. The crate's tests await exactly such a get.
2. `transcript_frozen`: `freeze_for_vault_move` flushes the buffers first, since
   "those words exist nowhere else" (`lib.rs:240`), but a flush that has taken
   its copy has cleared the dirty mark already and waits for the lock the freeze
   holds; its words are written into the old place once the vault was copied. A
   flush at exit (`commands.rs:66`) has the same window.

### Known disagreements that no run shows

The modules state these too, and TLC finds each violated with the constants given
here; they are not in the suite of runs, to keep it quick.

1. `RecorderDisk!WholeWavKept` (`TornEncode = TRUE`, one earlier piece, two in
   all): `encode_wav` writes `audio.mp3` in place. If that fails half way the
   recorder keeps the WAV ("Encoding to mp3 failed, keeping WAV") next to a torn
   MP3; the next start takes any MP3 that exists for the recording, decodes it,
   and deletes the whole WAV (`disk.rs:155`, `187`).
2. `ListenerRoot!StartsWhileFinalizing` (two sessions, two supervisors,
   `Faults = FALSE`): the root lets a session start while another one finalizes,
   and the window offers it (`general.test.ts:1144`), but the source and the
   recorder are registered under one name for all sessions (`children.rs:66`,
   `88`), so the start fails until the earlier recorder has encoded its audio.
3. `ListenerRoot!EndIsAnnounced` (the same): `clear_stopped_supervisors` may drop
   a finalizing session between the end of its supervisor and the handling of its
   exit (`root.rs:251`); the exit is then unknown, and no Inactive event is
   emitted, on which the window, the metadata stamps and the leases rely
   (`recording_meta.rs:5-6`).
4. `RecordingLease!HookDirStays` (`Overlaps = TRUE`, two starts, `Faults = FALSE`):
   the stamp of a Stopped event clears every lease of the session
   (`content.rs:337`), also one granted since to the next start, whose hook then
   has a path that the deferred rename moves away. It takes a worker that is
   behind and a first title given during the first recording. Where no start
   overlaps an end the guarantee holds, and is proved.
5. `VaultIndex!CorruptionIsNotDeletion` (the bounds of `vault_safety`): a rescan
   protects a session whose metadata it cannot parse if the catalog knows it
   (`rebuild.rs:108-125`); one that the index has and the catalog has lost is
   dropped, though "corruption must never look like deletion". So does a refresh:
   `read_meta` walks, finds no such session, and `refresh_one` drops it
   (`rebuild.rs:345`).

## Proofs

The theorems hold for every value of the constants that meets the named
assumptions of the modules (the constants' sets and bounds are of the right
kind, no assumption on their size).

- `SessionSupervisorProofs`. `TypeCorrect` first: the types of the helper
  operators as lemmas, then one step per action. `OneRetry`, `LiveHasListener`,
  `ToldTheMode` and `FreshBackoff` are not inductive one by one: a retry is
  counted right only because the mode is told right, and the mode only because
  a listener is there exactly in live mode. `RetryInv` is their conjunction with
  two facts about a session that has not started and one that never asked for
  live mode; two lemmas say what attaching a listener and handling its failure do,
  and every action uses one of them or changes nothing that matters.
  `RoutingAgrees` and `RecorderAgrees` are inductive with the type invariant:
  they speak of what the source will have once its mailbox is empty.
  `ListenerConfigured` is one step from `RetryInv`: only attaching a listener, an
  update that needs no new stream and a failure touch it. `ChildInv` gives
  `NoLeakedChild` and the action property `HealthyListenerKept`: a child has an id
  that no other ever had, a cell holds the child that lives or one whose exit is on
  its way, and an exit on its way is of a child that lives no more; so a late exit
  clears no cell of a newer child.
- The same module, of `RecorderDisk`, under `~TornEncode`. `DiskInv` says for each
  file operation which file holds the whole recording and which are gone;
  `NothingLost` and `FinalAudioComplete` follow.
- `ListenerRootProofs`. `RootInv` relates the root's tables, the supervisors'
  phases and mailboxes, and the exits under way: the active supervisor is not
  finalizing; each table names its supervisor's session; a supervisor being
  started is in no table; a supervisor that is finalizing has been told; an exit
  is of a supervisor that stopped. From it `NoOrphan`, `TracksRightSession`,
  `OneSupervisorPerSession` and `OneGoesOn`. `SaidInv` adds what was announced,
  for `ActiveIsAnnounced` and `EndedIsSaved`.
- `ModelManagerProofs`. `ManagerInv`: a task is where its locks say it is, what
  the monitor saw is still so when it evicts, and a load finds the slot empty.
  From it `OneModelAtATime` and the action property `OnlyIdleEvicted`.
- `RecordingLeaseProofs`. `RenameNotForgotten`, overlaps and failures included:
  every step that takes the last lease away looks at the title, every step that
  sets a title looks at the leases. `RecorderDirStays`, `HookDirStays` and
  `NoMoveWhileRecording` under `~Overlaps`: the heart of `LeaseInv` is that the
  leases that starts think they hold (`Owed`, a set of pairs) are no more than
  the leases counted; so a rename or a move, which needs the count to be 0,
  finds nobody. That a stamp which sets the count to 0 finds nothing owed needs
  `AloneOK`: while a recording ends, every other start is idle. `NoLeakedLease` is
  the other direction, and holds with overlaps too: `SurplusInv` says that there are
  more leases than are owed only while the stamp that clears them is still to come,
  and that a start stamp, which may note a lease anew, is always followed by one.
- `LiveTranscriptBufferProofs`. `LockInv`: whoever needs the write lock has it,
  and a writer that is about to write has read the file as it still is. From it the
  action property `KeepsOthers`, failures included. `FlusherInv` gives
  `DirtyHasFlusher` where `FailingOps` has no operation but debounced flushes and
  batch writes: only they mark a buffer dirty, or clean it, with a task at hand.
  `HistInv` gives `NothingForgotten` and `SupersededStaysOut`, for every choice of
  `FailingOps`. `WordsInv` says where words may be (the buffer and the copies hold
  said words of their own transcripts, each batch is one), `KeptInv`, until a window
  is hit, that every word owed to the buffer's transcript is in it, that content
  which may still land holds every word owed to the entries it writes or comes before
  newer content that does, and that no copy in flight brings a superseded word back.
- `VaultIndexProofs`, for any number of sessions, commands, readers, deletes and
  changes from outside. The invariant `Inv` has four layers, each proved of every
  action with the ones before it. `BaseInv`: types, what a task carries at each
  place, the lock. `World`: a session is in one directory, or in the trash with one
  record that can bring it back, or nowhere; nothing knows a session that is not made
  yet; one that nobody deleted has its files. `Place`: a walk that was not warned of a
  move found a session where it is; a command under the lock looks where its session
  is; a refresh or rescan that nobody overtook has read what the files say; the catalog
  names the session's own directory or none. `Told`: the index says what the files say,
  or a note is on its way that will make it so. `NothingVanishes` and `IndexAgrees` come
  from `Told`, `CatalogSound` from `Place`. The two windows that `lapse` and `skew` did
  not name before (a refresh that meets corruption, and the tail of a second delete)
  take two readers and two deletes, more than the run has: the proof found both.
- `ModelDownloaderProofs`. The requests for a model are ordered by the time the
  registry took them (`rank`). `LineOK` is the heart of `SInv`: while a request is not
  done, each later one for its model is behind its gate and waits for it or for one
  between them, or a cancel that came between them waits. From it `OneAtATime`;
  with `PartsOK` and `ToldOK`, which say what the files and the last event are,
  `NothingLeft` and `CompleteIsWhole`. The refinement `KeepsSlots` has one case per
  action: an insert claims the slot, a cancel cancels it, a task that
  leaves finishes or expires, by whether it is still the holder, and every other step
  changes neither slot nor fate.
- `BatchTranscriptionProofs`. `HearsItself` needs that whoever has still something
  to say is the run that the page has open (`Apart`), and that the page has one run
  of a session open at a time (`OneOpen`). That a run is open while it has not said
  its end needs in turn that no other run of the session is registered meanwhile, and
  that the registry knows it (`RegistryAgrees`): a start gets to the registry only
  with its own run open. All of it is for sessions without a crossed run; `Begun`,
  `Worked`, `StopOK` and `Known` hold of all.

The type invariants of `SessionSupervisor`, `ListenerRoot`, `RecordingLease`,
`LiveTranscriptBuffer`, `VaultIndex`, `ModelDownloader` and `BatchTranscription` are
theorems. Two more facts of the supervisor that no run checks are proved: the last
lifecycle event tells the mode (`ToldTheModeAlways`), and a session with its listener
starts its next back-off anew (`FreshBackoffAlways`).

Every safety invariant and every action property of the passing runs is proved, with
the restrictions named above: `RecorderDirStays`, `HookDirStays` and
`NoMoveWhileRecording` under `~Overlaps`, the recorder's files under `~TornEncode`,
`DirtyHasFlusher` for `FailingOps` with debounced flushes and batch writes only. Only
model-checked: all liveness (out of the prover's reach), and that the code breaks what
the two violation runs state. Nothing is proved of recursive definitions: there are
none.

## Not modelled

Signal processing, inference, HTTP and websocket protocols, parsing, rendering,
and everything `PROJECT.json` marks `not_modelled`, with the reason there.

## Plan

Done: the supervisor, the recorder's files, the root, the model manager, the leases,
the transcript buffer, the store's index, the downloader with its abstract
specification, and batch transcription. The suite is kept at twelve runs, so that it
stays quick: a new component takes the place of an older violation. Next, in this
order:

1. `SourcePipeline`: backlog, quota, replay history and routing changes. What the
   listener gets is a subsequence of what was captured; nothing is sent twice
   unless a refresh replays it; what overflows is the oldest. While a backlog is
   drained by quota the live frame goes first (`source/pipeline.rs:149`), and a capture
   stream that ends without an error leaves the source without frames
   (`source/stream.rs:150`).
2. `SessionRecording`: the root with recorders that outlive the stop timeout
   (`children.rs:259`), on the files of `RecorderDisk`; an abstract recording (pieces
   taped, pieces saved) that `RecorderDisk` implements.
3. `CaptureTray` and `ListenerStore`: subscribers of the lifecycle events, which
   apply them late (`runtime.rs:42`, `general-live.ts:146`); they agree with the root
   once events are handled.
4. An abstract session lifecycle (idle, active, finalizing, ended) that
   `ListenerRoot` implements for each session; the supervisor's remaining invariants
   and the `VaultIndex` ones as theorems.
5. `DeviceDebounce`: an event that is put drops events of other keys that are due
   (`device-monitor/src/debounce.rs:43`).
6. More of the store: enhanced documents, tasks, people and templates, each one file
   and one map under the same lock; ids that two directories claim.
