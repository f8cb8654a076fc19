--------------------------- MODULE ModelDownloader ---------------------------
(***************************************************************************)
(* The model download manager (model-downloader) with the checks of          *)
(* local-model: requests, cancels and deletions run concurrently; every      *)
(* request spawns a task that waits behind a gate until the task it replaces *)
(* is over, then downloads into a part file named after its generation,      *)
(* verifies the checksum, and unpacks or promotes the file.  The cancellation *)
(* token is looked at only while bytes are coming in.                        *)
(*                                                                          *)
(* Content is "partial", "bad" (complete for the server, or cut short by a  *)
(* cancel that the last chunks swallowed, but not what the checksum wants)  *)
(* or "whole".  Every model that the manager can download has a checksum    *)
(* (local-model).  Not modelled: percentages, resumed part files of an      *)
(* earlier run of the application, and a request dropped at shutdown.       *)
(***************************************************************************)
EXTENDS Naturals

CONSTANTS
    Models,   \* download keys
    Callers,  \* commands that may run at once (a bound)
    MaxGen    \* how many requests there may be (a bound)

ASSUME BoundAssumption == MaxGen \in Nat

Gens == 1 .. MaxGen
Contents == {"none", "partial", "bad", "whole"}
TaskPcs == {"none", "gate", "open", "download", "verify", "finalize", "unpack", "promote",
            "emit", "cleanup", "leave", "done"}
Events == {"none", "downloading", "completed", "failed"}

VARIABLES
    packed,      \* the models that are unpacked into a directory (they stay so)
    generation,  \* next_generation, less one
    registry,    \* DownloadsRegistry: the generation registered for a model, or 0
    task,        \* the download task of every generation
    cancelled,   \* generations whose token is cancelled
    part,        \* the part file of every generation
    installed,   \* what is at the model's final destination
    caller,      \* where every command is
    rank,        \* history: when the registry took a generation, or 0
    entries,     \* history: how many it took
    told,        \* history: last event emitted for a model
    mauled       \* history: models deleted, or left half unpacked, since the last
                 \*   installation of them began

files == <<part, installed>>
entered == <<rank, entries>>
news == <<told, mauled>>
vars == <<packed, generation, registry, task, cancelled, files, caller, entered, news>>

NoTask == [pc |-> "none", model |-> "none"]
Call(pc, g, old, m) == [pc |-> pc, gen |-> g, old |-> old, model |-> m]
Free == Call("idle", 0, 0, "none")

Init ==
    /\ packed \in SUBSET Models
    /\ generation = 0
    /\ registry = [m \in Models |-> 0]
    /\ task = [g \in Gens |-> NoTask]
    /\ cancelled = {}
    /\ part = [g \in Gens |-> "none"]
    /\ installed \in [Models -> {"none", "whole"}]
    /\ caller = [c \in Callers |-> Free]
    /\ rank = [g \in Gens |-> 0] /\ entries = 0
    /\ told = [m \in Models |-> "none"] /\ mauled = {}
-----------------------------------------------------------------------------
(* Commands *)

\* download: a generation, a task behind its gate.
Request(c, m) ==
    /\ caller[c] = Free
    /\ generation < MaxGen
    /\ generation' = generation + 1
    /\ task' = [task EXCEPT ![generation + 1] = [pc |-> "gate", model |-> m]]
    /\ caller' = [caller EXCEPT ![c] = Call("insert", generation + 1, 0, m)]
    /\ UNCHANGED <<registry, cancelled, files, entered, news>>

\* The registry takes the new entry; an old one is cancelled and waited for.
Insert(c) ==
    /\ caller[c].pc = "insert"
    /\ LET m == caller[c].model
           g == caller[c].gen
           old == registry[m]
       IN  /\ registry' = [registry EXCEPT ![m] = g]
           /\ rank' = [rank EXCEPT ![g] = entries + 1]
           /\ entries' = entries + 1
           /\ IF old = 0
              THEN /\ task' = [task EXCEPT ![g].pc = "open"]
                   /\ caller' = [caller EXCEPT ![c] = Free]
                   /\ UNCHANGED cancelled
              ELSE /\ cancelled' = cancelled \cup {old}
                   /\ caller' = [caller EXCEPT ![c] = Call("join", g, old, m)]
                   /\ UNCHANGED task
    /\ UNCHANGED <<generation, files, news>>

\* Mutants: the task that is replaced is not waited for; the registry is waited
\* for in its stead.
ReplacedAtOnce(c) ==
    /\ caller[c].pc = "join"
    /\ task' = [task EXCEPT ![caller[c].gen].pc = "open"]
    /\ caller' = [caller EXCEPT ![c] = Free]
    /\ UNCHANGED <<generation, registry, cancelled, files, news, entered>>
ReplacedWhenFree(c) ==
    /\ caller[c].pc = "join"
    /\ registry[caller[c].model] = 0
    /\ task' = [task EXCEPT ![caller[c].gen].pc = "open"]
    /\ caller' = [caller EXCEPT ![c] = Free]
    /\ UNCHANGED <<generation, registry, cancelled, files, news, entered>>

\* wait_for_task_exit, without a limit; then the gate opens.
Replaced(c) ==
    /\ caller[c].pc = "join"
    /\ task[caller[c].old].pc = "done"
    /\ task' = [task EXCEPT ![caller[c].gen].pc = "open"]
    /\ caller' = [caller EXCEPT ![c] = Free]
    /\ UNCHANGED <<generation, registry, cancelled, files, news, entered>>

Cancel(c, m) ==
    /\ caller[c] = Free
    /\ registry[m] # 0
    /\ registry' = [registry EXCEPT ![m] = 0]
    /\ cancelled' = cancelled \cup {registry[m]}
    /\ caller' = [caller EXCEPT ![c] = Call("stop", 0, registry[m], m)]
    /\ UNCHANGED <<generation, task, files, news, entered>>

\* The task is over, however it ended: the page is told of a failure.
Cancelled(c) ==
    /\ caller[c].pc = "stop"
    /\ task[caller[c].old].pc = "done"
    /\ told' = [told EXCEPT ![caller[c].model] = "failed"]
    /\ part' = [part EXCEPT ![caller[c].old] = "none"]
    /\ caller' = [caller EXCEPT ![c] = Free]
    /\ UNCHANGED <<generation, registry, task, cancelled, installed, mauled, entered>>

\* delete: an unpacked model is there as soon as its directory has a file.
Delete(c, m) ==
    /\ caller[c] = Free
    /\ installed[m] # "none"
    /\ caller' = [caller EXCEPT ![c] = Call("delete", 0, 0, m)]
    /\ UNCHANGED <<generation, registry, task, cancelled, files, news, entered>>

Deleted(c) ==
    /\ caller[c].pc = "delete"
    /\ LET m == caller[c].model
       IN  /\ installed' = [installed EXCEPT ![m] = "none"]
           /\ mauled' = mauled \cup {m}
    /\ caller' = [caller EXCEPT ![c] = Free]
    /\ UNCHANGED <<generation, registry, task, cancelled, part, told, entered>>
-----------------------------------------------------------------------------
(* The download task *)

Goes(g, pc) == task' = [task EXCEPT ![g].pc = pc]
Tells(g, event) == told' = [told EXCEPT ![task[g].model] = event]
Fails(g) == Goes(g, "cleanup") /\ Tells(g, "failed")

Start(g) ==
    /\ task[g].pc = "open"
    /\ Goes(g, "download")
    /\ part' = [part EXCEPT ![g] = "partial"]
    /\ Tells(g, "downloading")
    /\ UNCHANGED <<generation, registry, cancelled, installed, caller, mauled, entered>>

\* A cancel that is noticed says nothing; one that comes with the last chunks
\* passes for the end of the file.
Download(g) ==
    /\ task[g].pc = "download"
    /\ \/ /\ g \in cancelled
          /\ Goes(g, "cleanup")
          /\ UNCHANGED <<part, told>>
       \/ /\ \E content \in {"bad", "whole"} : part' = [part EXCEPT ![g] = content]
          /\ Goes(g, "verify")
          /\ UNCHANGED told
       \/ /\ Fails(g)
          /\ UNCHANGED part
    /\ UNCHANGED <<generation, registry, cancelled, installed, caller, mauled, entered>>

\* Mutant: a checksum that cannot be computed passes.
VerifyLax(g) ==
    /\ task[g].pc = "verify"
    /\ Goes(g, "finalize")
    /\ UNCHANGED <<generation, registry, cancelled, files, caller, news, entered>>

\* The checksum, or an error on the way to it.
Verify(g) ==
    /\ task[g].pc = "verify"
    /\ \/ part[g] = "whole" /\ Goes(g, "finalize") /\ UNCHANGED told
       \/ Fails(g)
    /\ UNCHANGED <<generation, registry, cancelled, files, caller, mauled, entered>>

\* finalize_download: nothing to do for a plain file; a packed one is unpacked
\* over whatever is there, and the part file removed.
Finalize(g) ==
    /\ task[g].pc = "finalize"
    /\ LET m == task[g].model
       IN  IF m \in packed
           THEN /\ Goes(g, "unpack")
                /\ installed' = [installed EXCEPT ![m] = "partial"]
                /\ mauled' = mauled \ {m}
           ELSE Goes(g, "promote") /\ UNCHANGED <<installed, mauled>>
    /\ UNCHANGED <<generation, registry, cancelled, part, caller, told, entered>>

Unpack(g) ==
    /\ task[g].pc = "unpack"
    /\ LET m == task[g].model
       IN  \/ /\ Goes(g, "emit")
              /\ installed' = [installed EXCEPT ![m] =
                     IF m \in mauled \/ \E h \in Gens \ {g} : task[h].pc = "unpack" /\ task[h].model = m
                     THEN "partial" ELSE part[g]]
              /\ part' = [part EXCEPT ![g] = "none"]
              /\ UNCHANGED news
           \/ /\ Fails(g)
              /\ mauled' = mauled \cup {m}
              /\ UNCHANGED <<part, installed>>
    /\ UNCHANGED <<generation, registry, cancelled, caller, entered>>

Promote(g) ==
    /\ task[g].pc = "promote"
    /\ \/ /\ Goes(g, "emit")
          /\ installed' = [installed EXCEPT ![task[g].model] = part[g]]
          /\ part' = [part EXCEPT ![g] = "none"]
          /\ mauled' = mauled \ {task[g].model}
          /\ UNCHANGED told
       \/ /\ Fails(g)
          /\ UNCHANGED <<files, mauled>>
    /\ UNCHANGED <<generation, registry, cancelled, caller, entered>>

Complete(g) ==
    /\ task[g].pc = "emit"
    /\ Goes(g, "leave")
    /\ Tells(g, "completed")
    /\ UNCHANGED <<generation, registry, cancelled, files, caller, mauled, entered>>

\* Mutant: only the registry is cleaned.
CleanupEntry(g) ==
    /\ task[g].pc = "cleanup"
    /\ Goes(g, "leave")
    /\ UNCHANGED <<generation, registry, cancelled, files, caller, news, entered>>

Cleanup(g) ==
    /\ task[g].pc = "cleanup"
    /\ Goes(g, "leave")
    /\ part' = [part EXCEPT ![g] = "none"]
    /\ UNCHANGED <<generation, registry, cancelled, installed, caller, news, entered>>

\* Mutant: whatever entry the model has is removed.
LeftAny(m, g) == [registry EXCEPT ![m] = 0]

\* remove_if_generation_matches
Left(m, g) == IF registry[m] = g THEN [registry EXCEPT ![m] = 0] ELSE registry

Leave(g) ==
    /\ task[g].pc = "leave"
    /\ Goes(g, "done")
    /\ registry' = Left(task[g].model, g)
    /\ UNCHANGED <<generation, cancelled, files, caller, news, entered>>

Proceed(g) ==
    /\ \/ Start(g) \/ Download(g) \/ Verify(g) \/ Finalize(g) \/ Unpack(g) \/ Promote(g)
       \/ Complete(g) \/ Cleanup(g) \/ Leave(g)
    /\ UNCHANGED packed

Return(c) ==
    /\ Insert(c) \/ Replaced(c) \/ Cancelled(c) \/ Deleted(c)
    /\ UNCHANGED packed

Command(c) ==
    /\ \E m \in Models : Request(c, m) \/ Cancel(c, m) \/ Delete(c, m)
    /\ UNCHANGED packed

Next ==
    \/ \E c \in Callers : Command(c) \/ Return(c)
    \/ \E g \in Gens : Proceed(g)

\* Commands and tasks are driven by the runtime to their end.  Of the network it
\* is assumed that a connection goes on or breaks: the client sets no timeout, and
\* a task looks at its token only when bytes come in.
Fairness == (\A c \in Callers : WF_vars(Return(c))) /\ (\A g \in Gens : WF_vars(Proceed(g)))
Spec == Init /\ [][Next]_vars /\ Fairness
-----------------------------------------------------------------------------
(***************************************************************************)
(* Properties                                                              *)
(***************************************************************************)
TypeOK ==
    /\ packed \subseteq Models
    /\ generation \in 0 .. MaxGen
    /\ registry \in [Models -> 0 .. generation]
    /\ task \in [Gens -> [pc : TaskPcs, model : Models \cup {"none"}]]
    /\ \A g \in Gens : task[g].pc # "none" => task[g].model \in Models
    /\ cancelled \subseteq Gens
    /\ part \in [Gens -> Contents]
    /\ installed \in [Models -> Contents]
    /\ caller \in [Callers -> [pc : {"idle", "insert", "join", "stop", "delete"},
                               gen : 0 .. MaxGen, old : 0 .. MaxGen, model : Models \cup {"none"}]]
    /\ rank \in [Gens -> Nat] /\ entries \in Nat
    /\ told \in [Models -> Events]
    /\ mauled \subseteq Models

Running(g) == task[g].pc \notin {"none", "gate", "open", "done"}
Quiet == (\A c \in Callers : caller[c] = Free) /\ \A g \in Gens : task[g].pc \in {"none", "done"}

\* Two tasks work on the same model at once only while a cancel of that model
\* waits: a replacement never starts before what it replaces is over, whoever
\* replaces whom.
OneAtATime ==
    \A g, h \in Gens :
        g < h /\ Running(g) /\ Running(h) /\ task[g].model = task[h].model
        => \E c \in Callers : caller[c].pc = "stop" /\ caller[c].model = task[g].model

\* Nothing is left over when all is quiet: no entry that makes a model look
\* busy, and no part file.
NothingLeft ==
    Quiet => /\ \A m \in Models : registry[m] = 0
             /\ \A g \in Gens : part[g] = "none"

\* A model the page was last told is complete is installed, whole, unless it was
\* deleted, or left half unpacked by another task, since the last installation of
\* it began.
CompleteIsWhole ==
    Quiet => \A m \in Models : told[m] = "completed" => installed[m] = "whole" \/ m \in mauled

\* Every request comes to its end, also one in a chain of replacements that wait
\* for one another.
EndsAll == \A g \in Gens : task[g].pc = "gate" ~> task[g].pc = "done"

\* The registry is the slot of DownloadSlot.
Fate == [g \in Gens |->
            IF rank[g] = 0 THEN "unborn"
            ELSE IF task[g].pc = "done" THEN "over"
            ELSE IF g \in cancelled THEN "off" ELSE "live"]
Slot == INSTANCE DownloadSlot WITH slot <- registry, fate <- Fate
KeepsSlots == Slot!Spec
=============================================================================
