------------------------- MODULE ModelDownloaderProofs -------------------------
(* Theorems about ModelDownloader, for every set of models, any number of     *)
(* commands at once and any number of requests.                               *)
EXTENDS ModelDownloader, TLAPS

CallerType == [Callers -> [pc : {"idle", "insert", "join", "stop", "delete"},
                           gen : 0 .. MaxGen, old : 0 .. MaxGen, model : Models \cup {"none"}]]
TaskType == [Gens -> [pc : TaskPcs, model : Models \cup {"none"}]]

\* Generations are positive.
LEMMA GensAreNat ==
  /\ \A g \in Gens : g \in Nat /\ g # 0 /\ g <= MaxGen /\ g \in 0 .. MaxGen
  /\ \A i \in 0 .. MaxGen : i # 0 => i \in Gens
  /\ 0 \in 0 .. MaxGen
  BY BoundAssumption DEF Gens

\* The fields of a command in flight.
LEMMA CallFields ==
  ASSUME NEW pc, NEW g, NEW old, NEW m
  PROVE  /\ Call(pc, g, old, m).pc = pc
         /\ Call(pc, g, old, m).gen = g
         /\ Call(pc, g, old, m).old = old
         /\ Call(pc, g, old, m).model = m
  BY DEF Call

\* A command in flight is a state of a caller.
LEMMA CallType ==
  ASSUME TypeOK, NEW c \in Callers,
         NEW pc \in {"idle", "insert", "join", "stop", "delete"},
         NEW g \in 0 .. MaxGen, NEW old \in 0 .. MaxGen, NEW m \in Models \cup {"none"}
  PROVE  [caller EXCEPT ![c] = Call(pc, g, old, m)] \in CallerType
<1>1. Call(pc, g, old, m) \in [pc : {"idle", "insert", "join", "stop", "delete"},
                               gen : 0 .. MaxGen, old : 0 .. MaxGen, model : Models \cup {"none"}]
  BY DEF Call
<1> QED
  BY <1>1 DEF TypeOK, CallerType

\* A caller that is through is free.
LEMMA FreeType ==
  ASSUME TypeOK, NEW c \in Callers
  PROVE  [caller EXCEPT ![c] = Free] \in CallerType
  BY CallType, GensAreNat DEF Free

\* A task that goes on is a state of a task.
LEMMA GoesType ==
  ASSUME TypeOK, NEW g \in Gens, NEW pc \in TaskPcs, task[g].pc # "none", Goes(g, pc)
  PROVE  /\ task' \in TaskType
         /\ \A h \in Gens \ {g} : task'[h] = task[h]
         /\ task'[g].pc = pc /\ task'[g].model = task[g].model
         /\ \A h \in Gens : task'[h].pc # "none" => task'[h].model \in Models
  BY DEF TypeOK, TaskType, Goes

\* The initial state is type correct.
LEMMA InitType == Init => TypeOK
<1> SUFFICES ASSUME Init PROVE TypeOK
  OBVIOUS
<1>1. caller \in CallerType
  BY GensAreNat DEF Init, CallerType, Free, Call
<1> QED
  BY <1>1, BoundAssumption DEF Init, TypeOK, CallerType, NoTask, TaskPcs, Contents, Events

(***************************************************************************)
(* The order of the requests for a model: the structural invariant         *)
(***************************************************************************)
Waits(c) == caller[c].pc \in {"insert", "join"}
Starts == {"open", "download", "verify", "finalize", "unpack", "promote", "emit", "cleanup", "leave"}

\* A command that waits with a request has a task of its own behind the gate;
\* one that waits for a task waits for a cancelled one of its model, which came
\* before its own request.
CallerOK(c) ==
    /\ Waits(c) => /\ caller[c].gen \in Gens
                   /\ task[caller[c].gen].pc = "gate"
                   /\ task[caller[c].gen].model = caller[c].model
                   /\ \A d \in Callers \ {c} : Waits(d) => caller[d].gen # caller[c].gen
    /\ caller[c].pc = "insert" => rank[caller[c].gen] = 0
    /\ caller[c].pc = "join" => /\ rank[caller[c].gen] # 0
                                /\ rank[caller[c].old] < rank[caller[c].gen]
    /\ caller[c].pc \in {"join", "stop"} => /\ caller[c].old \in cancelled
                                            /\ task[caller[c].old].model = caller[c].model
    /\ caller[c].pc = "delete" => caller[c].model \in Models
CallersOK == \A c \in Callers : CallerOK(c)

\* The registry takes each request once; what it took and has not cancelled is in
\* it until it is done.
GensOK ==
    \A g \in Gens :
        /\ task[g].pc = "none" <=> g > generation
        /\ rank[g] = 0 => task[g].pc \in {"none", "gate"}
        /\ task[g].pc = "none" => rank[g] = 0
        /\ rank[g] <= entries
        /\ \A h \in Gens \ {g} : rank[g] = rank[h] => rank[g] = 0
        /\ task[g].pc = "gate" => \E c \in Callers : Waits(c) /\ caller[c].gen = g
        /\ g \in cancelled => rank[g] # 0
        /\ rank[g] # 0 /\ g \notin cancelled /\ task[g].pc # "done" => registry[task[g].model] = g

\* What the registry holds is the last request it took for that model, not
\* cancelled and not done.
Holds(m, r) ==
    /\ task[r].model = m /\ task[r].pc # "done"
    /\ rank[r] # 0 /\ r \notin cancelled
    /\ \A g \in Gens : task[g].model = m => rank[g] <= rank[r]
RegistryOK == \A m \in Models : registry[m] # 0 => Holds(m, registry[m])

\* A cancel, or the command of request g itself, waits for h or for a request
\* after h and before g.
StopCovers(h) ==
    \E c \in Callers : /\ caller[c].pc = "stop"
                       /\ caller[c].model = task[h].model
                       /\ rank[h] <= rank[caller[c].old]
StopsBefore(g, h) ==
    \E c \in Callers : /\ caller[c].pc = "stop"
                       /\ caller[c].model = task[h].model
                       /\ rank[h] <= rank[caller[c].old]
                       /\ rank[caller[c].old] < rank[g]
JoinsBefore(g, h) ==
    \E c \in Callers : /\ caller[c].pc = "join"
                       /\ caller[c].gen = g
                       /\ rank[h] <= rank[caller[c].old]

\* While a request is not done, each later one for its model is still behind its
\* gate, or a cancel that came between them waits.
LineOK ==
    \A g, h \in Gens :
        /\ rank[h] # 0 /\ rank[h] < rank[g] /\ task[h].model = task[g].model /\ task[h].pc # "done"
               => StopsBefore(g, h) \/ JoinsBefore(g, h)
        /\ rank[h] # 0 /\ task[h].pc # "done" /\ registry[task[h].model] = 0 => StopCovers(h)

SInv == TypeOK /\ CallersOK /\ GensOK /\ RegistryOK /\ LineOK

\* The initial state has no request.
LEMMA InitStructure == Init => SInv
<1> SUFFICES ASSUME Init PROVE SInv
  OBVIOUS
<1>1. TypeOK
  BY InitType
<1>2. \A c \in Callers : caller[c].pc = "idle"
  BY CallFields DEF Init, Free
<1>3. \A g \in Gens : rank[g] = 0 /\ task[g].pc = "none" /\ g \in Nat /\ g > 0
  BY GensAreNat DEF Init, NoTask
<1> QED
  BY <1>1, <1>2, <1>3 DEF Init, SInv, CallersOK, CallerOK, GensOK, RegistryOK, LineOK, Waits

\* What the registry holds is a request that it took.
LEMMA HeldFacts ==
  ASSUME SInv, NEW x \in Models, registry[x] # 0
  PROVE  /\ registry[x] \in Gens /\ rank[registry[x]] \in Nat
         /\ Holds(x, registry[x])
<1>1. registry[x] \in Gens
  <2>1. registry[x] \in 0 .. generation /\ generation \in 0 .. MaxGen
    BY DEF SInv, TypeOK
  <2> QED
    BY <2>1, BoundAssumption DEF Gens
<1> QED
  BY <1>1 DEF SInv, RegistryOK, TypeOK

\* What taking a request does.
LEMMA RequestFacts ==
  ASSUME SInv, NEW c \in Callers, NEW m \in Models, Request(c, m), UNCHANGED packed,
         NEW n, n = generation + 1
  PROVE  /\ TypeOK'
         /\ n \in Gens /\ generation' = n /\ n \in Nat
         /\ task[n].pc = "none" /\ rank[n] = 0 /\ n \notin cancelled
         /\ task'[n].pc = "gate" /\ task'[n].model = m
         /\ \A h \in Gens \ {n} : task'[h] = task[h]
         /\ caller[c].pc = "idle"
         /\ caller'[c].pc = "insert" /\ caller'[c].gen = n /\ caller'[c].model = m
         /\ \A d \in Callers \ {c} : caller'[d] = caller[d]
         /\ registry' = registry /\ cancelled' = cancelled /\ rank' = rank /\ entries' = entries
<1> USE GensAreNat
<1>1. /\ n \in Gens /\ n \in 0 .. MaxGen /\ n \in Nat
      /\ n > generation
  BY BoundAssumption DEF Request, Gens, TypeOK, SInv
<1>2. task' \in TaskType
  BY <1>1 DEF Request, TaskPcs, TypeOK, TaskType, SInv
<1>3. \A h \in Gens : task'[h].pc # "none" => task'[h].model \in Models
  BY <1>1 DEF Request, TypeOK, SInv
<1>4. caller' \in CallerType
  BY <1>1, CallType DEF Request, SInv
<1>5. registry' \in [Models -> 0 .. generation']
  BY <1>1 DEF Request, TypeOK, SInv
<1>6. TypeOK'
  BY <1>1, <1>2, <1>3, <1>4, <1>5 DEF Request, TypeOK, TaskType, CallerType, files, entered, news, SInv
<1>7. task[n].pc = "none" /\ rank[n] = 0 /\ n \notin cancelled
  BY <1>1 DEF SInv, GensOK
<1>8. /\ caller'[c] = Call("insert", n, 0, m)
      /\ \A d \in Callers \ {c} : caller'[d] = caller[d]
  BY DEF Request, TypeOK, SInv
<1>9. caller[c].pc = "idle"
  BY CallFields DEF Request, Free
<1>10. /\ task'[n].pc = "gate" /\ task'[n].model = m
       /\ \A h \in Gens \ {n} : task'[h] = task[h]
  BY <1>1 DEF Request, TypeOK, SInv
<1> QED
  BY <1>1, <1>6, <1>7, <1>8, <1>9, <1>10, CallFields DEF Request, entered

\* Taking a request keeps the order.
LEMMA RequestKeeps ==
  ASSUME SInv, NEW c \in Callers, NEW m \in Models, Request(c, m), UNCHANGED packed
  PROVE  SInv'
<1> DEFINE n == generation + 1
<1>0. n = generation + 1
  OBVIOUS
<1> HIDE DEF n
<1> USE GensAreNat
<1>1. /\ TypeOK'
      /\ n \in Gens /\ generation' = n /\ n \in Nat
      /\ task[n].pc = "none" /\ rank[n] = 0 /\ n \notin cancelled
      /\ task'[n].pc = "gate" /\ task'[n].model = m
      /\ \A h \in Gens \ {n} : task'[h] = task[h]
      /\ caller[c].pc = "idle"
      /\ caller'[c].pc = "insert" /\ caller'[c].gen = n /\ caller'[c].model = m
      /\ \A d \in Callers \ {c} : caller'[d] = caller[d]
      /\ registry' = registry /\ cancelled' = cancelled /\ rank' = rank /\ entries' = entries
  BY <1>0, RequestFacts
<1>2. \A d \in Callers : d # c =>
         /\ Waits(d) => caller[d].gen \in Gens \ {n}
         /\ caller[d].pc \in {"join", "stop"} => caller[d].old \in Gens \ {n}
  BY <1>1 DEF SInv, CallersOK, CallerOK, TypeOK, Waits
<1>3. CallersOK'
  <2> SUFFICES ASSUME NEW d \in Callers
               PROVE  CallerOK(d)'
    BY DEF CallersOK
  <2>1. CASE d = c
    <3>1. \A e \in Callers \ {c} : Waits(e)' => caller'[e].gen # n
      BY <1>1, <1>2 DEF Waits
    <3> QED
      BY <2>1, <3>1, <1>1 DEF Waits, CallerOK
  <2>2. CASE d # c
    <3>1. Waits(d)' <=> Waits(d)
      BY <2>2, <1>1 DEF Waits
    <3>2. Waits(d) => \A e \in Callers \ {d} : Waits(e)' => caller'[e].gen # caller[d].gen
      BY <2>2, <1>1, <1>2 DEF SInv, CallersOK, CallerOK, Waits
    <3>3. CallerOK(d) /\ caller'[d] = caller[d]
      BY <2>2, <1>1 DEF SInv, CallersOK
    <3>4. Waits(d) => task'[caller[d].gen] = task[caller[d].gen]
      BY <2>2, <1>1, <1>2
    <3>5. caller[d].pc \in {"join", "stop"} => task'[caller[d].old] = task[caller[d].old]
      BY <2>2, <1>1, <1>2
    <3> QED
      BY <3>1, <3>2, <3>3, <3>4, <3>5, <1>1 DEF CallerOK
  <2> QED
    BY <2>1, <2>2
<1>4. GensOK'
  <2>1. \A g \in Gens : (task'[g].pc = "none" <=> g > generation')
    BY <1>0, <1>1 DEF SInv, GensOK, TypeOK
  <2>2. ASSUME NEW g \in Gens, task'[g].pc = "gate"
        PROVE  \E d \in Callers : Waits(d)' /\ caller'[d].gen = g
    <3>1. CASE g = n
      BY <3>1, <1>1 DEF Waits
    <3>2. CASE g # n
      <4>1. PICK d \in Callers : Waits(d) /\ caller[d].gen = g
        BY <3>2, <2>2, <1>1 DEF SInv, GensOK
      <4> QED
        BY <4>1, <1>1 DEF Waits
    <3> QED
      BY <3>1, <3>2
  <2>3. ASSUME NEW g \in Gens
        PROVE  /\ rank'[g] = 0 => task'[g].pc \in {"none", "gate"}
               /\ task'[g].pc = "none" => rank'[g] = 0
               /\ rank'[g] <= entries'
               /\ \A h \in Gens \ {g} : rank'[g] = rank'[h] => rank'[g] = 0
               /\ g \in cancelled' => rank'[g] # 0
    BY <1>1 DEF SInv, GensOK
  <2>4. ASSUME NEW g \in Gens, rank'[g] # 0, g \notin cancelled', task'[g].pc # "done"
        PROVE  registry'[task'[g].model] = g
    BY <2>4, <1>1 DEF SInv, GensOK
  <2> QED
    BY <2>1, <2>2, <2>3, <2>4 DEF GensOK
<1>5. RegistryOK'
  <2> SUFFICES ASSUME NEW x \in Models, registry[x] # 0
               PROVE  Holds(x, registry[x])'
    BY <1>1 DEF RegistryOK
  <2>1. /\ registry[x] \in Gens /\ rank[registry[x]] \in Nat
        /\ Holds(x, registry[x])
    BY HeldFacts
  <2>2. registry[x] # n
    BY <2>1, <1>1 DEF Holds
  <2>3. \A g \in Gens : task'[g].model = x => rank[g] <= rank[registry[x]]
    <3> SUFFICES ASSUME NEW g \in Gens, task'[g].model = x
                 PROVE  rank[g] <= rank[registry[x]]
      OBVIOUS
    <3>1. CASE g = n
      BY <3>1, <2>1, <1>1
    <3>2. CASE g # n
      BY <3>2, <2>1, <1>1 DEF Holds
    <3> QED
      BY <3>1, <3>2
  <2> QED
    BY <1>1, <2>1, <2>2, <2>3 DEF Holds
<1>6. LineOK'
  <2>1. ASSUME NEW h \in Gens, rank[h] # 0
        PROVE  h # n /\ task'[h] = task[h]
    BY <2>1, <1>1
  <2>2. ASSUME NEW h \in Gens, rank[h] # 0, StopCovers(h)
        PROVE  StopCovers(h)'
    BY <2>1, <2>2, <1>1 DEF StopCovers
  <2>3. ASSUME NEW g \in Gens, NEW h \in Gens, rank[h] # 0, StopsBefore(g, h)
        PROVE  StopsBefore(g, h)'
    BY <2>1, <2>3, <1>1 DEF StopsBefore
  <2>4. ASSUME NEW g \in Gens, NEW h \in Gens, JoinsBefore(g, h)
        PROVE  JoinsBefore(g, h)'
    BY <2>4, <1>1 DEF JoinsBefore
  <2>5. ASSUME NEW g \in Gens, NEW h \in Gens, rank[h] # 0, rank[h] < rank[g]
        PROVE  rank[g] # 0
    BY <2>5 DEF SInv, TypeOK
  <2> QED
    BY <2>1, <2>2, <2>3, <2>4, <2>5, <1>1 DEF SInv, LineOK
<1> QED
  BY <1>1, <1>3, <1>4, <1>5, <1>6 DEF SInv

\* A task that a command waits for was taken by the registry.
LEMMA OldFacts ==
  ASSUME SInv, NEW d \in Callers, caller[d].pc \in {"join", "stop"}
  PROVE  /\ caller[d].old \in Gens /\ caller[d].old \in cancelled
         /\ rank[caller[d].old] # 0 /\ rank[caller[d].old] \in Nat
         /\ rank[caller[d].old] <= entries
         /\ task[caller[d].old].model = caller[d].model
<1>1. /\ caller[d].old \in Gens /\ caller[d].old \in cancelled
      /\ task[caller[d].old].model = caller[d].model
  BY DEF SInv, CallersOK, CallerOK, TypeOK
<1> QED
  BY <1>1 DEF SInv, GensOK, TypeOK

\* A request that is taken has a task behind the gate, and no rank yet.
LEMMA InsertFacts ==
  ASSUME SInv, NEW c \in Callers, Insert(c), UNCHANGED packed,
         NEW n, n = caller[c].gen, NEW m, m = caller[c].model
  PROVE  /\ n \in Gens /\ m \in Models /\ registry' = [registry EXCEPT ![m] = n]
         /\ task[n].pc = "gate" /\ task[n].model = m /\ rank[n] = 0 /\ n \notin cancelled
         /\ caller[c].pc = "insert"
         /\ \A d \in Callers \ {c} : caller'[d] = caller[d]
         /\ \A d \in Callers \ {c} : Waits(d) => caller[d].gen # n
         /\ \A h \in Gens \ {n} : task'[h] = task[h] /\ rank'[h] = rank[h]
         /\ rank'[n] = entries + 1 /\ entries' = entries + 1 /\ generation' = generation
         /\ task'[n].model = m
         /\ \/ /\ registry[m] = 0 /\ task'[n].pc = "open" /\ caller'[c].pc = "idle"
               /\ cancelled' = cancelled
            \/ /\ registry[m] # 0 /\ task'[n].pc = "gate" /\ caller'[c].pc = "join"
               /\ caller'[c].gen = n /\ caller'[c].old = registry[m] /\ caller'[c].model = m
               /\ cancelled' = cancelled \cup {registry[m]}
         /\ TypeOK'
<1> USE GensAreNat
<1>1. /\ n \in Gens /\ task[n].pc = "gate" /\ task[n].model = m /\ rank[n] = 0
      /\ caller[c].pc = "insert"
      /\ \A d \in Callers \ {c} : Waits(d) => caller[d].gen # n
  BY DEF Insert, SInv, CallersOK, CallerOK, Waits
<1>2. m \in Models /\ n \in 0 .. generation /\ n \notin cancelled
  BY <1>1 DEF SInv, TypeOK, GensOK
<1>3. registry[m] \in 0 .. MaxGen /\ (registry[m] # 0 => registry[m] \in Gens)
  BY <1>2, HeldFacts DEF SInv
<1>4. registry' = [registry EXCEPT ![m] = n] /\ rank' = [rank EXCEPT ![n] = entries + 1]
  BY DEF Insert
<1>15. task' = [task EXCEPT ![n].pc = "open"] \/ task' = task
  BY DEF Insert
<1>16. /\ \A h \in Gens \ {n} : task'[h] = task[h]
       /\ task'[n].model = m /\ task' \in TaskType /\ task'[n].pc \in {"open", "gate"}
  <2>1. CASE task' = task
    BY <2>1, <1>1 DEF SInv, TypeOK, TaskType
  <2>2. CASE task' = [task EXCEPT ![n].pc = "open"]
    BY <2>2, <1>1 DEF SInv, TypeOK, TaskType, TaskPcs
  <2> QED
    BY <1>15, <2>1, <2>2
<1>5. /\ \A h \in Gens \ {n} : task'[h] = task[h] /\ rank'[h] = rank[h]
      /\ rank'[n] = entries + 1 /\ entries' = entries + 1 /\ generation' = generation
      /\ task'[n].model = m /\ task' \in TaskType /\ task'[n].pc \in {"open", "gate"}
  BY <1>1, <1>4, <1>16 DEF Insert, SInv, TypeOK
<1>6. \/ /\ registry[m] = 0 /\ task'[n].pc = "open" /\ caller' = [caller EXCEPT ![c] = Free]
         /\ cancelled' = cancelled
      \/ /\ registry[m] # 0 /\ task'[n].pc = "gate"
         /\ caller' = [caller EXCEPT ![c] = Call("join", n, registry[m], m)]
         /\ cancelled' = cancelled \cup {registry[m]}
  <2>1. CASE registry[m] = 0
    BY <2>1, <1>1 DEF Insert, SInv, TypeOK
  <2>2. CASE registry[m] # 0
    BY <2>2, <1>1 DEF Insert
  <2> QED
    BY <2>1, <2>2
<1>7. /\ \A d \in Callers \ {c} : caller'[d] = caller[d]
      /\ caller'[c] = Free \/ caller'[c] = Call("join", n, registry[m], m)
  BY <1>6 DEF SInv, TypeOK
<1>8. caller' \in CallerType
  BY <1>1, <1>2, <1>3, <1>6, CallType, FreeType DEF SInv
<1>9. registry' \in [Models -> 0 .. generation']
  BY <1>2, <1>4, <1>5 DEF SInv, TypeOK
<1>10. rank' \in [Gens -> Nat] /\ entries' \in Nat /\ cancelled' \subseteq Gens
  <2>1. entries' \in Nat
    BY <1>5 DEF SInv, TypeOK
  <2>2. rank' \in [Gens -> Nat]
    BY <2>1, <1>4, <1>5 DEF SInv, TypeOK
  <2>3. cancelled' \subseteq Gens
    BY <1>3, <1>6 DEF SInv, TypeOK
  <2> QED
    BY <2>1, <2>2, <2>3
<1>11. \A h \in Gens : task'[h].pc # "none" => task'[h].model \in Models
  BY <1>2, <1>5 DEF SInv, TypeOK
<1>12. TypeOK'
  BY <1>5, <1>8, <1>9, <1>10, <1>11 DEF Insert, SInv, TypeOK, TaskType, CallerType, files, news
<1>13. caller' = [caller EXCEPT ![c] = Free] => caller'[c] = Free
  BY DEF SInv, TypeOK
<1>14. caller' = [caller EXCEPT ![c] = Call("join", n, registry[m], m)]
         => caller'[c] = Call("join", n, registry[m], m)
  BY DEF SInv, TypeOK
<1> QED
  BY <1>1, <1>2, <1>4, <1>5, <1>6, <1>7, <1>12, <1>13, <1>14, CallFields DEF Free

\* A request that the registry takes comes last in the order.
LEMMA InsertKeeps ==
  ASSUME SInv, NEW c \in Callers, Insert(c), UNCHANGED packed,
         NEW n, n = caller[c].gen, NEW m, m = caller[c].model
  PROVE  SInv'
<1> USE GensAreNat
<1>1. /\ n \in Gens /\ m \in Models /\ registry' = [registry EXCEPT ![m] = n]
      /\ task[n].pc = "gate" /\ task[n].model = m /\ rank[n] = 0 /\ n \notin cancelled
      /\ caller[c].pc = "insert"
      /\ \A d \in Callers \ {c} : caller'[d] = caller[d]
      /\ \A d \in Callers \ {c} : Waits(d) => caller[d].gen # n
      /\ \A h \in Gens \ {n} : task'[h] = task[h] /\ rank'[h] = rank[h]
      /\ rank'[n] = entries + 1 /\ entries' = entries + 1 /\ generation' = generation
      /\ task'[n].model = m
      /\ \/ /\ registry[m] = 0 /\ task'[n].pc = "open" /\ caller'[c].pc = "idle"
            /\ cancelled' = cancelled
         \/ /\ registry[m] # 0 /\ task'[n].pc = "gate" /\ caller'[c].pc = "join"
            /\ caller'[c].gen = n /\ caller'[c].old = registry[m] /\ caller'[c].model = m
            /\ cancelled' = cancelled \cup {registry[m]}
      /\ TypeOK'
  BY InsertFacts
<1>2. /\ registry'[m] = n
      /\ \A x \in Models \ {m} : registry'[x] = registry[x]
  BY <1>1 DEF SInv, TypeOK
<1>3. \A h \in Gens : rank[h] \in Nat /\ rank[h] <= entries /\ entries \in Nat
  BY DEF SInv, GensOK, TypeOK
<1>4. \A h \in Gens : task'[h].model = task[h].model /\ rank'[h] <= entries + 1
  BY <1>1, <1>3
<1>5. \A d \in Callers \ {c} : caller[d].pc \in {"join", "stop"} =>
          /\ caller[d].old \in Gens /\ caller[d].old # n
          /\ rank'[caller[d].old] = rank[caller[d].old] /\ rank[caller[d].old] < entries + 1
  <2> SUFFICES ASSUME NEW d \in Callers \ {c}, caller[d].pc \in {"join", "stop"}
               PROVE  /\ caller[d].old \in Gens /\ caller[d].old # n
                      /\ rank'[caller[d].old] = rank[caller[d].old]
                      /\ rank[caller[d].old] < entries + 1
    OBVIOUS
  <2>1. /\ caller[d].old \in Gens /\ caller[d].old \in cancelled
        /\ rank[caller[d].old] # 0 /\ rank[caller[d].old] \in Nat
        /\ rank[caller[d].old] <= entries
        /\ task[caller[d].old].model = caller[d].model
    BY OldFacts
  <2> QED
    BY <2>1, <1>1, <1>3
<1>6. registry[m] # 0 =>
        /\ registry[m] \in Gens /\ registry[m] # n
        /\ rank[registry[m]] \in Nat /\ Holds(m, registry[m])
  BY <1>1, HeldFacts DEF Holds
<1>7. CallersOK'
  <2> SUFFICES ASSUME NEW d \in Callers
               PROVE  CallerOK(d)'
    BY DEF CallersOK
  <2>1. CASE d = c
    <3>1. CASE registry[m] = 0
      BY <2>1, <3>1, <1>1 DEF CallerOK, Waits
    <3>2. CASE registry[m] # 0
      <4>1. \A e \in Callers \ {c} : Waits(e)' => caller'[e].gen # n
        BY <1>1 DEF Waits
      <4>2. /\ rank'[registry[m]] = rank[registry[m]] /\ rank[registry[m]] < entries + 1
            /\ task'[registry[m]].model = m
        BY <3>2, <1>1, <1>3, <1>6 DEF Holds
      <4>3. rank'[n] # 0
        BY <1>1, <1>3
      <4> QED
        BY <2>1, <3>2, <4>1, <4>2, <4>3, <1>1, <1>6 DEF CallerOK, Waits
    <3> QED
      BY <3>1, <3>2
  <2>2. CASE d # c
    <3>1. (Waits(d)' <=> Waits(d)) /\ caller'[d] = caller[d] /\ CallerOK(d)
      BY <2>2, <1>1 DEF Waits, SInv, CallersOK
    <3>2. Waits(d) => \A e \in Callers \ {d} : Waits(e)' => caller'[e].gen # caller[d].gen
      BY <2>2, <1>1 DEF SInv, CallersOK, CallerOK, Waits
    <3>3. Waits(d) => /\ caller[d].gen \in Gens \ {n} /\ task'[caller[d].gen] = task[caller[d].gen]
                      /\ rank'[caller[d].gen] = rank[caller[d].gen]
      BY <2>2, <3>1, <1>1 DEF CallerOK
    <3>4. caller[d].pc \in {"join", "stop"} =>
             /\ task'[caller[d].old].model = task[caller[d].old].model
             /\ rank'[caller[d].old] = rank[caller[d].old]
      BY <2>2, <1>4, <1>5
    <3>5. cancelled \subseteq cancelled'
      BY <1>1
    <3> QED
      BY <3>1, <3>2, <3>3, <3>4, <3>5 DEF CallerOK, Waits
  <2> QED
    BY <2>1, <2>2
<1>8. GensOK'
  <2>1. ASSUME NEW g \in Gens
        PROVE  /\ task'[g].pc = "none" <=> g > generation'
               /\ rank'[g] = 0 => task'[g].pc \in {"none", "gate"}
               /\ task'[g].pc = "none" => rank'[g] = 0
               /\ rank'[g] <= entries'
    BY <2>1, <1>1, <1>3, <1>4 DEF SInv, GensOK
  <2>2. ASSUME NEW g \in Gens
        PROVE  \A h \in Gens \ {g} : rank'[g] = rank'[h] => rank'[g] = 0
    <3> SUFFICES ASSUME NEW h \in Gens \ {g}, rank'[g] = rank'[h]
                 PROVE  rank'[g] = 0
      OBVIOUS
    <3>1. g # n /\ h # n
      BY <1>1, <1>3
    <3> QED
      BY <3>1, <1>1 DEF SInv, GensOK
  <2>3. ASSUME NEW g \in Gens, task'[g].pc = "gate"
        PROVE  \E d \in Callers : Waits(d)' /\ caller'[d].gen = g
    <3>1. CASE g = n
      BY <3>1, <2>3, <1>1 DEF Waits
    <3>2. CASE g # n
      <4>1. PICK d \in Callers : Waits(d) /\ caller[d].gen = g
        BY <3>2, <2>3, <1>1 DEF SInv, GensOK
      <4>2. d # c
        BY <4>1, <3>2
      <4> QED
        BY <4>1, <4>2, <1>1 DEF Waits
    <3> QED
      BY <3>1, <3>2
  <2>4. ASSUME NEW g \in Gens, g \in cancelled'
        PROVE  rank'[g] # 0
    BY <2>4, <1>1, <1>3, <1>6 DEF SInv, GensOK, Holds
  <2>5. ASSUME NEW g \in Gens, rank'[g] # 0, g \notin cancelled', task'[g].pc # "done"
        PROVE  registry'[task'[g].model] = g
    <3>1. CASE g = n
      BY <3>1, <1>1, <1>2
    <3>2. CASE g # n
      <4>1. registry[task[g].model] = g /\ task[g].model \in Models
        BY <3>2, <2>5, <1>1 DEF SInv, GensOK, TypeOK
      <4>2. task[g].model # m
        BY <4>1, <3>2, <2>5, <1>1
      <4> QED
        BY <4>1, <4>2, <1>2, <1>4
    <3> QED
      BY <3>1, <3>2
  <2> QED
    BY <2>1, <2>2, <2>3, <2>4, <2>5 DEF GensOK
<1>9. RegistryOK'
  <2> SUFFICES ASSUME NEW x \in Models, registry'[x] # 0
               PROVE  Holds(x, registry[x])'
    BY DEF RegistryOK
  <2>1. CASE x = m
    <3>1. n \notin cancelled' /\ task'[n].pc # "done" /\ rank'[n] # 0
      BY <1>1, <1>3, <1>6
    <3> QED
      BY <2>1, <3>1, <1>1, <1>2, <1>4 DEF Holds
  <2>2. CASE x # m
    <3>1. /\ registry'[x] = registry[x] /\ registry[x] \in Gens
          /\ rank[registry[x]] \in Nat /\ Holds(x, registry[x])
      BY <2>2, <1>2, HeldFacts
    <3>2. registry[x] # n /\ registry[x] \notin cancelled'
      BY <2>2, <3>1, <1>1, <1>6 DEF Holds
    <3>3. \A g \in Gens : task'[g].model = x => g # n
      BY <2>2, <1>1
    <3> QED
      BY <3>1, <3>2, <3>3, <1>1 DEF Holds
  <2> QED
    BY <2>1, <2>2
<1>10. LineOK'
  <2>1. ASSUME NEW g \in Gens, NEW h \in Gens, h # n,
               StopsBefore(g, h), g # n
        PROVE  StopsBefore(g, h)'
    BY <2>1, <1>1, <1>5 DEF StopsBefore
  <2>2. ASSUME NEW h \in Gens, h # n, StopCovers(h)
        PROVE  StopCovers(h)' /\ StopsBefore(n, h)'
    BY <2>2, <1>1, <1>5 DEF StopsBefore, StopCovers
  <2>3. ASSUME NEW g \in Gens, NEW h \in Gens, h # n, JoinsBefore(g, h)
        PROVE  JoinsBefore(g, h)'
    BY <2>3, <1>1, <1>5 DEF JoinsBefore
  <2>4. ASSUME NEW g \in Gens, NEW h \in Gens, rank'[h] # 0, rank'[h] < rank'[g],
               task'[h].model = task'[g].model, task'[h].pc # "done"
        PROVE  StopsBefore(g, h)' \/ JoinsBefore(g, h)'
    <3>1. h # n
      BY <2>4, <1>1, <1>3, <1>4
    <3>2. CASE g = n
      <4>1. rank[h] # 0 /\ task[h].pc # "done" /\ task[h].model = m /\ rank'[h] = rank[h]
        BY <2>4, <3>1, <3>2, <1>1
      <4>2. CASE registry[m] = 0
        BY <4>1, <4>2, <3>1, <3>2, <2>2 DEF SInv, LineOK
      <4>3. CASE registry[m] # 0
        <5>1. rank[h] <= rank[registry[m]] /\ rank'[registry[m]] = rank[registry[m]]
          BY <4>1, <4>3, <1>1, <1>6 DEF Holds
        <5> QED
          BY <4>1, <4>3, <5>1, <3>2, <1>1 DEF JoinsBefore
      <4> QED
        BY <4>2, <4>3
    <3>3. CASE g # n
      <4>1. StopsBefore(g, h) \/ JoinsBefore(g, h)
        BY <2>4, <3>1, <3>3, <1>1 DEF SInv, LineOK
      <4> QED
        BY <4>1, <3>1, <3>3, <2>1, <2>3
    <3> QED
      BY <3>2, <3>3
  <2>5. ASSUME NEW h \in Gens, rank'[h] # 0, task'[h].pc # "done", registry'[task'[h].model] = 0
        PROVE  StopCovers(h)'
    <3>1. h # n /\ task[h].model # m
      BY <2>5, <1>1, <1>2, <1>4
    <3>2. task[h].model \in Models
      BY <3>1, <2>5, <1>1 DEF SInv, GensOK, TypeOK
    <3>3. StopCovers(h)
      BY <3>1, <3>2, <2>5, <1>1, <1>2 DEF SInv, LineOK
    <3> QED
      BY <3>1, <3>3, <2>2
  <2> QED
    BY <2>4, <2>5 DEF LineOK
<1> QED
  BY <1>1, <1>7, <1>8, <1>9, <1>10 DEF SInv

\* Ranks tell requests apart.
LEMMA RankFacts ==
  ASSUME SInv, NEW g \in Gens, NEW h \in Gens
  PROVE  /\ rank[g] \in Nat /\ rank[h] \in Nat
         /\ rank[g] = rank[h] /\ rank[g] # 0 => g = h
         /\ rank[h] < rank[g] => rank[g] # 0
  BY DEF SInv, GensOK, TypeOK

\* Nobody joins for a task that is past its gate.
LEMMA NoJoin ==
  ASSUME SInv, NEW g \in Gens, task[g].pc # "gate", NEW h \in Gens
  PROVE  ~ JoinsBefore(g, h)
  BY DEF SInv, CallersOK, CallerOK, Waits, JoinsBefore

\* What a command waited for is over: an earlier request that is not over is
\* waited for by a cancel that came before.
LEMMA OldDone ==
  ASSUME SInv, NEW c \in Callers, caller[c].pc \in {"join", "stop"},
         NEW o, o = caller[c].old, task[o].pc = "done",
         NEW h \in Gens, rank[h] # 0, task[h].pc # "done",
         task[h].model = caller[c].model, rank[h] <= rank[o]
  PROVE  StopsBefore(o, h)
<1>1. /\ o \in Gens /\ rank[o] # 0 /\ task[o].model = caller[c].model
  BY OldFacts
<1>2. rank[h] < rank[o]
  <2>1. h # o
    OBVIOUS
  <2> QED
    BY <2>1, <1>1, RankFacts
<1> QED
  BY <1>1, <1>2, NoJoin DEF SInv, LineOK

\* A task past its gate that goes on, and is not done, keeps the order.
LEMMA InnerKeeps ==
  ASSUME SInv, TypeOK', NEW g \in Gens, task[g].pc \in Starts, task'[g].pc \in Starts,
         task'[g].model = task[g].model, \A h \in Gens \ {g} : task'[h] = task[h],
         UNCHANGED <<generation, registry, cancelled, caller, rank, entries>>
  PROVE  SInv'
<1>1. \A h \in Gens : /\ task'[h].model = task[h].model
                      /\ task'[h].pc = "done" <=> task[h].pc = "done"
                      /\ task'[h].pc = "gate" <=> task[h].pc = "gate"
                      /\ task'[h].pc = "none" <=> task[h].pc = "none"
  BY DEF Starts
<1>2. CallersOK'
  <2>1. \A c \in Callers : (Waits(c)' <=> Waits(c)) /\ caller'[c] = caller[c] /\ CallerOK(c)
    BY DEF SInv, CallersOK, Waits
  <2>2. \A c \in Callers : caller[c].pc \in {"join", "stop"} => caller[c].old \in Gens
    BY OldFacts
  <2> QED
    BY <1>1, <2>1, <2>2 DEF CallersOK, CallerOK
<1>3. GensOK'
  BY <1>1 DEF SInv, GensOK, Waits
<1>4. RegistryOK'
  <2> SUFFICES ASSUME NEW x \in Models, registry[x] # 0
               PROVE  Holds(x, registry[x])'
    BY DEF RegistryOK
  <2> QED
    BY <1>1, HeldFacts DEF Holds
<1>5. LineOK'
  BY <1>1 DEF SInv, LineOK, StopCovers, StopsBefore, JoinsBefore
<1> QED
  BY <1>2, <1>3, <1>4, <1>5 DEF SInv

\* A command that is not about a request begins or ends, as a cancel does when the
\* task it waited for is over: the order is kept.
LEMMA TurnKeeps ==
  ASSUME SInv, TypeOK', NEW c \in Callers,
         caller[c].pc \in {"idle", "delete", "stop"}, caller'[c].pc \in {"idle", "delete"},
         caller[c].pc = "stop" => task[caller[c].old].pc = "done",
         caller'[c].pc = "delete" => caller'[c].model \in Models,
         \A d \in Callers \ {c} : caller'[d] = caller[d],
         UNCHANGED <<generation, registry, task, cancelled, rank, entries>>
  PROVE  SInv'
<1>1. \A d \in Callers : /\ Waits(d)' <=> Waits(d)
                         /\ Waits(d) \/ caller'[d].pc = "stop" => caller'[d] = caller[d]
  BY DEF Waits
<1>2. CallersOK'
  <2> SUFFICES ASSUME NEW d \in Callers
               PROVE  CallerOK(d)'
    BY DEF CallersOK
  <2>1. Waits(d) => \A e \in Callers \ {d} : Waits(e)' => caller'[e].gen # caller[d].gen
    BY <1>1 DEF SInv, CallersOK, CallerOK
  <2> QED
    BY <1>1, <2>1 DEF SInv, CallersOK, CallerOK, Waits
<1>3. GensOK'
  <2>1. ASSUME NEW g \in Gens, task[g].pc = "gate"
        PROVE  \E d \in Callers : Waits(d)' /\ caller'[d].gen = g
    BY <2>1, <1>1 DEF SInv, GensOK
  <2> QED
    BY <2>1 DEF SInv, GensOK
<1>4. RegistryOK'
  BY DEF SInv, RegistryOK, Holds
<1>5. LineOK'
  <2>1. ASSUME NEW g \in Gens, NEW h \in Gens, JoinsBefore(g, h)
        PROVE  JoinsBefore(g, h)'
    BY <2>1 DEF JoinsBefore
  <2>2. ASSUME NEW h \in Gens, rank[h] # 0, task[h].pc # "done", StopCovers(h)
        PROVE  StopCovers(h)'
    <3>1. PICK d \in Callers : /\ caller[d].pc = "stop"
                               /\ caller[d].model = task[h].model
                               /\ rank[h] <= rank[caller[d].old]
      BY <2>2 DEF StopCovers
    <3>2. CASE d # c
      BY <3>1, <3>2 DEF StopCovers
    <3>3. CASE d = c
      <4>1. StopsBefore(caller[c].old, h)
        BY <3>1, <3>3, <2>2, OldDone
      <4>2. PICK e \in Callers : /\ caller[e].pc = "stop"
                                 /\ caller[e].model = task[h].model
                                 /\ rank[h] <= rank[caller[e].old]
                                 /\ rank[caller[e].old] < rank[caller[c].old]
        BY <4>1 DEF StopsBefore
      <4>3. e # c
        BY <4>2, <3>1, <3>3, OldFacts
      <4> QED
        BY <4>2, <4>3 DEF StopCovers
    <3> QED
      BY <3>2, <3>3
  <2>3. ASSUME NEW g \in Gens, NEW h \in Gens, rank[h] # 0, task[h].pc # "done",
               StopsBefore(g, h)
        PROVE  StopsBefore(g, h)'
    <3>1. PICK d \in Callers : /\ caller[d].pc = "stop"
                               /\ caller[d].model = task[h].model
                               /\ rank[h] <= rank[caller[d].old]
                               /\ rank[caller[d].old] < rank[g]
      BY <2>3 DEF StopsBefore
    <3>2. CASE d # c
      BY <3>1, <3>2 DEF StopsBefore
    <3>3. CASE d = c
      <4>1. StopsBefore(caller[c].old, h)
        BY <3>1, <3>3, <2>3, OldDone
      <4>2. PICK e \in Callers : /\ caller[e].pc = "stop"
                                 /\ caller[e].model = task[h].model
                                 /\ rank[h] <= rank[caller[e].old]
                                 /\ rank[caller[e].old] < rank[caller[c].old]
        BY <4>1 DEF StopsBefore
      <4>3. e # c /\ rank[caller[e].old] < rank[g]
        <5>1. /\ rank[caller[e].old] \in Nat /\ rank[caller[c].old] \in Nat /\ rank[g] \in Nat
          BY <4>2, <3>1, <3>3, OldFacts, RankFacts
        <5> QED
          BY <5>1, <4>2, <3>1, <3>3
      <4> QED
        BY <4>2, <4>3 DEF StopsBefore
    <3> QED
      BY <3>2, <3>3
  <2> QED
    BY <2>1, <2>2, <2>3 DEF SInv, LineOK
<1> QED
  BY <1>2, <1>3, <1>4, <1>5 DEF SInv

\* A request whose predecessor is over passes its gate; what may still run before
\* it is waited for by a cancel.
LEMMA ReplacedKeeps ==
  ASSUME SInv, TypeOK', NEW c \in Callers, caller[c].pc = "join", caller'[c].pc = "idle",
         task[caller[c].old].pc = "done", NEW n, n = caller[c].gen,
         task'[n].pc = "open", task'[n].model = task[n].model,
         \A h \in Gens \ {n} : task'[h] = task[h],
         \A d \in Callers \ {c} : caller'[d] = caller[d],
         UNCHANGED <<generation, registry, cancelled, rank, entries>>
  PROVE  SInv'
<1>1. /\ n \in Gens /\ task[n].pc = "gate" /\ rank[n] # 0
      /\ task[n].model = caller[c].model
      /\ rank[caller[c].old] < rank[n]
      /\ \A d \in Callers \ {c} : Waits(d) => caller[d].gen # n
  BY DEF SInv, CallersOK, CallerOK, Waits
<1>2. \A h \in Gens : /\ task'[h].model = task[h].model
                      /\ task'[h].pc = "done" <=> task[h].pc = "done"
                      /\ task'[h].pc = "none" <=> task[h].pc = "none"
  BY <1>1
<1>3. \A d \in Callers : Waits(d)' <=> Waits(d) /\ d # c
  BY DEF Waits
<1>4. CallersOK'
  <2> SUFFICES ASSUME NEW d \in Callers, d # c
               PROVE  CallerOK(d)'
    BY DEF CallersOK, CallerOK, Waits
  <2>1. Waits(d) => /\ caller[d].gen \in Gens \ {n}
                    /\ \A e \in Callers \ {d} : Waits(e)' => caller'[e].gen # caller[d].gen
    BY <1>1, <1>3 DEF SInv, CallersOK, CallerOK
  <2>2. caller[d].pc \in {"join", "stop"} => caller[d].old \in Gens
    BY OldFacts
  <2>3. CallerOK(d)
    BY DEF SInv, CallersOK
  <2> QED
    BY <1>2, <1>3, <2>1, <2>2, <2>3 DEF CallerOK
<1>5. GensOK'
  <2>1. ASSUME NEW g \in Gens, task'[g].pc = "gate"
        PROVE  \E d \in Callers : Waits(d)' /\ caller'[d].gen = g
    <3>1. g # n /\ task[g].pc = "gate"
      BY <2>1, <1>1
    <3>2. PICK d \in Callers : Waits(d) /\ caller[d].gen = g
      BY <3>1 DEF SInv, GensOK
    <3> QED
      BY <3>1, <3>2, <1>3
  <2>2. \A g \in Gens : rank[g] = 0 => task'[g].pc \in {"none", "gate"}
    BY <1>1 DEF SInv, GensOK
  <2> QED
    BY <2>1, <2>2, <1>1, <1>2 DEF SInv, GensOK
<1>6. RegistryOK'
  <2> SUFFICES ASSUME NEW x \in Models, registry[x] # 0
               PROVE  Holds(x, registry[x])'
    BY DEF RegistryOK
  <2> QED
    BY <1>2, HeldFacts DEF Holds
<1>7. LineOK'
  <2>1. ASSUME NEW g \in Gens, NEW h \in Gens, StopsBefore(g, h)
        PROVE  StopsBefore(g, h)'
    BY <2>1, <1>2 DEF StopsBefore
  <2>2. ASSUME NEW h \in Gens, StopCovers(h)
        PROVE  StopCovers(h)'
    BY <2>2, <1>2 DEF StopCovers
  <2>3. ASSUME NEW g \in Gens \ {n}, NEW h \in Gens, JoinsBefore(g, h)
        PROVE  JoinsBefore(g, h)'
    BY <2>3 DEF JoinsBefore
  <2>4. ASSUME NEW h \in Gens, rank[h] # 0, task[h].pc # "done", task[h].model = task[n].model,
               JoinsBefore(n, h)
        PROVE  StopsBefore(n, h)
    <3>1. rank[h] <= rank[caller[c].old]
      BY <2>4, <1>1 DEF JoinsBefore, Waits
    <3>2. StopsBefore(caller[c].old, h)
      BY <3>1, <2>4, <1>1, OldDone
    <3>3. PICK e \in Callers : /\ caller[e].pc = "stop"
                               /\ caller[e].model = task[h].model
                               /\ rank[h] <= rank[caller[e].old]
                               /\ rank[caller[e].old] < rank[caller[c].old]
      BY <3>2 DEF StopsBefore
    <3>4. /\ rank[caller[e].old] \in Nat /\ rank[caller[c].old] \in Nat /\ rank[n] \in Nat
      BY <3>3, <1>1, OldFacts, RankFacts
    <3> QED
      BY <3>3, <3>4, <1>1 DEF StopsBefore
  <2> QED
    BY <2>1, <2>2, <2>3, <2>4, <1>2 DEF SInv, LineOK
<1> QED
  BY <1>4, <1>5, <1>6, <1>7 DEF SInv

\* A cancel takes the last request off the registry and waits for it.
LEMMA CancelKeeps ==
  ASSUME SInv, TypeOK', NEW c \in Callers, NEW m \in Models, registry[m] # 0,
         NEW r, r = registry[m], caller[c].pc = "idle",
         caller'[c].pc = "stop", caller'[c].old = r, caller'[c].model = m,
         \A d \in Callers \ {c} : caller'[d] = caller[d],
         registry' = [registry EXCEPT ![m] = 0], cancelled' = cancelled \cup {r},
         UNCHANGED <<generation, task, rank, entries>>
  PROVE  SInv'
<1>1. r \in Gens /\ rank[r] \in Nat /\ Holds(m, r)
  BY HeldFacts
<1>2. /\ registry'[m] = 0
      /\ \A x \in Models \ {m} : registry'[x] = registry[x]
  BY DEF SInv, TypeOK
<1>3. \A d \in Callers : /\ Waits(d)' <=> Waits(d)
                         /\ d # c <=> caller'[d] = caller[d]
  BY DEF Waits
<1>4. CallersOK'
  <2> SUFFICES ASSUME NEW d \in Callers
               PROVE  CallerOK(d)'
    BY DEF CallersOK
  <2>1. Waits(d) => \A e \in Callers \ {d} : Waits(e)' => caller'[e].gen # caller[d].gen
    BY <1>3 DEF SInv, CallersOK, CallerOK, Waits
  <2>2. CASE d = c
    BY <2>2, <1>1 DEF CallerOK, Waits, Holds
  <2>3. CASE d # c
    BY <2>1, <2>3, <1>3 DEF SInv, CallersOK, CallerOK
  <2> QED
    BY <2>2, <2>3
<1>5. GensOK'
  <2>1. ASSUME NEW g \in Gens, task[g].pc = "gate"
        PROVE  \E d \in Callers : Waits(d)' /\ caller'[d].gen = g
    <3>1. PICK d \in Callers : Waits(d) /\ caller[d].gen = g
      BY <2>1 DEF SInv, GensOK
    <3> QED
      BY <3>1, <1>3 DEF Waits
  <2>2. ASSUME NEW g \in Gens, rank[g] # 0, g \notin cancelled', task[g].pc # "done"
        PROVE  registry'[task[g].model] = g
    <3>1. registry[task[g].model] = g /\ task[g].model \in Models
      BY <2>2 DEF SInv, GensOK, TypeOK
    <3> QED
      BY <3>1, <2>2, <1>2
  <2> QED
    BY <2>1, <2>2, <1>1 DEF SInv, GensOK, Holds
<1>6. RegistryOK'
  <2> SUFFICES ASSUME NEW x \in Models, registry'[x] # 0
               PROVE  Holds(x, registry[x])'
    BY DEF RegistryOK
  <2>1. x # m /\ registry'[x] = registry[x]
    BY <1>2
  <2> QED
    BY <2>1, <1>1, HeldFacts DEF Holds
<1>7. LineOK'
  <2>1. ASSUME NEW g \in Gens, NEW h \in Gens, StopsBefore(g, h)
        PROVE  StopsBefore(g, h)'
    BY <2>1 DEF StopsBefore
  <2>2. ASSUME NEW h \in Gens, StopCovers(h)
        PROVE  StopCovers(h)'
    BY <2>2 DEF StopCovers
  <2>3. ASSUME NEW g \in Gens, NEW h \in Gens, JoinsBefore(g, h)
        PROVE  JoinsBefore(g, h)'
    BY <2>3 DEF JoinsBefore
  <2>4. ASSUME NEW h \in Gens, rank[h] # 0, task[h].pc # "done", registry'[task[h].model] = 0
        PROVE  StopCovers(h)'
    <3>1. CASE task[h].model = m
      BY <3>1, <1>1 DEF Holds, StopCovers
    <3>2. CASE task[h].model # m
      <4>1. task[h].model \in Models
        BY <2>4 DEF SInv, GensOK, TypeOK
      <4> QED
        BY <4>1, <3>2, <2>4, <2>2, <1>2 DEF SInv, LineOK
    <3> QED
      BY <3>1, <3>2
  <2> QED
    BY <2>1, <2>3, <2>4 DEF SInv, LineOK
<1> QED
  BY <1>4, <1>5, <1>6, <1>7 DEF SInv

\* A task that leaves takes only its own entry off the registry.
LEMMA LeaveKeeps ==
  ASSUME SInv, TypeOK', NEW r \in Gens, task[r].pc = "leave", task'[r].pc = "done",
         task'[r].model = task[r].model, \A h \in Gens \ {r} : task'[h] = task[h],
         registry' = Left(task[r].model, r),
         UNCHANGED <<generation, cancelled, caller, rank, entries>>
  PROVE  SInv'
<1> DEFINE m == task[r].model
<1>1. \A h \in Gens : /\ task'[h].model = task[h].model
                      /\ task'[h].pc = "gate" <=> task[h].pc = "gate"
                      /\ task'[h].pc = "none" <=> task[h].pc = "none"
                      /\ task'[h].pc = "done" <=> (task[h].pc = "done" \/ h = r)
  OBVIOUS
<1>2. /\ m \in Models /\ rank[r] # 0
  BY DEF SInv, TypeOK, GensOK
<1>3. /\ registry[m] = r => registry'[m] = 0
      /\ registry[m] # r => registry'[m] = registry[m]
      /\ \A x \in Models \ {m} : registry'[x] = registry[x]
  BY <1>2 DEF SInv, TypeOK, Left
<1>4. CallersOK'
  <2>1. \A c \in Callers : (Waits(c)' <=> Waits(c)) /\ caller'[c] = caller[c] /\ CallerOK(c)
    BY DEF SInv, CallersOK, Waits
  <2>2. \A c \in Callers : caller[c].pc \in {"join", "stop"} => caller[c].old \in Gens
    BY OldFacts
  <2> QED
    BY <1>1, <2>1, <2>2 DEF CallersOK, CallerOK
<1>5. GensOK'
  <2>1. ASSUME NEW g \in Gens, rank[g] # 0, g \notin cancelled, task'[g].pc # "done"
        PROVE  registry'[task'[g].model] = g
    <3>1. g # r /\ registry[task[g].model] = g /\ task[g].model \in Models
      BY <2>1, <1>1 DEF SInv, GensOK, TypeOK
    <3> QED
      BY <3>1, <1>1, <1>3
  <2>2. \A g \in Gens : rank[g] = 0 => task'[g].pc \in {"none", "gate"}
    BY <1>2 DEF SInv, GensOK
  <2> QED
    BY <2>1, <2>2, <1>1 DEF SInv, GensOK, Waits
<1>6. RegistryOK'
  <2> SUFFICES ASSUME NEW x \in Models, registry'[x] # 0
               PROVE  Holds(x, registry[x])'
    BY DEF RegistryOK
  <2>1. registry'[x] = registry[x] /\ registry[x] # 0
    BY <1>3
  <2>2. registry[x] \in Gens /\ rank[registry[x]] \in Nat /\ Holds(x, registry[x])
    BY <2>1, HeldFacts
  <2>3. registry[x] # r
    BY <2>1, <2>2, <1>3 DEF Holds
  <2> QED
    BY <2>1, <2>2, <2>3, <1>1 DEF Holds
<1>7. LineOK'
  <2>1. ASSUME NEW g \in Gens, NEW h \in Gens, StopsBefore(g, h)
        PROVE  StopsBefore(g, h)' /\ StopCovers(h)'
    BY <2>1, <1>1 DEF StopsBefore, StopCovers
  <2>2. ASSUME NEW h \in Gens, StopCovers(h)
        PROVE  StopCovers(h)'
    BY <2>2, <1>1 DEF StopCovers
  <2>3. ASSUME NEW g \in Gens, NEW h \in Gens, JoinsBefore(g, h)
        PROVE  JoinsBefore(g, h)'
    BY <2>3 DEF JoinsBefore
  <2>4. ASSUME NEW h \in Gens, rank[h] # 0, task'[h].pc # "done", registry'[task[h].model] = 0
        PROVE  StopCovers(h)'
    <3>1. h # r /\ task[h].pc # "done" /\ task[h].model \in Models
      BY <2>4, <1>1 DEF SInv, GensOK, TypeOK
    <3>2. CASE registry[task[h].model] = 0
      BY <3>1, <3>2, <2>2, <2>4 DEF SInv, LineOK
    <3>3. CASE registry[task[h].model] # 0
      <4>1. registry[task[h].model] = r /\ task[h].model = m
        BY <3>1, <3>3, <2>4, <1>3
      <4>2. rank[h] <= rank[r]
        BY <4>1, <3>3, <1>2, HeldFacts DEF Holds
      <4>3. rank[h] < rank[r]
        BY <4>2, <3>1, <2>4, RankFacts
      <4>4. StopsBefore(r, h)
        BY <4>1, <4>3, <3>1, <2>4, NoJoin DEF SInv, LineOK
      <4> QED
        BY <4>4, <2>1
    <3> QED
      BY <3>2, <3>3
  <2> QED
    BY <2>1, <2>3, <2>4, <1>1 DEF SInv, LineOK
<1> QED
  BY <1>4, <1>5, <1>6, <1>7 DEF SInv

(***************************************************************************)
(* Files and news                                                          *)
(***************************************************************************)
\* A part file exists only while its task works on it, and is whole once it
\* has passed the checksum.
PartsOK ==
    \A g \in Gens :
        /\ task[g].pc \in {"none", "gate", "open", "emit", "leave", "done"} => part[g] = "none"
        /\ task[g].pc \in {"finalize", "unpack", "promote"} => part[g] = "whole"

At(pc, m) == \E g \in Gens : task[g].pc = pc /\ task[g].model = m

\* A model that is or will be told complete, and is not being unpacked again, is
\* whole or was interfered with.
ToldOK ==
    \A m \in Models : (told[m] = "completed" \/ At("emit", m)) /\ ~ At("unpack", m)
                       => installed[m] = "whole" \/ m \in mauled

IInv == SInv /\ PartsOK /\ ToldOK

LEMMA InitInv == Init => IInv
<1> SUFFICES ASSUME Init PROVE IInv
  OBVIOUS
<1>1. \A g \in Gens : task[g].pc = "none" /\ part[g] = "none"
  BY DEF Init, NoTask
<1>2. \A m \in Models : told[m] # "completed"
  BY DEF Init
<1> QED
  BY <1>1, <1>2, InitStructure DEF IInv, PartsOK, ToldOK, At

\* What every step of a task does to the order.
LEMMA TaskFacts ==
  ASSUME SInv, NEW g \in Gens, Proceed(g)
  PROVE  /\ task[g].pc \in Starts /\ task[g].model \in Models /\ task'[g].model = task[g].model
         /\ \A h \in Gens \ {g} : task'[h] = task[h]
         /\ UNCHANGED <<generation, cancelled, caller, rank, entries, packed>>
         /\ \/ task'[g].pc \in Starts /\ registry' = registry /\ task[g].pc # "leave"
            \/ task[g].pc = "leave" /\ task'[g].pc = "done" /\ registry' = Left(task[g].model, g)
         /\ task' \in TaskType
         /\ \A h \in Gens : task'[h].pc # "none" => task'[h].model \in Models
<1>1. task[g].pc \in Starts
  BY DEF Proceed, Starts, Start, Download, Verify, Finalize, Unpack, Promote, Complete, Cleanup, Leave
<1>2. task[g].pc # "none" /\ task[g].model \in Models
  BY <1>1 DEF Starts, SInv, TypeOK
<1>3. UNCHANGED <<generation, cancelled, caller, rank, entries, packed>>
  BY DEF Proceed, Start, Download, Verify, Finalize, Unpack, Promote, Complete, Cleanup, Leave,
         entered
<1>4. \/ registry' = registry /\ task[g].pc # "leave" /\ \E pc \in Starts : Goes(g, pc)
      \/ task[g].pc = "leave" /\ Goes(g, "done") /\ registry' = Left(task[g].model, g)
  <2>1. CASE Start(g)
    BY <2>1 DEF Start, Starts
  <2>2. CASE Download(g)
    BY <2>2 DEF Download, Starts, Fails
  <2>3. CASE Verify(g)
    BY <2>3 DEF Verify, Starts, Fails
  <2>4. CASE Finalize(g)
    BY <2>4 DEF Finalize, Starts
  <2>5. CASE Unpack(g)
    BY <2>5 DEF Unpack, Starts, Fails
  <2>6. CASE Promote(g)
    BY <2>6 DEF Promote, Starts, Fails
  <2>7. CASE Complete(g)
    BY <2>7 DEF Complete, Starts
  <2>8. CASE Cleanup(g)
    BY <2>8 DEF Cleanup, Starts
  <2>9. CASE Leave(g)
    BY <2>9 DEF Leave
  <2> QED
    BY <2>1, <2>2, <2>3, <2>4, <2>5, <2>6, <2>7, <2>8, <2>9 DEF Proceed
<1>5. Starts \subseteq TaskPcs /\ "done" \in TaskPcs
  BY DEF Starts, TaskPcs
<1>6. PICK pc \in TaskPcs : /\ Goes(g, pc)
                            /\ \/ pc \in Starts /\ registry' = registry /\ task[g].pc # "leave"
                               \/ /\ task[g].pc = "leave" /\ pc = "done"
                                  /\ registry' = Left(task[g].model, g)
  BY <1>4, <1>5
<1>7. /\ task' \in TaskType
      /\ \A h \in Gens \ {g} : task'[h] = task[h]
      /\ task'[g].pc = pc /\ task'[g].model = task[g].model
      /\ \A h \in Gens : task'[h].pc # "none" => task'[h].model \in Models
  BY <1>2, <1>6, GoesType DEF SInv
<1> QED
  BY <1>1, <1>2, <1>3, <1>6, <1>7

\* The values of the files and the news after a step of a task.
LEMMA TaskFileTypes ==
  ASSUME SInv, NEW g \in Gens, Proceed(g)
  PROVE  /\ part' \in [Gens -> Contents] /\ installed' \in [Models -> Contents]
         /\ told' \in [Models -> Events] /\ mauled' \subseteq Models
<1> USE DEF SInv, TypeOK, Contents, Events, files, news
<1>0. task[g].model \in Models
  BY TaskFacts
<1>1. CASE Start(g)
  BY <1>1 DEF Start, Tells
<1>2. CASE Download(g)
  BY <1>2 DEF Download, Tells, Fails
<1>3. CASE Verify(g)
  BY <1>3 DEF Verify, Tells, Fails
<1>4. CASE Finalize(g)
  BY <1>4 DEF Finalize
<1>5. CASE Unpack(g)
  BY <1>5, <1>0 DEF Unpack, Tells, Fails
<1>6. CASE Promote(g)
  BY <1>6, <1>0 DEF Promote, Tells, Fails
<1>7. CASE Complete(g)
  BY <1>7 DEF Complete, Tells
<1>8. CASE Cleanup(g)
  BY <1>8 DEF Cleanup
<1>9. CASE Leave(g)
  BY <1>9 DEF Leave
<1> QED
  BY <1>1, <1>2, <1>3, <1>4, <1>5, <1>6, <1>7, <1>8, <1>9 DEF Proceed

\* A step of a task keeps the order.
LEMMA TaskKeeps ==
  ASSUME SInv, NEW g \in Gens, Proceed(g)
  PROVE  SInv'
<1>1. /\ task[g].pc \in Starts /\ task[g].model \in Models /\ task'[g].model = task[g].model
      /\ \A h \in Gens \ {g} : task'[h] = task[h]
      /\ UNCHANGED <<generation, cancelled, caller, rank, entries, packed>>
      /\ \/ task'[g].pc \in Starts /\ registry' = registry /\ task[g].pc # "leave"
         \/ task[g].pc = "leave" /\ task'[g].pc = "done" /\ registry' = Left(task[g].model, g)
      /\ task' \in TaskType
      /\ \A h \in Gens : task'[h].pc # "none" => task'[h].model \in Models
  BY TaskFacts
<1>2. registry' \in [Models -> 0 .. generation']
  <2>1. generation' = generation /\ 0 \in 0 .. generation /\ registry \in [Models -> 0 .. generation]
    BY <1>1, BoundAssumption DEF SInv, TypeOK
  <2> QED
    BY <2>1, <1>1 DEF Left
<1>3. TypeOK'
  BY <1>1, <1>2, TaskFileTypes DEF SInv, TypeOK, TaskType
<1>4. CASE task'[g].pc \in Starts /\ registry' = registry
  BY <1>1, <1>3, <1>4, InnerKeeps
<1>5. CASE task[g].pc = "leave" /\ task'[g].pc = "done" /\ registry' = Left(task[g].model, g)
  BY <1>1, <1>3, <1>5, LeaveKeeps
<1> QED
  BY <1>1, <1>4, <1>5

\* A command that is not about a request keeps the types when it begins or ends.
LEMMA TurnType ==
  ASSUME SInv, NEW c \in Callers, NEW s, caller' = [caller EXCEPT ![c] = s], caller' \in CallerType,
         UNCHANGED <<packed, generation, task, rank, entries>>,
         registry' \in [Models -> 0 .. generation], cancelled' \subseteq Gens,
         part' \in [Gens -> Contents], installed' \in [Models -> Contents],
         told' \in [Models -> Events], mauled' \subseteq Models
  PROVE  /\ TypeOK' /\ caller'[c] = s
         /\ \A d \in Callers \ {c} : caller'[d] = caller[d]
<1>1. TypeOK'
  BY DEF SInv, TypeOK, CallerType
<1> QED
  BY <1>1 DEF SInv, TypeOK

\* A command keeps the order when it begins.
LEMMA CommandKeeps ==
  ASSUME SInv, NEW c \in Callers, Command(c)
  PROVE  SInv'
<1> USE GensAreNat
<1>1. PICK m \in Models : /\ Request(c, m) \/ Cancel(c, m) \/ Delete(c, m)
                          /\ UNCHANGED packed
  BY DEF Command
<1>2. CASE Request(c, m)
  BY <1>1, <1>2, RequestKeeps
<1>3. CASE Cancel(c, m)
  <2>1. registry[m] \in Gens
    BY <1>3, HeldFacts DEF Cancel
  <2>2. caller' = [caller EXCEPT ![c] = Call("stop", 0, registry[m], m)]
    BY <1>3 DEF Cancel
  <2>3. caller' \in CallerType
    BY <2>1, <2>2, CallType DEF SInv
  <2>4. registry' \in [Models -> 0 .. generation] /\ cancelled' \subseteq Gens
    <3>1. 0 \in 0 .. generation
      BY BoundAssumption DEF SInv, TypeOK
    <3> QED
      BY <3>1, <2>1, <1>3 DEF Cancel, SInv, TypeOK
  <2>5. UNCHANGED <<packed, generation, task, rank, entries, part, installed, told, mauled>>
    BY <1>1, <1>3 DEF Cancel, files, news, entered
  <2>6. /\ part' \in [Gens -> Contents] /\ installed' \in [Models -> Contents]
        /\ told' \in [Models -> Events] /\ mauled' \subseteq Models
    BY <2>5 DEF SInv, TypeOK
  <2>7. /\ TypeOK' /\ caller'[c] = Call("stop", 0, registry[m], m)
        /\ \A d \in Callers \ {c} : caller'[d] = caller[d]
    BY <2>2, <2>3, <2>4, <2>5, <2>6, TurnType
  <2>8. /\ caller'[c].pc = "stop" /\ caller'[c].old = registry[m] /\ caller'[c].model = m
        /\ caller[c].pc = "idle"
    BY <2>7, <1>3, CallFields DEF Cancel, Free
  <2>9. /\ registry[m] # 0 /\ registry' = [registry EXCEPT ![m] = 0]
        /\ cancelled' = cancelled \cup {registry[m]}
    BY <1>3 DEF Cancel
  <2> QED
    BY <2>5, <2>7, <2>8, <2>9, CancelKeeps
<1>4. CASE Delete(c, m)
  <2>1. /\ caller' = [caller EXCEPT ![c] = Call("delete", 0, 0, m)]
        /\ UNCHANGED <<packed, generation, registry, task, cancelled, rank, entries, part, installed,
                       told, mauled>>
        /\ caller[c] = Free
    BY <1>1, <1>4 DEF Delete, files, news, entered
  <2>2. caller' \in CallerType
    BY <2>1, CallType DEF SInv
  <2>3. /\ part' \in [Gens -> Contents] /\ installed' \in [Models -> Contents]
        /\ told' \in [Models -> Events] /\ mauled' \subseteq Models
        /\ registry' \in [Models -> 0 .. generation] /\ cancelled' \subseteq Gens
    BY <2>1 DEF SInv, TypeOK
  <2>4. /\ TypeOK' /\ caller'[c] = Call("delete", 0, 0, m)
        /\ \A d \in Callers \ {c} : caller'[d] = caller[d]
    BY <2>1, <2>2, <2>3, TurnType
  <2>5. caller'[c].pc = "delete" /\ caller'[c].model = m /\ caller[c].pc = "idle"
    BY <2>1, <2>4, CallFields DEF Free
  <2> QED
    BY <2>1, <2>4, <2>5, TurnKeeps
<1> QED
  BY <1>1, <1>2, <1>3, <1>4

\* What the opening of a gate does.
LEMMA ReplacedType ==
  ASSUME SInv, NEW c \in Callers, Replaced(c), UNCHANGED packed
  PROVE  /\ TypeOK' /\ caller'[c].pc = "idle" /\ caller[c].gen \in Gens
         /\ \A d \in Callers \ {c} : caller'[d] = caller[d]
         /\ task'[caller[c].gen].pc = "open"
         /\ task'[caller[c].gen].model = task[caller[c].gen].model
         /\ \A h \in Gens \ {caller[c].gen} : task'[h] = task[h]
<1>1. caller[c].gen \in Gens /\ task[caller[c].gen].pc = "gate" /\ "open" \in TaskPcs
  BY DEF Replaced, SInv, CallersOK, CallerOK, Waits, TaskPcs
<1>2. caller' = [caller EXCEPT ![c] = Free] /\ Goes(caller[c].gen, "open")
  BY DEF Replaced, Goes
<1>3. caller' \in CallerType
  BY <1>2, FreeType DEF SInv
<1>4. /\ task' \in TaskType
      /\ \A h \in Gens \ {caller[c].gen} : task'[h] = task[h]
      /\ task'[caller[c].gen].pc = "open"
      /\ task'[caller[c].gen].model = task[caller[c].gen].model
      /\ \A h \in Gens : task'[h].pc # "none" => task'[h].model \in Models
  BY <1>1, <1>2, GoesType DEF SInv
<1>5. TypeOK'
  BY <1>3, <1>4 DEF Replaced, SInv, TypeOK, TaskType, CallerType, files, news, entered
<1>6. /\ caller'[c] = Free
      /\ \A d \in Callers \ {c} : caller'[d] = caller[d]
  BY <1>2 DEF SInv, TypeOK
<1> QED
  BY <1>1, <1>4, <1>5, <1>6, CallFields DEF Free

\* A command keeps the order when it goes on.
LEMMA ReturnKeeps ==
  ASSUME SInv, NEW c \in Callers, Return(c)
  PROVE  SInv'
<1> USE GensAreNat
<1>1. CASE Insert(c)
  BY <1>1, InsertKeeps DEF Return
<1>2. CASE Replaced(c)
  <2>1. /\ caller[c].pc = "join" /\ task[caller[c].old].pc = "done"
        /\ UNCHANGED <<generation, registry, cancelled, rank, entries>>
    BY <1>2 DEF Replaced, entered
  <2> QED
    BY <1>2, <2>1, ReplacedType, ReplacedKeeps DEF Return
<1>3. CASE Cancelled(c) \/ Deleted(c)
  <2>1. /\ caller' = [caller EXCEPT ![c] = Free]
        /\ UNCHANGED <<packed, generation, registry, task, cancelled, rank, entries>>
        /\ caller[c].pc \in {"delete", "stop"}
        /\ caller[c].pc = "stop" => task[caller[c].old].pc = "done"
    BY <1>3 DEF Return, Cancelled, Deleted, entered
  <2>2. caller' \in CallerType
    BY <2>1, FreeType DEF SInv
  <2>3. /\ registry' \in [Models -> 0 .. generation] /\ cancelled' \subseteq Gens
    BY <2>1 DEF SInv, TypeOK
  <2>4. /\ part' \in [Gens -> Contents] /\ installed' \in [Models -> Contents]
        /\ told' \in [Models -> Events] /\ mauled' \subseteq Models
    <3>1. CASE Cancelled(c)
      BY <3>1 DEF Cancelled, SInv, TypeOK, Contents, Events
    <3>2. CASE Deleted(c)
      <4>1. caller[c].model \in Models
        BY <3>2 DEF Deleted, SInv, CallersOK, CallerOK
      <4> QED
        BY <3>2, <4>1 DEF Deleted, SInv, TypeOK, Contents
    <3> QED
      BY <1>3, <3>1, <3>2
  <2>5. /\ TypeOK' /\ caller'[c] = Free
        /\ \A d \in Callers \ {c} : caller'[d] = caller[d]
    BY <2>1, <2>2, <2>3, <2>4, TurnType
  <2>6. caller'[c].pc = "idle"
    BY <2>5, CallFields DEF Free
  <2> QED
    BY <2>1, <2>5, <2>6, TurnKeeps
<1> QED
  BY <1>1, <1>2, <1>3 DEF Return

\* A command leaves the part files of tasks at work alone, and tells nobody that a
\* model is complete.
LEMMA CommandFiles ==
  ASSUME IInv, SInv', NEW c \in Callers, Command(c) \/ Return(c)
  PROVE  PartsOK' /\ ToldOK'
<1>1. \A g \in Gens : /\ task'[g].pc \in {"none", "gate", "open"} \/ task'[g].pc = task[g].pc
                      /\ task'[g].pc \in {"none", "gate", "open"}
                           => task[g].pc \in {"none", "gate", "open"}
                      /\ task[g].pc \in {"none", "gate", "open"}
                           => task'[g].pc \in {"none", "gate", "open"}
                      /\ task[g].pc \notin {"none", "gate", "open"} => task'[g] = task[g]
  <2>1. CASE Command(c)
    <3>1. PICK m \in Models : Request(c, m) \/ Cancel(c, m) \/ Delete(c, m)
      BY <2>1 DEF Command
    <3>2. CASE Request(c, m)
      <4>1. /\ generation + 1 \in Gens /\ task[generation + 1].pc = "none"
            /\ task'[generation + 1].pc = "gate"
            /\ \A h \in Gens \ {generation + 1} : task'[h] = task[h]
        BY <2>1, <3>2, RequestFacts DEF IInv, Command
      <4> QED
        BY <4>1
    <3>3. CASE Cancel(c, m) \/ Delete(c, m)
      BY <3>3 DEF Cancel, Delete
    <3> QED
      BY <3>1, <3>2, <3>3
  <2>2. CASE Insert(c)
    <3>1. /\ caller[c].gen \in Gens /\ task[caller[c].gen].pc = "gate"
          /\ task'[caller[c].gen].pc \in {"open", "gate"}
          /\ \A h \in Gens \ {caller[c].gen} : task'[h] = task[h]
      <4>1. UNCHANGED packed
        BY DEF Return, Command
      <4> QED
        BY <2>2, <4>1, InsertFacts DEF IInv
    <3> QED
      BY <3>1
  <2>3. CASE Replaced(c)
    <3>1. caller[c].gen \in Gens /\ task[caller[c].gen].pc = "gate"
      BY <2>3 DEF Replaced, IInv, SInv, CallersOK, CallerOK, Waits
    <3>2. task' = [task EXCEPT ![caller[c].gen].pc = "open"]
      BY <2>3 DEF Replaced
    <3> QED
      BY <3>1, <3>2 DEF IInv, SInv, TypeOK
  <2>4. CASE Cancelled(c) \/ Deleted(c)
    BY <2>4 DEF Cancelled, Deleted
  <2> QED
    BY <2>1, <2>2, <2>3, <2>4 DEF Return
<1>2. \A g \in Gens : part'[g] = part[g] \/ (part'[g] = "none" /\ task[g].pc = "done")
  BY DEF Command, Return, Request, Cancel, Delete, Insert, Replaced, Cancelled, Deleted, files,
         IInv, SInv, TypeOK
<1>3. PartsOK'
  BY <1>1, <1>2 DEF IInv, PartsOK
<1>4. ToldOK'
  <2>1. \A m \in Models : /\ told'[m] = "completed" => told[m] = "completed"
                          /\ installed[m] = "whole" /\ m \notin mauled'
                               => installed'[m] = "whole"
                          /\ m \in mauled => m \in mauled'
    BY DEF Command, Return, Request, Cancel, Delete, Insert, Replaced, Cancelled, Deleted, files,
           news, IInv, SInv, TypeOK
  <2>2. \A m \in Models : /\ At("emit", m)' => At("emit", m)
                          /\ At("unpack", m) => At("unpack", m)'
    BY <1>1 DEF At
  <2> QED
    BY <2>1, <2>2 DEF IInv, ToldOK
<1> QED
  BY <1>3, <1>4

\* A task keeps its part file whole from the checksum on, and gone at the end.
LEMMA TaskParts ==
  ASSUME IInv, NEW g \in Gens, Proceed(g)
  PROVE  PartsOK'
<1> USE DEF IInv, SInv, TypeOK, PartsOK, Goes, Fails, files
<1>1. CASE Start(g) \/ Download(g)
  <2>1. /\ \A h \in Gens \ {g} : task'[h] = task[h]
        /\ task'[g].pc \in {"download", "verify", "cleanup"}
    BY <1>1 DEF Start, Download
  <2>2. \A h \in Gens \ {g} : part'[h] = part[h]
    BY <1>1 DEF Start, Download
  <2> QED
    BY <2>1, <2>2
<1>3. CASE Verify(g)
  <2>1. /\ \A h \in Gens \ {g} : task'[h] = task[h]
        /\ part' = part
        /\ task'[g].pc = "cleanup" \/ (task'[g].pc = "finalize" /\ part[g] = "whole")
    BY <1>3 DEF Verify
  <2> QED
    BY <2>1
<1>4. CASE Finalize(g)
  <2>1. /\ \A h \in Gens \ {g} : task'[h] = task[h]
        /\ part' = part /\ part[g] = "whole"
        /\ task'[g].pc \in {"unpack", "promote"}
    BY <1>4 DEF Finalize
  <2> QED
    BY <2>1
<1>5. CASE Unpack(g)
  BY <1>5 DEF Unpack
<1>6. CASE Promote(g)
  BY <1>6 DEF Promote
<1>7. CASE Complete(g)
  BY <1>7 DEF Complete
<1>8. CASE Cleanup(g)
  BY <1>8 DEF Cleanup
<1>9. CASE Leave(g)
  BY <1>9 DEF Leave
<1> QED
  BY <1>1, <1>3, <1>4, <1>5, <1>6, <1>7, <1>8, <1>9 DEF Proceed

\* A step that neither unpacks nor installs: what is told complete was about to be.
LEMMA PlainTold ==
  ASSUME IInv, NEW g \in Gens, task[g].pc \notin {"unpack", "promote"},
         task'[g].pc \notin {"unpack", "emit"}, task'[g].model = task[g].model,
         \A h \in Gens \ {g} : task'[h] = task[h],
         UNCHANGED <<installed, mauled>>,
         \A m \in Models : told'[m] = "completed" =>
             told[m] = "completed" \/ (task[g].pc = "emit" /\ task[g].model = m)
  PROVE  ToldOK'
<1>1. \A m \in Models : /\ At("emit", m)' => At("emit", m)
                        /\ At("unpack", m) => At("unpack", m)'
                        /\ told'[m] = "completed" => told[m] = "completed" \/ At("emit", m)
  BY DEF At
<1> QED
  BY <1>1 DEF IInv, ToldOK

\* What a task tells is true.
LEMMA TaskTold ==
  ASSUME IInv, NEW g \in Gens, Proceed(g), NEW m, m = task[g].model
  PROVE  ToldOK'
<1>0. /\ m \in Models /\ task'[g].model = m
      /\ \A h \in Gens \ {g} : task'[h] = task[h]
  BY TaskFacts DEF IInv
<1>1. CASE Start(g) \/ Download(g) \/ Verify(g) \/ Complete(g) \/ Cleanup(g) \/ Leave(g)
  <2>1. /\ task[g].pc \notin {"unpack", "promote"} /\ UNCHANGED <<installed, mauled>>
    BY <1>1 DEF Start, Download, Verify, Complete, Cleanup, Leave, files, news
  <2>2. task'[g].pc \notin {"unpack", "emit"}
    BY <1>1 DEF Start, Download, Verify, Complete, Cleanup, Leave, Goes, Fails, IInv, SInv, TypeOK
  <2>3. \A x \in Models : told'[x] = "completed" =>
            told[x] = "completed" \/ (task[g].pc = "emit" /\ task[g].model = x)
    BY <1>1 DEF Start, Download, Verify, Complete, Cleanup, Leave, Tells, Fails, news, IInv, SInv, TypeOK
  <2> QED
    BY <1>0, <2>1, <2>2, <2>3, PlainTold
<1>2. CASE Finalize(g)
  <2>1. task[g].pc = "finalize" /\ told' = told
    BY <1>2 DEF Finalize
  <2>2. CASE m \in packed
    <3>1. /\ task'[g].pc = "unpack"
          /\ installed' = [installed EXCEPT ![m] = "partial"]
          /\ mauled' = mauled \ {m}
      BY <2>2, <1>2 DEF Finalize, Goes, IInv, SInv, TypeOK
    <3>2. \A x \in Models : /\ At("emit", x)' => At("emit", x)
                            /\ At("unpack", x) => At("unpack", x)'
      BY <1>0, <2>1, <3>1 DEF At
    <3>3. At("unpack", m)'
      BY <1>0, <3>1 DEF At
    <3>4. \A x \in Models \ {m} : installed'[x] = installed[x] /\ (x \in mauled => x \in mauled')
      BY <3>1 DEF IInv, SInv, TypeOK
    <3>5. ASSUME NEW x \in Models, told'[x] = "completed" \/ At("emit", x)', ~ At("unpack", x)'
          PROVE  installed'[x] = "whole" \/ x \in mauled'
      <4>1. x # m
        BY <3>3, <3>5
      <4>2. installed[x] = "whole" \/ x \in mauled
        BY <2>1, <3>2, <3>5 DEF IInv, ToldOK
      <4> QED
        BY <4>1, <4>2, <3>4
    <3> QED
      BY <3>5 DEF ToldOK
  <2>3. CASE m \notin packed
    <3>1. task'[g].pc = "promote" /\ UNCHANGED <<installed, mauled>>
      BY <2>3, <1>2 DEF Finalize, Goes, IInv, SInv, TypeOK
    <3> QED
      BY <1>0, <2>1, <3>1, PlainTold
  <2> QED
    BY <2>2, <2>3
<1>3. CASE Unpack(g)
  <2>1. \A x \in Models \ {m} : /\ At("emit", x)' => At("emit", x)
                                /\ At("unpack", x) => At("unpack", x)'
    BY <1>0 DEF At
  <2>2. task[g].pc = "unpack" /\ part[g] = "whole"
    BY <1>3 DEF Unpack, IInv, PartsOK
  <2>3. CASE /\ installed' = [installed EXCEPT ![m] =
                    IF m \in mauled \/ \E h \in Gens \ {g} : task[h].pc = "unpack" /\ task[h].model = m
                    THEN "partial" ELSE part[g]]
             /\ told' = told /\ mauled' = mauled
    <3>2. \/ m \in mauled' \/ At("unpack", m)' \/ installed'[m] = "whole"
      BY <1>0, <2>2, <2>3 DEF At, IInv, SInv, TypeOK
    <3>3. \A x \in Models \ {m} : installed'[x] = installed[x]
      BY <2>3 DEF IInv, SInv, TypeOK
    <3>4. ASSUME NEW x \in Models, told'[x] = "completed" \/ At("emit", x)', ~ At("unpack", x)'
          PROVE  installed'[x] = "whole" \/ x \in mauled'
      <4>1. CASE x = m
        BY <4>1, <3>2, <3>4
      <4>2. CASE x # m
        <5>1. installed[x] = "whole" \/ x \in mauled
          BY <4>2, <2>1, <2>3, <3>4 DEF IInv, ToldOK
        <5> QED
          BY <5>1, <4>2, <2>3, <3>3
      <4> QED
        BY <4>1, <4>2
    <3> QED
      BY <3>4 DEF ToldOK
  <2>4. CASE Fails(g) /\ mauled' = mauled \cup {m} /\ UNCHANGED installed
    <3>1. \A x \in Models \ {m} : told'[x] = told[x]
      BY <2>4 DEF Fails, Tells, IInv, SInv, TypeOK
    <3> QED
      BY <2>1, <2>4, <3>1 DEF IInv, ToldOK
  <2> QED
    BY <1>3, <2>3, <2>4 DEF Unpack, news
<1>4. CASE Promote(g)
  <2>1. task[g].pc = "promote" /\ part[g] = "whole"
    BY <1>4 DEF Promote, IInv, PartsOK
  <2>2. CASE /\ Goes(g, "emit")
             /\ installed' = [installed EXCEPT ![m] = part[g]]
             /\ mauled' = mauled \ {m}
             /\ told' = told
    <3>1. task'[g].pc = "emit"
      BY <2>2 DEF Goes, IInv, SInv, TypeOK
    <3>2. \A x \in Models : At("unpack", x) => At("unpack", x)'
      BY <1>0, <2>1 DEF At
    <3>3. \A x \in Models \ {m} : At("emit", x)' => At("emit", x)
      BY <1>0 DEF At
    <3>4. installed'[m] = "whole" /\ \A x \in Models \ {m} : installed'[x] = installed[x]
      BY <2>1, <2>2, <1>0 DEF IInv, SInv, TypeOK
    <3> QED
      BY <2>2, <3>2, <3>3, <3>4 DEF IInv, ToldOK
  <2>3. CASE Fails(g) /\ UNCHANGED <<files, mauled>>
    <3>1. task'[g].pc = "cleanup"
      BY <2>3 DEF Fails, Goes, IInv, SInv, TypeOK
    <3>2. \A x \in Models : /\ At("emit", x)' => At("emit", x)
                            /\ At("unpack", x) => At("unpack", x)'
                            /\ told'[x] = "completed" => told[x] = "completed"
      BY <1>0, <2>1, <2>3, <3>1 DEF At, Fails, Tells, IInv, SInv, TypeOK
    <3> QED
      BY <2>3, <3>2 DEF IInv, ToldOK, files
  <2> QED
    BY <1>4, <2>2, <2>3 DEF Promote
<1> QED
  BY <1>1, <1>2, <1>3, <1>4 DEF Proceed

\* The invariant is inductive.
LEMMA StepInv == IInv /\ [Next]_vars => IInv'
<1> SUFFICES ASSUME IInv, [Next]_vars PROVE IInv'
  OBVIOUS
<1>1. ASSUME NEW c \in Callers, Command(c) \/ Return(c) PROVE IInv'
  BY <1>1, CommandKeeps, ReturnKeeps, CommandFiles DEF IInv
<1>2. ASSUME NEW g \in Gens, Proceed(g) PROVE IInv'
  BY <1>2, TaskKeeps, TaskParts, TaskTold DEF IInv
<1>3. CASE UNCHANGED vars
  BY <1>3 DEF vars, files, news, entered, IInv, SInv, TypeOK, CallersOK, CallerOK, GensOK, RegistryOK,
              Holds, LineOK, StopCovers, StopsBefore, JoinsBefore, PartsOK, ToldOK, At, Waits
<1> QED
  BY <1>1, <1>2, <1>3 DEF Next

LEMMA AlwaysInv == Spec => []IInv
<1> QED
  BY InitInv, StepInv, PTL DEF Spec

(***************************************************************************)
(* Theorems                                                                *)
(***************************************************************************)
\* Every variable keeps to its values: no request is registered, cancelled or
\* waited for that was never made (manager.rs, downloads_registry.rs).
THEOREM TypeCorrect == Spec => []TypeOK
<1>1. IInv => TypeOK
  BY DEF IInv, SInv
<1> QED
  BY <1>1, AlwaysInv, PTL

\* Two tasks work on the same model only while a cancel of it waits: download
\* (manager.rs) waits for the task it replaces, however long the chain.
THEOREM NeverTwoAtOnce == Spec => []OneAtATime
<1>1. ASSUME IInv, NEW g \in Gens, NEW h \in Gens, g # h, Running(g), Running(h),
             task[g].model = task[h].model
      PROVE  \E c \in Callers : caller[c].pc = "stop" /\ caller[c].model = task[g].model
  <2>1. rank[g] # 0 /\ rank[h] # 0 /\ rank[g] \in Nat /\ rank[h] \in Nat /\ rank[g] # rank[h]
    BY <1>1, RankFacts DEF IInv, SInv, GensOK, Running
  <2>2. task[g].pc # "gate" /\ task[h].pc # "gate" /\ task[g].pc # "done" /\ task[h].pc # "done"
    BY <1>1 DEF Running
  <2>3. CASE rank[h] < rank[g]
    <3>1. StopsBefore(g, h)
      BY <1>1, <2>1, <2>2, <2>3, NoJoin DEF IInv, SInv, LineOK
    <3> QED
      BY <3>1, <1>1 DEF StopsBefore
  <2>4. CASE rank[g] < rank[h]
    <3>1. StopsBefore(h, g)
      BY <1>1, <2>1, <2>2, <2>4, NoJoin DEF IInv, SInv, LineOK
    <3> QED
      BY <3>1, <1>1 DEF StopsBefore
  <2> QED
    BY <2>1, <2>3, <2>4
<1>2. IInv => OneAtATime
  BY <1>1 DEF OneAtATime, Gens
<1> QED
  BY <1>2, AlwaysInv, PTL

\* When all is quiet the registry is empty and no part file is left: each task
\* removes its own entry and its own file, and nobody else's
\* (downloads_registry.rs remove_if_generation_matches, failure.rs).
THEOREM NothingStays == Spec => []NothingLeft
<1>1. ASSUME IInv, Quiet PROVE NothingLeft
  <2>1. \A m \in Models : registry[m] = 0
    <3> SUFFICES ASSUME NEW m \in Models, registry[m] # 0 PROVE FALSE
      OBVIOUS
    <3>1. /\ registry[m] \in Gens /\ rank[registry[m]] # 0
          /\ task[registry[m]].pc # "done"
      BY <1>1, HeldFacts DEF IInv, Holds
    <3>2. task[registry[m]].pc # "none"
      BY <1>1, <3>1 DEF IInv, SInv, GensOK
    <3> QED
      BY <3>1, <3>2, <1>1 DEF Quiet
  <2>2. \A g \in Gens : part[g] = "none"
    BY <1>1 DEF Quiet, IInv, PartsOK
  <2> QED
    BY <2>1, <2>2 DEF NothingLeft
<1>2. IInv => NothingLeft
  BY <1>1 DEF NothingLeft
<1> QED
  BY <1>2, AlwaysInv, PTL

\* A model last told complete is installed whole, unless it was deleted or left
\* half unpacked since (steps.rs: checksum, finalize, promote, then the event).
THEOREM ToldIsTrue == Spec => []CompleteIsWhole
<1>1. IInv => CompleteIsWhole
  BY DEF IInv, ToldOK, CompleteIsWhole, Quiet, At
<1> QED
  BY <1>1, AlwaysInv, PTL

\* The request that is taken claims the slot.
LEMMA InsertClaims ==
  ASSUME IInv, IInv', NEW c \in Callers, Insert(c), UNCHANGED packed,
         NEW n, n = caller[c].gen, NEW m, m = caller[c].model
  PROVE  m \in Models /\ n \in Gens /\ Slot!Claim(m, n)
<1>1. /\ n \in Gens /\ m \in Models /\ registry' = [registry EXCEPT ![m] = n]
      /\ rank[n] = 0 /\ n \notin cancelled
      /\ \A h \in Gens \ {n} : task'[h] = task[h] /\ rank'[h] = rank[h]
      /\ rank'[n] = entries + 1
      /\ \/ /\ registry[m] = 0 /\ task'[n].pc = "open" /\ cancelled' = cancelled
         \/ /\ registry[m] # 0 /\ task'[n].pc = "gate"
            /\ cancelled' = cancelled \cup {registry[m]}
  BY InsertFacts DEF IInv
<1>2. registry[m] # 0 => /\ registry[m] \in Gens /\ rank[registry[m]] # 0
                         /\ task[registry[m]].pc # "done" /\ registry[m] # n
  BY <1>1, HeldFacts DEF IInv, Holds
<1>3. rank'[n] # 0
  BY <1>1 DEF IInv, SInv, TypeOK
<1>4. \A h \in Gens : h # 0
  BY GensAreNat
<1>5. Fate' = [h \in Gens |-> IF h = n THEN "live" ELSE IF h = registry[m] THEN "off" ELSE Fate[h]]
  <2>1. n \notin cancelled' /\ task'[n].pc # "done"
    BY <1>1, <1>2
  <2>2. \A h \in Gens \ {n} : h # registry[m] => (h \in cancelled' <=> h \in cancelled)
    BY <1>1
  <2>3. \A h \in Gens \ {n} : h = registry[m] =>
            h \in cancelled' /\ rank'[h] # 0 /\ task'[h].pc # "done"
    BY <1>1, <1>2, <1>4
  <2> QED
    BY <1>1, <1>3, <2>1, <2>2, <2>3 DEF Fate
<1>6. Fate[n] = "unborn"
  BY <1>1 DEF Fate
<1> QED
  BY <1>1, <1>5, <1>6 DEF Slot!Claim, Slot!Gens, Gens

\* A step that neither takes a request nor cancels nor ends a task is none of the
\* slot's business.
LEMMA FateStays ==
  ASSUME UNCHANGED <<registry, rank, cancelled>>,
         \A g \in Gens : task'[g].pc = "done" <=> task[g].pc = "done"
  PROVE  UNCHANGED Slot!svars
  BY DEF Slot!svars, Fate

\* A step of the manager is a step of the slot, or none of its business.
LEMMA StepSlot ==
  ASSUME IInv, IInv', [Next]_vars
  PROVE  [Slot!Next]_Slot!svars
<1>1. ASSUME NEW c \in Callers, NEW m \in Models, Request(c, m), UNCHANGED packed
      PROVE  UNCHANGED Slot!svars
  <2>1. /\ generation + 1 \in Gens /\ task[generation + 1].pc = "none"
        /\ task'[generation + 1].pc = "gate"
        /\ \A h \in Gens \ {generation + 1} : task'[h] = task[h]
        /\ registry' = registry /\ cancelled' = cancelled /\ rank' = rank
    BY <1>1, RequestFacts DEF IInv
  <2> QED
    BY <2>1, FateStays
<1>2. ASSUME NEW c \in Callers, NEW m \in Models, Cancel(c, m)
      PROVE  Slot!Cancel(m)
  <2>1. /\ registry[m] \in Gens /\ rank[registry[m]] # 0 /\ task[registry[m]].pc # "done"
    BY <1>2, HeldFacts DEF Cancel, IInv, Holds
  <2>2. Fate' = [Fate EXCEPT ![registry[m]] = "off"]
    BY <2>1, <1>2 DEF Cancel, Fate, entered
  <2> QED
    BY <2>2, <1>2 DEF Slot!Cancel, Cancel
<1>3. ASSUME NEW c \in Callers, NEW m \in Models, Delete(c, m)
      PROVE  UNCHANGED Slot!svars
  BY <1>3, FateStays DEF Delete, entered
<1>4. ASSUME NEW c \in Callers, Insert(c), UNCHANGED packed
      PROVE  Slot!Next
  BY <1>4, InsertClaims DEF Slot!Next, Slot!Gens, Gens
<1>5. ASSUME NEW c \in Callers, Replaced(c), UNCHANGED packed
      PROVE  UNCHANGED Slot!svars
  <2>1. /\ caller[c].gen \in Gens /\ task'[caller[c].gen].pc = "open"
        /\ task[caller[c].gen].pc = "gate"
        /\ \A h \in Gens \ {caller[c].gen} : task'[h] = task[h]
    BY <1>5, ReplacedType DEF IInv, SInv, CallersOK, CallerOK, Waits, Replaced
  <2>2. UNCHANGED <<registry, rank, cancelled>>
    BY <1>5 DEF Replaced, entered
  <2> QED
    BY <2>1, <2>2, FateStays
<1>6. ASSUME NEW c \in Callers, Cancelled(c) \/ Deleted(c)
      PROVE  UNCHANGED Slot!svars
  <2>1. UNCHANGED <<registry, rank, cancelled, task>>
    BY <1>6 DEF Cancelled, Deleted, entered
  <2> QED
    BY <2>1, FateStays
<1>7. ASSUME NEW g \in Gens, Proceed(g)
      PROVE  Slot!Next \/ UNCHANGED Slot!svars
  <2>1. /\ task[g].pc \in Starts /\ task[g].model \in Models
        /\ \A h \in Gens \ {g} : task'[h] = task[h]
        /\ UNCHANGED <<cancelled, rank>>
        /\ \/ task'[g].pc \in Starts /\ registry' = registry /\ task[g].pc # "leave"
           \/ task[g].pc = "leave" /\ task'[g].pc = "done" /\ registry' = Left(task[g].model, g)
    BY <1>7, TaskFacts DEF IInv
  <2>2. CASE task'[g].pc \in Starts /\ registry' = registry
    BY <2>1, <2>2, FateStays DEF Starts
  <2>3. CASE task[g].pc = "leave" /\ task'[g].pc = "done" /\ registry' = Left(task[g].model, g)
    <3>1. rank[g] # 0
      BY <2>3 DEF IInv, SInv, GensOK
    <3>2. Fate' = [Fate EXCEPT ![g] = "over"]
      BY <2>1, <2>3, <3>1 DEF Fate
    <3>3. CASE registry[task[g].model] = g
      <4>1. Slot!Finish(task[g].model)
        BY <2>3, <3>2, <3>3, GensAreNat DEF Slot!Finish, Left
      <4> QED
        BY <4>1, <2>1 DEF Slot!Next
    <3>4. CASE registry[task[g].model] # g
      <4>1. g \in cancelled
        BY <2>3, <3>1, <3>4 DEF IInv, SInv, GensOK
      <4>2. Fate[g] = "off"
        BY <2>3, <3>1, <4>1 DEF Fate
      <4>3. Slot!Expire(g)
        BY <2>3, <3>2, <3>4, <4>2 DEF Slot!Expire, Left
      <4> QED
        BY <4>3 DEF Slot!Next, Slot!Gens, Gens
    <3> QED
      BY <3>3, <3>4
  <2> QED
    BY <2>1, <2>2, <2>3
<1>8. CASE UNCHANGED vars
  BY <1>8, FateStays DEF vars, entered
<1>9. ASSUME NEW c \in Callers, Command(c) \/ Return(c)
      PROVE  Slot!Next \/ UNCHANGED Slot!svars
  <2>1. CASE Command(c)
    BY <2>1, <1>1, <1>2, <1>3 DEF Command, Slot!Next
  <2>2. CASE Return(c)
    BY <2>2, <1>4, <1>5, <1>6 DEF Return
  <2> QED
    BY <1>9, <2>1, <2>2
<1> QED
  BY <1>7, <1>8, <1>9 DEF Next

\* The manager implements the slot: the last request for a model holds it, one that
\* lost it is called off, and only the holder gives it back.
THEOREM ManagerKeepsSlots == Spec => KeepsSlots
<1>1. Init => Slot!Init
  BY DEF Init, Slot!Init, Slot!Gens, Fate, Gens
<1>2. IInv /\ IInv' /\ [Next]_vars => [Slot!Next]_Slot!svars
  BY StepSlot
<1> QED
  BY <1>1, <1>2, AlwaysInv, PTL DEF Spec, KeepsSlots, Slot!Spec
=============================================================================
