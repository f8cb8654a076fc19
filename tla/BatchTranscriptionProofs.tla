---------------------- MODULE BatchTranscriptionProofs ----------------------
(* Theorems about BatchTranscription, for every set of sessions and of runs,  *)
(* and any number of stop commands and of progress events.                    *)
EXTENDS BatchTranscription, TLAPS

\* Nothing is known of a run before its start got there, and a refused one is not
\* watched.
Begun(r) ==
    /\ sess[r] = None <=> closure[r] = "none"
    /\ closure[r] \in {"none", "listen"} => start[r] = "none" /\ heard[r] = {}
    /\ start[r] \in {"none", "look", "insert"} => state[r] = "none"
    /\ start[r] \in {"record", "drop"} => state[r] # "none"
    /\ start[r] = "drop" => state[r] # "running"
    /\ state[r] = "none" <=> task[r] = "none"
    /\ state[r] = "none" => ~ pend[r] /\ worker[r] = "none" /\ r \notin overlap
    /\ refused[r] => start[r] = "done" /\ monitor[r] = "none"
BegunAll == \A r \in Runs : Begun(r)

\* Where a run's task, worker and monitor are when its state is what it is.
Worked(r) ==
    /\ pend[r] => worker[r] = "on"
    /\ worker[r] = "on" => task[r] \in {"work", "gone"}
    /\ task[r] = "remove" => state[r] # "running"
    /\ task[r] = "gone" /\ state[r] = "running" => aborted[r]
    /\ aborted[r] \/ handle[r] => start[r] \in {"drop", "done"} /\ state[r] # "none"
    /\ monitor[r] # "none" => start[r] = "done" /\ state[r] # "none"
    /\ monitor[r] \in {"remove", "emit"} => state[r] = "timedout"
WorkedAll == \A r \in Runs : Worked(r)

\* A stop command holds a run of its session.
StopOK(s) ==
    /\ stop[s].run = None <=> stop[s].pc \in {"none", "take"}
    /\ stop[s].run # None => sess[stop[s].run] = s /\ state[stop[s].run] # "none"
    /\ stop[s].pc = "emit" => state[stop[s].run] = "stopped"
StopsAll == \A s \in Sessions : StopOK(s)

\* What the registry knows is a run of that session whose task is still to leave.
Known(s) ==
    registry[s] # None =>
        /\ sess[registry[s]] = s
        /\ task[registry[s]] \notin {"none", "gone"} /\ ~ aborted[registry[s]]
        /\ stop[s].run # registry[s]
        /\ monitor[registry[s]] \notin {"emit", "done"}
RegistryAll == \A s \in Sessions : Known(s)

\* The page waits for one run of a session at a time.
OneOpen ==
    \A q, r \in Runs :
        /\ sess[q] = sess[r]
        /\ closure[q] \in {"listen", "open"} /\ closure[r] \in {"listen", "open"}
        => q = r

\* A run that has still to say how it ends: by its task, or by who ended it.
Live(r) == state[r] = "running" /\ task[r] # "finish"
LastWord(r) ==
    \/ monitor[r] \in {"remove", "emit"}
    \/ stop[sess[r]].pc = "emit" /\ stop[sess[r]].run = r

\* In a session whose runs were not crossed, whoever has still something to say
\* is the run that the page has open.
Apart(r) ==
    /\ heard[r] \subseteq {r}
    /\ start[r] \in {"look", "insert"} => closure[r] = "open"
    /\ start[r] = "insert" => registry[sess[r]] = None
    /\ Live(r) \/ LastWord(r) => closure[r] = "open" /\ ~ refused[r]
    /\ pend[r] \/ task[r] \in {"completed", "failed"} => state[r] = "running"
    /\ state[r] = "running" /\ task[r] # "gone"
           => \/ registry[sess[r]] = r
              \/ stop[sess[r]].pc = "mark" /\ stop[sess[r]].run = r
    /\ closure[r] = "open" /\ stop[sess[r]].run = r => registry[sess[r]] = None
ApartAll == \A r \in Runs : sess[r] # None => Apart(r) \/ Crossed(sess[r])

IInv == TypeOK /\ BegunAll /\ WorkedAll /\ StopsAll /\ RegistryAll /\ OneOpen /\ ApartAll

\* The page starts a run that was not used before, of a session it has no run
\* open for.
LEMMA PageStartsKeeps ==
  ASSUME IInv, NEW s \in Sessions, NEW b \in BOOLEAN, PageStarts(s, b)
  PROVE  IInv'
<1>1. TypeOK'
  BY DEF IInv, TypeOK, PageStarts, back, work
<1>2. BegunAll'
  BY NoneAssumption DEF IInv, TypeOK, BegunAll, Begun, PageStarts, Fresh, back, work
<1>3. WorkedAll'
  BY DEF IInv, TypeOK, WorkedAll, Worked, PageStarts, back, work
<1>4. StopsAll'
  BY DEF IInv, TypeOK, BegunAll, Begun, StopsAll, StopOK, PageStarts, Fresh, back
<1>5. RegistryAll'
  BY DEF IInv, TypeOK, BegunAll, Begun, RegistryAll, Known, PageStarts, Fresh, back, work
<1>6. OneOpen'
  <2> SUFFICES ASSUME NEW q \in Runs, NEW r \in Runs, (sess[q] = sess[r])',
                      (closure[q] \in {"listen", "open"})', (closure[r] \in {"listen", "open"})'
               PROVE  q = r
    BY DEF OneOpen
  <2>1. Fresh \in Runs /\ sess[Fresh] = None
    BY DEF PageStarts, Fresh
  <2>2. \A p \in Runs : /\ sess'[p] = IF p = Fresh THEN s ELSE sess[p]
                        /\ closure'[p] = IF p = Fresh THEN "listen" ELSE closure[p]
    BY DEF IInv, TypeOK, PageStarts
  <2>3. \A p \in Runs : sess[p] = s => closure[p] \notin {"listen", "open"}
    BY DEF PageStarts, Transcribing
  <2> QED
    BY <2>1, <2>2, <2>3 DEF IInv, OneOpen
<1>7. ApartAll'
  BY DEF IInv, TypeOK, BegunAll, Begun, WorkedAll, Worked, StopsAll, StopOK, ApartAll, Apart,
     Live, LastWord, Crossed, PageStarts, Fresh, back, work
<1> QED
  BY <1>1, <1>2, <1>3, <1>4, <1>5, <1>6, <1>7 DEF IInv

\* A stop command begins; it holds no run yet.
LEMMA PageStopsKeeps == ASSUME IInv, NEW s \in Sessions, PageStops(s) PROVE IInv'
<1>1. TypeOK'
  BY BoundsAssumption DEF IInv, TypeOK, PageStops, page, back, work
<1>2. BegunAll'
  BY DEF IInv, TypeOK, BegunAll, Begun, PageStops, page, back, work
<1>3. WorkedAll'
  BY DEF IInv, TypeOK, WorkedAll, Worked, PageStops, back, work
<1>4. StopsAll'
  BY DEF IInv, TypeOK, StopsAll, StopOK, PageStops, NoStop, back
<1>5. RegistryAll'
  BY DEF IInv, TypeOK, RegistryAll, Known, PageStops, back, work
<1>6. OneOpen'
  BY DEF IInv, TypeOK, OneOpen, PageStops, page
<1>7. ApartAll'
  BY DEF IInv, TypeOK, ApartAll, Apart, Live, LastWord, Crossed, PageStops, NoStop, page, back,
     work
<1> QED
  BY <1>1, <1>2, <1>3, <1>4, <1>5, <1>6, <1>7 DEF IInv

\* The page's run opens, or is over before anything was started.
LEMMA ListensKeeps == ASSUME IInv, NEW r \in Runs, Listens(r) PROVE IInv'
<1>1. TypeOK'
  BY DEF IInv, TypeOK, Listens, back, work
<1>2. BegunAll'
  BY DEF IInv, TypeOK, BegunAll, Begun, Listens, back, work
<1>3. WorkedAll'
  BY DEF IInv, TypeOK, BegunAll, Begun, WorkedAll, Worked, Listens, back, work
<1>4. StopsAll'
  BY DEF IInv, TypeOK, StopsAll, StopOK, Listens, back
<1>5. RegistryAll'
  BY DEF IInv, TypeOK, RegistryAll, Known, Listens, back, work
<1>6. OneOpen'
  BY DEF IInv, TypeOK, OneOpen, Listens
<1>7. ApartAll'
  BY NoneAssumption DEF IInv, TypeOK, BegunAll, Begun, StopsAll, StopOK, ApartAll, Apart, Live,
     LastWord, Crossed, Listens, back, work
<1> QED
  BY <1>1, <1>2, <1>3, <1>4, <1>5, <1>6, <1>7 DEF IInv

\* A refused run is closed; it has nothing more to say.
LEMMA RefusedKeeps == ASSUME IInv, NEW r \in Runs, Refused(r) PROVE IInv'
<1>1. TypeOK'
  BY DEF IInv, TypeOK, Refused, back, work
<1>2. BegunAll'
  BY DEF IInv, TypeOK, BegunAll, Begun, Refused, back, work
<1>3. WorkedAll'
  BY DEF IInv, TypeOK, WorkedAll, Worked, Refused, back, work
<1>4. StopsAll'
  BY DEF IInv, TypeOK, StopsAll, StopOK, Refused, back
<1>5. RegistryAll'
  BY DEF IInv, TypeOK, RegistryAll, Known, Refused, back, work
<1>6. OneOpen'
  BY DEF IInv, TypeOK, OneOpen, Refused
<1>7. ApartAll'
  BY DEF IInv, TypeOK, BegunAll, Begun, ApartAll, Apart, Live, LastWord, Crossed, Refused, back,
     work
<1> QED
  BY <1>1, <1>2, <1>3, <1>4, <1>5, <1>6, <1>7 DEF IInv

\* The run is refused, or the entry of a run that has ended is removed.
LEMMA LooksKeeps == ASSUME IInv, NEW r \in Runs, Looks(r) PROVE IInv'
<1>1. TypeOK'
  BY BoundsAssumption DEF IInv, TypeOK, Looks, Refuses, page, work
<1>2. BegunAll'
  BY DEF IInv, TypeOK, BegunAll, Begun, WorkedAll, Worked, Looks, Refuses, page, work
<1>3. WorkedAll'
  BY DEF IInv, TypeOK, WorkedAll, Worked, Looks, Refuses, work
<1>4. StopsAll'
  BY DEF IInv, TypeOK, StopsAll, StopOK, Looks
<1>5. RegistryAll'
  BY DEF IInv, TypeOK, RegistryAll, Known, Looks, work
<1>6. OneOpen'
  BY DEF IInv, TypeOK, OneOpen, Looks, page
<1>7. ApartAll'
  BY DEF IInv, TypeOK, BegunAll, Begun, WorkedAll, Worked, ApartAll, Apart, Live, LastWord,
     Crossed, Looks, Refuses, page, work
<1> QED
  BY <1>1, <1>2, <1>3, <1>4, <1>5, <1>6, <1>7 DEF IInv

\* The run is registered where nothing is: no other run of an uncrossed session
\* is under way.
LEMMA InsertsKeeps == ASSUME IInv, NEW r \in Runs, Inserts(r) PROVE IInv'
<1>1. TypeOK'
  BY DEF IInv, TypeOK, Inserts, page
<1>2. BegunAll'
  BY DEF IInv, TypeOK, BegunAll, Begun, Inserts, page
<1>3. WorkedAll'
  BY DEF IInv, TypeOK, WorkedAll, Worked, Inserts
<1>4. StopsAll'
  BY DEF IInv, TypeOK, BegunAll, Begun, StopsAll, StopOK, Inserts
<1>5. RegistryAll'
  BY DEF IInv, TypeOK, BegunAll, Begun, WorkedAll, Worked, StopsAll, StopOK, RegistryAll, Known,
     Inserts
<1>6. OneOpen'
  BY DEF IInv, TypeOK, OneOpen, Inserts, page
<1>7. ApartAll'
  BY NoneAssumption DEF IInv, TypeOK, BegunAll, Begun, StopsAll, StopOK, OneOpen, ApartAll,
     Apart, Live, LastWord, Crossed, Inserts, page
<1> QED
  BY <1>1, <1>2, <1>3, <1>4, <1>5, <1>6, <1>7 DEF IInv

\* The entry is the run's own, or was taken by a stop; a run whose entry was
\* replaced is over.
LEMMA RecordsKeeps == ASSUME IInv, NEW r \in Runs, Records(r) PROVE IInv'
<1>1. TypeOK'
  <2>1. /\ start' \in [Runs -> {"none", "look", "insert", "record", "drop", "done"}]
        /\ refused' \in [Runs -> BOOLEAN]
    BY DEF IInv, TypeOK, Records, Returns, Refuses
  <2>2. handle' \in [Runs -> BOOLEAN] /\ aborted' \in [Runs -> BOOLEAN]
    BY DEF IInv, TypeOK, Records, Aborted
  <2>3. monitor' \in [Runs -> {"none", "watch", "remove", "emit", "done"}]
    <3>1. monitor' = monitor \/ monitor' = [monitor EXCEPT ![r] = "watch"]
      BY DEF Records
    <3> QED
      BY <3>1 DEF IInv, TypeOK
  <2> QED
    BY <2>1, <2>2, <2>3 DEF IInv, TypeOK, Records, page, work
<1>2. BegunAll'
  BY DEF IInv, TypeOK, BegunAll, Begun, WorkedAll, Worked, Records, Returns, Refuses, page, work
<1>3. WorkedAll'
  BY DEF IInv, TypeOK, BegunAll, Begun, WorkedAll, Worked, Records, Returns, Refuses, Aborted,
     work
<1>4. StopsAll'
  BY DEF IInv, TypeOK, StopsAll, StopOK, Records
<1>5. RegistryAll'
  BY DEF IInv, TypeOK, RegistryAll, Known, Records, Aborted, work
<1>6. OneOpen'
  BY DEF IInv, TypeOK, OneOpen, Records, page
<1>7. ApartAll'
  BY DEF IInv, TypeOK, WorkedAll, Worked, ApartAll, Apart, Live, LastWord, Crossed, Records,
     Returns, Refuses, page, work
<1> QED
  BY <1>1, <1>2, <1>3, <1>4, <1>5, <1>6, <1>7 DEF IInv

\* A run that has ended is removed.
LEMMA DropsKeeps == ASSUME IInv, NEW r \in Runs, Drops(r) PROVE IInv'
<1>1. TypeOK'
  BY DEF IInv, TypeOK, Drops, Removed, Returns, page, work
<1>2. BegunAll'
  BY DEF IInv, TypeOK, BegunAll, Begun, Drops, Returns, page, work
<1>3. WorkedAll'
  BY DEF IInv, TypeOK, WorkedAll, Worked, Drops, Returns, work
<1>4. StopsAll'
  BY DEF IInv, TypeOK, StopsAll, StopOK, Drops
<1>5. RegistryAll'
  BY DEF IInv, TypeOK, RegistryAll, Known, Drops, Removed, work
<1>6. OneOpen'
  BY DEF IInv, TypeOK, OneOpen, Drops, page
<1>7. ApartAll'
  BY DEF IInv, TypeOK, BegunAll, Begun, ApartAll, Apart, Live, LastWord, Crossed, Drops,
     Removed, Returns, page, work
<1> QED
  BY <1>1, <1>2, <1>3, <1>4, <1>5, <1>6, <1>7 DEF IInv

\* The task tells the end to the page's run, which is its own.
LEMMA TellsKeeps == ASSUME IInv, NEW r \in Runs, Tells(r) PROVE IInv'
<1>1. TypeOK'
  BY DEF IInv, TypeOK, Tells, Send, back
<1>2. BegunAll'
  BY DEF IInv, TypeOK, BegunAll, Begun, Tells, Send, Listener, back
<1>3. WorkedAll'
  BY DEF IInv, TypeOK, WorkedAll, Worked, Tells, back
<1>4. StopsAll'
  BY DEF IInv, TypeOK, StopsAll, StopOK, Tells, back
<1>5. RegistryAll'
  BY DEF IInv, TypeOK, RegistryAll, Known, Tells, back
<1>6. OneOpen'
  BY DEF IInv, TypeOK, OneOpen, Tells, Send
<1>7. ApartAll'
  BY DEF IInv, TypeOK, BegunAll, Begun, WorkedAll, Worked, StopsAll, StopOK, OneOpen, ApartAll,
     Apart, Live, LastWord, Crossed, Tells, Send, Listener, back
<1> QED
  BY <1>1, <1>2, <1>3, <1>4, <1>5, <1>6, <1>7 DEF IInv

\* The state says so; the run has told its end.
LEMMA FinishesKeeps == ASSUME IInv, NEW r \in Runs, Finishes(r) PROVE IInv'
<1>1. TypeOK'
  BY DEF IInv, TypeOK, Finishes, page
<1>2. BegunAll'
  BY DEF IInv, TypeOK, BegunAll, Begun, Finishes, page
<1>3. WorkedAll'
  BY DEF IInv, TypeOK, WorkedAll, Worked, Finishes
<1>4. StopsAll'
  BY DEF IInv, TypeOK, StopsAll, StopOK, Finishes
<1>5. RegistryAll'
  BY DEF IInv, TypeOK, RegistryAll, Known, Finishes
<1>6. OneOpen'
  BY DEF IInv, TypeOK, OneOpen, Finishes, page
<1>7. ApartAll'
  BY DEF IInv, TypeOK, WorkedAll, Worked, ApartAll, Apart, Live, LastWord, Crossed, Finishes,
     page
<1> QED
  BY <1>1, <1>2, <1>3, <1>4, <1>5, <1>6, <1>7 DEF IInv

\* The task's run is removed.
LEMMA LeavesKeeps == ASSUME IInv, NEW r \in Runs, Leaves(r) PROVE IInv'
<1>1. TypeOK'
  BY DEF IInv, TypeOK, Leaves, Removed, page
<1>2. BegunAll'
  BY DEF IInv, TypeOK, BegunAll, Begun, Leaves, page
<1>3. WorkedAll'
  BY DEF IInv, TypeOK, WorkedAll, Worked, Leaves
<1>4. StopsAll'
  BY DEF IInv, TypeOK, StopsAll, StopOK, Leaves
<1>5. RegistryAll'
  BY DEF IInv, TypeOK, RegistryAll, Known, Leaves, Removed
<1>6. OneOpen'
  BY DEF IInv, TypeOK, OneOpen, Leaves, page
<1>7. ApartAll'
  BY DEF IInv, TypeOK, ApartAll, Apart, Live, LastWord, Crossed, Leaves, Removed, page
<1> QED
  BY <1>1, <1>2, <1>3, <1>4, <1>5, <1>6, <1>7 DEF IInv

\* The task of a run that was taken from the registry is aborted.
LEMMA AbortsKeeps == ASSUME IInv, NEW r \in Runs, Aborts(r) PROVE IInv'
<1>1. TypeOK'
  BY DEF IInv, TypeOK, Aborts, page, back
<1>2. BegunAll'
  BY DEF IInv, TypeOK, BegunAll, Begun, Aborts, page, back
<1>3. WorkedAll'
  BY DEF IInv, TypeOK, WorkedAll, Worked, Aborts, back
<1>4. StopsAll'
  BY DEF IInv, TypeOK, StopsAll, StopOK, Aborts, back
<1>5. RegistryAll'
  BY DEF IInv, TypeOK, RegistryAll, Known, Aborts, back
<1>6. OneOpen'
  BY DEF IInv, TypeOK, OneOpen, Aborts, page
<1>7. ApartAll'
  BY DEF IInv, TypeOK, ApartAll, Apart, Live, LastWord, Crossed, Aborts, page, back
<1> QED
  BY <1>1, <1>2, <1>3, <1>4, <1>5, <1>6, <1>7 DEF IInv

\* Progress reaches the page's run, which is its own.
LEMMA SendsNewsKeeps == ASSUME IInv, NEW r \in Runs, SendsNews(r) PROVE IInv'
<1>1. TypeOK'
  BY DEF IInv, TypeOK, SendsNews, Send, back
<1>2. BegunAll'
  BY DEF IInv, TypeOK, BegunAll, Begun, SendsNews, Send, Listener, back
<1>3. WorkedAll'
  BY DEF IInv, TypeOK, WorkedAll, Worked, SendsNews, back
<1>4. StopsAll'
  BY DEF IInv, TypeOK, StopsAll, StopOK, SendsNews, back
<1>5. RegistryAll'
  BY DEF IInv, TypeOK, RegistryAll, Known, SendsNews, back
<1>6. OneOpen'
  BY DEF IInv, TypeOK, OneOpen, SendsNews, Send
<1>7. ApartAll'
  BY DEF IInv, TypeOK, BegunAll, Begun, WorkedAll, Worked, OneOpen, ApartAll, Apart, Live,
     LastWord, Crossed, SendsNews, Send, Listener, Ending, back
<1> QED
  BY <1>1, <1>2, <1>3, <1>4, <1>5, <1>6, <1>7 DEF IInv

\* The worker gives back its name.
LEMMA WorkerEndsKeeps == ASSUME IInv, NEW r \in Runs, WorkerEnds(r) PROVE IInv'
<1>1. TypeOK'
  BY DEF IInv, TypeOK, WorkerEnds, page, back
<1>2. BegunAll'
  BY DEF IInv, TypeOK, BegunAll, Begun, WorkerEnds, page, back
<1>3. WorkedAll'
  BY DEF IInv, TypeOK, WorkedAll, Worked, WorkerEnds, back
<1>4. StopsAll'
  BY DEF IInv, TypeOK, StopsAll, StopOK, WorkerEnds, back
<1>5. RegistryAll'
  BY DEF IInv, TypeOK, RegistryAll, Known, WorkerEnds, back
<1>6. OneOpen'
  BY DEF IInv, TypeOK, OneOpen, WorkerEnds, page
<1>7. ApartAll'
  BY DEF IInv, TypeOK, ApartAll, Apart, Live, LastWord, Crossed, WorkerEnds, page, back
<1> QED
  BY <1>1, <1>2, <1>3, <1>4, <1>5, <1>6, <1>7 DEF IInv

\* The monitor removes its run.
LEMMA MonitorRemovesKeeps == ASSUME IInv, NEW r \in Runs, MonitorRemoves(r) PROVE IInv'
<1>1. TypeOK'
  BY DEF IInv, TypeOK, MonitorRemoves, Removed, page, work
<1>2. BegunAll'
  BY DEF IInv, TypeOK, BegunAll, Begun, MonitorRemoves, page, work
<1>3. WorkedAll'
  BY DEF IInv, TypeOK, WorkedAll, Worked, MonitorRemoves, work
<1>4. StopsAll'
  BY DEF IInv, TypeOK, StopsAll, StopOK, MonitorRemoves
<1>5. RegistryAll'
  BY DEF IInv, TypeOK, RegistryAll, Known, MonitorRemoves, Removed, work
<1>6. OneOpen'
  BY DEF IInv, TypeOK, OneOpen, MonitorRemoves, page
<1>7. ApartAll'
  BY DEF IInv, TypeOK, WorkedAll, Worked, ApartAll, Apart, Live, LastWord, Crossed,
     MonitorRemoves, Removed, page, work
<1> QED
  BY <1>1, <1>2, <1>3, <1>4, <1>5, <1>6, <1>7 DEF IInv

\* The monitor tells the end to the page's run, which is its own.
LEMMA MonitorTellsKeeps == ASSUME IInv, NEW r \in Runs, MonitorTells(r) PROVE IInv'
<1>1. TypeOK'
  BY DEF IInv, TypeOK, MonitorTells, Send, Aborted, work
<1>2. BegunAll'
  BY DEF IInv, TypeOK, BegunAll, Begun, MonitorTells, Send, Listener, work
<1>3. WorkedAll'
  BY DEF IInv, TypeOK, WorkedAll, Worked, MonitorTells, Aborted, work
<1>4. StopsAll'
  BY DEF IInv, TypeOK, StopsAll, StopOK, MonitorTells
<1>5. RegistryAll'
  BY DEF IInv, TypeOK, RegistryAll, Known, MonitorTells, Aborted, work
<1>6. OneOpen'
  BY DEF IInv, TypeOK, OneOpen, MonitorTells, Send
<1>7. ApartAll'
  BY DEF IInv, TypeOK, BegunAll, Begun, WorkedAll, Worked, StopsAll, StopOK, OneOpen, ApartAll,
     Apart, Live, LastWord, Crossed, MonitorTells, Send, Listener, work
<1> QED
  BY <1>1, <1>2, <1>3, <1>4, <1>5, <1>6, <1>7 DEF IInv

\* A worker begins for a task at work.
LEMMA EmploysKeeps == ASSUME IInv, NEW r \in Runs, Employs(r) PROVE IInv'
<1>1. TypeOK'
  BY DEF IInv, TypeOK, Employs, page, back
<1>2. BegunAll'
  BY DEF IInv, TypeOK, BegunAll, Begun, Employs, page, back
<1>3. WorkedAll'
  BY DEF IInv, TypeOK, WorkedAll, Worked, Employs, back
<1>4. StopsAll'
  BY DEF IInv, TypeOK, StopsAll, StopOK, Employs, back
<1>5. RegistryAll'
  BY DEF IInv, TypeOK, RegistryAll, Known, Employs, back
<1>6. OneOpen'
  BY DEF IInv, TypeOK, OneOpen, Employs, page
<1>7. ApartAll'
  BY DEF IInv, TypeOK, ApartAll, Apart, Live, LastWord, Crossed, Employs, page, back
<1> QED
  BY <1>1, <1>2, <1>3, <1>4, <1>5, <1>6, <1>7 DEF IInv

\* Progress passes the check: the run goes on.
LEMMA ChecksNewsKeeps == ASSUME IInv, NEW r \in Runs, ChecksNews(r) PROVE IInv'
<1>1. TypeOK'
  BY BoundsAssumption DEF IInv, TypeOK, ChecksNews, page, back
<1>2. BegunAll'
  BY DEF IInv, TypeOK, BegunAll, Begun, ChecksNews, page, back
<1>3. WorkedAll'
  BY DEF IInv, TypeOK, WorkedAll, Worked, ChecksNews, back
<1>4. StopsAll'
  BY DEF IInv, TypeOK, StopsAll, StopOK, ChecksNews, back
<1>5. RegistryAll'
  BY DEF IInv, TypeOK, RegistryAll, Known, ChecksNews, back
<1>6. OneOpen'
  BY DEF IInv, TypeOK, OneOpen, ChecksNews, page
<1>7. ApartAll'
  BY DEF IInv, TypeOK, ApartAll, Apart, Live, LastWord, Crossed, ChecksNews, MayEmit, page, back
<1> QED
  BY <1>1, <1>2, <1>3, <1>4, <1>5, <1>6, <1>7 DEF IInv

\* The worker is done and has no event half sent.
LEMMA WorkerAnswersKeeps == ASSUME IInv, NEW r \in Runs, WorkerAnswers(r) PROVE IInv'
<1>1. TypeOK'
  BY DEF IInv, TypeOK, WorkerAnswers, page, back
<1>2. BegunAll'
  BY DEF IInv, TypeOK, BegunAll, Begun, WorkerAnswers, page, back
<1>3. WorkedAll'
  BY DEF IInv, TypeOK, WorkedAll, Worked, WorkerAnswers, back
<1>4. StopsAll'
  BY DEF IInv, TypeOK, StopsAll, StopOK, WorkerAnswers, back
<1>5. RegistryAll'
  BY DEF IInv, TypeOK, RegistryAll, Known, WorkerAnswers, back
<1>6. OneOpen'
  BY DEF IInv, TypeOK, OneOpen, WorkerAnswers, page
<1>7. ApartAll'
  BY DEF IInv, TypeOK, ApartAll, Apart, Live, LastWord, Crossed, WorkerAnswers, page, back
<1> QED
  BY <1>1, <1>2, <1>3, <1>4, <1>5, <1>6, <1>7 DEF IInv

\* The task has its answer, and may tell it if the run goes on.
LEMMA CompletesKeeps == ASSUME IInv, NEW r \in Runs, Completes(r) PROVE IInv'
<1>1. TypeOK'
  BY DEF IInv, TypeOK, Completes, Concludes, page, back
<1>2. BegunAll'
  BY DEF IInv, TypeOK, BegunAll, Begun, Completes, Concludes, page, back
<1>3. WorkedAll'
  BY DEF IInv, TypeOK, WorkedAll, Worked, Completes, Concludes, back
<1>4. StopsAll'
  BY DEF IInv, TypeOK, StopsAll, StopOK, Completes, back
<1>5. RegistryAll'
  BY DEF IInv, TypeOK, RegistryAll, Known, Completes, Concludes, back
<1>6. OneOpen'
  BY DEF IInv, TypeOK, OneOpen, Completes, page
<1>7. ApartAll'
  BY DEF IInv, TypeOK, ApartAll, Apart, Live, LastWord, Crossed, Completes, Concludes, MayEmit,
     page, back
<1> QED
  BY <1>1, <1>2, <1>3, <1>4, <1>5, <1>6, <1>7 DEF IInv

\* The task has failed, and may tell it if the run goes on.
LEMMA FailsKeeps == ASSUME IInv, NEW r \in Runs, Fails(r) PROVE IInv'
<1>1. TypeOK'
  BY DEF IInv, TypeOK, Fails, Concludes, page, back
<1>2. BegunAll'
  BY DEF IInv, TypeOK, BegunAll, Begun, Fails, Concludes, page, back
<1>3. WorkedAll'
  BY DEF IInv, TypeOK, WorkedAll, Worked, Fails, Concludes, back
<1>4. StopsAll'
  BY DEF IInv, TypeOK, StopsAll, StopOK, Fails, back
<1>5. RegistryAll'
  BY DEF IInv, TypeOK, RegistryAll, Known, Fails, Concludes, back
<1>6. OneOpen'
  BY DEF IInv, TypeOK, OneOpen, Fails, page
<1>7. ApartAll'
  BY DEF IInv, TypeOK, ApartAll, Apart, Live, LastWord, Crossed, Fails, Concludes, MayEmit,
     page, back
<1> QED
  BY <1>1, <1>2, <1>3, <1>4, <1>5, <1>6, <1>7 DEF IInv

\* The run times out: with an event half sent its session is crossed, else the
\* page has it open.
LEMMA TimesOutKeeps == ASSUME IInv, NEW r \in Runs, TimesOut(r) PROVE IInv'
<1>1. TypeOK'
  BY DEF IInv, TypeOK, TimesOut, Marks, NoteOverlap, page, work
<1>2. BegunAll'
  BY DEF IInv, TypeOK, BegunAll, Begun, TimesOut, Marks, NoteOverlap, page, work
<1>3. WorkedAll'
  BY DEF IInv, TypeOK, WorkedAll, Worked, TimesOut, Marks, work
<1>4. StopsAll'
  BY DEF IInv, TypeOK, StopsAll, StopOK, TimesOut, Marks
<1>5. RegistryAll'
  BY DEF IInv, TypeOK, RegistryAll, Known, TimesOut, work
<1>6. OneOpen'
  BY DEF IInv, TypeOK, OneOpen, TimesOut, page
<1>7. ApartAll'
  BY DEF IInv, TypeOK, ApartAll, Apart, Live, LastWord, Crossed, TimesOut, Marks, NoteOverlap,
     HalfSent, page, work
<1> QED
  BY <1>1, <1>2, <1>3, <1>4, <1>5, <1>6, <1>7 DEF IInv

\* The stop command takes the entry.
LEMMA TakesKeeps == ASSUME IInv, NEW s \in Sessions, Takes(s) PROVE IInv'
<1>1. TypeOK'
  BY DEF IInv, TypeOK, Takes, NoStop, page, work
<1>2. BegunAll'
  BY DEF IInv, TypeOK, BegunAll, Begun, Takes, page, work
<1>3. WorkedAll'
  BY DEF IInv, TypeOK, WorkedAll, Worked, Takes, work
<1>4. StopsAll'
  BY DEF IInv, TypeOK, BegunAll, Begun, StopsAll, StopOK, RegistryAll, Known, Takes, NoStop
<1>5. RegistryAll'
  BY DEF IInv, TypeOK, RegistryAll, Known, Takes, work
<1>6. OneOpen'
  BY DEF IInv, TypeOK, OneOpen, Takes, page
<1>7. ApartAll'
  BY DEF IInv, TypeOK, ApartAll, Apart, Live, LastWord, Crossed, Takes, NoStop, page, work
<1> QED
  BY <1>1, <1>2, <1>3, <1>4, <1>5, <1>6, <1>7 DEF IInv

\* The run is stopped: with an event half sent its session is crossed, else the
\* page has it open.
LEMMA StopMarksKeeps == ASSUME IInv, NEW s \in Sessions, StopMarks(s) PROVE IInv'
<1>1. TypeOK'
  <2>1. stop[s].run \in Runs
    BY DEF IInv, TypeOK, StopsAll, StopOK, StopMarks
  <2>2. /\ state' \in [Runs -> {"none", "running", "stopped", "timedout", "finished"}]
        /\ overlap' \in SUBSET Runs
    BY <2>1 DEF IInv, TypeOK, StopMarks, Marks, NoteOverlap
  <2>3. aborted' \in [Runs -> BOOLEAN]
    BY <2>1 DEF IInv, TypeOK, StopMarks, StopAborts, Aborted
  <2>4. stop' \in [Sessions -> [pc : {"none", "take", "mark", "emit"}, run : Runs \cup {None}]]
    <3>1. stop' = [stop EXCEPT ![s].pc = "emit"] \/ stop' = [stop EXCEPT ![s] = NoStop]
      BY DEF StopMarks
    <3>2. CASE stop' = [stop EXCEPT ![s].pc = "emit"]
      BY <3>2 DEF IInv, TypeOK
    <3>3. CASE stop' = [stop EXCEPT ![s] = NoStop]
      BY <3>3 DEF IInv, TypeOK, NoStop
    <3> QED
      BY <3>1, <3>2, <3>3
  <2> QED
    BY <2>2, <2>3, <2>4 DEF IInv, TypeOK, StopMarks, page, work
<1>2. BegunAll'
  BY DEF IInv, TypeOK, BegunAll, Begun, StopMarks, Marks, NoteOverlap, page, work
<1>3. WorkedAll'
  BY DEF IInv, TypeOK, WorkedAll, Worked, StopMarks, Marks, StopAborts, Aborted, work
<1>4. StopsAll'
  <2> SUFFICES ASSUME NEW t \in Sessions PROVE StopOK(t)'
    BY DEF StopsAll
  <2>1. stop[s].run \in Runs /\ sess[stop[s].run] = s
    BY DEF IInv, TypeOK, StopsAll, StopOK, StopMarks
  <2>2. CASE t # s
    <3>1. stop'[t] = stop[t] /\ stop[t].run # stop[s].run
      BY <2>1, <2>2, NoneAssumption DEF IInv, TypeOK, StopsAll, StopOK, StopMarks
    <3> QED
      BY <2>1, <2>2, <3>1 DEF IInv, TypeOK, StopsAll, StopOK, StopMarks, Marks
  <2>3. CASE t = s /\ state[stop[s].run] = "running"
    <3>1. stop'[s].pc = "emit" /\ stop'[s].run = stop[s].run
      BY <2>3 DEF IInv, TypeOK, StopMarks
    <3>2. state'[stop[s].run] = "stopped"
      BY <2>1, <2>3 DEF IInv, TypeOK, StopMarks, Marks
    <3> QED
      BY <2>1, <2>3, <3>1, <3>2, NoneAssumption DEF IInv, TypeOK, StopOK, StopMarks
  <2>4. CASE t = s /\ state[stop[s].run] # "running"
    BY <2>4 DEF IInv, TypeOK, StopOK, StopMarks, NoStop
  <2> QED
    BY <2>2, <2>3, <2>4
<1>5. RegistryAll'
  BY NoneAssumption, BoundsAssumption DEF IInv, TypeOK, BegunAll, Begun, WorkedAll, Worked,
     StopsAll, StopOK, RegistryAll, Known, StopMarks, NoteOverlap, HalfSent, StopAborts, Aborted,
     NoStop, work
<1>6. OneOpen'
  BY DEF IInv, TypeOK, OneOpen, StopMarks, page
<1>7. ApartAll'
  BY NoneAssumption, BoundsAssumption DEF IInv, TypeOK, BegunAll, Begun, StopsAll, StopOK,
     ApartAll, Apart, Live, LastWord, Crossed, StopMarks, Marks, NoteOverlap, HalfSent, NoStop,
     page, work
<1> QED
  BY <1>1, <1>2, <1>3, <1>4, <1>5, <1>6, <1>7 DEF IInv

\* The stop is told to the page's run, which is its own.
LEMMA StopTellsKeeps == ASSUME IInv, NEW s \in Sessions, StopTells(s) PROVE IInv'
<1>1. TypeOK'
  <2>1. stop[s].run \in Runs
    BY DEF IInv, TypeOK, StopsAll, StopOK, StopTells
  <2>2. /\ closure' \in [Runs -> {"none", "listen", "open", "shut"}]
        /\ heard' \in [Runs -> SUBSET Runs]
    BY <2>1 DEF IInv, TypeOK, StopTells, Send, Listener, Ending
  <2>3. aborted' \in [Runs -> BOOLEAN]
    BY DEF IInv, TypeOK, StopTells, StopAborts, Aborted
  <2>4. stop' \in [Sessions -> [pc : {"none", "take", "mark", "emit"}, run : Runs \cup {None}]]
    BY DEF IInv, TypeOK, StopTells, NoStop
  <2> QED
    BY <2>2, <2>3, <2>4 DEF IInv, TypeOK, StopTells, work
<1>2. BegunAll'
  BY DEF IInv, TypeOK, BegunAll, Begun, StopTells, Send, Listener, work
<1>3. WorkedAll'
  BY DEF IInv, TypeOK, WorkedAll, Worked, StopsAll, StopOK, StopTells, StopAborts, Aborted, work
<1>4. StopsAll'
  BY DEF IInv, TypeOK, StopsAll, StopOK, StopTells, NoStop
<1>5. RegistryAll'
  BY DEF IInv, TypeOK, StopsAll, StopOK, RegistryAll, Known, StopTells, StopAborts, Aborted,
     NoStop, work
<1>6. OneOpen'
  BY DEF IInv, TypeOK, OneOpen, StopTells, Send
<1>7. ApartAll'
  BY DEF IInv, TypeOK, BegunAll, Begun, WorkedAll, Worked, StopsAll, StopOK, OneOpen, ApartAll,
     Apart, Live, LastWord, Crossed, StopTells, Send, Listener, Ending, NoStop, work
<1> QED
  BY <1>1, <1>2, <1>3, <1>4, <1>5, <1>6, <1>7 DEF IInv

\* A step in which nothing changes changes none of it.
LEMMA StutterKeeps == ASSUME IInv, UNCHANGED vars PROVE IInv'
<1>1. TypeOK' /\ BegunAll' /\ WorkedAll'
  BY DEF IInv, TypeOK, BegunAll, Begun, WorkedAll, Worked, vars, page, back, work
<1>2. StopsAll' /\ RegistryAll' /\ OneOpen'
  BY DEF IInv, StopsAll, StopOK, RegistryAll, Known, OneOpen, vars, page, back, work
<1>3. ApartAll'
  BY DEF IInv, ApartAll, Apart, Live, LastWord, Crossed, vars, page, back, work
<1> QED
  BY <1>1, <1>2, <1>3 DEF IInv

\* Every step keeps the invariant.
LEMMA NextKeeps == ASSUME IInv, [Next]_vars PROVE IInv'
<1>1. ASSUME NEW s \in Sessions, Stopping(s) PROVE IInv'
  BY <1>1, TakesKeeps, StopMarksKeeps, StopTellsKeeps DEF Stopping
<1>2. ASSUME NEW r \in Runs, Call(r) PROVE IInv'
  BY <1>2, ListensKeeps, RefusedKeeps, LooksKeeps, InsertsKeeps, RecordsKeeps, DropsKeeps DEF Call
<1>3. ASSUME NEW r \in Runs, Told(r) PROVE IInv'
  BY <1>3, TellsKeeps, FinishesKeeps, LeavesKeeps, AbortsKeeps, SendsNewsKeeps, WorkerEndsKeeps,
     MonitorRemovesKeeps, MonitorTellsKeeps DEF Told
<1>4. ASSUME NEW r \in Runs, Provider(r) PROVE IInv'
  BY <1>4, EmploysKeeps, ChecksNewsKeeps, WorkerAnswersKeeps, CompletesKeeps, FailsKeeps
     DEF Provider
<1> QED
  BY <1>1, <1>2, <1>3, <1>4, PageStopsKeeps, PageStartsKeeps, TimesOutKeeps, StutterKeeps DEF Next

\* Nothing has begun at first.
LEMMA InitInv == Init => IInv
<1> SUFFICES ASSUME Init PROVE IInv
  OBVIOUS
<1>1. TypeOK
  BY BoundsAssumption DEF Init, TypeOK, NoStop
<1>2. BegunAll /\ WorkedAll /\ StopsAll
  BY DEF Init, BegunAll, Begun, WorkedAll, Worked, StopsAll, StopOK, NoStop
<1>3. RegistryAll /\ OneOpen /\ ApartAll
  BY DEF Init, RegistryAll, Known, OneOpen, ApartAll
<1> QED
  BY <1>1, <1>2, <1>3 DEF IInv

\* What holds of the runs holds of every reachable state.
LEMMA Always == Spec => []IInv
<1>1. Init => IInv
  BY InitInv
<1>2. IInv /\ [Next]_vars => IInv'
  BY NextKeeps
<1> QED
  BY <1>1, <1>2, PTL DEF Spec

\* Every variable of the page, the registry and the runs keeps its type.
THEOREM TypeCorrect == Spec => []TypeOK
<1>1. IInv => TypeOK
  BY DEF IInv
<1> QED
  BY <1>1, Always, PTL

\* The page takes the events of no other run for those of the run it waits for,
\* whatever is stopped, times out, is refused or fails meanwhile, unless a run of
\* the session was ended in the middle of its last word.
THEOREM HearsItselfAlways == Spec => []HearsItself
<1>1. IInv => HearsItself
  BY DEF IInv, BegunAll, Begun, ApartAll, Apart, HearsItself
<1> QED
  BY <1>1, Always, PTL

\* The registry knows the run that goes on, under the same exception, and knows no
\* run whose task has left.
THEOREM RegistryAgreesAlways == Spec => []RegistryAgrees
<1>1. ASSUME IInv PROVE RegistryAgrees
  <2>1. ASSUME NEW r \in Runs, state[r] = "running", task[r] # "gone"
        PROVE  registry[sess[r]] = r \/ Crossed(sess[r])
                 \/ stop[sess[r]] = [pc |-> "mark", run |-> r]
    <3>1. sess[r] \in Sessions
      BY <1>1, <2>1 DEF IInv, TypeOK, BegunAll, Begun, WorkedAll, Worked
    <3> QED
      BY <1>1, <2>1, <3>1, NoneAssumption DEF IInv, TypeOK, ApartAll, Apart
  <2>2. ASSUME NEW s \in Sessions, registry[s] # None
        PROVE  task[registry[s]] \notin {"none", "gone"}
    BY <1>1, <2>2 DEF IInv, RegistryAll, Known
  <2> QED
    BY <2>1, <2>2 DEF RegistryAgrees
<1>2. IInv => RegistryAgrees
  BY <1>1
<1> QED
  BY <1>2, Always, PTL
=============================================================================
