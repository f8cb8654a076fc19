--------------------------- MODULE ListenerRootProofs ---------------------------
(* Proofs about ListenerRoot, for any number of sessions and supervisors. *)
EXTENDS ListenerRoot, TLAPS

Mails == Seq(Sessions \cup {Shutdown})

\* Taking or casting a message keeps a mailbox a sequence of messages.
LEMMA MailType ==
  ASSUME NEW q \in Mails, NEW m \in Sessions \cup {Shutdown}
  PROVE  /\ Append(q, m) \in Mails
         /\ q # <<>> => Tail(q) \in Mails
  BY DEF Mails

\* A cast leaves every mailbox a sequence of updates and Shutdowns.
LEMMA CastType ==
  ASSUME TypeOK, NEW i \in Supervisors, NEW m \in Sessions \cup {Shutdown},
         Cast(i, m)
  PROVE  mail' \in [Supervisors -> Mails]
<1>1. mail \in [Supervisors -> Mails]
  BY DEF TypeOK, Mails
<1>2. Append(mail[i], m) \in Mails
  BY <1>1, MailType
<1> QED
  BY <1>1, <1>2 DEF Cast

\* What root is handling, by the kind of it.
DoingOK ==
  /\ doing.op \in {"start", "update", "spawn"} => doing.session \in Sessions
  /\ doing.op = "spawn" => /\ doing.sup \in Supervisors
                           /\ doing = Spawning(doing.session, doing.sup)
  /\ doing.op # "none" => doing # Idle
  /\ doing.op # "spawn" =>
       \A s \in Sessions \cup {NoSession}, i \in Supervisors :
         doing # Spawning(s, i)

\* What root is doing is one of the three forms of a doing.
LEMMA DoingType == TypeOK => DoingOK
<1> SUFFICES ASSUME TypeOK PROVE DoingOK
  OBVIOUS
<1>1. CASE doing = Idle
  BY <1>1 DEF Idle, Spawning, DoingOK
<1>2. ASSUME NEW m \in Message, doing = Handling(m) PROVE DoingOK
  BY <1>2 DEF Message, Handling, Idle, Spawning, DoingOK
<1>3. ASSUME NEW s \in Sessions, NEW i \in Supervisors, doing = Spawning(s, i)
      PROVE  DoingOK
  BY <1>3 DEF Spawning, Idle, DoingOK
<1> QED
  BY <1>1, <1>2, <1>3 DEF TypeOK, Doings

\* What root may be handling next.
LEMMA NextDoing ==
  /\ Idle \in Doings
  /\ \A m \in Message : Handling(m) \in Doings
  /\ \A s \in Sessions, i \in Supervisors : Spawning(s, i) \in Doings
BY DEF Doings

-------------------------------------------------------------------------------
(* Type correctness *)

\* The initial state has the types.
LEMMA InitType == Init => TypeOK
BY NextDoing DEF Init, TypeOK, Phases, Says

\* Each action keeps the types.
LEMMA StepType == TypeOK /\ [Next]_vars => TypeOK'
<1> SUFFICES ASSUME TypeOK, [Next]_vars PROVE TypeOK'
  OBVIOUS
<1>0. DoingOK
  BY DoingType
<1> USE NextDoing DEF TypeOK
<1>1. CASE Send
  BY <1>1 DEF Send, supVars
<1>2. CASE Take
  <2>1. /\ Head(inbox) \in Message
        /\ Tail(inbox) \in Seq(Message)
    BY <1>2 DEF Take
  <2> QED
    BY <1>2, <2>1 DEF Take, supVars
<1>3. CASE StartRefused \/ StartWithoutVault
  BY <1>3 DEF StartRefused, StartWithoutVault, ClearStoppedSupervisors,
              KeptActive, KeptActiveSession, KeptFinalizing, supVars
<1>4. CASE StartSpawns
  <2>1. PICK i \in Supervisors :
          /\ phase' = [phase EXCEPT ![i] = "starting"]
          /\ owner' = [owner EXCEPT ![i] = doing.session]
          /\ doing' = Spawning(doing.session, i)
    BY <1>4 DEF StartSpawns
  <2>2. doing.session \in Sessions
    BY <1>0, <1>4 DEF StartSpawns, DoingOK
  <2>3. UNCHANGED <<inbox, mail, linked, exits, said>>
    BY <1>4 DEF StartSpawns
  <2>4. /\ active' \in Supervisors \cup {NoSup}
        /\ activeSession' \in Sessions \cup {NoSession}
        /\ finalizing' \in [Sessions -> Supervisors \cup {NoSup}]
    BY <1>4 DEF StartSpawns, ClearStoppedSupervisors, KeptActive,
                KeptActiveSession, KeptFinalizing
  <2> QED
    BY <2>1, <2>2, <2>3, <2>4 DEF Phases
<1>5. CASE StartFailed \/ StartedTooLate
  BY <1>5 DEF StartFailed, StartedTooLate, supVars
<1>6. CASE Started
  BY <1>0, <1>6 DEF Started, DoingOK, Says, Announced
<1>7. CASE UpdateSession
  <2>1. mail' \in [Supervisors -> Seq(Sessions \cup {Shutdown})]
    <3>1. CASE activeSession = doing.session /\ active # NoSup
      BY <1>0, <1>7, <3>1, CastType DEF UpdateSession, DoingOK, Mails
    <3>2. CASE ~(activeSession = doing.session /\ active # NoSup)
      BY <1>7, <3>2 DEF UpdateSession
    <3> QED
      BY <3>1, <3>2
  <2> QED
    BY <1>7, <2>1 DEF UpdateSession
<1>8. CASE StopSession
  <2>1. mail' \in [Supervisors -> Seq(Sessions \cup {Shutdown})]
    BY <1>8, CastType DEF StopSession, Mails
  <2> QED
    BY <1>8, <2>1 DEF StopSession, Says
<1>9. CASE StopNothing
  BY <1>9 DEF StopNothing, supVars
<1>10. CASE ActiveEnds
  <2>1. exits' \in Seq(Supervisors)
    BY <1>10 DEF ActiveEnds, Completing
  <2>2. said' \in [Sessions -> Says]
    BY <1>10 DEF ActiveEnds, Says
  <2> QED
    BY <1>10, <2>1, <2>2 DEF ActiveEnds
<1>11. CASE FinalizingEnds
  BY <1>11 DEF FinalizingEnds, Completing, Says
<1>12. CASE UnknownEnds
  BY <1>12 DEF UnknownEnds, Completing, rootVars
<1>13. ASSUME NEW i \in Supervisors, ChildrenSpawned(i) \/ ChildrenFail(i)
       PROVE  TypeOK'
  BY <1>13 DEF ChildrenSpawned, ChildrenFail, rootVars, Phases
<1>14. ASSUME NEW i \in Supervisors, HandlesUpdate(i) \/ HandlesShutdown(i)
       PROVE  TypeOK'
  <2>1. mail' \in [Supervisors -> Seq(Sessions \cup {Shutdown})]
    <3>1. Tail(mail[i]) \in Mails
      BY <1>14, MailType DEF HandlesUpdate, HandlesShutdown, Mails
    <3> QED
      BY <1>14, <3>1 DEF HandlesUpdate, HandlesShutdown, Mails
  <2> QED
    BY <1>14, <2>1 DEF HandlesUpdate, HandlesShutdown, rootVars, Phases
<1>15. ASSUME NEW i \in Supervisors, Degrades(i) \/ EndsItself(i)
       PROVE  TypeOK'
  BY <1>15 DEF Degrades, EndsItself, rootVars, supVars, Phases, Says, Announced
<1>16. ASSUME NEW i \in Supervisors, StopsRecorder(i) \/ Stops(i)
       PROVE  TypeOK'
  <2>1. CASE StopsRecorder(i)
    BY <2>1 DEF StopsRecorder, rootVars, Phases
  <2>2. CASE Stops(i)
    <3>1. <<>> \in Seq(Sessions \cup {Shutdown})
      OBVIOUS
    <3>2. mail' \in [Supervisors -> Seq(Sessions \cup {Shutdown})]
      BY <2>2, <3>1 DEF Stops
    <3>3. exits' \in Seq(Supervisors)
      BY <2>2 DEF Stops
    <3> QED
      BY <2>2, <3>2, <3>3 DEF Stops, rootVars, Phases
  <2> QED
    BY <1>16, <2>1, <2>2
<1>17. CASE UNCHANGED vars
  BY <1>17 DEF vars, rootVars, supVars
<1> QED
  BY <1>1, <1>2, <1>3, <1>4, <1>5, <1>6, <1>7, <1>8, <1>9, <1>10, <1>11, <1>12,
     <1>13, <1>14, <1>15, <1>16, <1>17
     DEF Next, RootNext, SupervisorNext, Proceeds

\* Root and the supervisors keep every variable within its type.
THEOREM TypeCorrect == Spec => []TypeOK
<1>1. Init => TypeOK
  BY InitType
<1>2. TypeOK /\ [Next]_vars => TypeOK'
  BY StepType
<1> QED
  BY <1>1, <1>2, PTL DEF Spec

-------------------------------------------------------------------------------
(* Which supervisors root keeps track of *)

Spawned == {"running", "closing", "saving", "stopped"}

\* The active supervisor runs the active session, which is not finalizing too.
ActiveOK ==
  active # NoSup => /\ owner[active] = activeSession
                    /\ activeSession \in Sessions
                    /\ phase[active] \in Spawned
                    /\ finalizing[activeSession] = NoSup

\* A finalizing supervisor runs that session and is on its way out.
FinalizingOK ==
  \A s \in Sessions :
    finalizing[s] # NoSup =>
      /\ owner[finalizing[s]] = s
      /\ phase[finalizing[s]] \in Spawned
      /\ phase[finalizing[s]] = "running" => Told(finalizing[s])

\* While root waits for a supervisor to start, no session is active and the
\* one that is started is not finalizing.
SpawnOK ==
  doing.op = "spawn" =>
    /\ active = NoSup /\ finalizing[doing.session] = NoSup
    /\ owner[doing.sup] = doing.session

MailOK ==
  \A i \in Supervisors :
    /\ \A n \in DOMAIN mail[i] : mail[i][n] \in {owner[i], Shutdown}
    /\ phase[i] = "unborn" => mail[i] = <<>>

OwnerOK == \A i \in Supervisors : phase[i] # "unborn" => owner[i] \in Sessions

ExitsOK == \A n \in DOMAIN exits : phase[exits[n]] = "stopped"

\* The inductive invariant.
RootInv ==
  /\ TypeOK /\ OwnerOK
  /\ ActiveOK /\ FinalizingOK /\ SpawnOK /\ MailOK /\ ExitsOK /\ NoOrphan

\* A mailbox that gets another message still holds what it held, and one that
\* loses a message other than Shutdown still holds its Shutdown.
LEMMA ToldKept ==
  ASSUME NEW q \in Mails, NEW m \in Sessions \cup {Shutdown}
  PROVE  /\ \E n \in DOMAIN Append(q, m) : Append(q, m)[n] = m
         /\ (\E n \in DOMAIN q : q[n] = Shutdown) =>
              \E n \in DOMAIN Append(q, m) : Append(q, m)[n] = Shutdown
         /\ \A n \in DOMAIN Append(q, m) :
              Append(q, m)[n] = m \/ \E k \in DOMAIN q : q[k] = Append(q, m)[n]
         /\ q # <<>> =>
              \A n \in DOMAIN Tail(q) : n + 1 \in DOMAIN q /\ Tail(q)[n] = q[n + 1]
         /\ (q # <<>> /\ Head(q) # Shutdown /\ \E n \in DOMAIN q : q[n] = Shutdown)
              => \E n \in DOMAIN Tail(q) : Tail(q)[n] = Shutdown
<1> USE DEF Mails
<1>1. Append(q, m)[Len(q) + 1] = m /\ Len(q) + 1 \in DOMAIN Append(q, m)
  OBVIOUS
<1>2. \A n \in DOMAIN q : n \in DOMAIN Append(q, m) /\ Append(q, m)[n] = q[n]
  OBVIOUS
<1>3. \A n \in DOMAIN Append(q, m) : n = Len(q) + 1 \/ n \in DOMAIN q
  OBVIOUS
<1>4. q # <<>> =>
        \A n \in DOMAIN Tail(q) : n + 1 \in DOMAIN q /\ Tail(q)[n] = q[n + 1]
  OBVIOUS
<1>5. q # <<>> =>
        \A n \in DOMAIN q : n # 1 => n - 1 \in DOMAIN Tail(q)
                                     /\ Tail(q)[n - 1] = q[n]
  OBVIOUS
<1>6. q # <<>> => Head(q) = q[1]
  OBVIOUS
<1>7. ASSUME q # <<>>, Head(q) # Shutdown, NEW n \in DOMAIN q, q[n] = Shutdown
      PROVE  \E k \in DOMAIN Tail(q) : Tail(q)[k] = Shutdown
  BY <1>5, <1>6, <1>7
<1> QED
  BY <1>1, <1>2, <1>3, <1>4, <1>7

\* Casting a message that a supervisor may get leaves its mailbox in order.
LEMMA CastKeeps ==
  ASSUME TypeOK, MailOK, NEW i \in Supervisors,
         NEW m \in Sessions \cup {Shutdown}, m \in {owner[i], Shutdown},
         Cast(i, m), UNCHANGED <<owner, phase>>
  PROVE  /\ MailOK'
         /\ \A j \in Supervisors : Told(j) => Told(j)'
         /\ Alive(i) /\ m = Shutdown => Told(i)'
<1>1. mail \in [Supervisors -> Mails]
  BY DEF TypeOK, Mails
<1>2. CASE ~Alive(i)
  BY <1>1, <1>2 DEF Cast, MailOK, Told
<1>3. CASE Alive(i)
  <2>1. /\ mail'[i] = Append(mail[i], m)
        /\ \A j \in Supervisors : j # i => mail'[j] = mail[j]
    BY <1>1, <1>3 DEF Cast
  <2>2. \A j \in Supervisors : Told(j) => Told(j)'
    BY <1>1, <2>1, ToldKept DEF Told
  <2>3. m = Shutdown => Told(i)'
    BY <1>1, <2>1, ToldKept DEF Told
  <2>4. \A n \in DOMAIN mail'[i] : mail'[i][n] \in {owner[i], Shutdown}
    <3>1. \A n \in DOMAIN mail'[i] :
            mail'[i][n] = m \/ \E k \in DOMAIN mail[i] : mail[i][k] = mail'[i][n]
      BY <1>1, <2>1, ToldKept
    <3> QED
      BY <3>1 DEF MailOK
  <2>5. phase[i] # "unborn"
    BY <1>3 DEF Alive, Gone
  <2> QED
    BY <2>1, <2>2, <2>3, <2>4, <2>5 DEF MailOK
<1> QED
  BY <1>2, <1>3

\* clear_stopped_supervisors only forgets supervisors that are not up.
LEMMA ClearKeeps ==
  ASSUME TypeOK, ClearStoppedSupervisors
  PROVE  /\ active' # NoSup => active' = active /\ activeSession' = activeSession
         /\ \A s \in Sessions : finalizing'[s] \in {finalizing[s], NoSup}
         /\ \A i \in Supervisors : Alive(i) =>
              /\ active = i => active' = i
              /\ \A s \in Sessions : finalizing[s] = i => finalizing'[s] = i
<1>1. \A i \in Supervisors : Alive(i) => ~HasStopped(i)
  BY DEF HasStopped, Alive, Gone
<1> QED
  BY <1>1 DEF TypeOK, ClearStoppedSupervisors, KeptActive, KeptActiveSession,
              KeptFinalizing

\* At first no table, mailbox or exit names a supervisor.
LEMMA RootInit == Init => RootInv
<1> SUFFICES ASSUME Init PROVE RootInv
  OBVIOUS
<1>1. TypeOK
  BY InitType
<1>2. DoingOK
  BY <1>1, DoingType
<1>3. doing.op # "spawn"
  BY DEF Init, Idle
<1> QED
  BY <1>1, <1>3 DEF Init, RootInv, OwnerOK, ActiveOK, FinalizingOK, SpawnOK, MailOK,
                    ExitsOK, NoOrphan, Alive, Gone

\* Root's own steps that start or refuse a session keep the invariant.
LEMMA StartKeeps ==
  ASSUME RootInv, TypeOK',
         \/ StartRefused \/ StartWithoutVault \/ StartSpawns
         \/ StartFailed \/ StartedTooLate \/ Started
  PROVE  RootInv'
<1>0. TypeOK /\ DoingOK
  BY DoingType DEF RootInv
<1>i. Idle.op = "none" /\ \A s \in Sessions, i \in Supervisors : Idle # Spawning(s, i)
  BY DEF Idle, Spawning
<1> USE DEF OwnerOK, ActiveOK, FinalizingOK, MailOK, ExitsOK
<1>1. CASE StartRefused \/ StartWithoutVault
  <2>1. /\ ClearStoppedSupervisors
        /\ UNCHANGED supVars
        /\ doing' = Idle /\ doing.op = "start"
    BY <1>1 DEF StartRefused, StartWithoutVault
  <2>2. OwnerOK' /\ ActiveOK' /\ FinalizingOK' /\ MailOK' /\ ExitsOK'
    BY <1>0, <2>1, ClearKeeps DEF RootInv, supVars, Told, TypeOK
  <2>3. SpawnOK'
    BY <1>i, <2>1 DEF SpawnOK
  <2>4. NoOrphan'
    <3> SUFFICES ASSUME NEW j \in Supervisors, Alive(j)'
                 PROVE  active' = j \/ finalizing'[owner[j]] = j
      BY <2>1 DEF NoOrphan, supVars
    <3>1. Alive(j)
      BY <2>1 DEF Alive, supVars
    <3>2. owner[j] \in Sessions
      BY <3>1 DEF RootInv, Alive, Gone
    <3>3. active = j \/ finalizing[owner[j]] = j
      BY <1>0, <2>1, <3>1, <3>2 DEF RootInv, NoOrphan, Starting, DoingOK
    <3> QED
      BY <1>0, <2>1, <3>1, <3>2, <3>3, ClearKeeps
  <2> QED
    BY <2>2, <2>3, <2>4 DEF RootInv
<1>2. CASE StartSpawns
  <2>1. PICK i \in Supervisors :
          /\ phase[i] = "unborn"
          /\ phase' = [phase EXCEPT ![i] = "starting"]
          /\ owner' = [owner EXCEPT ![i] = doing.session]
          /\ doing' = Spawning(doing.session, i)
    BY <1>2 DEF StartSpawns
  <2>2. /\ ClearStoppedSupervisors /\ doing.op = "start"
        /\ ~SessionAlreadyRunning(doing.session)
        /\ UNCHANGED <<mail, linked, exits, said>>
    BY <1>2 DEF StartSpawns
  <2>3. doing.session \in Sessions
    BY <1>0, <2>2 DEF DoingOK
  <2>4. /\ doing'.op = "spawn" /\ doing'.sup = i
        /\ doing'.session = doing.session
    BY <2>1 DEF Spawning
  <2>5. /\ \A j \in Supervisors : j # i => owner'[j] = owner[j]
                                           /\ phase'[j] = phase[j]
        /\ owner'[i] = doing.session /\ phase'[i] = "starting"
    BY <1>0, <2>1 DEF TypeOK
  <2>6. active' = NoSup /\ finalizing'[doing.session] = NoSup
    BY <2>2, <2>3 DEF SessionAlreadyRunning, ClearStoppedSupervisors,
                      KeptFinalizing
  <2>7. FinalizingOK'
    <3> SUFFICES ASSUME NEW s \in Sessions, finalizing'[s] # NoSup
                 PROVE  /\ owner'[finalizing'[s]] = s
                        /\ phase'[finalizing'[s]] \in Spawned
                        /\ phase'[finalizing'[s]] = "running" =>
                             Told(finalizing[s])'
      BY DEF Told
    <3>1. finalizing'[s] = finalizing[s] /\ finalizing[s] \in Supervisors
      BY <1>0, <2>2, ClearKeeps DEF TypeOK
    <3>2. finalizing[s] # i
      BY <2>1, <3>1 DEF RootInv, Spawned
    <3> QED
      BY <2>2, <2>5, <3>1, <3>2 DEF RootInv, Told
  <2>8. OwnerOK' /\ MailOK' /\ ExitsOK'
    <3>1. mail[i] = <<>>
      BY <2>1 DEF RootInv
    <3>2. \A n \in DOMAIN exits : exits[n] \in Supervisors /\ exits[n] # i
      BY <1>0, <2>1 DEF RootInv, TypeOK
    <3> QED
      BY <2>2, <2>3, <2>5, <3>1, <3>2 DEF RootInv
  <2>9. NoOrphan'
    <3> SUFFICES ASSUME NEW j \in Supervisors, Alive(j)'
                 PROVE  \/ active' = j \/ finalizing'[owner'[j]] = j
                        \/ Starting(j)'
      BY DEF NoOrphan
    <3>1. CASE j = i
      BY <2>1, <2>5, <3>1 DEF Starting
    <3>2. CASE j # i
      <4>1. Alive(j) /\ owner'[j] = owner[j]
        BY <2>5, <3>2 DEF Alive
      <4>2. active = j \/ finalizing[owner[j]] = j \/ Starting(j)
        BY <4>1 DEF RootInv, NoOrphan
      <4>3. ~Starting(j)
        BY <1>0, <2>2 DEF Starting, DoingOK, Spawning
      <4>4. CASE active = j
        BY <1>0, <2>2, <4>1, <4>4, ClearKeeps
      <4>5. owner[j] \in Sessions
        BY <4>1 DEF RootInv, Alive, Gone
      <4>6. CASE finalizing[owner[j]] = j
        BY <1>0, <2>2, <4>1, <4>5, <4>6, ClearKeeps
      <4> QED
        BY <4>2, <4>3, <4>4, <4>6
    <3> QED
      BY <3>1, <3>2
  <2> QED
    BY <2>4, <2>5, <2>6, <2>7, <2>8, <2>9 DEF RootInv, SpawnOK
<1>3. CASE StartFailed \/ StartedTooLate
  <2>1. /\ doing.op = "spawn" /\ phase[doing.sup] \in {"failed", "stopped"}
        /\ doing' = Idle
        /\ UNCHANGED <<active, activeSession, finalizing, supVars>>
    BY <1>3 DEF StartFailed, StartedTooLate
  <2>2. OwnerOK' /\ ActiveOK' /\ FinalizingOK' /\ MailOK' /\ ExitsOK'
    BY <2>1 DEF RootInv, supVars, Told
  <2>3. SpawnOK'
    BY <1>i, <2>1 DEF SpawnOK
  <2>4. \A j \in Supervisors : Starting(j) => j = doing.sup
    BY DEF Starting, Spawning
  <2>5. NoOrphan'
    BY <2>1, <2>4 DEF RootInv, NoOrphan, Alive, Gone, supVars
  <2> QED
    BY <2>2, <2>3, <2>5 DEF RootInv
<1>4. CASE Started
  <2>1. /\ doing.op = "spawn" /\ doing' = Idle
        /\ phase[doing.sup] \in {"running", "closing", "saving"}
        /\ active' = doing.sup /\ activeSession' = doing.session
        /\ UNCHANGED <<finalizing, phase, owner, mail, exits>>
    BY <1>4 DEF Started
  <2>2. doing.sup \in Supervisors /\ doing.session \in Sessions
    BY <1>0, <2>1 DEF DoingOK
  <2>3. /\ active = NoSup /\ finalizing[doing.session] = NoSup
        /\ owner[doing.sup] = doing.session
    BY <2>1 DEF RootInv, SpawnOK
  <2>4. OwnerOK' /\ ActiveOK' /\ FinalizingOK' /\ MailOK' /\ ExitsOK'
    BY <2>1, <2>2, <2>3 DEF RootInv, Told, Spawned
  <2>5. SpawnOK'
    BY <1>i, <2>1 DEF SpawnOK
  <2>6. \A j \in Supervisors : Starting(j) => j = doing.sup
    BY DEF Starting, Spawning
  <2>7. NoOrphan'
    BY <1>0, <2>1, <2>3, <2>6, NoneAssumption DEF RootInv, NoOrphan, Alive, TypeOK
  <2> QED
    BY <2>4, <2>5, <2>7 DEF RootInv
<1> QED
  BY <1>1, <1>2, <1>3, <1>4

\* So do those that update or stop one.
LEMMA StopKeeps ==
  ASSUME RootInv, TypeOK', UpdateSession \/ StopSession \/ StopNothing
  PROVE  RootInv'
<1>0. TypeOK /\ DoingOK
  BY DoingType DEF RootInv
<1>i. Idle.op = "none" /\ \A s \in Sessions, i \in Supervisors : Idle # Spawning(s, i)
  BY DEF Idle, Spawning
<1>1. /\ doing' = Idle /\ doing.op \in {"update", "stop"}
      /\ UNCHANGED <<phase, owner, exits>>
  BY DEF UpdateSession, StopSession, StopNothing, supVars
<1>2. SpawnOK'
  BY <1>i, <1>1 DEF SpawnOK
<1>3. \A j \in Supervisors : ~Starting(j)
  BY <1>0, <1>1 DEF DoingOK, Starting, Spawning
<1>4. OwnerOK' /\ ExitsOK'
  BY <1>1 DEF RootInv, OwnerOK, ExitsOK
<1>5. CASE \/ UpdateSession /\ activeSession = doing.session /\ active # NoSup
           \/ StopSession
  <2> DEFINE m == IF doing.op = "update" THEN doing.session ELSE Shutdown
  <2>0. PICK a \in Supervisors : a = active
    BY <1>0, <1>5 DEF StopSession, TypeOK
  <2>1. /\ Cast(a, m)
        /\ m \in Sessions \cup {Shutdown}
        /\ m \in {owner[a], Shutdown}
    BY <1>0, <1>5, <2>0 DEF UpdateSession, StopSession, DoingOK, RootInv, TypeOK,
                            ActiveOK
  <2> HIDE DEF m
  <2>2. /\ MailOK'
        /\ \A j \in Supervisors : Told(j) => Told(j)'
        /\ Alive(a) /\ m = Shutdown => Told(a)'
    BY <1>0, <1>1, <2>1, CastKeeps DEF RootInv
  <2>3. CASE UpdateSession
    <3>1. UNCHANGED <<active, activeSession, finalizing>>
      BY <2>3 DEF UpdateSession
    <3>2. ActiveOK' /\ FinalizingOK'
      BY <1>0, <1>1, <2>2, <3>1 DEF RootInv, ActiveOK, FinalizingOK, TypeOK
    <3>3. NoOrphan'
      BY <1>1, <1>3, <3>1 DEF RootInv, NoOrphan, Alive
    <3> QED
      BY <1>2, <1>4, <2>2, <3>2, <3>3 DEF RootInv
  <2>4. CASE StopSession
    <3>1. /\ finalizing' = [finalizing EXCEPT ![activeSession] = a]
          /\ active' = NoSup /\ active # NoSup /\ m = Shutdown
      BY <2>0, <2>4 DEF StopSession, m
    <3>2. /\ owner[a] = activeSession /\ activeSession \in Sessions
          /\ phase[a] \in Spawned
      BY <2>0, <3>1 DEF RootInv, ActiveOK
    <3>3. phase[a] = "running" => Told(a)'
      BY <2>2, <3>1 DEF Alive, Gone
    <3>4. ActiveOK'
      BY <3>1 DEF ActiveOK
    <3>5. FinalizingOK'
      <4> SUFFICES ASSUME NEW s \in Sessions, finalizing'[s] # NoSup
                   PROVE  /\ owner[finalizing'[s]] = s
                          /\ phase[finalizing'[s]] \in Spawned
                          /\ phase[finalizing'[s]] = "running" =>
                               Told(finalizing[s])'
        BY <1>1 DEF FinalizingOK, Told
      <4>1. CASE s = activeSession
        <5>1. finalizing'[s] = a
          BY <1>0, <3>1, <3>2, <4>1 DEF TypeOK
        <5> QED
          BY <3>2, <3>3, <4>1, <5>1 DEF Told
      <4>2. CASE s # activeSession
        <5>1. finalizing'[s] = finalizing[s] /\ finalizing[s] \in Supervisors
          BY <1>0, <3>1, <4>2 DEF TypeOK
        <5> QED
          BY <2>2, <5>1 DEF RootInv, FinalizingOK, Told
      <4> QED
        BY <4>1, <4>2
    <3>6. NoOrphan'
      <4> SUFFICES ASSUME NEW j \in Supervisors, Alive(j)
                   PROVE  finalizing'[owner[j]] = j
        BY <1>1 DEF NoOrphan, Alive
      <4>1. owner[j] \in Sessions /\ (active = j \/ finalizing[owner[j]] = j)
        BY <1>3 DEF RootInv, NoOrphan, OwnerOK, Alive, Gone
      <4>2. finalizing[activeSession] = NoSup
        BY <3>1 DEF RootInv, ActiveOK
      <4> QED
        BY <1>0, <2>0, <3>1, <3>2, <4>1, <4>2, NoneAssumption DEF TypeOK
    <3> QED
      BY <1>2, <1>4, <2>2, <3>4, <3>5, <3>6 DEF RootInv
  <2> QED
    BY <1>5, <2>3, <2>4
<1>6. CASE \/ UpdateSession /\ ~(activeSession = doing.session /\ active # NoSup)
           \/ StopNothing
  <2>1. UNCHANGED <<active, activeSession, finalizing, mail>>
    BY <1>6 DEF UpdateSession, StopNothing, supVars
  <2>2. ActiveOK' /\ FinalizingOK' /\ MailOK'
    BY <1>1, <2>1 DEF RootInv, ActiveOK, FinalizingOK, MailOK, Told
  <2>3. NoOrphan'
    BY <1>1, <1>3, <2>1 DEF RootInv, NoOrphan, Alive
  <2> QED
    BY <1>2, <1>4, <2>2, <2>3 DEF RootInv
<1> QED
  BY <1>5, <1>6

\* And those that handle the exit of a supervisor.
LEMMA EndKeeps ==
  ASSUME RootInv, TypeOK', ActiveEnds \/ FinalizingEnds \/ UnknownEnds
  PROVE  RootInv'
<1>0. TypeOK /\ DoingOK
  BY DoingType DEF RootInv
<1>i. Idle.op = "none" /\ \A s \in Sessions, i \in Supervisors : Idle # Spawning(s, i)
  BY DEF Idle, Spawning
<1>1. /\ doing = Idle /\ doing' = Idle /\ exits # <<>>
      /\ exits' = Tail(exits)
      /\ UNCHANGED <<phase, owner, mail>>
  BY DEF ActiveEnds, FinalizingEnds, UnknownEnds, Completing, rootVars
<1>2. Head(exits) = exits[1] /\ 1 \in DOMAIN exits
  BY <1>0, <1>1 DEF TypeOK
<1>3. phase[Head(exits)] = "stopped"
  BY <1>2 DEF RootInv, ExitsOK
<1>4. ExitsOK'
  <2>1. \A n \in DOMAIN Tail(exits) :
          n + 1 \in DOMAIN exits /\ Tail(exits)[n] = exits[n + 1]
    BY <1>0, <1>1 DEF TypeOK
  <2> QED
    BY <1>1, <2>1 DEF RootInv, ExitsOK
<1>5. OwnerOK' /\ SpawnOK' /\ MailOK'
  BY <1>i, <1>1 DEF RootInv, OwnerOK, SpawnOK, MailOK
<1>6. /\ active' # NoSup => active' = active /\ activeSession' = activeSession
      /\ active' = active \/ active = Head(exits)
      /\ \A s \in Sessions :
           \/ finalizing'[s] = finalizing[s]
           \/ finalizing'[s] = NoSup /\ finalizing[s] = Head(exits)
  <2>1. CASE ActiveEnds
    BY <2>1 DEF ActiveEnds, OfActive
  <2>2. CASE FinalizingEnds
    BY <1>0, <2>2 DEF FinalizingEnds, TypeOK
  <2>3. CASE UnknownEnds
    BY <2>3 DEF UnknownEnds, rootVars
  <2> QED
    BY <2>1, <2>2, <2>3
<1>7. ActiveOK' /\ FinalizingOK'
  BY <1>1, <1>6 DEF RootInv, ActiveOK, FinalizingOK, Told
<1>8. NoOrphan'
  <2> SUFFICES ASSUME NEW j \in Supervisors, Alive(j)
               PROVE  active' = j \/ finalizing'[owner[j]] = j
    BY <1>1 DEF NoOrphan, Alive
  <2>1. owner[j] \in Sessions /\ (active = j \/ finalizing[owner[j]] = j)
    BY <1>i, <1>1 DEF RootInv, NoOrphan, OwnerOK, Alive, Gone, Starting
  <2>2. j # Head(exits)
    BY <1>3 DEF Alive, Gone
  <2> QED
    BY <1>6, <2>1, <2>2
<1> QED
  BY <1>4, <1>5, <1>7, <1>8 DEF RootInv

\* What a queue of exits holds when at most one has been added.
LEMMA OneMore ==
  ASSUME NEW q \in Seq(Supervisors), NEW i \in Supervisors,
         NEW r \in Seq(Supervisors), r = q \/ r = Append(q, i)
  PROVE  \A n \in DOMAIN r : r[n] = i \/ (n \in DOMAIN q /\ r[n] = q[n])
<1>1. CASE r = q
  BY <1>1
<1>2. CASE r = Append(q, i)
  BY <1>2
<1> QED
  BY <1>1, <1>2

\* Every step of a supervisor keeps the invariant.
LEMMA SupervisorKeeps ==
  ASSUME RootInv, TypeOK', NEW i \in Supervisors,
         Proceeds(i) \/ Degrades(i) \/ EndsItself(i)
  PROVE  RootInv'
<1>0. TypeOK /\ mail \in [Supervisors -> Mails]
  BY DEF RootInv, TypeOK, Mails
<1>a. mail[i] \in Mails /\ Shutdown \in Sessions \cup {Shutdown}
  BY <1>0
<1>b. exits \in Seq(Supervisors)
  BY <1>0 DEF TypeOK
<1>c. mail[i] # <<>> =>
        /\ \A n \in DOMAIN Tail(mail[i]) :
             n + 1 \in DOMAIN mail[i] /\ Tail(mail[i])[n] = mail[i][n + 1]
        /\ Head(mail[i]) # Shutdown /\ Told(i) =>
             \E n \in DOMAIN Tail(mail[i]) : Tail(mail[i])[n] = Shutdown
  BY <1>a, ToldKept DEF Told
<1> USE DEF Proceeds, ChildrenSpawned, ChildrenFail, HandlesUpdate,
            HandlesShutdown, StopsRecorder, Stops, Degrades, EndsItself
<1>1. UNCHANGED <<rootVars, owner, linked>>
  BY DEF supVars
<1>2. phase[i] \notin Gone
  BY DEF Gone
<1>3. \A j \in Supervisors : j # i => phase'[j] = phase[j] /\ mail'[j] = mail[j]
  BY <1>0 DEF supVars, TypeOK
<1>4. /\ phase'[i] # "unborn"
      /\ phase[i] \in Spawned => phase'[i] \in Spawned
      /\ phase'[i] = "running" => phase[i] \in {"starting", "running"}
  BY <1>0 DEF supVars, TypeOK, Spawned
<1>5. phase[i] = "running" /\ phase'[i] = "running" /\ Told(i) => Told(i)'
  <2>1. CASE HandlesUpdate(i)
    <3>1. mail'[i] = Tail(mail[i]) /\ mail[i] # <<>> /\ Head(mail[i]) # Shutdown
      BY <1>0, <2>1
    <3> QED
      BY <3>1, <1>c DEF Told
  <2>2. CASE Degrades(i)
    BY <2>2 DEF supVars, Told
  <2>3. CASE ~(HandlesUpdate(i) \/ Degrades(i))
    BY <1>0, <2>3 DEF TypeOK
  <2> QED
    BY <2>1, <2>2, <2>3
<1>6. MailOK'
  <2>1. \A n \in DOMAIN mail'[i] : mail'[i][n] \in {owner[i], Shutdown}
    <3>1. CASE HandlesUpdate(i) \/ HandlesShutdown(i)
      <4>1. mail'[i] = Tail(mail[i]) /\ mail[i] # <<>>
        BY <1>0, <3>1
      <4>2. \A n \in DOMAIN mail'[i] :
              n + 1 \in DOMAIN mail[i] /\ mail'[i][n] = mail[i][n + 1]
        BY <4>1, <1>c
      <4> QED
        BY <4>2 DEF RootInv, MailOK
    <3>2. CASE Stops(i)
      BY <1>0, <3>2
    <3>3. CASE ~(HandlesUpdate(i) \/ HandlesShutdown(i) \/ Stops(i))
      BY <3>3 DEF RootInv, MailOK, supVars
    <3> QED
      BY <3>1, <3>2, <3>3
  <2> QED
    BY <1>1, <1>3, <1>4, <2>1 DEF RootInv, MailOK
<1>7. ExitsOK'
  <2>1. CASE Stops(i)
    <3>1. phase'[i] = "stopped"
      BY <1>0, <2>1 DEF TypeOK
    <3>2. \A n \in DOMAIN exits' :
            exits'[n] = i \/ (n \in DOMAIN exits /\ exits'[n] = exits[n])
      <4>1. exits' = exits \/ exits' = Append(exits, i)
        BY <2>1
      <4> QED
        BY <1>b, <4>1, OneMore DEF TypeOK
    <3>3. \A n \in DOMAIN exits : exits[n] \in Supervisors
      BY <1>0 DEF TypeOK
    <3> QED
      BY <1>3, <3>1, <3>2, <3>3 DEF RootInv, ExitsOK
  <2>2. CASE ~Stops(i)
    <3>0. exits' = exits
      BY <2>2 DEF supVars
    <3>1. \A n \in DOMAIN exits : exits[n] \in Supervisors
      BY <1>b
    <3>2. \A n \in DOMAIN exits : exits[n] # i
      BY <1>2 DEF RootInv, ExitsOK, Gone
    <3> QED
      BY <1>3, <3>0, <3>1, <3>2 DEF RootInv, ExitsOK
  <2> QED
    BY <2>1, <2>2
<1>8. OwnerOK' /\ SpawnOK'
  BY <1>1, <1>2, <1>3 DEF RootInv, OwnerOK, SpawnOK, Gone, rootVars
<1>9. ActiveOK'
  BY <1>0, <1>1, <1>3, <1>4 DEF RootInv, ActiveOK, rootVars, TypeOK
<1>10. FinalizingOK'
  <2> SUFFICES ASSUME NEW s \in Sessions, NEW j \in Supervisors,
                      j = finalizing[s]
               PROVE  /\ owner[j] = s
                      /\ phase'[j] \in Spawned
                      /\ phase'[j] = "running" => Told(j)'
    BY <1>0, <1>1 DEF FinalizingOK, rootVars, TypeOK, Told
  <2>1. /\ owner[j] = s /\ phase[j] \in Spawned
        /\ phase[j] = "running" => Told(j)
    BY NoneAssumption DEF RootInv, FinalizingOK, Told
  <2>2. CASE j = i
    BY <1>4, <1>5, <2>1, <2>2 DEF Spawned
  <2>3. CASE j # i
    BY <1>3, <2>1, <2>3 DEF Told
  <2> QED
    BY <2>2, <2>3
<1>11. NoOrphan'
  <2>1. \A j \in Supervisors : Alive(j)' => Alive(j)
    BY <1>2, <1>3 DEF Alive
  <2> QED
    BY <1>1, <2>1 DEF RootInv, NoOrphan, rootVars, Starting
<1> QED
  BY <1>6, <1>7, <1>8, <1>9, <1>10, <1>11 DEF RootInv

\* The invariant step, from the lemmas on single actions above.
LEMMA RootStep == RootInv /\ [Next]_vars => RootInv'
<1> SUFFICES ASSUME RootInv, [Next]_vars PROVE RootInv'
  OBVIOUS
<1>0. TypeOK' /\ DoingOK
  BY StepType, DoingType DEF RootInv
<1>1. CASE Send
  BY <1>0, <1>1
     DEF Send, supVars, RootInv, OwnerOK, ActiveOK, FinalizingOK, SpawnOK, MailOK,
         ExitsOK, NoOrphan, Told, Alive, Starting
<1>2. CASE Take
  <2>1. Head(inbox) \in Message
    BY <1>2 DEF Take, RootInv, TypeOK
  <2>2. doing'.op # "spawn"
    BY <1>2, <2>1 DEF Take, Handling, Message
  <2>3. \A j \in Supervisors : ~Starting(j)
    BY <1>2 DEF Take, Starting, Idle, Spawning
  <2> QED
    BY <1>0, <1>2, <2>2, <2>3
       DEF Take, supVars, RootInv, OwnerOK, ActiveOK, FinalizingOK, SpawnOK,
           MailOK, ExitsOK, NoOrphan, Told, Alive
<1>3. CASE RootNext /\ ~Take
  BY <1>0, <1>3, StartKeeps, StopKeeps, EndKeeps DEF RootNext
<1>4. CASE SupervisorNext
  BY <1>0, <1>4, SupervisorKeeps DEF SupervisorNext
<1>5. CASE UNCHANGED vars
  BY <1>0, <1>5
     DEF vars, rootVars, supVars, RootInv, OwnerOK, ActiveOK, FinalizingOK,
         SpawnOK, MailOK, ExitsOK, NoOrphan, Told, Alive, Starting
<1> QED
  BY <1>1, <1>2, <1>3, <1>4, <1>5 DEF Next

\* The tables, the phases and the exits agree for ever.
LEMMA RootInvAlways == Spec => []RootInv
BY RootInit, RootStep, PTL DEF Spec

-------------------------------------------------------------------------------
(* What follows from it *)

\* Root never loses sight of a supervisor that is up.
THEOREM NoOrphanAlways == Spec => []NoOrphan
<1>1. RootInv => NoOrphan
  BY DEF RootInv
<1> QED
  BY <1>1, RootInvAlways, PTL

\* What root tracks belongs to the session it tracks it for.
THEOREM TracksRightSessionAlways == Spec => []TracksRightSession
<1>1. RootInv => TracksRightSession
  BY DEF RootInv, ActiveOK, FinalizingOK, MailOK, TracksRightSession
<1> QED
  BY <1>1, RootInvAlways, PTL

\* Two supervisors of one session are never up together.
THEOREM OneSupervisorAlways == Spec => []OneSupervisorPerSession
<1>1. ASSUME RootInv PROVE OneSupervisorPerSession
  <2> SUFFICES ASSUME NEW i \in Supervisors, NEW j \in Supervisors,
                      Alive(i), Alive(j), owner[i] = owner[j], i # j
               PROVE  FALSE
    BY DEF OneSupervisorPerSession
  <2>1. /\ active = i \/ finalizing[owner[i]] = i \/ Starting(i)
        /\ active = j \/ finalizing[owner[i]] = j \/ Starting(j)
    BY <1>1 DEF RootInv, NoOrphan
  <2>2. \A k \in Supervisors : Starting(k) =>
          /\ doing.op = "spawn" /\ doing.sup = k /\ doing.session = owner[k]
    BY DEF Starting, Spawning
  <2> QED
    BY <1>1, <2>1, <2>2, NoneAssumption DEF RootInv, ActiveOK, SpawnOK
<1> QED
  BY <1>1, RootInvAlways, PTL

\* A session is never started beside one that goes on recording.
THEOREM OneGoesOnAlways == Spec => []OneGoesOn
<1>1. ASSUME RootInv PROVE OneGoesOn
  <2> SUFFICES ASSUME NEW i \in Supervisors, NEW j \in Supervisors,
                      phase[i] \in {"starting", "running"},
                      phase[j] \in {"starting", "running"},
                      ~Told(i), ~Told(j), i # j
               PROVE  FALSE
    BY DEF OneGoesOn
  <2>1. ASSUME NEW k \in {i, j}
        PROVE  active = k \/ Starting(k)
    <3>1. /\ owner[k] \in Sessions
          /\ active = k \/ finalizing[owner[k]] = k \/ Starting(k)
      BY <1>1 DEF RootInv, NoOrphan, OwnerOK, Alive, Gone
    <3>2. finalizing[owner[k]] # k
      BY <1>1, <3>1, NoneAssumption DEF RootInv, FinalizingOK, Spawned, Told
    <3> QED
      BY <3>1, <3>2
  <2>2. \A k \in Supervisors : Starting(k) => doing.op = "spawn" /\ doing.sup = k
    BY DEF Starting, Spawning
  <2> QED
    BY <1>1, <2>1, <2>2, NoneAssumption DEF RootInv, SpawnOK
<1> QED
  BY <1>1, RootInvAlways, PTL

-------------------------------------------------------------------------------
(* What root announces *)

\* A session root still tracks has not been announced as ended.
SaidOK ==
  /\ ActiveIsAnnounced
  /\ \A s \in Sessions : finalizing[s] # NoSup => said[s] # "inactive"

SaidInv == RootInv /\ SaidOK

\* At first nothing is announced and nothing runs.
LEMMA SaidInit == Init => SaidInv
BY RootInit DEF Init, SaidInv, SaidOK, ActiveIsAnnounced

\* Each action that announces, or that changes what is up, keeps them in step.
LEMMA SaidStep == SaidInv /\ [Next]_vars => SaidInv'
<1> SUFFICES ASSUME SaidInv, [Next]_vars PROVE SaidInv'
  OBVIOUS
<1>0. RootInv /\ SaidOK /\ RootInv' /\ TypeOK /\ DoingOK
  BY RootStep, DoingType DEF SaidInv, RootInv
<1> SUFFICES SaidOK'
  BY <1>0 DEF SaidInv
<1> USE DEF SaidOK, ActiveIsAnnounced
<1>1. CASE UNCHANGED <<active, activeSession, finalizing, said>>
  BY <1>0, <1>1
<1>2. CASE StartRefused \/ StartWithoutVault \/ StartSpawns
  <2>1. ClearStoppedSupervisors /\ said' = said
    BY <1>2 DEF StartRefused, StartWithoutVault, StartSpawns
  <2> QED
    BY <1>0, <2>1, ClearKeeps
<1>3. CASE Started
  <2>1. /\ doing.op = "spawn" /\ doing.session \in Sessions
        /\ said' = [said EXCEPT ![doing.session] = "live"]
        /\ activeSession' = doing.session /\ UNCHANGED finalizing
    BY <1>0, <1>3 DEF Started, DoingOK
  <2> QED
    BY <1>0, <2>1 DEF TypeOK, Announced
<1>4. CASE StopSession
  <2>1. /\ active' = NoSup /\ activeSession \in Sessions
        /\ said' = [said EXCEPT ![activeSession] = "finalizing"]
        /\ finalizing' = [finalizing EXCEPT ![activeSession] = active]
    BY <1>0, <1>4 DEF StopSession, RootInv, ActiveOK
  <2> QED
    BY <1>0, <2>1 DEF TypeOK
<1>5. CASE ActiveEnds
  <2>1. active \in Supervisors
    <3>1. Head(exits) \in Supervisors /\ active = Head(exits)
      BY <1>0, <1>5 DEF ActiveEnds, Completing, OfActive, TypeOK
    <3> QED
      BY <3>1
  <2>2. /\ active' = NoSup /\ UNCHANGED finalizing
        /\ said' = [said EXCEPT ![activeSession] = "inactive"]
    BY <1>5 DEF ActiveEnds
  <2>3. activeSession \in Sessions /\ finalizing[activeSession] = NoSup
    BY <1>0, <2>1, NoneAssumption DEF RootInv, ActiveOK
  <2> QED
    BY <1>0, <2>2, <2>3 DEF TypeOK
<1>6. CASE FinalizingEnds
  <2>1. PICK s \in Sessions :
          /\ finalizing[s] = Head(exits)
          /\ finalizing' = [finalizing EXCEPT ![s] = NoSup]
          /\ said' = [said EXCEPT ![s] = "inactive"]
    BY <1>6 DEF FinalizingEnds
  <2>2. Head(exits) \in Supervisors /\ UNCHANGED <<active, activeSession>>
    BY <1>0, <1>6 DEF FinalizingEnds, Completing, TypeOK
  <2>3. active # NoSup => activeSession \in Sessions /\ activeSession # s
    BY <1>0, <2>1, <2>2, NoneAssumption DEF RootInv, ActiveOK
  <2> QED
    BY <1>0, <2>1, <2>2, <2>3 DEF TypeOK
<1>7. ASSUME NEW i \in Supervisors, Degrades(i) \/ EndsItself(i)
      PROVE  SaidOK'
  <2>1. /\ UNCHANGED <<active, activeSession, finalizing>>
        /\ said' = said \/ said' = [said EXCEPT ![owner[i]] = "degraded"]
    BY <1>7 DEF Degrades, EndsItself, rootVars
  <2>2. active # NoSup => activeSession \in Sessions
    BY <1>0 DEF RootInv, ActiveOK
  <2> QED
    BY <1>0, <2>1, <2>2 DEF TypeOK, Announced
<1>8. CASE UNCHANGED vars
  BY <1>1, <1>8 DEF vars, rootVars
<1>9. CASE Send \/ Take \/ StartFailed \/ StartedTooLate \/ UpdateSession
           \/ StopNothing \/ UnknownEnds
  BY <1>1, <1>9 DEF Send, Take, StartFailed, StartedTooLate, UpdateSession,
                    StopNothing, UnknownEnds, rootVars
<1>10. ASSUME NEW i \in Supervisors, Proceeds(i)
       PROVE  SaidOK'
  BY <1>1, <1>10 DEF Proceeds, ChildrenSpawned, ChildrenFail, HandlesUpdate,
                     HandlesShutdown, StopsRecorder, Stops, rootVars
<1> QED
  BY <1>2, <1>3, <1>4, <1>5, <1>6, <1>7, <1>8, <1>9, <1>10
     DEF Next, RootNext, SupervisorNext

\* The exit of an earlier supervisor of a session does not end the session that
\* root calls active.
THEOREM ActiveIsAnnouncedAlways == Spec => []ActiveIsAnnounced
<1>1. SaidInv => ActiveIsAnnounced
  BY DEF SaidInv, SaidOK
<1> QED
  BY <1>1, SaidInit, SaidStep, PTL DEF Spec

\* A session that is announced as ended has no supervisor that is still saving.
THEOREM EndedIsSavedAlways == Spec => []EndedIsSaved
<1>1. ASSUME SaidInv PROVE EndedIsSaved
  <2> SUFFICES ASSUME NEW i \in Supervisors, Alive(i), ~Starting(i)
               PROVE  said[owner[i]] # "inactive"
    BY DEF EndedIsSaved
  <2>1. /\ owner[i] \in Sessions
        /\ active = i \/ finalizing[owner[i]] = i
    BY <1>1 DEF SaidInv, RootInv, NoOrphan, OwnerOK, Alive, Gone
  <2> QED
    BY <1>1, <2>1, NoneAssumption
       DEF SaidInv, SaidOK, RootInv, ActiveOK, ActiveIsAnnounced, Announced
<1> QED
  BY <1>1, SaidInit, SaidStep, PTL DEF Spec
===============================================================================
