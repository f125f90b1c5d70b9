------------------------- MODULE ActorRuntime_proofs -------------------------
(***************************************************************************)
(* Proofs about the actor runtime for any set of actors, any number of     *)
(* messages and globals, any programs and whatever the fields of a module  *)
(* hold that nothing was stored to.                                        *)
(***************************************************************************)
EXTENDS ActorRuntime, SequenceTheorems, TLAPS

LEMMA QueueFacts ==
  ASSUME NEW S, NEW q \in Seq(S), q # << >>
  PROVE  /\ Tail(q) \in Seq(S) /\ Head(q) \in S
         /\ \A i \in 1 .. Len(q) : i = 1 \/ i - 1 \in 1 .. Len(Tail(q))
         /\ \A i \in 1 .. Len(q) : q[i] = IF i = 1 THEN Head(q) ELSE Tail(q)[i - 1]
  OBVIOUS

LEMMA AppendFacts ==
  ASSUME NEW S, NEW q \in Seq(S), NEW e \in S
  PROVE  /\ Append(q, e) \in Seq(S)
         /\ Len(q) \in Nat
         /\ Len(Append(q, e)) = Len(q) + 1
         /\ \A i \in 1 .. Len(q) : Append(q, e)[i] = q[i]
         /\ Append(q, e)[Len(q) + 1] = e
  OBVIOUS

-----------------------------------------------------------------------------
(* A thread that has not begun to copy has a clear flag, and an actor has  *)
(* a spawner from its creation on.                                         *)
Births ==
  \A a \in Actors :
    /\ pc[a] \in {"unborn", "starting"} => ~terminated[a] /\ copyBase[a] = 0
    /\ pc[a] = "unborn" <=> spawner[a] = NoActor

(* An actor past the test of the flags has been told to stop.              *)
TestedMayStop ==
  \A a \in Actors : pc[a] \in {"checkHead", "release", "gone"} => MayStop(a)

InQueue(a) == {queue[a][i] : i \in 1 .. Len(queue[a])}

(* No early message is lost: it is handled, being handled, or queued.      *)
EarlyAccounted ==
  \A a \in Actors : early[a] \subseteq handled[a] \cup {current[a]} \cup InQueue(a)

(* Main is inside create_actor while an actor is not entered, and joins    *)
(* none before it halts.                                                   *)
MainCreates ==
  /\ spawning[Main] # NoActor => pc[Main] \in {"register", "crashed"}
  /\ pc[Main] \in {"run", "register"} => joining = 0

(* Halt has joined the first actors of events, and they are all there are  *)
(* but the one that is being created.                                      *)
JoinedSoFar ==
  /\ \A i \in 0 .. joining - 1 : Entered(i) /\ Finished(events[i])
  /\ \A a \in Actors : spawner[a] = Main => a \in Registered \/ spawning[Main] = a
  /\ pc[Main] \in {"cleanup", "ended"} => joining >= eventCount

(* What is stored only grows: at the spawn, when the copy starts, now.     *)
CopyIsLater ==
  \A a \in Actors : spawner[a] = Main =>
    /\ storedAtSpawn[a] <= stored
    /\ pc[a] # "starting" => storedAtSpawn[a] <= copyBase[a]
    /\ copyBase[a] <= stored

(* A thread inside create_actor creates an actor, and one that runs a      *)
(* handler handles a message.                                              *)
Busy ==
  /\ \A t \in Threads : pc[t] = "register" => spawning[t] \in Actors
  /\ \A a \in Actors : pc[a] \in {"run", "register"} => current[a] \in 1 .. MaxSends

IInv ==
  /\ TypeOK
  /\ Busy
  /\ Births
  /\ TestedMayStop
  /\ EarlyAccounted
  /\ EarlyMessagesHandled
  /\ MainCreates
  /\ ~astray => JoinedSoFar
  /\ CopyIsLater
  /\ GlobalsBeforeSpawnSeen

-----------------------------------------------------------------------------
LEMMA InitIInv == Init => IInv
  <1> SUFFICES ASSUME Init PROVE IInv
    OBVIOUS
  <1> USE RuntimeAssumption DEF Init, Threads
  <1>1. TypeOK
    <2>1. /\ pc \in [Threads -> MainPc \cup ActorPc] /\ pc[Main] \in MainPc
          /\ \A a \in Actors : pc[a] \in ActorPc
      BY DEF MainPc, ActorPc
    <2>2. queue \in [Actors -> Seq(1 .. MaxSends)]
      OBVIOUS
    <2>3. eventCount \in Int /\ events \in [0 .. EventSlots - 1 -> Actors \cup {NoActor}]
      OBVIOUS
    <2>4. /\ terminated \in [Threads -> BOOLEAN] /\ spawner \in [Actors -> Threads \cup {NoActor}]
          /\ spawning \in [Threads -> Actors \cup {NoActor}] /\ astray \in BOOLEAN
          /\ joining \in Nat /\ known \subseteq Actors
      OBVIOUS
    <2>5. /\ current \in [Actors -> 0 .. MaxSends] /\ \A a \in Actors : current[a] = 0
          /\ early \in [Actors -> SUBSET (1 .. MaxSends)]
          /\ handled \in [Actors -> SUBSET (1 .. MaxSends)] /\ nsent \in 0 .. MaxSends
      OBVIOUS
    <2>6. /\ copyBase \in [Actors -> 0 .. MaxGlobals] /\ stored \in 0 .. MaxGlobals
          /\ storedAtSpawn \in [Actors -> 0 .. MaxGlobals]
          /\ globals \in [Actors -> SUBSET (1 .. MaxGlobals)]
      OBVIOUS
    <2> HIDE DEF Init, Threads
    <2> QED
      BY <2>1, <2>2, <2>3, <2>4, <2>5, <2>6 DEF TypeOK
  <1>2. Busy /\ Births /\ TestedMayStop /\ EarlyMessagesHandled
        /\ CopyIsLater /\ GlobalsBeforeSpawnSeen
    BY DEF Busy, Births, TestedMayStop, EarlyMessagesHandled, CopyIsLater,
           GlobalsBeforeSpawnSeen
  <1>3. EarlyAccounted /\ MainCreates /\ JoinedSoFar
    <2>1. \A a \in Actors : early[a] = {} /\ spawner[a] = NoActor
      OBVIOUS
    <2>2. joining = 0 /\ pc[Main] = "run" /\ spawning[Main] = NoActor
      OBVIOUS
    <2> QED
      BY <2>1, <2>2 DEF EarlyAccounted, MainCreates, JoinedSoFar
  <1> QED
    BY <1>1, <1>2, <1>3 DEF IInv

LEMMA TypeStep == ASSUME IInv, [Next]_vars PROVE TypeOK'
  <1> USE RuntimeAssumption DEF Threads, At, GoTo
  <1>0. TypeOK /\ Busy /\ Births
    BY DEF IInv
  <1>1. ASSUME NEW t \in Threads, NEW b \in Actors, CreateActor(t, b) PROVE TypeOK'
    BY <1>0, <1>1
    DEF CreateActor, spawnVars, queueVars, globalVars, TypeOK, MainPc, ActorPc
  <1>2. ASSUME NEW t \in Threads, RegisterActor(t) PROVE TypeOK'
    <2>1. spawning[t] \in Actors
      BY <1>0, <1>2 DEF RegisterActor, EnterEvent, Busy
    <2>2. events' \in [0 .. EventSlots - 1 -> Actors \cup {NoActor}] /\ eventCount' \in Int
      BY <1>0, <1>2, <2>1 DEF RegisterActor, EnterEvent, EnterEvent, TypeOK
    <2> QED
      BY <1>0, <1>2, <2>1, <2>2
      DEF RegisterActor, EnterEvent, queueVars, globalVars, TypeOK, MainPc, ActorPc
  <1>3. ASSUME NEW t \in Threads, NEW b \in Actors, Send(t, b) PROVE TypeOK'
    <2>1. nsent + 1 \in 1 .. MaxSends /\ nsent' \in 0 .. MaxSends
      BY <1>0, <1>3 DEF Send, TypeOK
    <2>2. queue' \in [Actors -> Seq(1 .. MaxSends)]
      <3>1. Append(queue[b], nsent + 1) \in Seq(1 .. MaxSends)
        BY <1>0, <2>1, AppendFacts DEF TypeOK
      <3>2. queue' = queue \/ queue' = [queue EXCEPT ![b] = Append(queue[b], nsent + 1)]
        BY <1>3 DEF Send
      <3>3. queue \in [Actors -> Seq(1 .. MaxSends)]
        BY <1>0 DEF TypeOK
      <3> QED
        BY <3>1, <3>2, <3>3
    <2>3. early' \in [Actors -> SUBSET (1 .. MaxSends)]
      <3>1. early' = early \/ early' = [early EXCEPT ![b] = early[b] \cup {nsent + 1}]
        BY <1>3 DEF Send
      <3>2. early \in [Actors -> SUBSET (1 .. MaxSends)]
        BY <1>0 DEF TypeOK
      <3>3. early[b] \cup {nsent + 1} \in SUBSET (1 .. MaxSends)
        BY <2>1, <3>2
      <3> QED
        BY <3>1, <3>2, <3>3
    <2> QED
      BY <1>0, <1>3, <2>1, <2>2, <2>3 DEF Send, spawnVars, globalVars, TypeOK
  <1>4. ASSUME NEW t \in Threads, ExitWith(t) PROVE TypeOK'
    BY <1>0, <1>4
    DEF ExitWith, spawnVars, queueVars, globalVars, TypeOK, MainPc, ActorPc
  <1>5. ASSUME NEW a \in Actors, StartCopy(a) PROVE TypeOK'
    BY SMTT(40), <1>0, <1>5
    DEF StartCopy, spawnVars, queueVars, globalVars, TypeOK, MainPc, ActorPc
  <1>6. ASSUME NEW a \in Actors, EndCopy(a) PROVE TypeOK'
    <2>1. spawner[a] \in Threads
      BY <1>0, <1>6 DEF EndCopy, Births, TypeOK
    <2>2. 1 .. stored \subseteq 1 .. MaxGlobals /\ Copied(a) \subseteq 1 .. MaxGlobals
      BY <1>0 DEF Copied, TypeOK
    <2>3. Copies(a) \subseteq SUBSET (1 .. MaxGlobals)
      <3>1. CASE spawner[a] = Main
        BY <2>2, <3>1 DEF Copies
      <3>2. CASE spawner[a] # Main
        <4>1. globals[spawner[a]] \in SUBSET (1 .. MaxGlobals)
          BY <1>0, <2>1, <3>2 DEF TypeOK
        <4> QED
          BY <3>2, <4>1 DEF Copies
      <3> QED
        BY <3>1, <3>2
    <2>4. globals' \in [Actors -> SUBSET (1 .. MaxGlobals)]
      BY <1>0, <1>6, <2>3 DEF EndCopy, TypeOK
    <2> QED
      BY <1>0, <1>6, <2>4
      DEF EndCopy, spawnVars, queueVars, TypeOK, MainPc, ActorPc
  <1>7. ASSUME NEW a \in Actors, Dequeue(a) PROVE TypeOK'
    <2>1. queue[a] \in Seq(1 .. MaxSends) /\ queue[a] # << >>
      BY <1>0, <1>7 DEF Dequeue, TypeOK
    <2>2. Head(queue[a]) \in 1 .. MaxSends /\ Tail(queue[a]) \in Seq(1 .. MaxSends)
      BY <2>1, QueueFacts
    <2> QED
      BY SMTT(40), <1>0, <1>7, <2>2
      DEF Dequeue, spawnVars, globalVars, TypeOK, MainPc, ActorPc
  <1>8. ASSUME NEW a \in Actors, HandlerReturns(a) PROVE TypeOK'
    <2>1. current[a] \in 1 .. MaxSends
      BY <1>0, <1>8 DEF HandlerReturns, Busy
    <2>2. handled' \in [Actors -> SUBSET (1 .. MaxSends)]
      BY <1>0, <1>8, <2>1 DEF HandlerReturns, TypeOK
    <2> QED
      BY SMTT(40), <1>0, <1>8, <2>2
      DEF HandlerReturns, Freed, spawnVars, globalVars, TypeOK, MainPc, ActorPc
  <1>9. ASSUME NEW a \in Actors, CheckFlags(a) PROVE TypeOK'
    BY <1>0, <1>9
    DEF CheckFlags, spawnVars, queueVars, globalVars, TypeOK, MainPc, ActorPc
  <1>10. ASSUME NEW a \in Actors, CheckHead(a) PROVE TypeOK'
    BY <1>0, <1>10
    DEF CheckHead, HeadIsNull, spawnVars, queueVars, globalVars, TypeOK,
        MainPc, ActorPc
  <1>11. ASSUME NEW a \in Actors, Release(a) PROVE TypeOK'
    BY <1>0, <1>11
    DEF Release, spawnVars, queueVars, globalVars, TypeOK, MainPc, ActorPc
  <1>12. CASE StoreGlobal
    BY <1>0, <1>12
    DEF StoreGlobal, spawnVars, queueVars, globalVars, TypeOK, MainPc, ActorPc
  <1>13. CASE Halt
    BY <1>0, <1>13
    DEF Halt, spawnVars, queueVars, globalVars, TypeOK, MainPc, ActorPc
  <1>14. CASE Join
    BY <1>0, <1>14 DEF Join, spawnVars, queueVars, globalVars, TypeOK
  <1>15. CASE HaltReturns
    BY <1>0, <1>15
    DEF HaltReturns, JoinedAll, spawnVars, queueVars, globalVars, TypeOK,
        MainPc, ActorPc
  <1>16. CASE MainReturns
    BY <1>0, <1>16
    DEF MainReturns, spawnVars, queueVars, globalVars, TypeOK, MainPc, ActorPc
  <1>17. CASE UNCHANGED vars
    BY <1>0, <1>17
    DEF vars, spawnVars, queueVars, globalVars, spawnVars, queueVars,
        globalVars, TypeOK, MainPc, ActorPc
  <1>18. ASSUME NEW t \in Threads, RegisterAstray(t) PROVE TypeOK'
    <2>1. spawning[t] \in Actors /\ pc[t] = "register"
      BY <1>0, <1>18 DEF RegisterAstray, Busy
    <2>2. UNCHANGED <<spawner, events, joining, queueVars, globalVars, storedAtSpawn>> /\ astray' = TRUE
      BY <1>18 DEF RegisterAstray
    <2>3. CASE Crash /\ UNCHANGED <<terminated, eventCount, known, spawning>>
      BY SMTT(40), <1>0, <2>2, <2>3
      DEF Crash, queueVars, globalVars, TypeOK, MainPc, ActorPc
    <2>4. CASE /\ GoTo(t, "run")
               /\ \E flag \in BOOLEAN : terminated' = [terminated EXCEPT ![t] = flag]
               /\ \E n \in FreshCount \cup {eventCount + 1} :
                    eventCount' = IF t = Main THEN n ELSE eventCount
               /\ known' = known \cup {spawning[t]}
               /\ spawning' = [spawning EXCEPT ![t] = NoActor]
      <3>1. terminated' \in [Threads -> BOOLEAN] /\ eventCount' \in Int
        BY <1>0, <2>4 DEF TypeOK
      <3>2. spawning' \in [Threads -> Actors \cup {NoActor}] /\ known' \subseteq Actors
        BY <1>0, <2>1, <2>4 DEF TypeOK
      <3>3. /\ pc' \in [Threads -> MainPc \cup ActorPc] /\ pc'[Main] \in MainPc
            /\ \A a \in Actors : pc'[a] \in ActorPc
        BY <1>0, <2>4 DEF TypeOK, MainPc, ActorPc
      <3>4. \A a \in Actors : pc'[a] \notin {"run", "register", "exited"} => current[a] = 0
        BY <1>0, <2>1, <2>4 DEF TypeOK
      <3> QED
        BY <1>0, <2>2, <3>1, <3>2, <3>3, <3>4 DEF queueVars, globalVars, TypeOK
    <2> QED
      BY <1>18, <2>3, <2>4 DEF RegisterAstray
  <1>19. ASSUME NEW a \in Actors, LockUninitialised(a) PROVE TypeOK'
    BY <1>0, <1>19
    DEF LockUninitialised, Crash, spawnVars, queueVars, globalVars, TypeOK, MainPc, ActorPc
  <1>20. CASE JoinAstray
    <2>1. pc' = pc \/ pc' = [pc EXCEPT ![Main] = "crashed"]
      BY <1>20 DEF JoinAstray, Crash
    <2>2. joining' \in Nat /\ astray' = TRUE
      BY <1>0, <1>20 DEF JoinAstray, TypeOK
    <2>3. UNCHANGED <<terminated, spawnVars, queueVars, globalVars>>
      BY <1>20 DEF JoinAstray
    <2> QED
      BY <1>0, <2>1, <2>2, <2>3 DEF spawnVars, queueVars, globalVars, TypeOK, MainPc, ActorPc
  <1> QED
    BY <1>1, <1>2, <1>3, <1>4, <1>5, <1>6, <1>7, <1>8, <1>9, <1>10, <1>11,
       <1>12, <1>13, <1>14, <1>15, <1>16, <1>17, <1>18, <1>19, <1>20
    DEF Next, Program, ActorLoop, MainLoop

(***************************************************************************)
(* What create_actor changes, and what no step changes back.               *)
(***************************************************************************)
LEMMA CreateFacts ==
  ASSUME IInv, NEW t \in Threads, NEW b \in Actors, CreateActor(t, b)
  PROVE  /\ t # b /\ pc[t] = "run" /\ pc[b] = "unborn" /\ spawner[b] = NoActor
         /\ \A u \in Threads : pc'[u] = IF u = b THEN "starting"
                                      ELSE IF u = t THEN "register" ELSE pc[u]
         /\ \A a \in Actors : spawner'[a] = IF a = b THEN t ELSE spawner[a]
         /\ \A u \in Threads : spawning'[u] = IF u = t THEN b ELSE spawning[u]
         /\ \A a \in Actors : storedAtSpawn'[a] = IF a = b THEN stored
                                                ELSE storedAtSpawn[a]
  <1> USE RuntimeAssumption DEF Threads
  <1>1. TypeOK /\ Births
    BY DEF IInv
  <1>2. pc[t] = "run" /\ pc[b] = "unborn" /\ t # b
    BY DEF CreateActor, At
  <1>3. spawner[b] = NoActor
    BY <1>1, <1>2 DEF Births
  <1> QED
    BY <1>1, <1>2, <1>3 DEF CreateActor, TypeOK

LEMMA FinishedStays ==
  ASSUME IInv, [Next]_vars, NEW a \in Actors, Finished(a)
  PROVE  Finished(a)'
  <1> USE RuntimeAssumption DEF Threads, At, GoTo, Finished
  <1>1. pc \in [Threads -> MainPc \cup ActorPc]
    BY DEF IInv, TypeOK
  <1> QED
    BY <1>1
    DEF Next, Program, ActorLoop, MainLoop, vars, CreateActor, RegisterActor,
        Send, ExitWith, StartCopy, LockUninitialised, RegisterAstray, JoinAstray, Crash, EndCopy, Dequeue, HandlerReturns, CheckFlags,
        CheckHead, Release, StoreGlobal, Halt, Join, HaltReturns, MainReturns

LEMMA JoinedStay ==
  ASSUME IInv, ~astray, [Next]_vars, NEW i \in 0 .. joining - 1
  PROVE  Entered(i) /\ pc'[events[i]] \in {"gone", "exited"}
  <1>1. Entered(i) /\ Finished(events[i]) /\ events[i] \in Actors
    BY DEF IInv, TypeOK, JoinedSoFar, Entered
  <1> QED
    BY <1>1, FinishedStays DEF Finished

LEMMA JoinFrame ==
  ASSUME IInv, ~astray, [Next]_vars,
         UNCHANGED <<events, eventCount, joining, spawner>>,
         spawning'[Main] = spawning[Main],
         pc'[Main] \in {"cleanup", "ended"} => joining >= eventCount
  PROVE  JoinedSoFar'
  <1>1. JoinedSoFar
    BY DEF IInv
  <1>2. \A i \in 0 .. joining - 1 : Entered(i) /\ pc'[events[i]] \in {"gone", "exited"}
    BY JoinedStay
  <1> QED
    BY <1>1, <1>2 DEF JoinedSoFar, Registered, Entered, Finished

LEMMA BusyStep == ASSUME IInv, [Next]_vars PROVE Busy'
  <1> USE RuntimeAssumption DEF Threads, At, GoTo
  <1>0. TypeOK /\ TypeOK' /\ Busy
    BY TypeStep DEF IInv
  <1>1. ASSUME NEW t \in Threads, NEW b \in Actors, CreateActor(t, b) PROVE Busy'
    BY <1>0, <1>1
    DEF CreateActor, spawnVars, queueVars, Busy, TypeOK
  <1>2. ASSUME NEW t \in Threads, RegisterActor(t) PROVE Busy'
    BY <1>0, <1>2
    DEF RegisterActor, EnterEvent, spawnVars, queueVars, Busy, TypeOK
  <1>3. ASSUME NEW t \in Threads, NEW b \in Actors, Send(t, b) PROVE Busy'
    BY <1>0, <1>3
    DEF Send, spawnVars, queueVars, Busy, TypeOK
  <1>4. ASSUME NEW t \in Threads, ExitWith(t) PROVE Busy'
    BY <1>0, <1>4
    DEF ExitWith, spawnVars, queueVars, Busy, TypeOK
  <1>5. ASSUME NEW a \in Actors, StartCopy(a) PROVE Busy'
    BY <1>0, <1>5
    DEF StartCopy, spawnVars, queueVars, Busy, TypeOK
  <1>6. ASSUME NEW a \in Actors, EndCopy(a) PROVE Busy'
    BY <1>0, <1>6
    DEF EndCopy, spawnVars, queueVars, Busy, TypeOK
  <1>7. ASSUME NEW a \in Actors, Dequeue(a) PROVE Busy'
    <2>1. queue[a] \in Seq(1 .. MaxSends) /\ queue[a] # << >>
      BY <1>0, <1>7 DEF Dequeue, TypeOK
    <2>2. Head(queue[a]) \in 1 .. MaxSends
      BY <2>1, QueueFacts
    <2> QED
      BY SMTT(40), <1>0, <1>7, <2>2 DEF Dequeue, spawnVars, queueVars, Busy, TypeOK
  <1>8. ASSUME NEW a \in Actors, HandlerReturns(a) PROVE Busy'
    BY SMTT(40), <1>0, <1>8
    DEF HandlerReturns, Freed, spawnVars, queueVars, Busy, TypeOK
  <1>9. ASSUME NEW a \in Actors, CheckFlags(a) PROVE Busy'
    BY <1>0, <1>9
    DEF CheckFlags, spawnVars, queueVars, Busy, TypeOK
  <1>10. ASSUME NEW a \in Actors, CheckHead(a) PROVE Busy'
    BY <1>0, <1>10
    DEF CheckHead, HeadIsNull, spawnVars, queueVars, Busy, TypeOK
  <1>11. ASSUME NEW a \in Actors, Release(a) PROVE Busy'
    BY <1>0, <1>11
    DEF Release, spawnVars, queueVars, Busy, TypeOK
  <1>12. CASE StoreGlobal
    BY <1>0, <1>12
    DEF StoreGlobal, spawnVars, queueVars, Busy, TypeOK
  <1>13. CASE Halt
    BY <1>0, <1>13
    DEF Halt, spawnVars, queueVars, Busy, TypeOK
  <1>14. CASE Join
    BY <1>0, <1>14
    DEF Join, JoinedAll, spawnVars, queueVars, Busy, TypeOK
  <1>15. CASE HaltReturns
    BY <1>0, <1>15
    DEF HaltReturns, JoinedAll, spawnVars, queueVars, Busy, TypeOK
  <1>16. CASE MainReturns
    BY <1>0, <1>16
    DEF MainReturns, spawnVars, queueVars, Busy, TypeOK
  <1>17. CASE UNCHANGED vars
    BY <1>0, <1>17
    DEF vars, spawnVars, queueVars, queueVars, globalVars, spawnVars,
        queueVars, Busy, TypeOK
  <1>18. ASSUME NEW t \in Threads, RegisterAstray(t) PROVE Busy'
    BY <1>0, <1>18
    DEF RegisterAstray, Crash, spawnVars, queueVars, Busy, TypeOK
  <1>19. ASSUME NEW a \in Actors, LockUninitialised(a) PROVE Busy'
    BY <1>0, <1>19
    DEF LockUninitialised, Crash, spawnVars, queueVars, Busy, TypeOK
  <1>20. CASE JoinAstray
    BY <1>0, <1>20
    DEF JoinAstray, Crash, spawnVars, queueVars, Busy, TypeOK
  <1> QED
    BY <1>1, <1>2, <1>3, <1>4, <1>5, <1>6, <1>7, <1>8, <1>9, <1>10, <1>11,
       <1>12, <1>13, <1>14, <1>15, <1>16, <1>17, <1>18, <1>19, <1>20
    DEF Next, Program, ActorLoop, MainLoop

LEMMA BirthsStep == ASSUME IInv, [Next]_vars PROVE Births'
  <1> USE RuntimeAssumption DEF Threads, At, GoTo
  <1>0. TypeOK /\ TypeOK' /\ Births
    BY TypeStep DEF IInv
  <1>1. ASSUME NEW t \in Threads, NEW b \in Actors, CreateActor(t, b) PROVE Births'
    <2>1. terminated' = terminated /\ copyBase' = copyBase
      BY <1>1 DEF CreateActor, globalVars
    <2> QED
      BY <1>0, <1>1, <2>1, CreateFacts DEF Births
  <1>2. ASSUME NEW t \in Threads, RegisterActor(t) PROVE Births'
    BY <1>0, <1>2
    DEF RegisterActor, EnterEvent, spawnVars, globalVars, Births, TypeOK
  <1>3. ASSUME NEW t \in Threads, NEW b \in Actors, Send(t, b) PROVE Births'
    BY <1>0, <1>3
    DEF Send, spawnVars, globalVars, Births, TypeOK
  <1>4. ASSUME NEW t \in Threads, ExitWith(t) PROVE Births'
    BY <1>0, <1>4
    DEF ExitWith, spawnVars, globalVars, Births, TypeOK
  <1>5. ASSUME NEW a \in Actors, StartCopy(a) PROVE Births'
    BY <1>0, <1>5
    DEF StartCopy, spawnVars, globalVars, Births, TypeOK
  <1>6. ASSUME NEW a \in Actors, EndCopy(a) PROVE Births'
    BY <1>0, <1>6
    DEF EndCopy, spawnVars, globalVars, Births, TypeOK
  <1>7. ASSUME NEW a \in Actors, Dequeue(a) PROVE Births'
    BY <1>0, <1>7
    DEF Dequeue, spawnVars, globalVars, Births, TypeOK
  <1>8. ASSUME NEW a \in Actors, HandlerReturns(a) PROVE Births'
    BY <1>0, <1>8
    DEF HandlerReturns, Freed, spawnVars, globalVars, Births, TypeOK
  <1>9. ASSUME NEW a \in Actors, CheckFlags(a) PROVE Births'
    BY <1>0, <1>9
    DEF CheckFlags, spawnVars, globalVars, Births, TypeOK
  <1>10. ASSUME NEW a \in Actors, CheckHead(a) PROVE Births'
    BY <1>0, <1>10
    DEF CheckHead, HeadIsNull, spawnVars, globalVars, Births, TypeOK
  <1>11. ASSUME NEW a \in Actors, Release(a) PROVE Births'
    BY <1>0, <1>11
    DEF Release, spawnVars, globalVars, Births, TypeOK
  <1>12. CASE StoreGlobal
    BY <1>0, <1>12
    DEF StoreGlobal, spawnVars, globalVars, Births, TypeOK
  <1>13. CASE Halt
    BY <1>0, <1>13
    DEF Halt, spawnVars, globalVars, Births, TypeOK
  <1>14. CASE Join
    BY <1>0, <1>14
    DEF Join, JoinedAll, spawnVars, globalVars, Births, TypeOK
  <1>15. CASE HaltReturns
    BY <1>0, <1>15
    DEF HaltReturns, JoinedAll, spawnVars, globalVars, Births, TypeOK
  <1>16. CASE MainReturns
    BY <1>0, <1>16
    DEF MainReturns, spawnVars, globalVars, Births, TypeOK
  <1>17. CASE UNCHANGED vars
    BY <1>0, <1>17
    DEF vars, spawnVars, globalVars, queueVars, globalVars, spawnVars,
        globalVars, Births, TypeOK
  <1>18. ASSUME NEW t \in Threads, RegisterAstray(t) PROVE Births'
    BY <1>0, <1>18
    DEF RegisterAstray, Crash, spawnVars, globalVars, Births, TypeOK
  <1>19. ASSUME NEW a \in Actors, LockUninitialised(a) PROVE Births'
    BY <1>0, <1>19
    DEF LockUninitialised, Crash, spawnVars, globalVars, Births, TypeOK
  <1>20. CASE JoinAstray
    BY <1>0, <1>20
    DEF JoinAstray, Crash, spawnVars, globalVars, Births, TypeOK
  <1> QED
    BY <1>1, <1>2, <1>3, <1>4, <1>5, <1>6, <1>7, <1>8, <1>9, <1>10, <1>11,
       <1>12, <1>13, <1>14, <1>15, <1>16, <1>17, <1>18, <1>19, <1>20
    DEF Next, Program, ActorLoop, MainLoop

(* Only a write outside of events clears a flag, and freed memory stays    *)
(* freed.                                                                  *)
LEMMA StopStep == ASSUME IInv, [Next]_vars PROVE TestedMayStop'
  <1> USE RuntimeAssumption DEF Threads, At, GoTo
  <1>0. TypeOK /\ TypeOK' /\ Births /\ TestedMayStop
    BY TypeStep DEF IInv
  <1>1. ASSUME NEW t \in Threads, NEW b \in Actors, CreateActor(t, b) PROVE TestedMayStop'
    <2>1. terminated' = terminated /\ astray' = astray
      BY <1>1 DEF CreateActor
    <2>2. \A a \in Actors : pc'[a] \in {"checkHead", "release", "gone"} =>
            pc[a] = pc'[a] /\ spawner'[a] = spawner[a]
      BY <1>1, CreateFacts
    <2>3. \A u \in Threads : pc[u] = "gone" => pc'[u] = "gone"
      BY <1>1, CreateFacts
    <2> QED
      BY <1>0, <2>1, <2>2, <2>3 DEF TestedMayStop, MayStop, SpawnerFreed
  <1>2. ASSUME NEW t \in Threads, RegisterActor(t) PROVE TestedMayStop'
    <2>1. terminated' = terminated /\ spawner' = spawner /\ astray' = astray
      BY <1>2 DEF RegisterActor
    <2>2. pc' = [pc EXCEPT ![t] = "run"] /\ pc[t] = "register"
      BY <1>2 DEF RegisterActor
    <2> QED
      BY <1>0, <2>1, <2>2 DEF TestedMayStop, MayStop, SpawnerFreed, TypeOK
  <1>3. ASSUME NEW t \in Threads, NEW b \in Actors, Send(t, b) PROVE TestedMayStop'
    BY <1>0, <1>3
    DEF Send, spawnVars, Births, TestedMayStop, MayStop, SpawnerFreed, TypeOK
  <1>4. ASSUME NEW t \in Threads, ExitWith(t) PROVE TestedMayStop'
    BY SMTT(40), <1>0, <1>4
    DEF ExitWith, spawnVars, Births, TestedMayStop, MayStop, SpawnerFreed,
        TypeOK
  <1>5. ASSUME NEW a \in Actors, StartCopy(a) PROVE TestedMayStop'
    BY SMTT(40), <1>0, <1>5
    DEF StartCopy, spawnVars, Births, TestedMayStop, MayStop, SpawnerFreed,
        TypeOK
  <1>6. ASSUME NEW a \in Actors, EndCopy(a) PROVE TestedMayStop'
    BY <1>0, <1>6
    DEF EndCopy, spawnVars, Births, TestedMayStop, MayStop, SpawnerFreed, TypeOK
  <1>7. ASSUME NEW a \in Actors, Dequeue(a) PROVE TestedMayStop'
    BY <1>0, <1>7
    DEF Dequeue, spawnVars, Births, TestedMayStop, MayStop, SpawnerFreed, TypeOK
  <1>8. ASSUME NEW a \in Actors, HandlerReturns(a) PROVE TestedMayStop'
    BY <1>0, <1>8
    DEF HandlerReturns, Freed, spawnVars, Births, TestedMayStop, MayStop,
        SpawnerFreed, TypeOK
  <1>9. ASSUME NEW a \in Actors, CheckFlags(a) PROVE TestedMayStop'
    <2>1. PICK stop \in FlagsSeen(a) :
            pc' = [pc EXCEPT ![a] = IF stop THEN "checkHead" ELSE "dequeue"]
      BY <1>9 DEF CheckFlags
    <2>2. /\ terminated' = terminated /\ spawner' = spawner /\ astray' = astray
          /\ pc[a] = "checkFlags"
      BY <1>9 DEF CheckFlags, spawnVars
    <2>3. spawner[a] # NoActor
      BY <1>0, <2>2 DEF Births
    <2>4. stop => MayStop(a)
      BY <2>1, <2>3 DEF FlagsSeen, MayStop
    <2>5. \A b \in Actors : MayStop(b) => MayStop(b)'
      BY <1>0, <2>1, <2>2 DEF MayStop, SpawnerFreed, TypeOK
    <2>6. \A b \in Actors : pc'[b] = IF b = a THEN IF stop THEN "checkHead" ELSE "dequeue"
                                  ELSE pc[b]
      BY <1>0, <2>1 DEF TypeOK
    <2> QED
      BY <1>0, <2>4, <2>5, <2>6 DEF TestedMayStop
  <1>10. ASSUME NEW a \in Actors, CheckHead(a) PROVE TestedMayStop'
    BY <1>0, <1>10
    DEF CheckHead, HeadIsNull, spawnVars, Births, TestedMayStop, MayStop,
        SpawnerFreed, TypeOK
  <1>11. ASSUME NEW a \in Actors, Release(a) PROVE TestedMayStop'
    BY <1>0, <1>11
    DEF Release, spawnVars, Births, TestedMayStop, MayStop, SpawnerFreed, TypeOK
  <1>12. CASE StoreGlobal
    BY <1>0, <1>12
    DEF StoreGlobal, spawnVars, Births, TestedMayStop, MayStop, SpawnerFreed,
        TypeOK
  <1>13. CASE Halt
    BY <1>0, <1>13
    DEF Halt, spawnVars, Births, TestedMayStop, MayStop, SpawnerFreed, TypeOK
  <1>14. CASE Join
    BY <1>0, <1>14
    DEF Join, JoinedAll, spawnVars, Births, TestedMayStop, MayStop,
        SpawnerFreed, TypeOK
  <1>15. CASE HaltReturns
    BY <1>0, <1>15
    DEF HaltReturns, JoinedAll, spawnVars, Births, TestedMayStop, MayStop,
        SpawnerFreed, TypeOK
  <1>16. CASE MainReturns
    BY <1>0, <1>16
    DEF MainReturns, spawnVars, Births, TestedMayStop, MayStop, SpawnerFreed,
        TypeOK
  <1>17. CASE UNCHANGED vars
    BY <1>0, <1>17
    DEF vars, spawnVars, queueVars, globalVars, spawnVars, Births,
        TestedMayStop, MayStop, SpawnerFreed, TypeOK
  <1>18. ASSUME NEW t \in Threads, RegisterAstray(t) PROVE TestedMayStop'
    BY <1>0, <1>18
    DEF RegisterAstray, Crash, spawnVars, Births, TestedMayStop, MayStop, SpawnerFreed, TypeOK
  <1>19. ASSUME NEW a \in Actors, LockUninitialised(a) PROVE TestedMayStop'
    <2>1. terminated' = terminated /\ spawner' = spawner /\ (astray => astray')
      BY <1>19 DEF LockUninitialised, spawnVars
    <2>2. /\ pc' = [pc EXCEPT ![a] = "stuck"] \/ pc' = [pc EXCEPT ![Main] = "crashed"]
          /\ pc[a] = "starting"
      BY <1>19 DEF LockUninitialised, Crash
    <2> QED
      BY <1>0, <2>1, <2>2 DEF TestedMayStop, MayStop, SpawnerFreed, TypeOK
  <1>20. CASE JoinAstray
    BY <1>0, <1>20
    DEF JoinAstray, Crash, spawnVars, Births, TestedMayStop, MayStop, SpawnerFreed, TypeOK
  <1> QED
    BY <1>1, <1>2, <1>3, <1>4, <1>5, <1>6, <1>7, <1>8, <1>9, <1>10, <1>11,
       <1>12, <1>13, <1>14, <1>15, <1>16, <1>17, <1>18, <1>19, <1>20
    DEF Next, Program, ActorLoop, MainLoop

LEMMA AccountedStep == ASSUME IInv, [Next]_vars PROVE EarlyAccounted'
  <1> USE RuntimeAssumption DEF Threads, At, GoTo
  <1>0. TypeOK /\ TypeOK' /\ EarlyAccounted
    BY TypeStep DEF IInv
  <1>1. ASSUME NEW t \in Threads, NEW b \in Actors, CreateActor(t, b) PROVE EarlyAccounted'
    BY <1>0, <1>1
    DEF CreateActor, queueVars, EarlyAccounted, InQueue, TypeOK
  <1>2. ASSUME NEW t \in Threads, RegisterActor(t) PROVE EarlyAccounted'
    BY <1>0, <1>2
    DEF RegisterActor, EnterEvent, queueVars, EarlyAccounted, InQueue, TypeOK
  <1>3. ASSUME NEW t \in Threads, NEW b \in Actors, Send(t, b) PROVE EarlyAccounted'
    <2>1. current' = current /\ handled' = handled
      BY <1>3 DEF Send
    <2>2. CASE pc[b] = "gone"
      BY <1>0, <1>3, <2>1, <2>2 DEF Send, EarlyAccounted, InQueue
    <2>3. CASE pc[b] # "gone"
      <3>1. nsent + 1 \in 1 .. MaxSends /\ queue[b] \in Seq(1 .. MaxSends)
        BY <1>0, <1>3 DEF Send, TypeOK
      <3>2. queue'[b] = Append(queue[b], nsent + 1)
            /\ \A a \in Actors : a # b => queue'[a] = queue[a]
        BY <1>0, <1>3, <2>3 DEF Send, TypeOK
      <3>3. InQueue(b)' = InQueue(b) \cup {nsent + 1}
        BY SMTT(40), <3>1, <3>2, AppendFacts DEF InQueue
      <3>4. \A a \in Actors : a # b => InQueue(a)' = InQueue(a)
        BY <3>2 DEF InQueue
      <3>5. \A a \in Actors : \/ early'[a] = early[a]
                              \/ (a = b /\ early'[a] = early[a] \cup {nsent + 1})
        <4>1. early' = early \/ early' = [early EXCEPT ![b] = early[b] \cup {nsent + 1}]
          BY <1>3 DEF Send
        <4>2. early \in [Actors -> SUBSET (1 .. MaxSends)]
          BY <1>0 DEF TypeOK
        <4>3. CASE early' = early
          BY <4>3
        <4>4. CASE early' = [early EXCEPT ![b] = early[b] \cup {nsent + 1}]
          <5>1. early'[b] = early[b] \cup {nsent + 1}
            BY <4>2, <4>4
          <5>2. \A a \in Actors : a # b => early'[a] = early[a]
            BY <4>2, <4>4
          <5> QED
            BY <5>1, <5>2
        <4> QED
          BY <4>1, <4>3, <4>4
      <3> QED
        BY <1>0, <2>1, <3>3, <3>4, <3>5 DEF EarlyAccounted
    <2> QED
      BY <2>2, <2>3
  <1>4. ASSUME NEW t \in Threads, ExitWith(t) PROVE EarlyAccounted'
    <2>1. UNCHANGED <<queue, current, early, handled>>
      BY <1>4 DEF ExitWith, queueVars
    <2> QED
      BY <1>0, <2>1 DEF EarlyAccounted, InQueue
  <1>5. ASSUME NEW a \in Actors, StartCopy(a) PROVE EarlyAccounted'
    BY <1>0, <1>5
    DEF StartCopy, queueVars, EarlyAccounted, InQueue, TypeOK
  <1>6. ASSUME NEW a \in Actors, EndCopy(a) PROVE EarlyAccounted'
    BY <1>0, <1>6
    DEF EndCopy, queueVars, EarlyAccounted, InQueue, TypeOK
  <1>7. ASSUME NEW a \in Actors, Dequeue(a) PROVE EarlyAccounted'
    <2>1. queue[a] \in Seq(1 .. MaxSends) /\ queue[a] # << >> /\ current[a] = 0
      BY <1>0, <1>7 DEF Dequeue, TypeOK
    <2>2. current'[a] = Head(queue[a]) /\ queue'[a] = Tail(queue[a])
          /\ early' = early /\ handled' = handled
      BY <1>0, <1>7 DEF Dequeue, TypeOK
    <2>3. InQueue(a) \subseteq {Head(queue[a])} \cup InQueue(a)'
      BY <2>1, <2>2, QueueFacts DEF InQueue
    <2>4. 0 \notin early[a]
      BY <1>0 DEF TypeOK
    <2>5. \A b \in Actors : b # a => InQueue(b)' = InQueue(b) /\ current'[b] = current[b]
      BY <1>0, <1>7 DEF Dequeue, InQueue, TypeOK
    <2> QED
      BY <1>0, <2>1, <2>2, <2>3, <2>4, <2>5 DEF EarlyAccounted
  <1>8. ASSUME NEW a \in Actors, HandlerReturns(a) PROVE EarlyAccounted'
    BY SMTT(40), <1>0, <1>8
    DEF HandlerReturns, Freed, queueVars, EarlyAccounted, InQueue, TypeOK
  <1>9. ASSUME NEW a \in Actors, CheckFlags(a) PROVE EarlyAccounted'
    BY <1>0, <1>9
    DEF CheckFlags, queueVars, EarlyAccounted, InQueue, TypeOK
  <1>10. ASSUME NEW a \in Actors, CheckHead(a) PROVE EarlyAccounted'
    BY <1>0, <1>10
    DEF CheckHead, HeadIsNull, queueVars, EarlyAccounted, InQueue, TypeOK
  <1>11. ASSUME NEW a \in Actors, Release(a) PROVE EarlyAccounted'
    BY <1>0, <1>11
    DEF Release, queueVars, EarlyAccounted, InQueue, TypeOK
  <1>12. CASE StoreGlobal
    BY <1>0, <1>12
    DEF StoreGlobal, queueVars, EarlyAccounted, InQueue, TypeOK
  <1>13. CASE Halt
    BY <1>0, <1>13
    DEF Halt, queueVars, EarlyAccounted, InQueue, TypeOK
  <1>14. CASE Join
    BY <1>0, <1>14
    DEF Join, JoinedAll, queueVars, EarlyAccounted, InQueue, TypeOK
  <1>15. CASE HaltReturns
    <2>1. UNCHANGED <<early, handled, current, queue>>
      BY <1>15 DEF HaltReturns, queueVars
    <2> QED
      BY <1>0, <2>1 DEF EarlyAccounted, InQueue
  <1>16. CASE MainReturns
    BY <1>0, <1>16
    DEF MainReturns, queueVars, EarlyAccounted, InQueue, TypeOK
  <1>17. CASE UNCHANGED vars
    BY <1>0, <1>17
    DEF vars, spawnVars, queueVars, globalVars, queueVars, EarlyAccounted,
        InQueue, TypeOK
  <1>18. ASSUME NEW t \in Threads, RegisterAstray(t) PROVE EarlyAccounted'
    BY <1>0, <1>18
    DEF RegisterAstray, Crash, queueVars, EarlyAccounted, InQueue, TypeOK
  <1>19. ASSUME NEW a \in Actors, LockUninitialised(a) PROVE EarlyAccounted'
    <2>1. /\ pc' = [pc EXCEPT ![a] = "stuck"] \/ pc' = [pc EXCEPT ![Main] = "crashed"]
          /\ pc[a] = "starting"
      BY <1>19 DEF LockUninitialised, Crash
    <2>2. UNCHANGED <<early, handled, current, queue>>
      BY <1>19 DEF LockUninitialised, spawnVars, queueVars, globalVars
    <2> QED
      BY <1>0, <2>1, <2>2 DEF EarlyAccounted, InQueue, TypeOK
  <1>20. CASE JoinAstray
    BY <1>0, <1>20
    DEF JoinAstray, Crash, queueVars, EarlyAccounted, InQueue, TypeOK
  <1> QED
    BY <1>1, <1>2, <1>3, <1>4, <1>5, <1>6, <1>7, <1>8, <1>9, <1>10, <1>11,
       <1>12, <1>13, <1>14, <1>15, <1>16, <1>17, <1>18, <1>19, <1>20
    DEF Next, Program, ActorLoop, MainLoop

(* A message that comes after the test of the head is not early.           *)
LEMMA HandledStep == ASSUME IInv, [Next]_vars PROVE EarlyMessagesHandled'
  <1> USE RuntimeAssumption DEF Threads, At, GoTo
  <1>0. TypeOK /\ TypeOK' /\ TestedMayStop /\ EarlyAccounted /\ EarlyMessagesHandled
    BY TypeStep DEF IInv
  <1>1. ASSUME NEW t \in Threads, NEW b \in Actors, CreateActor(t, b) PROVE EarlyMessagesHandled'
    BY <1>0, <1>1
    DEF CreateActor, queueVars, EarlyMessagesHandled, TestedMayStop, TypeOK
  <1>2. ASSUME NEW t \in Threads, RegisterActor(t) PROVE EarlyMessagesHandled'
    BY <1>0, <1>2
    DEF RegisterActor, EnterEvent, queueVars, EarlyMessagesHandled, TestedMayStop, TypeOK
  <1>3. ASSUME NEW t \in Threads, NEW b \in Actors, Send(t, b) PROVE EarlyMessagesHandled'
    BY <1>0, <1>3
    DEF Send, queueVars, EarlyMessagesHandled, TestedMayStop, TypeOK
  <1>4. ASSUME NEW t \in Threads, ExitWith(t) PROVE EarlyMessagesHandled'
    BY <1>0, <1>4
    DEF ExitWith, queueVars, EarlyMessagesHandled, TestedMayStop, TypeOK
  <1>5. ASSUME NEW a \in Actors, StartCopy(a) PROVE EarlyMessagesHandled'
    BY <1>0, <1>5
    DEF StartCopy, queueVars, EarlyMessagesHandled, TestedMayStop, TypeOK
  <1>6. ASSUME NEW a \in Actors, EndCopy(a) PROVE EarlyMessagesHandled'
    BY <1>0, <1>6
    DEF EndCopy, queueVars, EarlyMessagesHandled, TestedMayStop, TypeOK
  <1>7. ASSUME NEW a \in Actors, Dequeue(a) PROVE EarlyMessagesHandled'
    BY <1>0, <1>7
    DEF Dequeue, queueVars, EarlyMessagesHandled, TestedMayStop, TypeOK
  <1>8. ASSUME NEW a \in Actors, HandlerReturns(a) PROVE EarlyMessagesHandled'
    BY <1>0, <1>8
    DEF HandlerReturns, Freed, queueVars, EarlyMessagesHandled, TestedMayStop,
        TypeOK
  <1>9. ASSUME NEW a \in Actors, CheckFlags(a) PROVE EarlyMessagesHandled'
    BY <1>0, <1>9
    DEF CheckFlags, queueVars, EarlyMessagesHandled, TestedMayStop, TypeOK
  <1>10. ASSUME NEW a \in Actors, CheckHead(a) PROVE EarlyMessagesHandled'
    <2>1. early' = early /\ handled' = handled
      BY <1>10 DEF CheckHead, queueVars
    <2>2. pc'[a] = "release" => early[a] \subseteq handled[a]
      <3> SUFFICES ASSUME queue[a] = << >> PROVE early[a] \subseteq handled[a]
        BY <1>0, <1>10 DEF CheckHead, HeadIsNull, TypeOK
      <3>1. InQueue(a) = {}
        BY DEF InQueue
      <3>2. current[a] = 0
        BY <1>0, <1>10 DEF CheckHead, TypeOK
      <3>3. 0 \notin early[a]
        BY <1>0 DEF TypeOK
      <3> QED
        BY <1>0, <3>1, <3>2, <3>3 DEF EarlyAccounted
    <2>3. pc'[a] # "gone" /\ \A b \in Actors : b # a => pc'[b] = pc[b]
      BY <1>0, <1>10 DEF CheckHead, TypeOK
    <2> QED
      BY <1>0, <2>1, <2>2, <2>3 DEF EarlyMessagesHandled
  <1>11. ASSUME NEW a \in Actors, Release(a) PROVE EarlyMessagesHandled'
    BY <1>0, <1>11
    DEF Release, queueVars, EarlyMessagesHandled, TestedMayStop, TypeOK
  <1>12. CASE StoreGlobal
    BY <1>0, <1>12
    DEF StoreGlobal, queueVars, EarlyMessagesHandled, TestedMayStop, TypeOK
  <1>13. CASE Halt
    BY <1>0, <1>13
    DEF Halt, queueVars, EarlyMessagesHandled, TestedMayStop, TypeOK
  <1>14. CASE Join
    BY <1>0, <1>14
    DEF Join, JoinedAll, queueVars, EarlyMessagesHandled, TestedMayStop, TypeOK
  <1>15. CASE HaltReturns
    BY <1>0, <1>15
    DEF HaltReturns, JoinedAll, queueVars, EarlyMessagesHandled,
        TestedMayStop, TypeOK
  <1>16. CASE MainReturns
    BY <1>0, <1>16
    DEF MainReturns, queueVars, EarlyMessagesHandled, TestedMayStop, TypeOK
  <1>17. CASE UNCHANGED vars
    BY <1>0, <1>17
    DEF vars, spawnVars, queueVars, globalVars, queueVars,
        EarlyMessagesHandled, TestedMayStop, TypeOK
  <1>18. ASSUME NEW t \in Threads, RegisterAstray(t) PROVE EarlyMessagesHandled'
    BY <1>0, <1>18
    DEF RegisterAstray, Crash, queueVars, EarlyMessagesHandled, TestedMayStop, TypeOK
  <1>19. ASSUME NEW a \in Actors, LockUninitialised(a) PROVE EarlyMessagesHandled'
    BY <1>0, <1>19
    DEF LockUninitialised, Crash, queueVars, EarlyMessagesHandled, TestedMayStop, TypeOK
  <1>20. CASE JoinAstray
    BY <1>0, <1>20
    DEF JoinAstray, Crash, queueVars, EarlyMessagesHandled, TestedMayStop, TypeOK
  <1> QED
    BY <1>1, <1>2, <1>3, <1>4, <1>5, <1>6, <1>7, <1>8, <1>9, <1>10, <1>11,
       <1>12, <1>13, <1>14, <1>15, <1>16, <1>17, <1>18, <1>19, <1>20
    DEF Next, Program, ActorLoop, MainLoop

LEMMA MainCreatesStep == ASSUME IInv, [Next]_vars PROVE MainCreates'
  <1> USE RuntimeAssumption DEF Threads, At, GoTo, Crash
  <1>0. TypeOK /\ MainCreates
    BY DEF IInv
  <1>1. ASSUME NEW t \in Threads, NEW b \in Actors, CreateActor(t, b) PROVE MainCreates'
    <2>1. joining' = joining
      BY <1>1 DEF CreateActor
    <2> QED
      BY <1>0, <1>1, <2>1, CreateFacts DEF MainCreates
  <1>2. ASSUME NEW t \in Threads, RegisterActor(t) \/ RegisterAstray(t) PROVE MainCreates'
    BY <1>0, <1>2 DEF RegisterActor, RegisterAstray, MainCreates, TypeOK
  <1>3. ASSUME NEW t \in Threads, NEW b \in Actors, Send(t, b) \/ ExitWith(t) PROVE MainCreates'
    BY <1>0, <1>3 DEF Send, ExitWith, spawnVars, MainCreates, TypeOK
  <1>4. ASSUME NEW t \in Threads, ExitWith(t) PROVE MainCreates'
    BY <1>0, <1>4 DEF ExitWith, spawnVars, MainCreates, TypeOK
  <1>5. ASSUME NEW a \in Actors, ActorLoop(a) \/ HandlerReturns(a) PROVE MainCreates'
    BY <1>0, <1>5
    DEF ActorLoop, StartCopy, LockUninitialised, EndCopy, Dequeue, HandlerReturns,
        CheckFlags, CheckHead, Release, spawnVars, MainCreates, TypeOK
  <1>6. CASE MainLoop
    BY <1>0, <1>6
    DEF MainLoop, Join, JoinAstray, HaltReturns, MainReturns, spawnVars, MainCreates, TypeOK
  <1>7. CASE StoreGlobal \/ Halt \/ UNCHANGED vars
    BY <1>0, <1>7 DEF StoreGlobal, Halt, vars, spawnVars, MainCreates, TypeOK
  <1> QED
    BY <1>1, <1>2, <1>3, <1>4, <1>5, <1>6, <1>7 DEF Next, Program

LEMMA JoinStep == ASSUME IInv, [Next]_vars, ~astray' PROVE JoinedSoFar'
  <1> USE RuntimeAssumption DEF Threads, At, GoTo
  <1>0. TypeOK /\ TypeOK' /\ MainCreates /\ MainCreates' /\ ~astray /\ JoinedSoFar
    <2>1. astray => astray'
      BY DEF Next, Program, ActorLoop, MainLoop, vars, CreateActor, RegisterActor,
         Send, ExitWith, StartCopy, LockUninitialised, RegisterAstray, JoinAstray,
         EndCopy, Dequeue, HandlerReturns, CheckFlags, CheckHead, Release,
         StoreGlobal, Halt, Join, HaltReturns, MainReturns
    <2> QED
      BY <2>1, TypeStep, MainCreatesStep DEF IInv
  <1>1. ASSUME NEW t \in Threads, NEW b \in Actors, CreateActor(t, b) PROVE JoinedSoFar'
    <2>1. events' = events /\ eventCount' = eventCount /\ joining' = joining
      BY <1>1 DEF CreateActor
    <2>2. \A i \in 0 .. joining - 1 : Entered(i) /\ pc'[events[i]] \in {"gone", "exited"}
      BY <1>0, JoinedStay
    <2>3. \A a \in Actors : spawner'[a] = Main => a \in Registered \/ spawning'[Main] = a
      <3>1. spawning[Main] # NoActor => t # Main
        BY <1>0, <1>1, CreateFacts DEF MainCreates
      <3> QED
        BY <1>0, <1>1, <3>1, CreateFacts DEF JoinedSoFar
    <2>4. pc'[Main] \in {"cleanup", "ended"} => joining >= eventCount
      BY <1>0, <1>1, CreateFacts DEF JoinedSoFar
    <2> QED
      BY <2>1, <2>2, <2>3, <2>4 DEF JoinedSoFar, Registered, Entered, Finished
  <1>2. ASSUME NEW t \in Threads, RegisterActor(t) PROVE JoinedSoFar'
    <2>1. CASE t # Main
      BY <1>0, <1>2, <2>1, JoinFrame DEF RegisterActor, EnterEvent, JoinedSoFar, TypeOK
    <2>2. CASE t = Main
      <3>1. /\ spawning[Main] \in Actors /\ eventCount \in 0 .. EventSlots - 1
            /\ DOMAIN events = 0 .. EventSlots - 1 /\ joining = 0
        BY <1>0, <1>2, <2>2 DEF RegisterActor, EnterEvent, Busy, TypeOK, IInv, MainCreates
      <3>2. /\ events' = [events EXCEPT ![eventCount] = spawning[Main]]
            /\ eventCount' = eventCount + 1 /\ joining' = joining
            /\ spawner' = spawner /\ spawning'[Main] = NoActor /\ pc'[Main] = "run"
        BY <1>0, <1>2, <2>2 DEF RegisterActor, EnterEvent, TypeOK
      <3>3. spawning[Main] \in Registered'
        <4>1. eventCount \in 0 .. eventCount' - 1 /\ events'[eventCount] = spawning[Main]
          BY <3>1, <3>2
        <4>2. eventCount \in DOMAIN events' /\ events'[eventCount] # NoActor
          BY <3>1, <3>2, <4>1
        <4>3. \A i \in 0 .. eventCount' - 1 :
                i \in DOMAIN events' /\ events'[i] # NoActor => events'[i] \in Registered'
          BY DEF Registered, Entered
        <4> QED
          BY <4>1, <4>2, <4>3
      <3>4. Registered \subseteq Registered'
        BY <3>1, <3>2 DEF Registered, Entered
      <3>5. \A a \in Actors : spawner'[a] = Main => a \in Registered'
        BY <1>0, <3>2, <3>3, <3>4 DEF JoinedSoFar
      <3> QED
        BY <3>1, <3>2, <3>5 DEF JoinedSoFar
    <2> QED
      BY <2>1, <2>2
  <1>3. ASSUME NEW t \in Threads, NEW b \in Actors, Send(t, b) PROVE JoinedSoFar'
    BY <1>0, <1>3, JoinFrame DEF Send, spawnVars, JoinedSoFar, TypeOK
  <1>4. ASSUME NEW t \in Threads, ExitWith(t) PROVE JoinedSoFar'
    BY <1>0, <1>4, JoinFrame DEF ExitWith, spawnVars, JoinedSoFar, TypeOK
  <1>5. ASSUME NEW a \in Actors, StartCopy(a) PROVE JoinedSoFar'
    BY <1>0, <1>5, JoinFrame DEF StartCopy, spawnVars, JoinedSoFar, TypeOK
  <1>6. ASSUME NEW a \in Actors, LockUninitialised(a) PROVE JoinedSoFar'
    BY <1>0, <1>6, JoinFrame DEF LockUninitialised, spawnVars, JoinedSoFar, TypeOK
  <1>7. ASSUME NEW a \in Actors, EndCopy(a) PROVE JoinedSoFar'
    BY <1>0, <1>7, JoinFrame DEF EndCopy, spawnVars, JoinedSoFar, TypeOK
  <1>8. ASSUME NEW a \in Actors, Dequeue(a) PROVE JoinedSoFar'
    BY <1>0, <1>8, JoinFrame DEF Dequeue, spawnVars, JoinedSoFar, TypeOK
  <1>9. ASSUME NEW a \in Actors, HandlerReturns(a) PROVE JoinedSoFar'
    BY <1>0, <1>9, JoinFrame DEF HandlerReturns, spawnVars, JoinedSoFar, TypeOK
  <1>10. ASSUME NEW a \in Actors, CheckFlags(a) PROVE JoinedSoFar'
    BY <1>0, <1>10, JoinFrame DEF CheckFlags, spawnVars, JoinedSoFar, TypeOK
  <1>11. ASSUME NEW a \in Actors, CheckHead(a) PROVE JoinedSoFar'
    BY <1>0, <1>11, JoinFrame DEF CheckHead, spawnVars, JoinedSoFar, TypeOK
  <1>12. ASSUME NEW a \in Actors, Release(a) PROVE JoinedSoFar'
    BY <1>0, <1>12, JoinFrame DEF Release, spawnVars, JoinedSoFar, TypeOK
  <1>13. ASSUME StoreGlobal PROVE JoinedSoFar'
    BY <1>0, <1>13, JoinFrame DEF StoreGlobal, spawnVars, JoinedSoFar, TypeOK
  <1>14. ASSUME Halt PROVE JoinedSoFar'
    BY <1>0, <1>14, JoinFrame DEF Halt, spawnVars, JoinedSoFar, TypeOK
  <1>15. CASE Join
    <2>1. /\ pc' = pc /\ events' = events /\ spawner' = spawner /\ eventCount' = eventCount
          /\ spawning' = spawning /\ joining' = joining + 1 /\ joining \in Nat
          /\ Entered(joining) /\ Finished(events[joining]) /\ pc[Main] = "join"
      BY <1>0, <1>15 DEF Join, spawnVars, TypeOK
    <2>2. \A i \in 0 .. joining' - 1 : Entered(i) /\ Finished(events[i])
      BY <1>0, <2>1 DEF JoinedSoFar
    <2> QED
      BY <1>0, <2>1, <2>2 DEF JoinedSoFar, Registered, Entered, Finished
  <1>16. CASE HaltReturns
    BY <1>0, <1>16, JoinFrame DEF HaltReturns, JoinedAll, spawnVars, JoinedSoFar, TypeOK
  <1>17. CASE MainReturns
    BY <1>0, <1>17, JoinFrame DEF MainReturns, spawnVars, JoinedSoFar, TypeOK
  <1>18. CASE UNCHANGED vars
    BY <1>0, <1>18, JoinFrame DEF vars, JoinedSoFar, TypeOK
  <1>19. (\A t \in Threads : ~RegisterAstray(t)) /\ ~JoinAstray
    BY DEF RegisterAstray, JoinAstray
  <1> QED
    BY <1>1, <1>2, <1>3, <1>4, <1>5, <1>6, <1>7, <1>8, <1>9, <1>10, <1>11, <1>12, <1>13, <1>14, <1>15, <1>16, <1>17, <1>18, <1>19
    DEF Next, Program, ActorLoop, MainLoop

LEMMA CopyStep == ASSUME IInv, [Next]_vars PROVE CopyIsLater'
  <1> USE RuntimeAssumption DEF Threads, At, GoTo
  <1>0. TypeOK /\ TypeOK' /\ Births /\ CopyIsLater
    BY TypeStep DEF IInv
  <1>1. ASSUME NEW t \in Threads, NEW b \in Actors, CreateActor(t, b) PROVE CopyIsLater'
    <2>1. stored' = stored /\ copyBase' = copyBase /\ stored \in Nat
      BY <1>0, <1>1 DEF CreateActor, globalVars, TypeOK
    <2>2. copyBase[b] = 0
      BY <1>0, <1>1, CreateFacts DEF Births
    <2>3. \A a \in Actors : a # b =>
            spawner'[a] = spawner[a] /\ storedAtSpawn'[a] = storedAtSpawn[a]
              /\ (pc[a] = "starting" => pc'[a] = "starting")
      BY <1>1, CreateFacts
    <2>4. pc'[b] = "starting" /\ storedAtSpawn'[b] = stored
      BY <1>1, CreateFacts
    <2> QED
      BY <1>0, <2>1, <2>2, <2>3, <2>4 DEF CopyIsLater
  <1>2. ASSUME NEW t \in Threads, RegisterActor(t) PROVE CopyIsLater'
    BY <1>0, <1>2
    DEF RegisterActor, EnterEvent, spawnVars, globalVars, Births, CopyIsLater, TypeOK
  <1>3. ASSUME NEW t \in Threads, NEW b \in Actors, Send(t, b) PROVE CopyIsLater'
    BY <1>0, <1>3
    DEF Send, spawnVars, globalVars, Births, CopyIsLater, TypeOK
  <1>4. ASSUME NEW t \in Threads, ExitWith(t) PROVE CopyIsLater'
    BY <1>0, <1>4
    DEF ExitWith, spawnVars, globalVars, Births, CopyIsLater, TypeOK
  <1>5. ASSUME NEW a \in Actors, StartCopy(a) PROVE CopyIsLater'
    BY <1>0, <1>5
    DEF StartCopy, spawnVars, globalVars, Births, CopyIsLater, TypeOK
  <1>6. ASSUME NEW a \in Actors, EndCopy(a) PROVE CopyIsLater'
    BY <1>0, <1>6
    DEF EndCopy, spawnVars, globalVars, Births, CopyIsLater, TypeOK
  <1>7. ASSUME NEW a \in Actors, Dequeue(a) PROVE CopyIsLater'
    BY <1>0, <1>7
    DEF Dequeue, spawnVars, globalVars, Births, CopyIsLater, TypeOK
  <1>8. ASSUME NEW a \in Actors, HandlerReturns(a) PROVE CopyIsLater'
    BY <1>0, <1>8
    DEF HandlerReturns, Freed, spawnVars, globalVars, Births, CopyIsLater,
        TypeOK
  <1>9. ASSUME NEW a \in Actors, CheckFlags(a) PROVE CopyIsLater'
    BY <1>0, <1>9
    DEF CheckFlags, spawnVars, globalVars, Births, CopyIsLater, TypeOK
  <1>10. ASSUME NEW a \in Actors, CheckHead(a) PROVE CopyIsLater'
    BY <1>0, <1>10
    DEF CheckHead, HeadIsNull, spawnVars, globalVars, Births, CopyIsLater,
        TypeOK
  <1>11. ASSUME NEW a \in Actors, Release(a) PROVE CopyIsLater'
    BY <1>0, <1>11
    DEF Release, spawnVars, globalVars, Births, CopyIsLater, TypeOK
  <1>12. CASE StoreGlobal
    BY <1>0, <1>12
    DEF StoreGlobal, spawnVars, globalVars, Births, CopyIsLater, TypeOK
  <1>13. CASE Halt
    BY <1>0, <1>13
    DEF Halt, spawnVars, globalVars, Births, CopyIsLater, TypeOK
  <1>14. CASE Join
    BY <1>0, <1>14
    DEF Join, JoinedAll, spawnVars, globalVars, Births, CopyIsLater, TypeOK
  <1>15. CASE HaltReturns
    BY <1>0, <1>15
    DEF HaltReturns, JoinedAll, spawnVars, globalVars, Births, CopyIsLater,
        TypeOK
  <1>16. CASE MainReturns
    BY <1>0, <1>16
    DEF MainReturns, spawnVars, globalVars, Births, CopyIsLater, TypeOK
  <1>17. CASE UNCHANGED vars
    BY <1>0, <1>17
    DEF vars, spawnVars, queueVars, globalVars, spawnVars, globalVars, Births,
        CopyIsLater, TypeOK
  <1>18. ASSUME NEW t \in Threads, RegisterAstray(t) PROVE CopyIsLater'
    BY <1>0, <1>18
    DEF RegisterAstray, Crash, spawnVars, globalVars, Births, CopyIsLater, TypeOK
  <1>19. ASSUME NEW a \in Actors, LockUninitialised(a) PROVE CopyIsLater'
    <2>1. /\ pc' = [pc EXCEPT ![a] = "stuck"] \/ pc' = [pc EXCEPT ![Main] = "crashed"]
          /\ pc[a] = "starting"
      BY <1>19 DEF LockUninitialised, Crash
    <2>2. UNCHANGED <<spawner, stored, copyBase, storedAtSpawn>>
      BY <1>19 DEF LockUninitialised, spawnVars, queueVars, globalVars
    <2>3. spawner[a] # Main
      BY <1>19 DEF LockUninitialised
    <2> QED
      BY <1>0, <2>1, <2>2, <2>3 DEF CopyIsLater, TypeOK
  <1>20. CASE JoinAstray
    BY <1>0, <1>20
    DEF JoinAstray, Crash, spawnVars, globalVars, Births, CopyIsLater, TypeOK
  <1> QED
    BY <1>1, <1>2, <1>3, <1>4, <1>5, <1>6, <1>7, <1>8, <1>9, <1>10, <1>11,
       <1>12, <1>13, <1>14, <1>15, <1>16, <1>17, <1>18, <1>19, <1>20
    DEF Next, Program, ActorLoop, MainLoop

LEMMA GlobalsStep == ASSUME IInv, [Next]_vars PROVE GlobalsBeforeSpawnSeen'
  <1> USE RuntimeAssumption DEF Threads, At, GoTo
  <1>0. TypeOK /\ TypeOK' /\ Births /\ CopyIsLater /\ GlobalsBeforeSpawnSeen
    BY TypeStep DEF IInv
  <1>1. ASSUME NEW t \in Threads, NEW b \in Actors, CreateActor(t, b) PROVE GlobalsBeforeSpawnSeen'
    <2>1. globals' = globals
      BY <1>1 DEF CreateActor, globalVars
    <2>2. \A a \in Actors : spawner'[a] = Main /\ pc'[a] \notin {"starting", "copying"} =>
            a # b /\ spawner[a] = Main /\ storedAtSpawn'[a] = storedAtSpawn[a]
              /\ pc[a] \notin {"starting", "copying"}
      BY <1>0, <1>1, CreateFacts
    <2> QED
      BY <1>0, <2>1, <2>2 DEF GlobalsBeforeSpawnSeen
  <1>2. ASSUME NEW t \in Threads, RegisterActor(t) PROVE GlobalsBeforeSpawnSeen'
    BY <1>0, <1>2
    DEF RegisterActor, EnterEvent, spawnVars, globalVars, Births, CopyIsLater,
        GlobalsBeforeSpawnSeen, TypeOK
  <1>3. ASSUME NEW t \in Threads, NEW b \in Actors, Send(t, b) PROVE GlobalsBeforeSpawnSeen'
    BY <1>0, <1>3
    DEF Send, spawnVars, globalVars, Births, CopyIsLater,
        GlobalsBeforeSpawnSeen, TypeOK
  <1>4. ASSUME NEW t \in Threads, ExitWith(t) PROVE GlobalsBeforeSpawnSeen'
    BY <1>0, <1>4
    DEF ExitWith, spawnVars, globalVars, Births, CopyIsLater,
        GlobalsBeforeSpawnSeen, TypeOK
  <1>5. ASSUME NEW a \in Actors, StartCopy(a) PROVE GlobalsBeforeSpawnSeen'
    BY <1>0, <1>5
    DEF StartCopy, spawnVars, globalVars, Births, CopyIsLater,
        GlobalsBeforeSpawnSeen, TypeOK
  <1>6. ASSUME NEW a \in Actors, EndCopy(a) PROVE GlobalsBeforeSpawnSeen'
    <2>1. PICK copy \in Copies(a) : globals' = [globals EXCEPT ![a] = copy]
      BY <1>6 DEF EndCopy
    <2>2. /\ pc' = [pc EXCEPT ![a] = "dequeue"] /\ spawner' = spawner
          /\ storedAtSpawn' = storedAtSpawn /\ pc[a] = "copying"
      BY <1>6 DEF EndCopy, spawnVars
    <2>3. spawner[a] = Main => 1 .. copyBase[a] \subseteq copy
      BY <2>1 DEF Copies, Copied
    <2>4. spawner[a] = Main => 1 .. storedAtSpawn[a] \subseteq copy
      <3>1. storedAtSpawn[a] \in Nat /\ copyBase[a] \in Nat
        BY <1>0 DEF TypeOK
      <3>2. spawner[a] = Main => storedAtSpawn[a] <= copyBase[a]
        BY <1>0, <2>2 DEF CopyIsLater
      <3> QED
        BY <2>3, <3>1, <3>2
    <2>5. \A b \in Actors : b # a => pc'[b] = pc[b] /\ globals'[b] = globals[b]
      BY <1>0, <2>1, <2>2 DEF TypeOK
    <2>6. globals'[a] = copy
      BY <1>0, <2>1 DEF TypeOK
    <2> QED
      BY <1>0, <2>2, <2>4, <2>5, <2>6 DEF GlobalsBeforeSpawnSeen
  <1>7. ASSUME NEW a \in Actors, Dequeue(a) PROVE GlobalsBeforeSpawnSeen'
    BY <1>0, <1>7
    DEF Dequeue, spawnVars, globalVars, Births, CopyIsLater,
        GlobalsBeforeSpawnSeen, TypeOK
  <1>8. ASSUME NEW a \in Actors, HandlerReturns(a) PROVE GlobalsBeforeSpawnSeen'
    BY <1>0, <1>8
    DEF HandlerReturns, Freed, spawnVars, globalVars, Births, CopyIsLater,
        GlobalsBeforeSpawnSeen, TypeOK
  <1>9. ASSUME NEW a \in Actors, CheckFlags(a) PROVE GlobalsBeforeSpawnSeen'
    BY <1>0, <1>9
    DEF CheckFlags, spawnVars, globalVars, Births, CopyIsLater,
        GlobalsBeforeSpawnSeen, TypeOK
  <1>10. ASSUME NEW a \in Actors, CheckHead(a) PROVE GlobalsBeforeSpawnSeen'
    BY <1>0, <1>10
    DEF CheckHead, HeadIsNull, spawnVars, globalVars, Births, CopyIsLater,
        GlobalsBeforeSpawnSeen, TypeOK
  <1>11. ASSUME NEW a \in Actors, Release(a) PROVE GlobalsBeforeSpawnSeen'
    BY <1>0, <1>11
    DEF Release, spawnVars, globalVars, Births, CopyIsLater,
        GlobalsBeforeSpawnSeen, TypeOK
  <1>12. CASE StoreGlobal
    BY <1>0, <1>12
    DEF StoreGlobal, spawnVars, globalVars, Births, CopyIsLater,
        GlobalsBeforeSpawnSeen, TypeOK
  <1>13. CASE Halt
    BY <1>0, <1>13
    DEF Halt, spawnVars, globalVars, Births, CopyIsLater,
        GlobalsBeforeSpawnSeen, TypeOK
  <1>14. CASE Join
    BY <1>0, <1>14
    DEF Join, JoinedAll, spawnVars, globalVars, Births, CopyIsLater,
        GlobalsBeforeSpawnSeen, TypeOK
  <1>15. CASE HaltReturns
    BY <1>0, <1>15
    DEF HaltReturns, JoinedAll, spawnVars, globalVars, Births, CopyIsLater,
        GlobalsBeforeSpawnSeen, TypeOK
  <1>16. CASE MainReturns
    BY <1>0, <1>16
    DEF MainReturns, spawnVars, globalVars, Births, CopyIsLater,
        GlobalsBeforeSpawnSeen, TypeOK
  <1>17. CASE UNCHANGED vars
    BY <1>0, <1>17
    DEF vars, spawnVars, queueVars, globalVars, spawnVars, globalVars, Births,
        CopyIsLater, GlobalsBeforeSpawnSeen, TypeOK
  <1>18. ASSUME NEW t \in Threads, RegisterAstray(t) PROVE GlobalsBeforeSpawnSeen'
    BY <1>0, <1>18
    DEF RegisterAstray, Crash, spawnVars, globalVars, Births, CopyIsLater, GlobalsBeforeSpawnSeen, TypeOK
  <1>19. ASSUME NEW a \in Actors, LockUninitialised(a) PROVE GlobalsBeforeSpawnSeen'
    BY <1>0, <1>19
    DEF LockUninitialised, Crash, spawnVars, globalVars, Births, CopyIsLater, GlobalsBeforeSpawnSeen, TypeOK
  <1>20. CASE JoinAstray
    BY <1>0, <1>20
    DEF JoinAstray, Crash, spawnVars, globalVars, Births, CopyIsLater, GlobalsBeforeSpawnSeen, TypeOK
  <1> QED
    BY <1>1, <1>2, <1>3, <1>4, <1>5, <1>6, <1>7, <1>8, <1>9, <1>10, <1>11,
       <1>12, <1>13, <1>14, <1>15, <1>16, <1>17, <1>18, <1>19, <1>20
    DEF Next, Program, ActorLoop, MainLoop

LEMMA Invariance == Spec => []IInv
  <1>1. IInv /\ [Next]_vars => IInv'
    <2> SUFFICES ASSUME IInv, [Next]_vars PROVE IInv'
      OBVIOUS
    <2> QED
      BY TypeStep, BusyStep, BirthsStep, StopStep, AccountedStep, HandledStep,
         MainCreatesStep, JoinStep, CopyStep, GlobalsStep DEF IInv
  <1> QED
    BY InitIInv, <1>1, PTL DEF Spec

(* The variables of the runtime keep their types.                          *)
THEOREM TypeCorrect == Spec => []TypeOK
  <1>1. IInv => TypeOK
    BY DEF IInv
  <1> QED
    BY <1>1, Invariance, PTL

(* An actor that leaves its loop and frees its queue has handled every     *)
(* message sent to it while nothing told it to stop.                       *)
THEOREM NoEarlyMessageIsLost == Spec => []EarlyMessagesHandled
  <1>1. IInv => EarlyMessagesHandled
    BY DEF IInv
  <1> QED
    BY <1>1, Invariance, PTL

(* halt returns after the threads of all actors the main thread spawned,   *)
(* wherever event_count starts: if a run has led it to where create_actor  *)
(* entered nothing, astray tells.                                          *)
THEOREM HaltJoinsEveryActor == Spec => []MainOutlivesItsActors
  <1>1. IInv => MainOutlivesItsActors
    <2> SUFFICES ASSUME IInv, pc[Main] \in {"cleanup", "ended"}, ~astray,
                        NEW a \in Actors, spawner[a] = Main
                 PROVE  Finished(a)
      BY DEF MainOutlivesItsActors
    <2>1. JoinedSoFar /\ joining \in Nat /\ eventCount \in Int
      BY DEF IInv, TypeOK
    <2>2. spawning[Main] = NoActor /\ joining >= eventCount
      BY <2>1 DEF IInv, MainCreates, JoinedSoFar
    <2>3. NoActor # a
      BY RuntimeAssumption DEF Threads
    <2>4. PICK i \in 0 .. eventCount - 1 : events[i] = a
      BY <2>1, <2>2, <2>3 DEF JoinedSoFar, Registered
    <2> QED
      BY <2>1, <2>2, <2>4 DEF JoinedSoFar
  <1> QED
    BY <1>1, Invariance, PTL

(* Whatever the main thread stores while an actor copies the globals, the  *)
(* actor has those that were stored before it was spawned.                 *)
THEOREM GlobalsBeforeSpawn == Spec => []GlobalsBeforeSpawnSeen
  <1>1. IInv => GlobalsBeforeSpawnSeen
    BY DEF IInv
  <1> QED
    BY <1>1, Invariance, PTL
=============================================================================
