----------------------------- MODULE ActorRuntime -----------------------------
(***************************************************************************)
(* The threads of a running program (runtime/src/threading.c, the spawn,   *)
(* send and halt instructions of interpreter.c, exit_with of the native    *)
(* bindings and main.c): the main thread executes the top level of the     *)
(* program, every spawned actor is a thread that dequeues and handles one  *)
(* message after the other until it finds that it should stop.             *)
(*                                                                         *)
(* The programs are arbitrary: the main thread and every handler may send, *)
(* spawn and call exit_with whenever they run, in any order.  The queue of *)
(* an actor is the mailbox that MessageQueue.tla is shown to implement.    *)
(*                                                                         *)
(* Several fields of a module are used before anything is stored to them:  *)
(* event_count of every module (main.c declares the main module on its     *)
(* stack, deserialize sets other fields), is_terminated and module_mutex   *)
(* of the modules of actors.  What they hold at first is a choice, and so  *)
(* is what a step through them leads to; astray records such a step.       *)
(***************************************************************************)
EXTENDS Integers, Sequences

CONSTANTS
  Actors,      \* the actors a run may create
  Main,        \* the main thread, and its module
  NoActor,     \* "no actor" and "no spawner"
  Spawning,    \* the threads whose program spawns actors
  Exiting,     \* the threads whose program calls exit_with
  FreshFlag,   \* what malloc may leave in is_terminated of a new module
  FreshCount,  \* what may be in an event_count that nothing was stored to
  EventSlots,  \* the length of events in a module
  MaxSends,    \* bound: messages sent in a run
  MaxGlobals   \* bound: globals the main thread stores

Threads == Actors \cup {Main}

ASSUME RuntimeAssumption ==
  /\ Main \notin Actors
  /\ NoActor \notin Threads
  /\ Spawning \subseteq Threads
  /\ Exiting \subseteq Threads
  /\ FreshFlag \subseteq BOOLEAN
  /\ FreshFlag # {}
  /\ FreshCount \subseteq Int
  /\ FreshCount # {}
  /\ EventSlots \in Nat
  /\ MaxSends \in Nat
  /\ MaxGlobals \in Nat

VARIABLES
  pc,          \* where each thread is
  terminated,  \* terminated[t]: is_terminated of the module thread t runs
  spawner,     \* spawner[a]: the thread whose module is actor->mod
  spawning,    \* spawning[t]: the actor t is inside create_actor for
  events,      \* events of the main module, NoActor where nothing is stored
  eventCount,  \* event_count of the main module
  joining,     \* the index of the loop of halt
  known,       \* the actors that create_actor returned
  queue,       \* queue[a]: the messages in actor->queue
  current,     \* current[a]: the message a handles, 0 for none
  stored,      \* globals 1..stored of the main module are stored
  copyBase,    \* copyBase[a]: the value of stored when a started to copy
  globals,     \* globals[a]: those a's copy of the globals contains
  nsent,       \* messages sent so far; the n-th one is message n
  early,       \* history: sent to a while nothing told a to stop
  handled,     \* history: the messages whose handler a has completed
  storedAtSpawn, \* history: the value of stored when a was spawned
  astray       \* history: a field was used that nothing was stored to, with
               \* an effect on others than itself

vars == <<pc, terminated, spawner, spawning, events, eventCount, joining,
          known, queue, current, stored, copyBase, globals, nsent, early,
          handled, storedAtSpawn, astray>>

spawnVars  == <<spawner, spawning, events, eventCount, known, storedAtSpawn>>
queueVars  == <<queue, current, nsent, early, handled>>
globalVars == <<stored, copyBase, globals>>

MainPc  == {"run", "register", "join", "cleanup", "ended", "exited", "crashed"}
ActorPc == {"unborn", "starting", "stuck", "copying", "dequeue", "run",
            "register", "checkFlags", "checkHead", "release", "gone", "exited"}

(* After "ended" and "crashed" the process is gone and no thread runs.     *)
At(t, label) == pc[Main] \notin {"ended", "crashed"} /\ pc[t] = label
GoTo(t, label) == pc' = [pc EXCEPT ![t] = label]

(* The thread is over and pthread_join on it returns.                      *)
Finished(a) == pc[a] \in {"gone", "exited"}

(* The spawner of a has freed the module that a's actor->mod points to.    *)
SpawnerFreed(a) == spawner[a] \in Actors /\ pc[spawner[a]] = "gone"

(* Something may tell a to stop: one of the two flags it reads, the freed  *)
(* memory it reads in the place of one of them, or a write outside of      *)
(* events, which the flag lies behind.                                     *)
MayStop(a) ==
  \/ astray
  \/ terminated[a]
  \/ spawner[a] # NoActor /\ terminated[spawner[a]]
  \/ SpawnerFreed(a)
-----------------------------------------------------------------------------
Init ==
  /\ pc = [t \in Threads |-> IF t = Main THEN "run" ELSE "unborn"]
  /\ terminated = [t \in Threads |-> FALSE]
  /\ spawner = [a \in Actors |-> NoActor]
  /\ spawning = [t \in Threads |-> NoActor]
  /\ events = [i \in 0 .. EventSlots - 1 |-> NoActor]
  /\ eventCount \in FreshCount
  /\ joining = 0
  /\ known = {}
  /\ queue = [a \in Actors |-> << >>]
  /\ current = [a \in Actors |-> 0]
  /\ stored = 0
  /\ copyBase = [a \in Actors |-> 0]
  /\ globals = [a \in Actors |-> {}]
  /\ nsent = 0
  /\ early = [a \in Actors |-> {}]
  /\ handled = [a \in Actors |-> {}]
  /\ storedAtSpawn = [a \in Actors |-> 0]
  /\ astray = FALSE

(* store_global at the top level of the program; takes no lock.            *)
StoreGlobal ==
  /\ At(Main, "run")
  /\ stored < MaxGlobals
  /\ stored' = stored + 1
  /\ UNCHANGED <<pc, terminated, spawnVars, joining, queueVars, copyBase, globals, astray>>

(* return_event calls create_actor, which starts the thread first...       *)
CreateActor(t, a) ==
  /\ At(t, "run")
  /\ t \in Spawning
  /\ pc[a] = "unborn"
  /\ pc' = [pc EXCEPT ![t] = "register", ![a] = "starting"]
  /\ spawner' = [spawner EXCEPT ![a] = t]
  /\ spawning' = [spawning EXCEPT ![t] = a]
  /\ storedAtSpawn' = [storedAtSpawn EXCEPT ![a] = stored]
  /\ UNCHANGED <<terminated, events, eventCount, joining, known, queueVars, globalVars, astray>>

(* ... and enters the actor in the events of the module afterwards.  Only  *)
(* those of the main module are ever read.                                 *)
EnterEvent(t) ==
  IF t = Main
  THEN /\ eventCount \in DOMAIN events
       /\ events' = [events EXCEPT ![eventCount] = spawning[Main]]
       /\ eventCount' = eventCount + 1
  ELSE /\ FreshCount \cap DOMAIN events # {}
       /\ UNCHANGED <<events, eventCount>>

RegisterActor(t) ==
  /\ At(t, "register")
  /\ EnterEvent(t)
  /\ known' = known \cup {spawning[t]}
  /\ spawning' = [spawning EXCEPT ![t] = NoActor]
  /\ GoTo(t, "run")
  /\ UNCHANGED <<terminated, spawner, joining, queueVars, globalVars, storedAtSpawn, astray>>

(* events has no element event_count.  What is written instead may be the  *)
(* count before the array, is_terminated behind it, anything or nothing    *)
(* that the process lives on with, or what it dies of.                     *)
OutsideOfEvents(t) == IF t = Main THEN eventCount \notin DOMAIN events
                      ELSE \E n \in FreshCount : n \notin DOMAIN events

Crash == pc' = [pc EXCEPT ![Main] = "crashed"]

RegisterAstray(t) ==
  /\ At(t, "register")
  /\ OutsideOfEvents(t)
  /\ astray' = TRUE
  /\ \/ Crash /\ UNCHANGED <<terminated, eventCount, known, spawning>>
     \/ /\ GoTo(t, "run")
        /\ \E flag \in BOOLEAN : terminated' = [terminated EXCEPT ![t] = flag]
        /\ \E n \in FreshCount \cup {eventCount + 1} : eventCount' = IF t = Main THEN n ELSE eventCount
        /\ known' = known \cup {spawning[t]}
        /\ spawning' = [spawning EXCEPT ![t] = NoActor]
  /\ UNCHANGED <<spawner, events, joining, queueVars, globalVars, storedAtSpawn>>

(* send_message: a message for a live actor is enqueued, one for an actor  *)
(* that has freed its queue is written into freed memory and lost.         *)
Send(t, b) ==
  /\ At(t, "run")
  /\ b \in known
  /\ nsent < MaxSends
  /\ nsent' = nsent + 1
  /\ IF pc[b] = "gone"
     THEN UNCHANGED <<queue, early>>
     ELSE /\ queue' = [queue EXCEPT ![b] = Append(@, nsent + 1)]
          /\ early' = IF MayStop(b) THEN early
                      ELSE [early EXCEPT ![b] = @ \cup {nsent + 1}]
  /\ UNCHANGED <<pc, terminated, spawnVars, joining, current, handled, globalVars, astray>>

(* exit_with sets the flag of the calling thread's own module and ends     *)
(* that thread; nothing is freed.                                          *)
ExitWith(t) ==
  /\ At(t, "run")
  /\ t \in Exiting
  /\ terminated' = [terminated EXCEPT ![t] = TRUE]
  /\ GoTo(t, "exited")
  /\ UNCHANGED <<spawnVars, joining, queueVars, globalVars, astray>>
-----------------------------------------------------------------------------
(* actor_run: the new module is malloc'ed, is_terminated is not set, and   *)
(* the globals are copied under the module_mutex of the spawner.  That of  *)
(* the main module excludes other copies but no store; that of an actor's  *)
(* module is not initialised, and excludes nothing...                      *)
StartCopy(a) ==
  /\ At(a, "starting")
  /\ spawner[a] = Main => \A b \in Actors : pc[b] = "copying" => spawner[b] # Main
  /\ \E flag \in FreshFlag : terminated' = [terminated EXCEPT ![a] = flag]
  /\ copyBase' = [copyBase EXCEPT ![a] = stored]
  /\ GoTo(a, "copying")
  /\ UNCHANGED <<spawnVars, joining, queueVars, stored, globals, astray>>

(* ... unless it looks locked, for good, or like a mutex of another kind,  *)
(* which is an error that ends the process.                                *)
LockUninitialised(a) ==
  /\ At(a, "starting")
  /\ spawner[a] \in Actors
  /\ \/ GoTo(a, "stuck") /\ UNCHANGED astray
     \/ Crash /\ astray' = TRUE
  /\ UNCHANGED <<terminated, spawnVars, joining, queueVars, globalVars>>

\* Mutant: the copy stops one global too early.
CopiedButLast(a) == 1 .. (copyBase[a] - 1)

(* Stored before the copy began: in the copy for sure.                     *)
Copied(a) == 1 .. copyBase[a]

(* What the copy of the globals may hold: a store that races with it may   *)
(* or may not be seen; a spawner that is an actor has the globals of its   *)
(* own copy; one that is freed leaves anything at all.                     *)
Copies(a) ==
  IF spawner[a] = Main
  THEN {Copied(a) \cup more : more \in SUBSET (1 .. stored)}
  ELSE IF SpawnerFreed(a) THEN SUBSET (1 .. MaxGlobals)
  ELSE {globals[spawner[a]]}

EndCopy(a) ==
  /\ At(a, "copying")
  /\ \E copy \in Copies(a) : globals' = [globals EXCEPT ![a] = copy]
  /\ GoTo(a, "dequeue")
  /\ UNCHANGED <<terminated, spawnVars, joining, queueVars, stored, copyBase, astray>>

Dequeue(a) ==
  /\ At(a, "dequeue")
  /\ queue[a] # << >>
  /\ current' = [current EXCEPT ![a] = Head(queue[a])]
  /\ queue' = [queue EXCEPT ![a] = Tail(@)]
  /\ GoTo(a, "run")
  /\ UNCHANGED <<terminated, spawnVars, joining, nsent, early, handled, globalVars, astray>>

(* free(msg); free(args)                                                   *)
Freed(a) == 0

(* The handler returns.                                                    *)
HandlerReturns(a) ==
  /\ At(a, "run")
  /\ a \in Actors
  /\ handled' = [handled EXCEPT ![a] = @ \cup {current[a]}]
  /\ current' = [current EXCEPT ![a] = Freed(a)]
  /\ GoTo(a, "checkFlags")
  /\ UNCHANGED <<terminated, spawnVars, joining, queue, nsent, early, globalVars, astray>>

\* Mutant: the actor leaves the loop whatever the flags are.
AlwaysStops(a) == {TRUE}

\* Mutant: the flag of the spawner is not looked at.
OwnFlagOnly(a) == {terminated[a]}

(* new_module->is_terminated || actor->mod->is_terminated: the values the  *)
(* test may have.  actor->mod may be freed.                                *)
FlagsSeen(a) ==
  IF SpawnerFreed(a) /\ ~terminated[a] THEN BOOLEAN
  ELSE {terminated[a] \/ terminated[spawner[a]]}

CheckFlags(a) ==
  /\ At(a, "checkFlags")
  /\ \E stop \in FlagsSeen(a) :
       GoTo(a, IF stop THEN "checkHead" ELSE "dequeue")
  /\ UNCHANGED <<terminated, spawnVars, joining, queueVars, globalVars, astray>>

\* Mutant: the queue is not looked at.
HeadIgnored(a) == TRUE

(* actor->queue->head == NULL, read without the mutex.                     *)
HeadIsNull(a) == queue[a] = << >>

CheckHead(a) ==
  /\ At(a, "checkHead")
  /\ GoTo(a, IF HeadIsNull(a) THEN "release" ELSE "dequeue")
  /\ UNCHANGED <<terminated, spawnVars, joining, queueVars, globalVars, astray>>

(* force_sweep, then the stack, the module, the queue and the actor are    *)
(* freed and the thread ends.                                              *)
Release(a) ==
  /\ At(a, "release")
  /\ GoTo(a, "gone")
  /\ UNCHANGED <<terminated, spawnVars, joining, queueVars, globalVars, astray>>
-----------------------------------------------------------------------------
(* halt: the flag of the main module is set, then every actor in events is *)
(* joined, in order.                                                       *)
Halt ==
  /\ At(Main, "run")
  /\ terminated' = [terminated EXCEPT ![Main] = TRUE]
  /\ GoTo(Main, "join")
  /\ UNCHANGED <<spawnVars, joining, queueVars, globalVars, astray>>

\* Mutant: the loop leaves out the last actor.
JoinedAllButLast == joining >= eventCount - 1

(* i < module->event_count no longer holds.                                *)
JoinedAll == joining >= eventCount

Entered(i) == i \in DOMAIN events /\ events[i] # NoActor

Join ==
  /\ At(Main, "join")
  /\ ~JoinedAll
  /\ Entered(joining) /\ Finished(events[joining])
  /\ joining' = joining + 1
  /\ UNCHANGED <<pc, terminated, spawnVars, queueVars, globalVars, astray>>

(* There is no actor at events[i]: the process dies of reading its thread, *)
(* or joins what is no thread, which returns at once.                      *)
JoinAstray ==
  /\ At(Main, "join")
  /\ ~JoinedAll
  /\ ~Entered(joining)
  /\ astray' = TRUE
  /\ \/ Crash /\ UNCHANGED joining
     \/ joining' = joining + 1 /\ UNCHANGED pc
  /\ UNCHANGED <<terminated, spawnVars, queueVars, globalVars>>

(* run_interpreter returns and main.c frees what the threads share...      *)
HaltReturns ==
  /\ At(Main, "join")
  /\ JoinedAll
  /\ GoTo(Main, "cleanup")
  /\ UNCHANGED <<terminated, spawnVars, joining, queueVars, globalVars, astray>>

(* ... and returns, which ends the process.                                *)
MainReturns ==
  /\ At(Main, "cleanup")
  /\ GoTo(Main, "ended")
  /\ UNCHANGED <<terminated, spawnVars, joining, queueVars, globalVars, astray>>
-----------------------------------------------------------------------------
(* The steps of the runtime, which a thread takes whatever its program is. *)
ActorLoop(a) ==
  \/ StartCopy(a)
  \/ LockUninitialised(a)
  \/ EndCopy(a)
  \/ Dequeue(a)
  \/ CheckFlags(a)
  \/ CheckHead(a)
  \/ Release(a)

MainLoop ==
  \/ Join
  \/ JoinAstray
  \/ HaltReturns
  \/ MainReturns

(* What the bytecode of the top level or of a handler asks for.            *)
Program(t) ==
  \/ \E a \in Actors : CreateActor(t, a)
  \/ \E b \in Actors : Send(t, b)
  \/ ExitWith(t)

Next ==
  \/ \E t \in Threads : Program(t) \/ RegisterActor(t) \/ RegisterAstray(t)
  \/ \E a \in Actors : ActorLoop(a) \/ HandlerReturns(a)
  \/ MainLoop
  \/ StoreGlobal
  \/ Halt

Spec == Init /\ [][Next]_vars

(***************************************************************************)
(* Every thread that can run does, and every handler returns.  The main    *)
(* program may run for ever.                                               *)
(***************************************************************************)
Fairness ==
  /\ \A a \in Actors : WF_vars(ActorLoop(a)) /\ WF_vars(HandlerReturns(a))
  /\ \A t \in Threads : WF_vars(RegisterActor(t) \/ RegisterAstray(t))
  /\ WF_vars(MainLoop)

FairSpec == Spec /\ Fairness
-----------------------------------------------------------------------------
TypeOK ==
  /\ pc \in [Threads -> MainPc \cup ActorPc]
  /\ pc[Main] \in MainPc
  /\ \A a \in Actors : pc[a] \in ActorPc
  /\ terminated \in [Threads -> BOOLEAN]
  /\ spawner \in [Actors -> Threads \cup {NoActor}]
  /\ spawning \in [Threads -> Actors \cup {NoActor}]
  /\ events \in [0 .. EventSlots - 1 -> Actors \cup {NoActor}]
  /\ eventCount \in Int
  /\ joining \in Nat
  /\ known \subseteq Actors
  /\ queue \in [Actors -> Seq(1 .. MaxSends)]
  /\ current \in [Actors -> 0 .. MaxSends]
  /\ \A a \in Actors : pc[a] \notin {"run", "register", "exited"} => current[a] = 0
  /\ stored \in 0 .. MaxGlobals
  /\ copyBase \in [Actors -> 0 .. MaxGlobals]
  /\ globals \in [Actors -> SUBSET (1 .. MaxGlobals)]
  /\ nsent \in 0 .. MaxSends
  /\ early \in [Actors -> SUBSET (1 .. MaxSends)]
  /\ handled \in [Actors -> SUBSET (1 .. MaxSends)]
  /\ storedAtSpawn \in [Actors -> 0 .. MaxGlobals]
  /\ astray \in BOOLEAN

(* An actor that leaves its loop has handled every message that was sent   *)
(* to it while nothing told it to stop: the flags are read before the head *)
(* of the queue, so that a message sent in between is seen.                *)
EarlyMessagesHandled ==
  \A a \in Actors : pc[a] \in {"release", "gone"} => early[a] \subseteq handled[a]

(* When halt returns and main.c frees the constants, the bytecode and the  *)
(* heap of the main module, every actor the main thread spawned is over,   *)
(* unless event_count has led outside of what create_actor entered.        *)
MainOutlivesItsActors ==
  pc[Main] \in {"cleanup", "ended"} /\ ~astray =>
    \A a \in Actors : spawner[a] = Main => Finished(a)

(* An actor of the main thread sees every global that was stored before it *)
(* was spawned, though its thread copies them later and without stopping   *)
(* the main thread.                                                        *)
GlobalsBeforeSpawnSeen ==
  \A a \in Actors :
    spawner[a] = Main /\ pc[a] \notin {"starting", "copying"} =>
      1 .. storedAtSpawn[a] \subseteq globals[a]

(* An actor loops until its spawner's module is terminated (README.md,     *)
(* "spawning create a loop in another thread").                            *)
LoopsUntilTerminated ==
  \A a \in Actors : pc[a] \in {"release", "gone"} => terminated[spawner[a]]

(* A message sent to an actor of the main thread that nothing told to stop *)
(* is handled, unless a handler ends the actor or event_count ends all.    *)
EarlyMessagesGetHandled ==
  \A a \in Actors, n \in 1 .. MaxSends :
    spawner[a] = Main /\ n \in early[a] ~> n \in handled[a] \/ pc[a] = "exited" \/ astray

(* An actor that will test the flags once more: it has a message left, is  *)
(* in a handler, or on its way to the tests.                               *)
WillTest(a) ==
  \/ Finished(a)
  \/ pc[a] \in {"run", "register", "checkFlags", "checkHead", "release"}
  \/ queue[a] # << >>

Registered == {events[i] : i \in {j \in 0 .. eventCount - 1 : Entered(j)}}

(* Halt returns whenever each of the actors it joins has something left to *)
(* do that brings it to the test of the flags, and event_count counts them.*)
HaltReturnsIfActorsAreBusy ==
  pc[Main] = "join" /\ (\A a \in Registered : WillTest(a)) ~> pc[Main] = "cleanup" \/ astray

(* Halt returns and the process ends (main.c, "Closing and freeing         *)
(* resources").                                                            *)
HaltAlwaysReturns == pc[Main] = "join" ~> pc[Main] = "cleanup"

(* A spawn yields an actor with a loop of its own (README.md, "store       *)
(* spawning result (the actor value itself) into the variable", "spawning  *)
(* create a loop in another thread") and harms nothing else: the thread    *)
(* that spawns goes on, and halt finds the actor.                          *)
SpawnsAreEntered ==
  \A a \in known : spawner[a] = Main => a \in Registered
=============================================================================
