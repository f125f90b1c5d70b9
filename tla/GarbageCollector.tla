--------------------------- MODULE GarbageCollector ---------------------------
(***************************************************************************)
(* The mark and sweep collector (runtime/src/value.c): every module, that  *)
(* is every thread, has a stack and a linked list of the objects it has    *)
(* allocated.  allocate collects when the list is full: mark_all marks     *)
(* what the slots of the stack reach, sweep frees the unmarked objects of  *)
(* the module's own list.                                                  *)
(*                                                                         *)
(* The programs are arbitrary: they load any pointer they can reach, pop,  *)
(* store, build lists and mutables, update mutables and send each other    *)
(* whatever they hold.  A thread begins with a copy of its spawner's       *)
(* globals, above which its stack is whatever malloc left there.  So a     *)
(* pointer may come to where its owner's collector does not look: the      *)
(* history variable exposed says that one has.                             *)
(*                                                                         *)
(* A sweep is one step here; HeapList does it node by node.                *)
(***************************************************************************)
EXTENDS Integers, FiniteSets

CONSTANTS
  Modules,       \* the modules, one for each thread
  Objects,       \* the memory malloc may use for an object
  NULL,          \* a value that is no pointer
  Depth,         \* bound: the slots of a stack
  Globals,       \* GLOBALS_SIZE: the slots of the globals
  Scanned,       \* MAX_STACK_SIZE: how many of them mark_all looks at
  INIT_OBJECTS,  \* the first limit on the number of objects
  MaxOperands,   \* bound: the elements of a list
  MaxInFlight,   \* bound: the messages on their way
  Fresh          \* what malloc may leave in the slots of a new stack

Slots == 0 .. Depth - 1
Value == Objects \cup {NULL}

ASSUME CollectorAssumption ==
  /\ NULL \notin Objects
  /\ IsFiniteSet(Objects)
  /\ Depth \in Nat
  /\ Globals \in 0 .. Depth
  /\ Scanned \in Nat
  /\ INIT_OBJECTS \in Nat \ {0}
  /\ MaxOperands \in Nat
  /\ MaxInFlight \in Nat
  /\ Fresh \subseteq Value

VARIABLES
  stack,       \* stack[m]: the slots of m's stack, stale ones included
  sp,          \* sp[m]: stack_pointer
  objects,     \* objects[m]: the list that starts at first_object
  numObjects,  \* num_objects
  maxObjects,  \* max_objects
  points,      \* points[o]: the pointers o holds
  mutable,     \* the objects of TYPE_MUTABLE
  marked,      \* the objects with is_marked
  phase,       \* phase[m]: "unborn", "run", "over", or the stage of an allocation
  operands,    \* operands[m]: the pointers the new object will hold
  making,      \* making[m]: "list" or "mutable"
  inFlight,    \* the pointers in messages that nobody has dequeued
  exposed      \* history: has a pointer come to where its owner does not look?

vars == <<stack, sp, objects, numObjects, maxObjects, points, mutable, marked,
          phase, operands, making, inFlight, exposed>>

heapVars  == <<objects, numObjects, maxObjects>>
stackVars == <<stack, sp>>

Live == UNION {objects[m] : m \in Modules}

InUse(m) == {i \in Slots : i < sp[m]}

Pointers(m, slots) == {stack[m][i] : i \in slots} \ {NULL}
-----------------------------------------------------------------------------
(* In a new stack a pointer is one that somebody else goes on with.        *)
HoldsPointer(values) ==
  \E i \in Slots : values[i] # NULL

(* main's module; the others begin when their actors' threads do.          *)
Init ==
  \E main \in Modules, values \in [Slots -> Fresh] :
    /\ stack = [m \in Modules |-> IF m = main THEN values ELSE [i \in Slots |-> NULL]]
    /\ sp = [m \in Modules |-> IF m = main THEN Globals ELSE 0]
    /\ objects = [m \in Modules |-> {}]
    /\ numObjects = [m \in Modules |-> 0]
    /\ maxObjects = [m \in Modules |-> INIT_OBJECTS]
    /\ points = [o \in Objects |-> {}]
    /\ mutable = {}
    /\ marked = {}
    /\ phase = [m \in Modules |-> IF m = main THEN "run" ELSE "unborn"]
    /\ operands = [m \in Modules |-> {}]
    /\ making = [m \in Modules |-> "list"]
    /\ inFlight = {}
    /\ exposed = HoldsPointer(values)

(* actor_run: a stack for the thread of an actor, with the globals that    *)
(* its spawner m has by then, in memory that is freed if m is over.        *)
Start(a, m) ==
  \E values \in [Slots -> Fresh] :
    LET copied == [i \in Slots |-> IF i < Globals /\ phase[m] # "over" THEN stack[m][i]
                                                                      ELSE values[i]]
    IN  /\ phase[a] = "unborn"
        /\ phase[m] # "unborn"
        /\ stack' = [stack EXCEPT ![a] = copied]
        /\ sp' = [sp EXCEPT ![a] = Globals]
        /\ phase' = [phase EXCEPT ![a] = "run"]
        /\ exposed' = (exposed \/ HoldsPointer(copied))
        /\ UNCHANGED <<heapVars, points, mutable, marked, operands, making, inFlight>>

(* mark_all does not look at slots from MAX_STACK_SIZE on, which a stack   *)
(* has once it is reallocated.                                             *)
Written(i, v) ==
  exposed' = (exposed \/ (v # NULL /\ i >= Scanned))

(* stack_push; the slots above stack_pointer keep what they had.           *)
Pushed(m, v) ==
  /\ sp[m] < Depth
  /\ stack' = [stack EXCEPT ![m][sp[m]] = v]
  /\ sp' = [sp EXCEPT ![m] = @ + 1]
  /\ Written(sp[m], v)

(* A local, a global, a constant, or an element of a list: anything that a *)
(* slot in use holds or that such an object points to.                     *)
Load(m, v) ==
  /\ phase[m] = "run"
  /\ \/ v = NULL
     \/ v \in Pointers(m, InUse(m))
     \/ \E o \in Pointers(m, InUse(m)) : v \in points[o]
  /\ Pushed(m, v)
  /\ UNCHANGED <<heapVars, points, mutable, marked, phase, operands, making, inFlight>>

(* A compiled program does not pop its globals (stack_pop would).          *)
NotEmpty(m) == sp[m] > Globals

(* stack_pop, or a return that cuts the stack back.                        *)
Pop(m) ==
  /\ phase[m] = "run"
  /\ NotEmpty(m)
  /\ sp' = [sp EXCEPT ![m] = @ - 1]
  /\ UNCHANGED <<stack, heapVars, points, mutable, marked, phase, operands, making, inFlight,
                 exposed>>

(* A local or a global is set: the top of the stack is popped into slot i. *)
Store(m, i) ==
  /\ phase[m] = "run"
  /\ NotEmpty(m)
  /\ i < sp[m] - 1
  /\ stack' = [stack EXCEPT ![m][i] = stack[m][sp[m] - 1]]
  /\ sp' = [sp EXCEPT ![m] = @ - 1]
  /\ Written(i, stack[m][sp[m] - 1])
  /\ UNCHANGED <<heapVars, points, mutable, marked, phase, operands, making, inFlight>>

(* GET_MUTABLE(variable) = value                                           *)
Update(m, o, v) ==
  /\ phase[m] = "run"
  /\ sp[m] - 2 >= Globals
  /\ o = stack[m][sp[m] - 1]
  /\ v = stack[m][sp[m] - 2]
  /\ o \in mutable
  /\ points' = [points EXCEPT ![o] = {v} \ {NULL}]
  /\ sp' = [sp EXCEPT ![m] = @ - 2]
  /\ UNCHANGED <<stack, heapVars, mutable, marked, phase, operands, making, inFlight, exposed>>
-----------------------------------------------------------------------------
(* mod->num_objects == mod->max_objects                                    *)
ListFull(m) == numObjects[m] = maxObjects[m]

(* An instruction that pops n operands and allocates an object of them:    *)
(* a list, a mutable, or with n = 0 a frame, an event or a string.         *)
Make(m, n, type) ==
  /\ phase[m] = "run"
  /\ n <= sp[m] - Globals
  /\ type = "mutable" => n = 1
  /\ operands' = [operands EXCEPT ![m] = Pointers(m, {i \in Slots : sp[m] - n <= i /\ i < sp[m]})]
  /\ making' = [making EXCEPT ![m] = type]
  /\ sp' = [sp EXCEPT ![m] = @ - n]
  /\ phase' = [phase EXCEPT ![m] = IF ListFull(m) THEN "mark" ELSE "allocate"]
  /\ UNCHANGED <<stack, heapVars, points, mutable, marked, inFlight, exposed>>

\* Mutant: only the slots in use are scanned.
SlotsInUse(m) == {i \in InUse(m) : i < Scanned}

(* mark_all looks at every slot up to MAX_STACK_SIZE, above stack_pointer  *)
(* too: this is what keeps the operands that are already popped.           *)
ScannedSlots(m) == {i \in Slots : i < Scanned}

\* Mutant: the children of an object are not marked.
NoChildren(o) == {}

(* The pointers that mark_value follows.                                   *)
Children(o) == points[o]

(* mark_value from the roots: it does not follow an object that is marked  *)
(* already.  The least set that holds what the definition asks for.        *)
MarkedFrom(roots) ==
  LET unmarked == Objects \ marked
      Complete(S) == /\ roots \cap unmarked \subseteq S
                     /\ \A o \in S : Children(o) \cap unmarked \subseteq S
  IN  {o \in unmarked : \A S \in SUBSET unmarked : Complete(S) => o \in S}

MarkAll(m) ==
  /\ phase[m] = "mark"
  /\ marked' = marked \cup MarkedFrom(Pointers(m, ScannedSlots(m)))
  /\ phase' = [phase EXCEPT ![m] = "sweep"]
  /\ UNCHANGED <<stackVars, heapVars, points, mutable, operands, making, inFlight, exposed>>

(* is_marked = 0 for the objects of the list that were reached.           *)
Unmarked(m) == objects[m]

\* Mutant: the limit is not raised for the objects that are left.
LimitAsAtFirst(n) == INIT_OBJECTS

LimitFor(n) == IF n < INIT_OBJECTS THEN INIT_OBJECTS ELSE n * 2

(* What freed memory holds does not matter.                                *)
Freed(gone) ==
  /\ points' = [o \in Objects |-> IF o \in gone THEN {} ELSE points[o]]
  /\ mutable' = mutable \ gone

(* sweep frees the unmarked objects and unmarks the others; then gc sets   *)
(* the limit for the next collection.                                      *)
Sweep(m) ==
  LET left == objects[m] \cap marked
  IN  /\ phase[m] = "sweep"
      /\ objects' = [objects EXCEPT ![m] = left]
      /\ numObjects' = [numObjects EXCEPT ![m] = @ - Cardinality(objects[m] \ marked)]
      /\ maxObjects' = [maxObjects EXCEPT ![m] = LimitFor(numObjects'[m])]
      /\ marked' = marked \ Unmarked(m)
      /\ Freed(objects[m] \ marked)
      /\ phase' = [phase EXCEPT ![m] = "allocate"]
      /\ UNCHANGED <<stackVars, operands, making, inFlight, exposed>>

(* malloc, the new object at the head of the list, and its pointer pushed. *)
Allocate(m, o) ==
  /\ phase[m] = "allocate"
  /\ o \in Objects \ Live
  /\ objects' = [objects EXCEPT ![m] = @ \cup {o}]
  /\ numObjects' = [numObjects EXCEPT ![m] = @ + 1]
  /\ points' = [points EXCEPT ![o] = operands[m]]
  /\ mutable' = IF making[m] = "mutable" THEN mutable \cup {o} ELSE mutable \ {o}
  /\ marked' = marked \ {o}
  /\ operands' = [operands EXCEPT ![m] = {}]
  /\ phase' = [phase EXCEPT ![m] = "run"]
  /\ Pushed(m, o)
  /\ making' = [making EXCEPT ![m] = "list"]
  /\ UNCHANGED <<maxObjects, inFlight>>

(* force_sweep when the thread ends: everything it allocated is freed.     *)
ForceSweep(m) ==
  /\ phase[m] = "run"
  /\ objects' = [objects EXCEPT ![m] = {}]
  /\ numObjects' = [numObjects EXCEPT ![m] = 0]
  /\ phase' = [phase EXCEPT ![m] = "over"]
  /\ Freed(objects[m])
  /\ sp' = [sp EXCEPT ![m] = 0]
  /\ UNCHANGED <<stack, maxObjects, marked, operands, making, inFlight, exposed>>
-----------------------------------------------------------------------------
(* send pops the arguments into an array of the message...                 *)
Send(m, g) ==
  /\ Cardinality(inFlight) < MaxInFlight
  /\ phase[m] = "run"
  /\ NotEmpty(m)
  /\ inFlight' = inFlight \cup {<<g, stack[m][sp[m] - 1]>>}
  /\ exposed' = (exposed \/ stack[m][sp[m] - 1] # NULL)
  /\ sp' = [sp EXCEPT ![m] = @ - 1]
  /\ UNCHANGED <<stack, heapVars, points, mutable, marked, phase, operands, making>>

(* ... that call_threaded pushes on the receiver's stack.                  *)
Receive(g, v) ==
  /\ phase[g] = "run"
  /\ <<g, v>> \in inFlight
  /\ inFlight' = inFlight \ {<<g, v>>}
  /\ Pushed(g, v)
  /\ UNCHANGED <<heapVars, points, mutable, marked, phase, operands, making>>

Next ==
  \E m \in Modules :
    \/ \E v \in Value : Load(m, v)
    \/ Pop(m)
    \/ \E i \in Slots : Store(m, i)
    \/ \E o \in Objects, v \in Value : Update(m, o, v)
    \/ \E n \in 0 .. MaxOperands, type \in {"list", "mutable"} : Make(m, n, type)
    \/ MarkAll(m)
    \/ Sweep(m)
    \/ \E o \in Objects : Allocate(m, o)
    \/ ForceSweep(m)
    \/ \E a \in Modules : Start(a, m)
    \/ \E g \in Modules \ {m} : Send(m, g)
    \/ \E v \in Value : Receive(m, v)

Spec == Init /\ [][Next]_vars
-----------------------------------------------------------------------------
TypeOK ==
  /\ stack \in [Modules -> [Slots -> Value]]
  /\ sp \in [Modules -> 0 .. Depth]
  /\ objects \in [Modules -> SUBSET Objects]
  /\ numObjects \in [Modules -> Int]
  /\ maxObjects \in [Modules -> Nat]
  /\ points \in [Objects -> SUBSET Objects]
  /\ mutable \subseteq Objects
  /\ marked \subseteq Objects
  /\ phase \in [Modules -> {"unborn", "run", "mark", "sweep", "allocate", "over"}]
  /\ operands \in [Modules -> SUBSET Objects]
  /\ making \in [Modules -> {"list", "mutable"}]
  /\ inFlight \subseteq Modules \X Value
  /\ exposed \in BOOLEAN

(* What the program of m holds: in the slots it uses, and popped by an     *)
(* instruction that is allocating.                                         *)
Roots(m) == Pointers(m, InUse(m)) \cup operands[m]

(* What it can reach from there.                                           *)
Reaches(m) ==
  {o \in Objects : \A S \in SUBSET Objects :
     /\ Roots(m) \subseteq S
     /\ \A p \in S : points[p] \subseteq S
     => o \in S}

(* As long as every pointer is where its owner's collector looks, none     *)
(* dangles: what a program can reach has not been freed.                   *)
NoDanglingPointer ==
  ~exposed => \A m \in Modules : Reaches(m) \subseteq Live

(* Until then sweep frees nothing that the program can still reach.        *)
SweepFreesOnlyUnreached ==
  [][\A m \in Modules : ~exposed /\ phase[m] = "sweep" =>
       Reaches(m) \cap (objects[m] \ objects'[m]) = {}]_vars

(* Until then every mark belongs to a collection that is going on: none is *)
(* left over that would keep mark_value from following an object.          *)
NoMarkLeftOver ==
  ~exposed /\ marked # {} => \E m \in Modules : phase[m] = "sweep"

(* What the comments in sweep say, without a condition: it frees what was  *)
(* not reached (value.c, "This object wasn't reached, so remove it from    *)
(* the list and free it")...                                               *)
FreesWhatWasNotReached ==
  [][\A m \in Modules : phase[m] = "sweep" =>
       Reaches(m) \cap (objects[m] \ objects'[m]) = {}]_vars

(* ... and unmarks the rest for the next collection (value.c, "This object *)
(* was reached, so unmark it (for the next GC) and move on to the next").  *)
UnmarksWhatWasReached ==
  marked # {} => \E m \in Modules : phase[m] = "sweep"

(* Outside a sweep the count is that of the list, and it stays below the   *)
(* limit, so that the test for equality in allocate cannot miss it.        *)
CountBelowLimit ==
  \A m \in Modules :
    /\ phase[m] # "sweep" => numObjects[m] = Cardinality(objects[m])
    /\ numObjects[m] <= maxObjects[m]
    /\ phase[m] = "allocate" => numObjects[m] < maxObjects[m]
=============================================================================
