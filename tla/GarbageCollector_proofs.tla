------------------------ MODULE GarbageCollector_proofs ------------------------
(***************************************************************************)
(* As long as every pointer is where its owner's collector looks,          *)
(* collections are safe: every module stays within its own objects, and    *)
(* while it sweeps its marks hold what its stack reaches.  The counts are  *)
(* right in any case.                                                      *)
(***************************************************************************)
EXTENDS GarbageCollector, FiniteSetTheorems, TLAPS

(* No message carries a pointer.                                           *)
NoPointerSent == \A e \in inFlight : e[2] = NULL

(* No slot that mark_all does not look at holds one.                       *)
AllScanned == \A m \in Modules : \A i \in Slots : i >= Scanned => stack[m][i] = NULL

(* The slots above stack_pointer are taken in as well: they are scanned,   *)
(* and operands popped by an instruction that allocates are found there.   *)
OwnHeap ==
  /\ \A m, n \in Modules : m # n => objects[m] \cap objects[n] = {}
  /\ \A m \in Modules : \A o \in objects[m] : points[o] \subseteq objects[m]
  /\ \A m \in Modules : phase[m] # "over" => Pointers(m, Slots) \subseteq objects[m]
  /\ \A m \in Modules : operands[m] \subseteq Pointers(m, Slots)
  /\ \A m \in Modules : phase[m] \in {"unborn", "run", "over"} => operands[m] = {}
  /\ \A m \in Modules : phase[m] = "over" => sp[m] = 0

Marks ==
  /\ marked \subseteq Live
  /\ \A m \in Modules : phase[m] # "sweep" => marked \cap objects[m] = {}
  /\ \A m \in Modules : phase[m] = "sweep" =>
       /\ Pointers(m, Slots) \subseteq marked
       /\ \A o \in marked \cap objects[m] : points[o] \subseteq marked

IInv == TypeOK /\ NoPointerSent /\ AllScanned /\ OwnHeap /\ Marks

UntilExposed == TypeOK /\ (~exposed => IInv)
-----------------------------------------------------------------------------
(* An empty heap is in order, if the fresh stack is.                       *)
LEMMA InitIInv == Init => UntilExposed
  <1> SUFFICES ASSUME Init PROVE UntilExposed
    OBVIOUS
  <1> USE CollectorAssumption
  <1> PICK main \in Modules, values \in [Slots -> Fresh] :
        /\ stack = [m \in Modules |-> IF m = main THEN values ELSE [i \in Slots |-> NULL]]
        /\ sp = [m \in Modules |-> IF m = main THEN Globals ELSE 0]
        /\ objects = [m \in Modules |-> {}]
        /\ numObjects = [m \in Modules |-> 0]
        /\ maxObjects = [m \in Modules |-> INIT_OBJECTS]
        /\ points = [o \in Objects |-> {}]
        /\ mutable = {}
        /\ marked = {}
        /\ phase = [m \in Modules |-> IF m = main THEN "run" ELSE "unborn"]
        /\ operands = [m \in Modules |-> {}]
        /\ making = [m \in Modules |-> "list"]
        /\ inFlight = {}
        /\ exposed = HoldsPointer(values)
    BY DEF Init
  <1>1. TypeOK
    <2>1. values \in [Slots -> Value]
      OBVIOUS
    <2>2. stack \in [Modules -> [Slots -> Value]]
      BY <2>1 DEF Value
    <2> QED
      BY <2>2 DEF TypeOK, HoldsPointer
  <1>2. ASSUME ~exposed PROVE IInv
    <2>1. \A m \in Modules : \A i \in Slots : stack[m][i] = NULL
      BY <1>2 DEF HoldsPointer
    <2>2. \A m \in Modules : Pointers(m, Slots) = {}
      BY <2>1 DEF Pointers
    <2>3. Live = {}
      BY DEF Live
    <2> QED
      BY <1>1, <2>1, <2>2, <2>3 DEF IInv, NoPointerSent, AllScanned, OwnHeap, Marks
  <1> QED
    BY <1>1, <1>2 DEF UntilExposed

(* What is exposed stays so.                                               *)
LEMMA ExposedStays == ASSUME [Next]_vars, exposed PROVE exposed'
  <1>1. ASSUME NEW m \in Modules, NEW v \in Value, Load(m, v) PROVE exposed'
    BY <1>1 DEF Load, Pushed, Written
  <1>2. ASSUME NEW m \in Modules, NEW i \in Slots, Store(m, i) PROVE exposed'
    BY <1>2 DEF Store, Written
  <1>3. ASSUME NEW m \in Modules, NEW o \in Objects, Allocate(m, o) PROVE exposed'
    BY <1>3 DEF Allocate, Pushed, Written
  <1>4. ASSUME NEW m \in Modules, NEW a \in Modules, Start(a, m) PROVE exposed'
    BY <1>4 DEF Start
  <1>5. ASSUME NEW m \in Modules, NEW g \in Modules, Send(m, g) PROVE exposed'
    BY <1>5 DEF Send
  <1>6. ASSUME NEW m \in Modules, NEW v \in Value, Receive(m, v) PROVE exposed'
    BY <1>6 DEF Receive, Pushed, Written
  <1>7. CASE UNCHANGED exposed
    BY <1>7
  <1> QED
    BY <1>1, <1>2, <1>3, <1>4, <1>5, <1>6, <1>7
    DEF Next, vars, Pop, Update, Make, MarkAll, Sweep, ForceSweep

(* What mark_value reaches is closed, and nothing else is marked.          *)
LEMMA MarkedFromFacts ==
  ASSUME NEW roots
  PROVE  LET unmarked == Objects \ marked
             M == MarkedFrom(roots)
         IN  /\ M \subseteq unmarked
             /\ roots \cap unmarked \subseteq M
             /\ \A o \in M : points[o] \cap unmarked \subseteq M
             /\ \A S \in SUBSET unmarked :
                  /\ roots \cap unmarked \subseteq S
                  /\ \A o \in S : points[o] \cap unmarked \subseteq S
                  => M \subseteq S
  BY SMTT(30) DEF MarkedFrom, Children

(* What some slots hold, the stack holds.                                  *)
LEMMA SlotsWithin ==
  ASSUME NEW m \in Modules, NEW S, S \subseteq Slots
  PROVE  Pointers(m, S) \subseteq Pointers(m, Slots)
  BY DEF Pointers

(* The limit that gc sets is a count.                                      *)
LEMMA LimitIsNat ==
  ASSUME NEW n \in Int
  PROVE  LimitFor(n) \in Nat
  BY CollectorAssumption DEF LimitFor

(* Every operation of the collector keeps the types.                       *)
LEMMA TypeStep == ASSUME TypeOK, [Next]_vars PROVE TypeOK'
  <1> USE CollectorAssumption
  <1> USE DEF TypeOK, Value
  <1>1. ASSUME NEW m \in Modules, NEW v \in Value, Load(m, v) PROVE TypeOK'
    BY <1>1 DEF Load, Pushed, Written, heapVars, Slots
  <1>2. ASSUME NEW m \in Modules, Pop(m) PROVE TypeOK'
    BY <1>2 DEF Pop, NotEmpty, heapVars
  <1>3. ASSUME NEW m \in Modules, NEW o \in Objects, NEW v \in Value, Update(m, o, v) PROVE TypeOK'
    BY <1>3 DEF Update, heapVars
  <1>4. ASSUME NEW m \in Modules, NEW n \in 0 .. MaxOperands, NEW type \in {"list", "mutable"},
               Make(m, n, type)
        PROVE  TypeOK'
    <2>1. Pointers(m, {i \in Slots : sp[m] - n <= i /\ i < sp[m]}) \subseteq Objects
      BY DEF Pointers
    <2> QED
      BY <1>4, <2>1 DEF Make, heapVars
  <1>5. ASSUME NEW m \in Modules, MarkAll(m) PROVE TypeOK'
    BY <1>5 DEF MarkAll, MarkedFrom, stackVars, heapVars
  <1>6. ASSUME NEW m \in Modules, Sweep(m) PROVE TypeOK'
    <2>1. Cardinality(objects[m] \ marked) \in Nat
      <3>1. IsFiniteSet(objects[m] \ marked)
        BY FS_Subset
      <3> QED
        BY <3>1, FS_CardinalityType
    <2>2. numObjects' \in [Modules -> Int]
      BY <1>6, <2>1 DEF Sweep
    <2>3. maxObjects' \in [Modules -> Nat]
      BY <1>6, <2>2, LimitIsNat DEF Sweep
    <2>4. points' \in [Objects -> SUBSET Objects] /\ mutable' \subseteq Objects
      BY <1>6 DEF Sweep, Freed
    <2> QED
      BY <1>6, <2>2, <2>3, <2>4 DEF Sweep, Unmarked, stackVars
  <1>7. ASSUME NEW m \in Modules, NEW o \in Objects, Allocate(m, o) PROVE TypeOK'
    BY <1>7 DEF Allocate, Pushed, Written, Slots
  <1>8. ASSUME NEW m \in Modules, ForceSweep(m) PROVE TypeOK'
    BY <1>8 DEF ForceSweep, Freed
  <1>9. ASSUME NEW m \in Modules, NEW g \in Modules \ {m}, Send(m, g) PROVE TypeOK'
    <2>1. stack[m][sp[m] - 1] \in Value
      BY <1>9 DEF Send, NotEmpty, Slots
    <2> QED
      BY <1>9, <2>1 DEF Send, NotEmpty, heapVars
  <1>10. ASSUME NEW m \in Modules, NEW v \in Value, Receive(m, v) PROVE TypeOK'
    BY <1>10 DEF Receive, Pushed, Written, heapVars, Slots
  <1>11. ASSUME NEW m \in Modules, NEW i \in Slots, Store(m, i) PROVE TypeOK'
    <2>1. stack[m][sp[m] - 1] \in Value
      BY <1>11 DEF Store, NotEmpty, Slots
    <2> QED
      BY <1>11, <2>1 DEF Store, Written, NotEmpty, heapVars
  <1>12. ASSUME NEW m \in Modules, NEW a \in Modules, Start(a, m) PROVE TypeOK'
    <2> PICK values \in [Slots -> Fresh] :
          LET copied == [i \in Slots |-> IF i < Globals /\ phase[m] # "over" THEN stack[m][i]
                                                                            ELSE values[i]]
          IN  /\ stack' = [stack EXCEPT ![a] = copied]
              /\ exposed' = (exposed \/ HoldsPointer(copied))
      BY <1>12 DEF Start
    <2>1. [i \in Slots |-> IF i < Globals /\ phase[m] # "over" THEN stack[m][i] ELSE values[i]]
            \in [Slots -> Value]
      OBVIOUS
    <2>2. stack' \in [Modules -> [Slots -> Value]]
      BY <2>1
    <2> QED
      BY <1>12, <2>2 DEF Start, HoldsPointer, heapVars
  <1>13. CASE UNCHANGED vars
    BY <1>13 DEF vars
  <1> QED
    BY <1>1, <1>2, <1>3, <1>4, <1>5, <1>6, <1>7, <1>8, <1>9, <1>10, <1>11, <1>12, <1>13 DEF Next

(* stack_push adds one pointer to a stack, and may lose a stale one.       *)
LEMMA PushFacts ==
  ASSUME TypeOK, NEW m \in Modules, NEW v \in Value, Pushed(m, v)
  PROVE  \A n \in Modules :
           Pointers(n, Slots)' \subseteq Pointers(n, Slots) \cup (IF n = m THEN {v} \ {NULL} ELSE {})
  BY DEF TypeOK, Pushed, Pointers, Slots

(* What a module can load is its own.                                      *)
LEMMA LoadIsOwn ==
  ASSUME IInv, NEW m \in Modules, NEW v \in Value, Load(m, v)
  PROVE  {v} \ {NULL} \subseteq objects[m]
  <1>1. Pointers(m, InUse(m)) \subseteq objects[m]
    BY SlotsWithin DEF Load, IInv, OwnHeap, InUse
  <1> QED
    BY <1>1 DEF Load, IInv, OwnHeap

(* A collection marks within the module's own heap, and all that its stack *)
(* reaches.                                                                *)
LEMMA MarkAllFacts ==
  ASSUME IInv, NEW m \in Modules, MarkAll(m)
  PROVE  LET M == MarkedFrom(Pointers(m, ScannedSlots(m)))
         IN  /\ M \subseteq objects[m]
             /\ Pointers(m, Slots) \subseteq M
             /\ \A o \in M : points[o] \subseteq M
  <1> DEFINE roots == Pointers(m, ScannedSlots(m))
             M == MarkedFrom(roots)
             unmarked == Objects \ marked
  <1>1. roots = Pointers(m, Slots)
    BY CollectorAssumption DEF ScannedSlots, Slots, IInv, AllScanned, Pointers
  <1>2. roots \subseteq objects[m] /\ objects[m] \subseteq unmarked
    BY <1>1 DEF MarkAll, IInv, OwnHeap, Marks, TypeOK
  <1>3. \A o \in objects[m] : points[o] \cap unmarked \subseteq objects[m]
    BY DEF IInv, OwnHeap
  <1>4. /\ roots \cap unmarked \subseteq M
        /\ \A o \in M : points[o] \cap unmarked \subseteq M
        /\ M \subseteq objects[m]
    <2> HIDE DEF roots
    <2> QED
      BY <1>2, <1>3, MarkedFromFacts
  <1>5. \A o \in M : points[o] \subseteq unmarked
    BY <1>2, <1>4 DEF IInv, OwnHeap
  <1> HIDE DEF roots
  <1>6. Pointers(m, Slots) \subseteq M
    BY <1>1, <1>2, <1>4
  <1> QED
    BY <1>4, <1>5, <1>6 DEF roots

(* A message, or a stack in fresh memory, that exposes nothing.            *)
LEMMA SendFacts ==
  ASSUME TypeOK, ~exposed', NEW m \in Modules, NEW g \in Modules, Send(m, g)
  PROVE  stack[m][sp[m] - 1] = NULL
  BY DEF Send

LEMMA StartFacts ==
  ASSUME TypeOK, ~exposed', NEW m \in Modules, NEW a \in Modules, Start(a, m)
  PROVE  /\ \A i \in Slots : stack'[a][i] = NULL
         /\ \A n \in Modules \ {a} : stack'[n] = stack[n]
         /\ Pointers(a, Slots)' = {}
         /\ \A n \in Modules \ {a} : Pointers(n, Slots)' = Pointers(n, Slots)
  <1> PICK values \in [Slots -> Fresh] :
        LET copied == [i \in Slots |-> IF i < Globals /\ phase[m] # "over" THEN stack[m][i]
                                                                          ELSE values[i]]
        IN  /\ stack' = [stack EXCEPT ![a] = copied]
            /\ exposed' = (exposed \/ HoldsPointer(copied))
    BY DEF Start
  <1> DEFINE copied == [i \in Slots |-> IF i < Globals /\ phase[m] # "over" THEN stack[m][i]
                                                                           ELSE values[i]]
  <1>1. stack' = [stack EXCEPT ![a] = copied] /\ ~HoldsPointer(copied)
    OBVIOUS
  <1> HIDE DEF copied
  <1>2. /\ stack'[a] = copied
        /\ \A n \in Modules \ {a} : stack'[n] = stack[n]
    BY <1>1 DEF TypeOK
  <1>3. \A i \in Slots : stack'[a][i] = NULL
    BY <1>1, <1>2 DEF HoldsPointer
  <1> QED
    BY <1>2, <1>3 DEF Pointers

(* What is stored was in the stack before.                                 *)
LEMMA StoreFacts ==
  ASSUME TypeOK, NEW m \in Modules, NEW i \in Slots, Store(m, i)
  PROVE  \A n \in Modules : Pointers(n, Slots)' \subseteq Pointers(n, Slots)
  <1>1. sp[m] - 1 \in Slots
    BY CollectorAssumption DEF TypeOK, Store, NotEmpty, Slots
  <1> QED
    BY <1>1 DEF TypeOK, Store, Pointers

(* A pointer is written only where mark_all looks.                         *)
LEMMA AllScannedStep == ASSUME IInv, ~exposed', [Next]_vars PROVE AllScanned'
  <1> USE DEF IInv
  <1>1. ASSUME NEW m \in Modules, NEW v \in Value, Pushed(m, v) PROVE AllScanned'
    BY <1>1 DEF Pushed, Written, AllScanned, TypeOK
  <1>2. ASSUME NEW m \in Modules, NEW v \in Value, Load(m, v) PROVE AllScanned'
    BY <1>1, <1>2 DEF Load
  <1>3. ASSUME NEW m \in Modules, NEW o \in Objects, Allocate(m, o) PROVE AllScanned'
    BY <1>1, <1>3 DEF Allocate, Value
  <1>4. ASSUME NEW m \in Modules, NEW v \in Value, Receive(m, v) PROVE AllScanned'
    BY <1>1, <1>4 DEF Receive
  <1>5. ASSUME NEW m \in Modules, NEW i \in Slots, Store(m, i) PROVE AllScanned'
    BY <1>5 DEF Store, Written, AllScanned, TypeOK
  <1>6. ASSUME NEW m \in Modules, NEW a \in Modules, Start(a, m) PROVE AllScanned'
    BY <1>6, StartFacts DEF AllScanned
  <1>7. CASE UNCHANGED stack
    BY <1>7 DEF AllScanned
  <1> QED
    BY <1>2, <1>3, <1>4, <1>5, <1>6, <1>7
    DEF Next, vars, stackVars, Pop, Update, Make, MarkAll, Sweep, ForceSweep, Send

(* Messages go on carrying none.                                           *)
LEMMA NoPointerSentStep == ASSUME IInv, ~exposed', [Next]_vars PROVE NoPointerSent'
  <1> USE DEF IInv, NoPointerSent
  <1>1. ASSUME NEW m \in Modules, NEW g \in Modules \ {m}, Send(m, g) PROVE NoPointerSent'
    <2>1. stack[m][sp[m] - 1] = NULL
      BY <1>1, SendFacts
    <2>2. inFlight' = inFlight \cup {<<g, NULL>>}
      BY <1>1, <2>1 DEF Send
    <2> QED
      BY <2>2
  <1>2. ASSUME NEW m \in Modules, NEW v \in Value, Receive(m, v) PROVE NoPointerSent'
    BY <1>2 DEF Receive
  <1>3. CASE UNCHANGED inFlight
    BY <1>3
  <1> QED
    BY <1>1, <1>2, <1>3, ZenonT(30)
    DEF Next, vars, Load, Pop, Store, Update, Make, MarkAll, Sweep, Allocate, ForceSweep, Start

(* A module's own heap stays its own and closed.                           *)
LEMMA OwnHeapStep == ASSUME IInv, ~exposed', [Next]_vars PROVE OwnHeap'
  <1> USE CollectorAssumption
  <1> USE DEF IInv
  <1>1. ASSUME NEW m \in Modules, NEW v \in Value, Load(m, v) PROVE OwnHeap'
    <2>1. \A n \in Modules :
            Pointers(n, Slots)' \subseteq Pointers(n, Slots) \cup (IF n = m THEN {v} \ {NULL} ELSE {})
      BY <1>1, PushFacts DEF Load
    <2>2. {v} \ {NULL} \subseteq objects[m]
      BY <1>1, LoadIsOwn
    <2>3. \A n \in Modules : operands'[n] \subseteq Pointers(n, Slots)'
      <3> SUFFICES ASSUME NEW n \in Modules PROVE operands'[n] \subseteq Pointers(n, Slots)'
        OBVIOUS
      <3>1. CASE n = m
        BY <1>1, <3>1 DEF Load, OwnHeap
      <3>2. CASE n # m
        BY <1>1, <3>2 DEF Load, Pushed, OwnHeap, Pointers, TypeOK
      <3> QED
        BY <3>1, <3>2
    <2> QED
      BY <1>1, <2>1, <2>2, <2>3 DEF Load, Pushed, OwnHeap, heapVars, TypeOK
  <1>2. ASSUME NEW m \in Modules, Pop(m) PROVE OwnHeap'
    BY <1>2 DEF Pop, NotEmpty, OwnHeap, Pointers, heapVars, TypeOK
  <1>3. ASSUME NEW m \in Modules, NEW o \in Objects, NEW v \in Value, Update(m, o, v) PROVE OwnHeap'
    <2>1. sp[m] - 1 \in Slots /\ sp[m] - 2 \in Slots
      BY <1>3 DEF Update, TypeOK, Slots
    <2>2. o \in objects[m] /\ {v} \ {NULL} \subseteq objects[m]
      BY <1>3, <2>1 DEF Update, OwnHeap, Pointers
    <2>3. \A n \in Modules : Pointers(n, Slots)' = Pointers(n, Slots)
      BY <1>3 DEF Update, Pointers
    <2> QED
      BY <1>3, <2>2, <2>3 DEF Update, OwnHeap, heapVars, TypeOK
  <1>4. ASSUME NEW m \in Modules, NEW n \in 0 .. MaxOperands, NEW type \in {"list", "mutable"},
               Make(m, n, type)
        PROVE  OwnHeap'
    <2>1. Pointers(m, {i \in Slots : sp[m] - n <= i /\ i < sp[m]}) \subseteq Pointers(m, Slots)
      BY SlotsWithin
    <2>2. \A k \in Modules : Pointers(k, Slots)' = Pointers(k, Slots)
      BY <1>4 DEF Make, Pointers
    <2> QED
      BY <1>4, <2>1, <2>2 DEF Make, OwnHeap, heapVars, TypeOK
  <1>5. ASSUME NEW m \in Modules, MarkAll(m) PROVE OwnHeap'
    <2>1. \A k \in Modules : Pointers(k, Slots)' = Pointers(k, Slots)
      BY <1>5 DEF MarkAll, Pointers, stackVars
    <2> QED
      BY <1>5, <2>1 DEF MarkAll, OwnHeap, stackVars, heapVars, TypeOK
  <1>6. ASSUME NEW m \in Modules, Sweep(m) PROVE OwnHeap'
    <2>1. \A k \in Modules : Pointers(k, Slots)' = Pointers(k, Slots)
      BY <1>6 DEF Sweep, Pointers, stackVars
    <2>2. /\ objects' = [objects EXCEPT ![m] = objects[m] \cap marked]
          /\ \A o \in Objects : points'[o] = IF o \in objects[m] \ marked THEN {} ELSE points[o]
      BY <1>6 DEF Sweep, Freed
    <2>3. Pointers(m, Slots) \subseteq objects[m] \cap marked
      BY <1>6 DEF Sweep, OwnHeap, Marks
    <2>4. \A k \in Modules : \A o \in objects'[k] : points'[o] \subseteq objects'[k]
      <3> SUFFICES ASSUME NEW k \in Modules, NEW o \in objects'[k]
                   PROVE  points'[o] \subseteq objects'[k]
        OBVIOUS
      <3>1. CASE k = m
        BY <1>6, <2>2, <3>1 DEF Sweep, OwnHeap, Marks, TypeOK
      <3>2. CASE k # m
        BY <2>2, <3>2 DEF OwnHeap, TypeOK
      <3> QED
        BY <3>1, <3>2
    <2> QED
      BY <1>6, <2>1, <2>2, <2>3, <2>4 DEF Sweep, OwnHeap, stackVars, TypeOK
  <1>7. ASSUME NEW m \in Modules, NEW o \in Objects, Allocate(m, o) PROVE OwnHeap'
    <2>1. \A n \in Modules :
            Pointers(n, Slots)' \subseteq Pointers(n, Slots) \cup (IF n = m THEN {o} \ {NULL} ELSE {})
      BY <1>7, PushFacts DEF Allocate, Value
    <2>2. \A n \in Modules : o \notin objects[n]
      BY <1>7 DEF Allocate, Live
    <2>3. operands[m] \subseteq objects[m]
      BY <1>7 DEF Allocate, OwnHeap
    <2>4. \A n \in Modules : operands'[n] \subseteq Pointers(n, Slots)'
      <3> SUFFICES ASSUME NEW n \in Modules PROVE operands'[n] \subseteq Pointers(n, Slots)'
        OBVIOUS
      <3>1. CASE n = m
        BY <1>7, <3>1 DEF Allocate, TypeOK
      <3>2. CASE n # m
        BY <1>7, <3>2 DEF Allocate, Pushed, OwnHeap, Pointers, TypeOK
      <3> QED
        BY <3>1, <3>2
    <2>5. \A n \in Modules : \A p \in objects'[n] : points'[p] \subseteq objects'[n]
      BY <1>7, <2>2, <2>3 DEF Allocate, OwnHeap, TypeOK
    <2> QED
      BY <1>7, <2>1, <2>2, <2>4, <2>5 DEF Allocate, Pushed, OwnHeap, TypeOK
  <1>8. ASSUME NEW m \in Modules, ForceSweep(m) PROVE OwnHeap'
    <2>1. \A k \in Modules : Pointers(k, Slots)' = Pointers(k, Slots)
      BY <1>8 DEF ForceSweep, Pointers
    <2> QED
      BY <1>8, <2>1 DEF ForceSweep, Freed, OwnHeap, TypeOK
  <1>9. ASSUME NEW m \in Modules, NEW g \in Modules \ {m}, Send(m, g) PROVE OwnHeap'
    <2>1. \A k \in Modules : Pointers(k, Slots)' = Pointers(k, Slots)
      BY <1>9 DEF Send, Pointers
    <2> QED
      BY <1>9, <2>1 DEF Send, OwnHeap, heapVars, TypeOK
  <1>10. ASSUME NEW m \in Modules, NEW v \in Value, Receive(m, v) PROVE OwnHeap'
    <2>1. v = NULL
      BY <1>10 DEF Receive, NoPointerSent
    <2>2. \A n \in Modules : Pointers(n, Slots)' \subseteq Pointers(n, Slots)
      BY <1>10, <2>1, PushFacts DEF Receive
    <2>3. \A n \in Modules : operands'[n] \subseteq Pointers(n, Slots)'
      <3> SUFFICES ASSUME NEW n \in Modules PROVE operands'[n] \subseteq Pointers(n, Slots)'
        OBVIOUS
      <3>1. CASE n = m
        BY <1>10, <3>1 DEF Receive, OwnHeap
      <3>2. CASE n # m
        BY <1>10, <3>2 DEF Receive, Pushed, OwnHeap, Pointers, TypeOK
      <3> QED
        BY <3>1, <3>2
    <2> QED
      BY <1>10, <2>2, <2>3 DEF Receive, Pushed, OwnHeap, heapVars, TypeOK
  <1>11. ASSUME NEW m \in Modules, NEW i \in Slots, Store(m, i) PROVE OwnHeap'
    <2>1. \A n \in Modules : Pointers(n, Slots)' \subseteq Pointers(n, Slots)
      BY <1>11, StoreFacts
    <2>2. \A n \in Modules : operands'[n] \subseteq Pointers(n, Slots)'
      <3> SUFFICES ASSUME NEW n \in Modules PROVE operands'[n] \subseteq Pointers(n, Slots)'
        OBVIOUS
      <3>1. CASE n = m
        BY <1>11, <3>1 DEF Store, OwnHeap
      <3>2. CASE n # m
        BY <1>11, <3>2 DEF Store, OwnHeap, Pointers, TypeOK
      <3> QED
        BY <3>1, <3>2
    <2> QED
      BY <1>11, <2>1, <2>2 DEF Store, NotEmpty, OwnHeap, heapVars, TypeOK
  <1>12. ASSUME NEW m \in Modules, NEW a \in Modules, Start(a, m) PROVE OwnHeap'
    <2>1. /\ Pointers(a, Slots)' = {}
          /\ \A n \in Modules \ {a} : Pointers(n, Slots)' = Pointers(n, Slots)
      BY <1>12, StartFacts
    <2>2. /\ objects' = objects /\ points' = points /\ operands' = operands
          /\ phase[a] = "unborn"
          /\ phase' = [phase EXCEPT ![a] = "run"] /\ sp' = [sp EXCEPT ![a] = Globals]
      BY <1>12 DEF Start, heapVars
    <2> QED
      BY <2>1, <2>2 DEF OwnHeap, TypeOK
  <1>13. CASE UNCHANGED vars
    BY <1>13 DEF vars, OwnHeap, Pointers
  <1> QED
    BY <1>1, <1>2, <1>3, <1>4, <1>5, <1>6, <1>7, <1>8, <1>9, <1>10, <1>11, <1>12, <1>13 DEF Next

(* A mark is set and cleared within one collection of the module that owns *)
(* the object.                                                             *)
LEMMA MarksStep == ASSUME IInv, ~exposed', [Next]_vars PROVE Marks'
  <1> USE CollectorAssumption
  <1> USE DEF IInv
  <1>1. ASSUME NEW m \in Modules, NEW v \in Value, Load(m, v) PROVE Marks'
    <2>1. \A n \in Modules :
            Pointers(n, Slots)' \subseteq Pointers(n, Slots) \cup (IF n = m THEN {v} \ {NULL} ELSE {})
      BY <1>1, PushFacts DEF Load
    <2> QED
      BY <1>1, <2>1 DEF Load, Marks, Live, heapVars
  <1>2. ASSUME NEW m \in Modules, Pop(m) PROVE Marks'
    BY <1>2 DEF Pop, Marks, Live, Pointers, heapVars
  <1>3. ASSUME NEW m \in Modules, NEW o \in Objects, NEW v \in Value, Update(m, o, v) PROVE Marks'
    <2>1. sp[m] - 1 \in Slots
      BY <1>3 DEF Update, TypeOK, Slots
    <2>2. o \in objects[m]
      BY <1>3, <2>1 DEF Update, OwnHeap, Pointers
    <2>3. \A n \in Modules : Pointers(n, Slots)' = Pointers(n, Slots)
      BY <1>3 DEF Update, Pointers
    <2>4. \A n \in Modules : phase[n] = "sweep" => o \notin objects[n]
      BY <1>3, <2>2 DEF Update, OwnHeap
    <2>5. \A p \in Objects : p # o => points'[p] = points[p]
      BY <1>3 DEF Update, TypeOK
    <2>6. marked' = marked /\ objects' = objects /\ phase' = phase
      BY <1>3 DEF Update, heapVars
    <2> QED
      BY <2>3, <2>4, <2>5, <2>6 DEF Marks, Live, TypeOK
  <1>4. ASSUME NEW m \in Modules, NEW n \in 0 .. MaxOperands, NEW type \in {"list", "mutable"},
               Make(m, n, type)
        PROVE  Marks'
    <2>1. \A k \in Modules : Pointers(k, Slots)' = Pointers(k, Slots)
      BY <1>4 DEF Make, Pointers
    <2>2. \A k \in Modules : phase'[k] = "sweep" <=> phase[k] = "sweep"
      BY <1>4 DEF Make, TypeOK
    <2> QED
      BY <1>4, <2>1, <2>2 DEF Make, Marks, Live, heapVars
  <1>5. ASSUME NEW m \in Modules, MarkAll(m) PROVE Marks'
    <2> DEFINE M == MarkedFrom(Pointers(m, ScannedSlots(m)))
    <2>1. /\ M \subseteq objects[m]
          /\ Pointers(m, Slots) \subseteq M
          /\ \A o \in M : points[o] \subseteq M
      BY <1>5, MarkAllFacts
    <2>2. /\ marked' = marked \cup M
          /\ \A k \in Modules : phase'[k] = IF k = m THEN "sweep" ELSE phase[k]
          /\ points' = points /\ objects' = objects
          /\ \A k \in Modules : Pointers(k, Slots)' = Pointers(k, Slots)
      BY <1>5 DEF MarkAll, TypeOK, heapVars, stackVars, Pointers
    <2> HIDE DEF M
    <2>3. marked' \subseteq Live'
      BY <2>1, <2>2 DEF Marks, Live
    <2>4. \A k \in Modules : phase'[k] # "sweep" => marked' \cap objects'[k] = {}
      BY <2>1, <2>2 DEF Marks, OwnHeap
    <2>5. marked \cap objects[m] = {}
      BY <1>5 DEF MarkAll, Marks
    <2>6. ASSUME NEW k \in Modules, phase'[k] = "sweep"
          PROVE  /\ Pointers(k, Slots)' \subseteq marked'
                 /\ \A o \in marked' \cap objects'[k] : points'[o] \subseteq marked'
      <3>1. CASE k = m
        BY <2>1, <2>2, <2>5, <3>1
      <3>2. CASE k # m
        BY <2>1, <2>2, <2>6, <3>2 DEF Marks, OwnHeap
      <3> QED
        BY <3>1, <3>2
    <2> QED
      BY <2>3, <2>4, <2>6 DEF Marks
  <1>6. ASSUME NEW m \in Modules, Sweep(m) PROVE Marks'
    <2>1. /\ marked' = marked \ objects[m]
          /\ \A k \in Modules : phase'[k] = IF k = m THEN "allocate" ELSE phase[k]
          /\ \A k \in Modules : objects'[k] = IF k = m THEN objects[m] \cap marked ELSE objects[k]
          /\ \A o \in Objects : points'[o] = IF o \in objects[m] \ marked THEN {} ELSE points[o]
          /\ \A k \in Modules : Pointers(k, Slots)' = Pointers(k, Slots)
      BY <1>6 DEF Sweep, Unmarked, Freed, stackVars, Pointers, TypeOK
    <2>2. marked' \subseteq Live'
      BY <2>1 DEF Marks, Live
    <2>3. \A k \in Modules : phase'[k] # "sweep" => marked' \cap objects'[k] = {}
      BY <2>1 DEF Marks
    <2>4. ASSUME NEW k \in Modules, phase'[k] = "sweep"
          PROVE  /\ Pointers(k, Slots)' \subseteq marked'
                 /\ \A o \in marked' \cap objects'[k] : points'[o] \subseteq marked'
      <3>1. k # m /\ phase[k] = "sweep"
        BY <2>1, <2>4
      <3>2. objects[k] \cap objects[m] = {}
        BY <3>1 DEF OwnHeap
      <3>3. Pointers(k, Slots)' \subseteq marked'
        BY <2>1, <3>1, <3>2 DEF Marks, OwnHeap
      <3>4. \A o \in marked' \cap objects'[k] : points'[o] \subseteq marked'
        BY <2>1, <3>1, <3>2 DEF Marks, OwnHeap, TypeOK
      <3> QED
        BY <3>3, <3>4
    <2> QED
      BY <2>2, <2>3, <2>4 DEF Marks
  <1>7. ASSUME NEW m \in Modules, NEW o \in Objects, Allocate(m, o) PROVE Marks'
    <2>1. \A n \in Modules :
            Pointers(n, Slots)' \subseteq Pointers(n, Slots) \cup (IF n = m THEN {o} \ {NULL} ELSE {})
      BY <1>7, PushFacts DEF Allocate, Value
    <2>2. o \notin marked /\ \A n \in Modules : o \notin objects[n]
      BY <1>7 DEF Allocate, Live, Marks
    <2>3. /\ marked' = marked
          /\ \A n \in Modules : phase'[n] = IF n = m THEN "run" ELSE phase[n]
          /\ \A n \in Modules : objects'[n] = IF n = m THEN objects[m] \cup {o} ELSE objects[n]
          /\ \A p \in Objects : p # o => points'[p] = points[p]
      BY <1>7, <2>2 DEF Allocate, TypeOK
    <2>4. phase[m] = "allocate"
      BY <1>7 DEF Allocate
    <2>5. marked' \subseteq Live'
      BY <2>3 DEF Marks, Live
    <2>6. \A n \in Modules : phase'[n] # "sweep" => marked' \cap objects'[n] = {}
      BY <2>2, <2>3, <2>4 DEF Marks
    <2>7. \A n \in Modules : phase'[n] = "sweep" =>
            /\ Pointers(n, Slots)' \subseteq marked'
            /\ \A p \in marked' \cap objects'[n] : points'[p] \subseteq marked'
      BY <2>1, <2>2, <2>3, <2>4 DEF Marks, TypeOK
    <2> QED
      BY <2>5, <2>6, <2>7 DEF Marks
  <1>8. ASSUME NEW m \in Modules, ForceSweep(m) PROVE Marks'
    <2>1. /\ marked' = marked
          /\ marked \cap objects[m] = {}
          /\ \A k \in Modules : phase'[k] = IF k = m THEN "over" ELSE phase[k]
          /\ \A k \in Modules : objects'[k] = IF k = m THEN {} ELSE objects[k]
          /\ \A o \in Objects : points'[o] = IF o \in objects[m] THEN {} ELSE points[o]
          /\ \A k \in Modules : Pointers(k, Slots)' = Pointers(k, Slots)
      BY <1>8 DEF ForceSweep, Freed, Pointers, Marks, TypeOK
    <2>2. marked' \subseteq Live'
      BY <2>1 DEF Marks, Live
    <2> QED
      BY <2>1, <2>2 DEF Marks, TypeOK
  <1>9. ASSUME NEW m \in Modules, NEW g \in Modules \ {m}, Send(m, g) PROVE Marks'
    BY <1>9 DEF Send, Marks, Live, Pointers, heapVars
  <1>10. ASSUME NEW m \in Modules, NEW v \in Value, Receive(m, v) PROVE Marks'
    <2>1. v = NULL
      BY <1>10 DEF Receive, NoPointerSent
    <2>2. \A n \in Modules : Pointers(n, Slots)' \subseteq Pointers(n, Slots)
      BY <1>10, <2>1, PushFacts DEF Receive
    <2> QED
      BY <1>10, <2>2 DEF Receive, Marks, Live, heapVars
  <1>11. ASSUME NEW m \in Modules, NEW i \in Slots, Store(m, i) PROVE Marks'
    <2>1. \A n \in Modules : Pointers(n, Slots)' \subseteq Pointers(n, Slots)
      BY <1>11, StoreFacts
    <2> QED
      BY <1>11, <2>1 DEF Store, Marks, Live, heapVars
  <1>12. ASSUME NEW m \in Modules, NEW a \in Modules, Start(a, m) PROVE Marks'
    <2>1. \A n \in Modules \ {a} : Pointers(n, Slots)' = Pointers(n, Slots)
      BY <1>12, StartFacts
    <2>2. /\ objects' = objects /\ points' = points /\ marked' = marked
          /\ phase[a] = "unborn" /\ phase' = [phase EXCEPT ![a] = "run"]
      BY <1>12 DEF Start, heapVars
    <2> QED
      BY <2>1, <2>2 DEF Marks, Live, TypeOK
  <1>13. CASE UNCHANGED vars
    BY <1>13 DEF vars, Marks, Live, Pointers
  <1> QED
    BY <1>1, <1>2, <1>3, <1>4, <1>5, <1>6, <1>7, <1>8, <1>9, <1>10, <1>11, <1>12, <1>13 DEF Next

(* While nothing is exposed the heaps stay apart and the marks in order.   *)
LEMMA IInvStep == ASSUME IInv, ~exposed', [Next]_vars PROVE IInv'
  BY TypeStep, NoPointerSentStep, AllScannedStep, OwnHeapStep, MarksStep DEF IInv

LEMMA Invariance == Spec => []UntilExposed
  <1>1. Init => UntilExposed
    BY InitIInv
  <1>2. UntilExposed /\ [Next]_vars => UntilExposed'
    BY TypeStep, ExposedStays, IInvStep DEF UntilExposed
  <1> QED
    BY <1>1, <1>2, PTL DEF Spec
-----------------------------------------------------------------------------
(* The fields of the collector keep their types, shared pointers or not.   *)
THEOREM TypeCorrect == Spec => []TypeOK
  <1>1. Init => TypeOK
    BY InitIInv DEF UntilExposed
  <1>2. TypeOK /\ [Next]_vars => TypeOK'
    BY TypeStep
  <1> QED
    BY <1>1, <1>2, PTL DEF Spec

(* As long as every pointer is where its owner's collector looks, nothing  *)
(* that a slot in use, a live object or a pending allocation refers to has *)
(* been freed by sweep or force_sweep.                                     *)
THEOREM NoDanglingPointers == Spec => []NoDanglingPointer
  <1>1. UntilExposed => NoDanglingPointer
    <2> SUFFICES ASSUME IInv PROVE \A m \in Modules : Reaches(m) \subseteq Live
      BY DEF UntilExposed, NoDanglingPointer
    <2>1. \A m \in Modules : Pointers(m, InUse(m)) \subseteq Pointers(m, Slots)
      BY SlotsWithin DEF InUse
    <2>2. \A m \in Modules : phase[m] = "over" => Pointers(m, InUse(m)) = {}
      BY CollectorAssumption DEF IInv, OwnHeap, InUse, Slots, Pointers
    <2>3. \A m \in Modules : Roots(m) \subseteq objects[m]
      BY <2>1, <2>2 DEF IInv, OwnHeap, Roots
    <2>4. \A m \in Modules : Reaches(m) \subseteq objects[m]
      BY <2>3 DEF IInv, OwnHeap, TypeOK, Reaches
    <2> QED
      BY <2>4 DEF Live
  <1> QED
    BY <1>1, Invariance, PTL

(* Until then a mark is never left for the next collection, which would    *)
(* not look behind the marked object.                                      *)
THEOREM NoMarkIsLeftOver == Spec => []NoMarkLeftOver
  <1>1. UntilExposed => NoMarkLeftOver
    BY DEF UntilExposed, IInv, Marks, NoMarkLeftOver, Live
  <1> QED
    BY <1>1, Invariance, PTL

(* Until then sweep frees only objects that the module's stack no longer   *)
(* reaches.                                                                *)
THEOREM SweepIsSound == Spec => SweepFreesOnlyUnreached
  <1> DEFINE Sound == \A m \in Modules : ~exposed /\ phase[m] = "sweep" =>
                        Reaches(m) \cap (objects[m] \ objects'[m]) = {}
  <1>1. UntilExposed /\ [Next]_vars => [Sound]_vars
    <2> SUFFICES ASSUME IInv, Next, NEW m \in Modules, phase[m] = "sweep"
                 PROVE  Reaches(m) \cap (objects[m] \ objects'[m]) = {}
      BY DEF UntilExposed
    <2>1. objects[m] \cap marked \subseteq objects'[m]
      <3>1. ASSUME NEW k \in Modules, Sweep(k) PROVE objects[m] \cap marked \subseteq objects'[m]
        BY <3>1 DEF Sweep, IInv, TypeOK
      <3>2. ASSUME NEW k \in Modules, NEW o \in Objects, Allocate(k, o)
            PROVE  objects[m] \cap marked \subseteq objects'[m]
        BY <3>2 DEF Allocate, IInv, TypeOK
      <3>3. ASSUME NEW k \in Modules, ForceSweep(k)
            PROVE  objects[m] \cap marked \subseteq objects'[m]
        BY <3>3 DEF ForceSweep, IInv, TypeOK
      <3>4. ASSUME NEW k \in Modules,
                   \/ \E v \in Value : Load(k, v)
                   \/ Pop(k)
                   \/ \E i \in Slots : Store(k, i)
                   \/ \E o \in Objects, v \in Value : Update(k, o, v)
                   \/ \E n \in 0 .. MaxOperands, type \in {"list", "mutable"} : Make(k, n, type)
                   \/ MarkAll(k)
                   \/ \E a \in Modules : Start(a, k)
                   \/ \E g \in Modules \ {k} : Send(k, g)
                   \/ \E v \in Value : Receive(k, v)
            PROVE  objects[m] \cap marked \subseteq objects'[m]
        BY <3>4 DEF Load, Pop, Store, Update, Make, MarkAll, Start, Send, Receive, heapVars
      <3> QED
        BY <3>1, <3>2, <3>3, <3>4 DEF Next
    <2> DEFINE S == objects[m] \cap marked
    <2>2. Roots(m) \subseteq S
      BY SlotsWithin DEF IInv, OwnHeap, Marks, InUse, Roots
    <2>3. S \subseteq Objects /\ \A p \in S : points[p] \subseteq S
      BY DEF IInv, OwnHeap, Marks, TypeOK
    <2>4. Reaches(m) \subseteq S
      <3> HIDE DEF S
      <3> QED
        BY <2>2, <2>3 DEF Reaches
    <2> QED
      BY <2>1, <2>4
  <1> QED
    BY <1>1, Invariance, PTL DEF Spec, SweepFreesOnlyUnreached

(* The limit that gc sets leaves room for one more object.                 *)
LEMMA LimitIsAbove ==
  ASSUME NEW n \in Nat
  PROVE  n < LimitFor(n)
  BY CollectorAssumption DEF LimitFor

(* The count is right in a sweep of one step, too.                         *)
Counts ==
  \A m \in Modules :
    /\ numObjects[m] = Cardinality(objects[m])
    /\ numObjects[m] <= maxObjects[m]
    /\ phase[m] = "allocate" => numObjects[m] < maxObjects[m]

(* Every operation keeps the count that of the list, below the limit.      *)
LEMMA CountStep == ASSUME TypeOK, Counts, [Next]_vars PROVE Counts'
  <1> USE CollectorAssumption
  <1>1. ASSUME NEW m \in Modules, Sweep(m) PROVE Counts'
    <2> DEFINE left == objects[m] \cap marked
    <2>1. IsFiniteSet(objects[m])
      BY FS_Subset DEF TypeOK
    <2>2. Cardinality(objects[m] \ marked) = Cardinality(objects[m]) - Cardinality(left)
      BY <2>1, FS_Difference
    <2>3. Cardinality(left) \in Nat /\ Cardinality(objects[m]) \in Nat
      BY <2>1, FS_Subset, FS_CardinalityType
    <2>4. numObjects[m] = Cardinality(objects[m])
      BY DEF Counts
    <2>5. numObjects' = [numObjects EXCEPT ![m] = Cardinality(left)]
      <3>1. numObjects[m] - Cardinality(objects[m] \ marked) = Cardinality(left)
        <4> HIDE DEF left
        <4> QED
          BY <2>2, <2>3, <2>4
      <3> QED
        BY <1>1, <3>1, Zenon DEF Sweep
    <2>6. /\ numObjects'[m] = Cardinality(left)
          /\ maxObjects'[m] = LimitFor(Cardinality(left))
          /\ objects'[m] = left
      BY <1>1, <2>5 DEF Sweep, TypeOK
    <2>7. /\ Cardinality(left) < LimitFor(Cardinality(left))
          /\ LimitFor(Cardinality(left)) \in Nat
      BY <2>3, LimitIsAbove, LimitIsNat
    <2>8. \A n \in Modules \ {m} : /\ numObjects'[n] = numObjects[n]
                                   /\ maxObjects'[n] = maxObjects[n]
                                   /\ objects'[n] = objects[n]
                                   /\ phase'[n] = phase[n]
      BY <1>1, <2>5 DEF Sweep, TypeOK
    <2>9. \A n \in Modules \ {m} : /\ numObjects'[n] = Cardinality(objects'[n])
                                   /\ numObjects'[n] <= maxObjects'[n]
                                   /\ phase'[n] = "allocate" => numObjects'[n] < maxObjects'[n]
      BY <2>8 DEF Counts
    <2>10. /\ numObjects'[m] = Cardinality(objects'[m])
           /\ numObjects'[m] < maxObjects'[m]
           /\ numObjects'[m] <= maxObjects'[m]
      <3> HIDE DEF left
      <3> QED
        BY <2>3, <2>6, <2>7
    <2> HIDE DEF left
    <2> QED
      BY <2>9, <2>10 DEF Counts
  <1>2. ASSUME NEW m \in Modules, NEW o \in Objects, Allocate(m, o) PROVE Counts'
    <2>1. IsFiniteSet(objects[m]) /\ o \notin objects[m]
      BY <1>2, FS_Subset DEF Allocate, Live, TypeOK
    <2>2. Cardinality(objects[m] \cup {o}) = Cardinality(objects[m]) + 1
      BY <2>1, FS_AddElement
    <2> QED
      BY <1>2, <2>2 DEF Allocate, Counts, TypeOK
  <1>3. ASSUME NEW m \in Modules, ForceSweep(m) PROVE Counts'
    BY <1>3, FS_EmptySet DEF ForceSweep, Counts, TypeOK
  <1>4. ASSUME NEW m \in Modules, NEW n \in 0 .. MaxOperands, NEW type \in {"list", "mutable"},
               Make(m, n, type)
        PROVE  Counts'
    <2>1. phase'[m] = "allocate" => numObjects[m] # maxObjects[m]
      BY <1>4 DEF Make, ListFull, TypeOK
    <2>2. \A k \in Modules \ {m} : phase'[k] = phase[k]
      BY <1>4 DEF Make, TypeOK
    <2>3. UNCHANGED heapVars
      BY <1>4 DEF Make
    <2>4. numObjects[m] \in Int /\ maxObjects[m] \in Int
      BY DEF TypeOK
    <2> QED
      BY <2>1, <2>2, <2>3, <2>4 DEF Counts, heapVars
  <1>5. ASSUME NEW m \in Modules, MarkAll(m) PROVE Counts'
    BY <1>5 DEF MarkAll, Counts, heapVars, TypeOK
  <1>6. ASSUME UNCHANGED heapVars, UNCHANGED phase PROVE Counts'
    BY <1>6 DEF heapVars, Counts
  <1>7. ASSUME NEW m \in Modules,
               \/ \E v \in Value : Load(m, v)
               \/ Pop(m)
               \/ \E i \in Slots : Store(m, i)
               \/ \E o \in Objects, v \in Value : Update(m, o, v)
               \/ \E g \in Modules \ {m} : Send(m, g)
               \/ \E v \in Value : Receive(m, v)
        PROVE  Counts'
    BY <1>6, <1>7 DEF Load, Pop, Store, Update, Send, Receive
  <1>8. ASSUME NEW m \in Modules, NEW a \in Modules, Start(a, m) PROVE Counts'
    BY <1>8 DEF Start, heapVars, Counts, TypeOK
  <1>9. CASE UNCHANGED vars
    BY <1>6, <1>9 DEF vars, heapVars
  <1> QED
    BY <1>1, <1>2, <1>3, <1>4, <1>5, <1>7, <1>8, <1>9 DEF Next

(* The count of a list never steps over the limit that allocate compares   *)
(* it with, in any heap, shared pointers or not.                           *)
THEOREM CountStaysBelowLimit == Spec => []CountBelowLimit
  <1>1. Init => Counts
    BY CollectorAssumption, FS_EmptySet DEF Init, Counts
  <1>2. TypeOK /\ Counts /\ [Next]_vars => Counts'
    BY CountStep
  <1>3. Counts => CountBelowLimit
    BY DEF Counts, CountBelowLimit
  <1> QED
    BY <1>1, <1>2, <1>3, TypeCorrect, PTL DEF Spec
=============================================================================
