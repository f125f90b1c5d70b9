------------------------------ MODULE HeapList ------------------------------
(***************************************************************************)
(* The collector with its linked list (runtime/src/value.c): the objects   *)
(* of a module hang together by their field next, and sweep walks along    *)
(* them with the address of a link.  It frees a node and reads the node's  *)
(* next afterwards.  By then free may have overwritten it (glibc's clears  *)
(* the third word of a chunk of this size, 2104 bytes, and next is there), *)
(* or another thread's malloc may have taken the memory: the history       *)
(* variable cut says that one of the two has happened.  Until then, the    *)
(* list implements GarbageCollector, where a sweep is one step.            *)
(***************************************************************************)
EXTENDS GarbageCollector

CONSTANTS
  FIRST  \* the address &first_object

ASSUME ListAssumption == FIRST \notin Value

VARIABLES
  first,   \* first[m]: first_object
  next,    \* next[o]: the field next
  object,  \* object[m]: in sweep, FIRST or the node whose next is *object
  gone,    \* gone[m]: unreached, once it is freed and until next is read
  cut      \* history: was such a node's memory overwritten or reused by then?

listVars == <<first, next, object, gone, cut>>

heapListVars == <<vars, listVars>>

(* The nodes from o on.                                                    *)
Nodes(o) ==
  {n \in Objects : \A S \in SUBSET Objects :
     /\ {o} \ {NULL} \subseteq S
     /\ \A p \in S : {next[p]} \ {NULL} \subseteq S
     => n \in S}

Sweeping(m) == object[m] # NULL

(* *object                                                                 *)
Link(m) == IF object[m] = FIRST THEN first[m] ELSE next[object[m]]
-----------------------------------------------------------------------------
ListInit ==
  /\ Init
  /\ first = [m \in Modules |-> NULL]
  /\ next = [o \in Objects |-> NULL]
  /\ object = [m \in Modules |-> NULL]
  /\ gone = [m \in Modules |-> NULL]
  /\ cut = FALSE

(* What the instructions do before they allocate, and mark_all.            *)
Program(m) ==
  /\ \/ \E v \in Value : Load(m, v)
     \/ Pop(m)
     \/ \E i \in Slots : Store(m, i)
     \/ \E o \in Objects, v \in Value : Update(m, o, v)
     \/ \E n \in 0 .. MaxOperands, type \in {"list", "mutable"} : Make(m, n, type)
     \/ MarkAll(m)
     \/ \E a \in Modules : Start(a, m)
     \/ \E g \in Modules \ {m} : Send(m, g)
     \/ \E v \in Value : Receive(m, v)
  /\ UNCHANGED listVars

(* HeapValue** object = &vm->first_object                                  *)
BeginSweep(m) ==
  /\ phase[m] = "sweep"
  /\ ~Sweeping(m)
  /\ object' = [object EXCEPT ![m] = FIRST]
  /\ UNCHANGED <<vars, first, next, gone, cut>>

(* The loop goes on while the link leads to a node.                        *)
AtNode(m) ==
  /\ Sweeping(m)
  /\ gone[m] = NULL
  /\ Link(m) # NULL

(* free(unreached), with the cells of a list or a mutable.                 *)
FreeNode(m) ==
  LET o == Link(m)
  IN  /\ AtNode(m)
      /\ o \notin marked
      /\ objects' = [k \in Modules |-> objects[k] \ {o}]
      /\ Freed({o})
      /\ gone' = [gone EXCEPT ![m] = o]
      /\ next' \in {next, [next EXCEPT ![o] = NULL]}
      /\ cut' = (cut \/ next' # next)
      /\ UNCHANGED <<stackVars, numObjects, maxObjects, marked, phase, operands, making,
                     inFlight, exposed, first, object>>

\* Mutant: the head of the list is set, wherever the node was.
AtTheHead(m) == FIRST

(* The link that *object = ... sets.                                       *)
Where(m) == object[m]

\* Mutant: the count is left as it is.
NotCounted(n) == n

OneLess(n) == n - 1

(* *object = unreached->next; num_objects--                                *)
Unlink(m) ==
  /\ gone[m] # NULL
  /\ IF Where(m) = FIRST
     THEN first' = [first EXCEPT ![m] = next[gone[m]]] /\ UNCHANGED next
     ELSE next' = [next EXCEPT ![Where(m)] = next[gone[m]]] /\ UNCHANGED first
  /\ numObjects' = [numObjects EXCEPT ![m] = OneLess(@)]
  /\ gone' = [gone EXCEPT ![m] = NULL]
  /\ UNCHANGED <<stackVars, objects, maxObjects, points, mutable, marked, phase, operands,
                 making, inFlight, exposed, object, cut>>

\* Mutant: the mark stays.
Nothing(o) == {}

(* is_marked = 0                                                           *)
Cleared(o) == {o}

(* A node that was reached: sweep unmarks it and goes on behind it.        *)
PassNode(m) ==
  /\ AtNode(m)
  /\ Link(m) \in marked
  /\ marked' = marked \ Cleared(Link(m))
  /\ object' = [object EXCEPT ![m] = Link(m)]
  /\ UNCHANGED <<stackVars, heapVars, points, mutable, phase, operands, making, inFlight,
                 exposed, first, next, gone, cut>>

(* The end of the list; gc sets the limit for the next collection.         *)
EndSweep(m) ==
  /\ Sweeping(m)
  /\ gone[m] = NULL
  /\ Link(m) = NULL
  /\ object' = [object EXCEPT ![m] = NULL]
  /\ maxObjects' = [maxObjects EXCEPT ![m] = LimitFor(numObjects[m])]
  /\ phase' = [phase EXCEPT ![m] = "allocate"]
  /\ UNCHANGED <<stackVars, objects, numObjects, points, mutable, marked, operands, making,
                 inFlight, exposed, first, next, gone, cut>>

(* malloc, and the new object becomes the head of the list.                *)
AllocateFirst(m, o) ==
  /\ Allocate(m, o)
  /\ cut' = (cut \/ \E k \in Modules : gone[k] = o)
  /\ next' = [next EXCEPT ![o] = first[m]]
  /\ first' = [first EXCEPT ![m] = o]
  /\ UNCHANGED <<object, gone>>

(* force_sweep frees the nodes of the list; it reads next before.          *)
ForceSweepList(m) ==
  LET nodes == Nodes(first[m])
  IN  /\ phase[m] = "run"
      /\ objects' = [k \in Modules |-> objects[k] \ nodes]
      /\ Freed(nodes)
      /\ numObjects' = [numObjects EXCEPT ![m] = 0]
      /\ first' = [first EXCEPT ![m] = NULL]
      /\ phase' = [phase EXCEPT ![m] = "over"]
      /\ sp' = [sp EXCEPT ![m] = 0]
      /\ UNCHANGED <<stack, maxObjects, marked, operands, making, inFlight, exposed, next, object,
                     gone, cut>>

ListNext ==
  \E m \in Modules :
    \/ Program(m)
    \/ BeginSweep(m)
    \/ FreeNode(m)
    \/ Unlink(m)
    \/ PassNode(m)
    \/ EndSweep(m)
    \/ \E o \in Objects : AllocateFirst(m, o)
    \/ ForceSweepList(m)

ListSpec == ListInit /\ [][ListNext]_heapListVars
-----------------------------------------------------------------------------
(* The nodes that sweep has still to look at.                              *)
Ahead(m) ==
  IF Sweeping(m)
  THEN Nodes(IF gone[m] = NULL THEN Link(m) ELSE next[gone[m]])
  ELSE {}

ListIsWhole(m) ==
  LET nodes == Nodes(first[m])
  IN  /\ objects[m] = nodes \ {gone[m]}
      /\ nodes # {} => \E o \in nodes : next[o] = NULL
      /\ gone[m] # NULL => Link(m) = gone[m]

(* As long as freed nodes kept their next, every object a module has       *)
(* allocated and not freed is on its list, and the list ends: none is lost *)
(* for later collections, in the middle of a sweep either, where the freed *)
(* node still hangs on its link.                                           *)
ListHoldsTheObjects ==
  ~cut => TypeOK /\ \A m \in Modules : ListIsWhole(m)

(* What the comment in sweep says, without a condition: it removes the     *)
(* node that was not reached from the list, and no other (value.c, "This   *)
(* object wasn't reached, so remove it from the list and free it").        *)
OnlyTheUnreachedIsRemoved ==
  [][\A m \in Modules : gone[m] # NULL /\ gone'[m] = NULL =>
       objects[m] \subseteq Nodes(first[m])']_heapListVars

(* The count and its limit, as long as the list is the collector's.        *)
ListCountBelowLimit ==
  ~cut => CountBelowLimit

(* What the sweeps under way will free.                                    *)
Doomed(m) == Ahead(m) \ marked

DoomedByAll == UNION {Doomed(m) : m \in Modules}

LeftTo(m) == objects[m] \ Doomed(m)

(* The step in which GarbageCollector sweeps is BeginSweep.                *)
Abstract == INSTANCE GarbageCollector WITH
  objects    <- [m \in Modules |-> LeftTo(m)],
  numObjects <- [m \in Modules |-> IF Sweeping(m) THEN Cardinality(LeftTo(m))
                                                  ELSE numObjects[m]],
  maxObjects <- [m \in Modules |-> IF Sweeping(m) THEN LimitFor(Cardinality(LeftTo(m)))
                                                  ELSE maxObjects[m]],
  points     <- [o \in Objects |-> IF o \in DoomedByAll THEN {} ELSE points[o]],
  mutable    <- mutable \ DoomedByAll,
  marked     <- marked \ UNION {Ahead(m) : m \in Modules},
  phase      <- [m \in Modules |-> IF Sweeping(m) THEN "allocate" ELSE phase[m]]

(* Walking the list while it frees, sweep does what one step that frees    *)
(* the unmarked objects does: until another thread's marks or updates come *)
(* in between, or a freed node has lost its next.                          *)
ImplementsCollector ==
  Abstract!Init /\ [][exposed \/ cut' \/ Abstract!Next]_(Abstract!vars)
=============================================================================
