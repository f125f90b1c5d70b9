------------------------------- MODULE CallStack -------------------------------
(***************************************************************************)
(* The stack of one thread of the virtual machine (runtime/src/call.c,     *)
(* module.c and the control instructions of interpreter.c): calls and      *)
(* returns, the bodies of events that a spawn executes, and the handlers   *)
(* that an actor runs through call_threaded.                               *)
(*                                                                         *)
(* The bytecode is arbitrary: at every point of a body that is not a spawn *)
(* any instruction may stand that the compiler can emit there, and any     *)
(* jump may lead anywhere in the body.  All other instructions only pop    *)
(* and push operands and are one action, Operate.                          *)
(***************************************************************************)
EXTENDS Integers, Sequences

CONSTANTS
  Top,         \* the top level of the program
  Functions,   \* the bodies that op_call enters
  Handlers,    \* the bodies that call_threaded enters
  Events,      \* the bodies that a spawn executes
  Arity,       \* Arity[b]: how many arguments b takes
  LocalSpace,  \* LocalSpace[b]: how many locals b has, its arguments included
  Ons,         \* Ons[e]: the handlers of event e
  SpawnSites,  \* the points of the code where a spawn stands
  MAX_FRAMES,  \* the limit that op_call asserts
  FreshBase,   \* what malloc may leave in base_pointer of a new module
  MaxPoint,    \* bound: the points of a body
  MaxOperands, \* bound: the operands of one instruction
  MaxSlots,    \* bound: the slots of the stack above the globals
  MaxMessages  \* bound: the messages an actor handles

Callable == Functions \cup Handlers
Code     == {Top} \cup Callable
Points   == [body : Code \cup Events, point : 0 .. MaxPoint]
Slots    == 0 .. MaxSlots - 1

ASSUME CallStackAssumption ==
  /\ Top \notin Callable \cup Events
  /\ Functions \cap Handlers = {}
  /\ Callable \cap Events = {}
  /\ Arity \in [Callable -> Nat]
  /\ LocalSpace \in [Callable -> Nat]
  /\ \A b \in Callable : Arity[b] <= LocalSpace[b]
  /\ Ons \in [Events -> 0 .. MaxPoint]
  /\ SpawnSites \subseteq {p \in Points : p.body \in Code /\ p.point < MaxPoint}
  /\ FreshBase \subseteq Slots
  /\ FreshBase # {}
  /\ MAX_FRAMES \in Nat
  /\ MaxPoint \in Nat
  /\ MaxOperands \in Nat
  /\ MaxSlots \in Nat
  /\ MaxMessages \in Nat

VARIABLES
  actor,      \* is this the thread of an actor?
  mode,       \* "run", "idle" between two messages, "halted" or "thrown"
  pc,         \* the instruction pointer
  values,     \* the slots of the stack, numbered from BASE_POINTER
  sp, bp,     \* stack_pointer and base_pointer
  callstack,  \* module->callstack
  limit,      \* the parameter callstack of run_interpreter
  operands,   \* how many operands the code has on the stack, as compiled
  handled,    \* messages handled
  calls       \* history: the callers of the calls that are not over

vars == <<actor, mode, pc, values, sp, bp, callstack, limit, operands, handled, calls>>

(* A frame also carries how many operands the code it resumes has, as      *)
(* compiled.                                                               *)
Frames == [kind : {"frame"}, ip : Points, sp : Nat, base : Nat, ons : Nat, operands : Nat]

(* The owner of a value is the depth of the call that pushed it.           *)
Values == [kind : {"value", "on", "actor"}, owner : Nat]

Value == [kind |-> "value", owner |-> Len(calls)]

After(p) == [p EXCEPT !.point = @ + 1]
Entry(b) == [body |-> b, point |-> 0]

(* What the caller finds again, taken operands less.                       *)
Caller(taken) == [back |-> After(pc), base |-> bp, sp |-> sp - taken]

CurrentCall == calls[Len(calls)]

In(bodies) == mode = "run" /\ pc.body \in bodies

AtSpawn == pc \in SpawnSites
-----------------------------------------------------------------------------
(* The main thread starts at the top level (deserialize, main.c); an actor *)
(* waits for a message, its base_pointer not initialised (actor_run).      *)
Init ==
  /\ actor \in BOOLEAN
  /\ mode = IF actor THEN "idle" ELSE "run"
  /\ pc = Entry(Top)
  /\ values = [i \in Slots |-> [kind |-> "value", owner |-> 0]]
  /\ sp = 0
  /\ bp \in IF actor THEN FreshBase ELSE {0}
  /\ callstack = IF actor THEN 1 ELSE 0
  /\ limit = 0
  /\ operands = 0
  /\ handled = 0
  /\ calls = << >>

(* An instruction that pops n operands and pushes m, and goes to the next  *)
(* instruction or jumps.                                                   *)
Operate(n, m, p) ==
  /\ In(Code)
  /\ ~AtSpawn
  /\ n <= operands
  /\ sp - n + m <= MaxSlots
  /\ sp' = sp - n + m
  /\ values' = [i \in Slots |-> IF i \in (sp - n) .. (sp - n + m - 1) THEN Value ELSE values[i]]
  /\ operands' = operands - n + m
  /\ pc' = [pc EXCEPT !.point = p]
  /\ UNCHANGED <<actor, mode, bp, callstack, limit, handled, calls>>

\* Mutant: one slot too high.
OneTooHigh(i) == bp - LocalSpace[pc.body] + i + 1

(* Local i of the running body: the compiler emits i - LocalSpace.         *)
AddressOf(i) == bp - LocalSpace[pc.body] + i

StoreLocal(i, p) ==
  /\ In(Callable)
  /\ ~AtSpawn
  /\ i < LocalSpace[pc.body]
  /\ operands > 0
  /\ AddressOf(i) \in Slots
  /\ values' = [values EXCEPT ![AddressOf(i)] = Value]
  /\ sp' = sp - 1
  /\ operands' = operands - 1
  /\ pc' = [pc EXCEPT !.point = p]
  /\ UNCHANGED <<actor, mode, bp, callstack, limit, handled, calls>>

(* case_send pops the arguments and the actor and pushes nothing, but ANF   *)
(* conversion names what it gives: the code behind it stores the slot below *)
(* in a local and pushes it again.  Here nothing uses that value.           *)
Send(n, i, p) ==
  /\ In(Callable)
  /\ ~AtSpawn
  /\ n \in 1 .. operands
  /\ i < LocalSpace[pc.body]
  /\ AddressOf(i) \in Slots
  /\ values' = [values EXCEPT ![AddressOf(i)] = values[sp - n - 1]]
  /\ sp' = sp - n
  /\ operands' = operands - n
  /\ pc' = [pc EXCEPT !.point = p]
  /\ UNCHANGED <<actor, mode, bp, callstack, limit, handled, calls>>

(* What stack_pointer will be on return: without callee and arguments.     *)
StackWithout(f) == sp - 1 - Arity[f]

\* Mutant: the locals of the callee are not reserved.
FrameAfterArguments(f) == sp - 1

(* The frame follows the locals, the first of which are the arguments.     *)
FrameSlot(f) == sp - 1 + (LocalSpace[f] - Arity[f])

(* The assertion of op_call fails.                                         *)
TooManyFrames == callstack >= MAX_FRAMES

(* case_call: the callee is popped, and op_call enters it.                 *)
Call(f) ==
  LET frame == [kind |-> "frame", ip |-> After(pc), sp |-> StackWithout(f), base |-> bp,
                ons |-> 0, operands |-> operands - Arity[f] - 1]
  IN  /\ In(Code)
      /\ ~AtSpawn
      /\ pc.point < MaxPoint
      /\ operands > Arity[f]
      /\ ~TooManyFrames
      /\ FrameSlot(f) \in Slots
      /\ values' = [values EXCEPT ![FrameSlot(f)] = frame]
      /\ bp' = FrameSlot(f)
      /\ sp' = FrameSlot(f) + 1
      /\ callstack' = callstack + 1
      /\ pc' = Entry(f)
      /\ operands' = 0
      /\ calls' = Append(calls, Caller(Arity[f] + 1))
      /\ UNCHANGED <<actor, mode, limit, handled>>

(* The process ends with "Call stack overflow".                            *)
CallFails ==
  /\ In(Code)
  /\ ~AtSpawn
  /\ operands > 0
  /\ TooManyFrames
  /\ mode' = "thrown"
  /\ UNCHANGED <<actor, pc, values, sp, bp, callstack, limit, operands, handled, calls>>

\* Mutant: the base pointer stays where it is.
BaseKept(frame) == bp

(* module->base_pointer = fr.base_ptr                                      *)
BaseAfterReturn(frame) == frame.base

\* Mutant: any return ends the handler.
AnyReturn == TRUE

(* does_return && callstack == module->callstack, after pop_frame.         *)
HandlerIsOver == actor /\ limit = callstack - 1

(* The result is popped, the stack cut back to where it was before the     *)
(* call, and the result pushed for the caller.  pop_frame asserts that     *)
(* values[bp] is a frame; FrameAtBase is why it always is.                 *)
Return ==
  LET frame == values[bp]
  IN  /\ In(Callable)
      /\ ~AtSpawn
      /\ frame.kind = "frame"
      /\ callstack' = callstack - 1
      /\ values' = [values EXCEPT ![frame.sp] = [kind |-> "value", owner |-> Len(calls) - 1]]
      /\ sp' = frame.sp + 1
      /\ bp' = BaseAfterReturn(frame)
      /\ pc' = frame.ip
      /\ operands' = frame.operands + 1
      /\ mode' = IF HandlerIsOver THEN "idle" ELSE "run"
      /\ handled' = IF HandlerIsOver THEN handled + 1 ELSE handled
      /\ calls' = SubSeq(calls, 1, Len(calls) - 1)
      /\ UNCHANGED <<actor, limit>>
-----------------------------------------------------------------------------
(* case_spawn: the event is popped and its body entered with a frame.  The *)
(* compiler leaves no other operand below the event (ANF conversion).      *)
Spawn(e) ==
  LET frame == [kind |-> "frame", ip |-> After(pc), sp |-> sp - 1, base |-> bp,
                ons |-> Ons[e], operands |-> 0]
  IN  /\ In(Code)
      /\ AtSpawn
      /\ operands = 1
      /\ values' = [values EXCEPT ![sp - 1] = frame]
      /\ bp' = sp - 1
      /\ callstack' = callstack + 1
      /\ pc' = Entry(e)
      /\ operands' = 0
      /\ calls' = Append(calls, Caller(1))
      /\ UNCHANGED <<actor, mode, sp, limit, handled>>

(* case_event_on: the body of a spawned event pushes its handlers.         *)
EventOn ==
  /\ In(Events)
  /\ pc.point < Ons[pc.body]
  /\ sp < MaxSlots
  /\ values' = [values EXCEPT ![sp] = [kind |-> "on", owner |-> Len(calls)]]
  /\ sp' = sp + 1
  /\ operands' = operands + 1
  /\ pc' = After(pc)
  /\ UNCHANGED <<actor, mode, bp, callstack, limit, handled, calls>>

(* MAKE_PTR(hp), the event with its actor.                                 *)
NewActor == [kind |-> "actor", owner |-> Len(calls) - 1]

(* case_return_event: the handlers are popped, the actor is created and    *)
(* pushed.  Neither base_pointer nor stack_pointer is restored.            *)
ReturnEvent ==
  LET frame == values[bp]
      at    == sp - frame.ons
  IN  /\ In(Events)
      /\ pc.point = Ons[pc.body]
      /\ frame.kind = "frame"
      /\ at \in Slots
      /\ callstack' = callstack - 1
      /\ values' = [values EXCEPT ![at] = NewActor]
      /\ sp' = at + 1
      /\ pc' = frame.ip
      /\ operands' = frame.operands + 1
      /\ calls' = SubSeq(calls, 1, Len(calls) - 1)
      /\ UNCHANGED <<actor, mode, bp, limit, handled>>
-----------------------------------------------------------------------------
(* run_interpreter(new_module, ipc, true, new_module->callstack - 1)       *)
LimitOfHandler == callstack - 1

(* call_threaded: the arguments, zeros for the other locals and a frame    *)
(* are pushed, and one slot is skipped.  The frame's instruction pointer   *)
(* is never executed.                                                      *)
StartHandler(h) ==
  LET frame == [kind |-> "frame", ip |-> Entry(Top), sp |-> sp, base |-> bp, ons |-> 0,
                operands |-> 0]
  IN  /\ mode = "idle"
      /\ handled < MaxMessages
      /\ sp + LocalSpace[h] + 2 <= MaxSlots
      /\ values' = [i \in Slots |->
                     IF i \in sp .. (sp + LocalSpace[h] - 1)
                     THEN [kind |-> "value", owner |-> 1]
                     ELSE IF i = sp + LocalSpace[h] THEN frame ELSE values[i]]
      /\ bp' = sp + LocalSpace[h]
      /\ sp' = sp + LocalSpace[h] + 2
      /\ limit' = LimitOfHandler
      /\ mode' = "run"
      /\ pc' = Entry(h)
      /\ operands' = 0
      /\ calls' = Append(calls, [back |-> Entry(Top), base |-> bp, sp |-> sp])
      /\ UNCHANGED <<actor, callstack, handled>>

Halt ==
  /\ In({Top})
  /\ ~AtSpawn
  /\ mode' = "halted"
  /\ UNCHANGED <<actor, pc, values, sp, bp, callstack, limit, operands, handled, calls>>

Next ==
  \/ \E n \in 0 .. MaxOperands, m \in 0 .. 1, p \in 0 .. MaxPoint : Operate(n, m, p)
  \/ \E i \in Slots, p \in 0 .. MaxPoint : StoreLocal(i, p)
  \/ \E n \in 1 .. MaxOperands, i \in Slots, p \in 0 .. MaxPoint : Send(n, i, p)
  \/ \E f \in Functions : Call(f)
  \/ CallFails
  \/ Return
  \/ \E e \in Events : Spawn(e)
  \/ EventOn
  \/ ReturnEvent
  \/ \E h \in Handlers : StartHandler(h)
  \/ Halt

Spec == Init /\ [][Next]_vars
-----------------------------------------------------------------------------
TypeOK ==
  /\ actor \in BOOLEAN
  /\ mode \in {"run", "idle", "halted", "thrown"}
  /\ pc \in Points
  /\ values \in [Slots -> Values \cup Frames]
  /\ sp \in 0 .. MaxSlots
  /\ bp \in Slots
  /\ callstack \in Int
  /\ limit \in Int
  /\ operands \in Nat
  /\ handled \in 0 .. MaxMessages
  /\ calls \in Seq([back : Points, base : Slots, sp : 0 .. MaxSlots])

(* The base pointer of a running call is the slot of its own frame, which  *)
(* nothing overwrites: pop_frame finds it there (module.c, "Expected       *)
(* frame").                                                                *)
FrameAtBase ==
  /\ TypeOK
  /\ mode = "run" /\ calls # << >> =>
       /\ bp < sp
       /\ values[bp].kind = "frame"
       /\ values[bp].ip = CurrentCall.back
       /\ values[bp].base = CurrentCall.base
       /\ values[bp].sp = CurrentCall.sp

(* When a function or a handler returns, its caller has the stack it had   *)
(* before the call, less the callee and the arguments, and the result on   *)
(* top, its own locals in reach, and goes on behind the call.              *)
ReturnRestoresCaller ==
  [][In(Callable) /\ Len(calls') < Len(calls) =>
       /\ pc' = CurrentCall.back
       /\ bp' = CurrentCall.base
       /\ sp' = CurrentCall.sp + 1]_vars

(* A body never writes below its own arguments: the locals, the operands   *)
(* and the frames of its callers stay as they are.                         *)
CallersUntouched ==
  [][calls # << >> =>
       \A i \in Slots : i < CurrentCall.sp => values'[i] = values[i]]_vars

(* run_interpreter returns to actor_run when the handler itself returns,   *)
(* and never when a function that the handler called does.                 *)
HandlerRunsToItsEnd ==
  actor /\ mode # "thrown" => (mode = "idle" <=> calls = << >>)

(* A spawn leaves the actor on the stack, and the code behind a spawn is   *)
(* reached from elsewhere in no other way (README.md, "store spawning      *)
(* result (the actor value itself) into the variable").                    *)
SpawnYieldsActor ==
  [][Len(calls') < Len(calls) /\ (\E site \in SpawnSites : pc' = After(site)) =>
       values'[sp' - 1].kind = "actor"]_vars
=============================================================================
