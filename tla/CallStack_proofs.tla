--------------------------- MODULE CallStack_proofs ---------------------------
(***************************************************************************)
(* When events are spawned at the top level only, the calls of a thread    *)
(* are found on its stack, one frame for each, in the order in which they  *)
(* were made, and what a body may write is above the locals of its caller. *)
(* In a function, spawn leaves base_pointer behind: the run                *)
(* spawn_in_function shows it.                                             *)
(***************************************************************************)
EXTENDS CallStack, SequenceTheorems, TLAPS

SpawnsAtTop == \A p \in SpawnSites : p.body = Top

(* The frame of the call i, and the lowest slot that holds an operand of    *)
(* the body which that call entered.                                       *)
Base(i)  == IF i = Len(calls) THEN bp ELSE calls[i + 1].base
Frame(i) == values[Base(i)]
Floor(i) == IF i = Len(calls) THEN sp - operands ELSE calls[i + 1].sp - Frame(i + 1).operands

(* The body that the call i entered.                                       *)
Body(i) == IF i = Len(calls) THEN pc.body ELSE calls[i + 1].back.body

(* Every call has its frame, between its arguments and its operands.       *)
FramesOfCalls ==
  \A i \in 1 .. Len(calls) :
    /\ Frame(i).kind = "frame"
    /\ Frame(i).ip = calls[i].back
    /\ Frame(i).base = calls[i].base
    /\ Frame(i).sp = calls[i].sp
    /\ calls[i].sp <= Base(i)
    /\ Base(i) < Floor(i)

(* Where a later call began is above the frames of the earlier ones.       *)
CallsInOrder ==
  \A i, j \in 1 .. Len(calls) : i < j => Base(i) < calls[j].sp

(* Below the frame of a function or a handler are its locals.              *)
LocalsBelowFrame ==
  \A i \in 1 .. Len(calls) : Body(i) \in Callable => Base(i) = calls[i].sp + LocalSpace[Body(i)]

(* What a function or a handler returns to is not behind a spawn.          *)
NotBehindSpawn(p) == \A site \in SpawnSites : p # After(site)

BacksOfCalls ==
  \A i \in 1 .. Len(calls) : Body(i) \in Callable => NotBehindSpawn(calls[i].back)

(* The top level is what the first call returns to, and nothing else is.   *)
Bodies ==
  /\ pc.body = Top <=> calls = << >>
  /\ \A i \in 1 .. Len(calls) : calls[i].back.body \in Code
  /\ \A i \in 1 .. Len(calls) : calls[i].back.body = Top <=> i = 1
  /\ operands <= sp
  /\ calls # << >> => Frame(1).operands <= calls[1].sp

(* The body of an event has pushed its handlers behind its frame.          *)
InEvent ==
  pc.body \in Events =>
    /\ ~actor
    /\ Len(calls) = 1
    /\ values[bp].ons = Ons[pc.body]
    /\ values[bp].operands = 0
    /\ operands = pc.point
    /\ sp = bp + 1 + operands

(* The count by which a handler's end is recognised.                       *)
Count ==
  /\ mode = "idle" => actor /\ calls = << >>
  /\ actor /\ mode = "run" => /\ calls # << >>
                              /\ callstack = limit + Len(calls)
                              /\ handled < MaxMessages
  /\ actor => mode # "halted"

IInv ==
  /\ TypeOK
  /\ FramesOfCalls
  /\ CallsInOrder
  /\ LocalsBelowFrame
  /\ BacksOfCalls
  /\ Bodies
  /\ InEvent
  /\ Count
-----------------------------------------------------------------------------
(* Init, of both kinds of thread.                                          *)
LEMMA InitIInv == Init => IInv
  <1> SUFFICES ASSUME Init PROVE IInv
    OBVIOUS
  <1> USE CallStackAssumption
  <1>1. TypeOK
    <2>1. values \in [Slots -> Values \cup Frames]
      BY DEF Init, Values
    <2>2. pc \in Points
      BY DEF Init, Entry, Points, Code
    <2>3. 0 \in Slots
      <3>1. PICK b \in FreshBase : b \in Slots
        OBVIOUS
      <3> QED
        BY <3>1 DEF Slots
    <2>4. bp \in Slots
      BY <2>3 DEF Init
    <2>5. sp \in 0 .. MaxSlots
      BY DEF Init
    <2> QED
      BY <2>1, <2>2, <2>4, <2>5 DEF Init, TypeOK
  <1>2. calls = << >> /\ Len(calls) = 0
    BY DEF Init
  <1>3. Bodies /\ InEvent
    BY <1>2 DEF Init, Bodies, InEvent, Entry, Code
  <1>4. Count
    BY DEF Init, Count
  <1> QED
    BY <1>1, <1>2, <1>3, <1>4 DEF IInv, FramesOfCalls, CallsInOrder, LocalsBelowFrame, BacksOfCalls
-----------------------------------------------------------------------------
(* What actions do to calls and their frames: they stay in the innermost   *)
(* call, enter one, or leave one.                                          *)
Stays ==
  /\ UNCHANGED <<calls, bp>>
  /\ pc'.body = pc.body
  /\ operands' <= sp'
  /\ calls # << >> =>
       /\ bp < sp' - operands'
       /\ \A i \in Slots : i < CurrentCall.sp \/ i = bp => values'[i] = values[i]

Enters(call, frame) ==
  /\ calls' = Append(calls, call)
  /\ call.base = bp
  /\ call.back.body = pc.body
  /\ call.back.body \in Code
  /\ call.sp \in 0 .. bp'
  /\ bp' < sp' - operands'
  /\ operands' \in Nat
  /\ pc'.body # Top
  /\ pc'.body \in Callable => /\ bp' = call.sp + LocalSpace[pc'.body]
                              /\ NotBehindSpawn(call.back)
  /\ values'[bp'] = frame
  /\ frame.kind = "frame"
  /\ frame.ip = call.back
  /\ frame.base = call.base
  /\ frame.sp = call.sp
  /\ frame.operands <= frame.sp
  /\ calls # << >> =>
       /\ bp < call.sp
       /\ frame.sp - frame.operands = sp - operands
       /\ \A i \in Slots : i <= bp => values'[i] = values[i]

Leaves ==
  /\ calls # << >>
  /\ calls' = SubSeq(calls, 1, Len(calls) - 1)
  /\ pc' = CurrentCall.back
  /\ operands' <= sp'
  /\ Len(calls) > 1 =>
       /\ bp' = CurrentCall.base
       /\ sp' - operands' = CurrentCall.sp - values[bp].operands
  /\ \A i \in Slots : i < CurrentCall.sp => values'[i] = values[i]

Calls == FramesOfCalls /\ CallsInOrder /\ LocalsBelowFrame /\ BacksOfCalls /\ Bodies

(* What CallersUntouched says of a step.                                   *)
Untouched ==
  calls # << >> => \A i \in Slots : i < CurrentCall.sp => values'[i] = values[i]

(* The numbers in calls, and where the frames are.                         *)
LEMMA CallFacts ==
  ASSUME TypeOK
  PROVE  /\ Len(calls) \in Nat
         /\ calls # << >> <=> Len(calls) > 0
         /\ \A i \in 1 .. Len(calls) :
              /\ calls[i].back \in Points
              /\ calls[i].base \in Slots
              /\ calls[i].sp \in 0 .. MaxSlots
              /\ Base(i) \in Slots
  <1> DEFINE C == [back : Points, base : Slots, sp : 0 .. MaxSlots]
  <1>1. calls \in Seq(C)
    BY DEF TypeOK
  <1>2. Len(calls) \in Nat /\ (calls # << >> <=> Len(calls) > 0)
    BY <1>1
  <1>3. \A i \in 1 .. Len(calls) : calls[i] \in C
    <2> HIDE DEF C
    <2> QED
      BY <1>1
  <1>4. \A i \in 1 .. Len(calls) : i # Len(calls) => i + 1 \in 1 .. Len(calls)
    BY <1>2
  <1>5. \A i \in 1 .. Len(calls) : Base(i) \in Slots
    BY <1>3, <1>4 DEF Base, TypeOK
  <1> QED
    BY <1>2, <1>3, <1>5

LEMMA Numbers ==
  /\ TypeOK => sp \in 0 .. MaxSlots /\ bp \in Slots /\ operands \in Nat
  /\ TypeOK' => sp' \in 0 .. MaxSlots /\ bp' \in Slots /\ operands' \in Nat
  /\ MaxSlots \in Nat
  /\ \A i \in Slots : i \in Nat /\ i < MaxSlots
  BY CallStackAssumption DEF TypeOK, Slots

LEMMA StaysKeepsCalls ==
  ASSUME TypeOK, TypeOK', Calls, Stays
  PROVE  Calls'
  <1> USE CallStackAssumption
  <1>1. \A i \in 1 .. Len(calls) : /\ Base(i)' = Base(i)
                                   /\ Body(i)' = Body(i)
                                   /\ Base(i) \in Slots
                                   /\ Frame(i)' = Frame(i)
    <2> SUFFICES ASSUME NEW i \in 1 .. Len(calls)
                 PROVE  /\ Base(i)' = Base(i)
                        /\ Body(i)' = Body(i)
                        /\ Base(i) \in Slots
                        /\ Frame(i)' = Frame(i)
      OBVIOUS
    <2>1. Base(i)' = Base(i) /\ Body(i)' = Body(i)
      BY DEF Stays, Base, Body
    <2>2. Base(i) \in Slots
      BY CallFacts
    <2>3. Base(i) = bp \/ Base(i) < CurrentCall.sp
      BY CallFacts DEF Calls, CallsInOrder, CurrentCall, Base
    <2>4. calls # << >>
      BY CallFacts
    <2> QED
      BY <2>1, <2>2, <2>3, <2>4 DEF Stays, Frame
  <1>2. CallsInOrder' /\ LocalsBelowFrame' /\ BacksOfCalls'
    BY <1>1 DEF Calls, Stays, CallsInOrder, LocalsBelowFrame, BacksOfCalls
  <1>3. FramesOfCalls'
    <2> SUFFICES ASSUME NEW i \in 1 .. Len(calls)
                 PROVE  Base(i) < Floor(i)'
      BY <1>1 DEF Calls, FramesOfCalls, Stays
    <2>1. CASE i = Len(calls)
      BY <2>1, CallFacts DEF Stays, Floor, Base
    <2>2. CASE i # Len(calls)
      <3>1. i + 1 \in 1 .. Len(calls)
        BY <2>2, CallFacts
      <3>2. Floor(i)' = Floor(i)
        BY <2>2, <3>1, <1>1 DEF Stays, Floor
      <3> QED
        BY <3>2 DEF Calls, FramesOfCalls
    <2> QED
      BY <2>1, <2>2
  <1>4. Bodies'
    <2>1. calls # << >> => 1 \in 1 .. Len(calls)
      BY CallFacts
    <2> QED
      BY <1>1, <2>1 DEF Calls, Bodies, Stays
  <1> QED
    BY <1>2, <1>3, <1>4 DEF Calls

LEMMA EntersKeepsCalls ==
  ASSUME TypeOK, TypeOK', Calls, NEW call, NEW frame, Enters(call, frame)
  PROVE  Calls'
  <1>0. PICK n \in Nat : n = Len(calls)
    BY CallFacts
  <1>1. /\ n \in Nat
        /\ Len(calls') = n + 1
        /\ \A i \in 1 .. n : calls'[i] = calls[i]
        /\ calls'[n + 1] = call
    <2>1. calls \in Seq([back : Points, base : Slots, sp : 0 .. MaxSlots])
      BY DEF TypeOK
    <2> QED
      BY <2>1, <1>0 DEF Enters
  <1>2. /\ \A i \in 1 .. n : /\ Base(i)' = Base(i)
                             /\ Body(i)' = Body(i)
                             /\ Base(i) <= bp
                             /\ Frame(i)' = Frame(i)
        /\ Base(n + 1)' = bp'
        /\ Body(n + 1)' = pc'.body
        /\ Frame(n + 1)' = frame
    <2>1. \A i \in 1 .. n : Base(i)' = Base(i) /\ Body(i)' = Body(i)
      BY <1>0, <1>1 DEF Base, Body, Enters
    <2>2. \A i \in 1 .. n : Base(i) <= bp
      <3>1. \A i \in 1 .. n : i # n => Base(i) < CurrentCall.sp
        BY <1>0, <1>1 DEF Calls, CallsInOrder, CurrentCall
      <3>2. n > 0 => CurrentCall.sp <= bp
        BY <1>0, <1>1 DEF Calls, FramesOfCalls, CurrentCall, Base
      <3> QED
        BY <3>1, <3>2, <1>0, <1>1, CallFacts, Numbers DEF Base, CurrentCall
    <2>3. \A i \in 1 .. n : Frame(i)' = Frame(i)
      BY <2>1, <2>2, <1>0, CallFacts DEF Frame, Enters
    <2>4. Base(n + 1)' = bp' /\ Body(n + 1)' = pc'.body /\ Frame(n + 1)' = frame
      <3>1. values'[bp'] = frame
        BY DEF Enters
      <3>2. n + 1 = Len(calls')
        BY <1>0, <1>1
      <3> QED
        BY <3>1, <3>2 DEF Base, Body, Frame
    <2> QED
      BY <2>1, <2>2, <2>3, <2>4
  <1>3. n > 0 => bp < call.sp
    BY <1>0, CallFacts DEF Enters
  <1>4. CallsInOrder'
    <2> SUFFICES ASSUME NEW i \in 1 .. n + 1, NEW j \in 1 .. n + 1, i < j
                 PROVE  Base(i)' < calls'[j].sp
      BY <1>0, <1>1 DEF CallsInOrder
    <2>1. i \in 1 .. n
      BY <1>0, <1>1
    <2>2. CASE j \in 1 .. n
      BY <2>1, <2>2, <1>0, <1>1, <1>2 DEF Calls, CallsInOrder
    <2>3. CASE j = n + 1
      <3>1. Base(i) <= bp /\ bp < call.sp /\ Base(i) \in Slots
        BY <2>1, <1>0, <1>1, <1>2, <1>3, CallFacts
      <3>2. call.sp \in Nat /\ bp \in Nat
        BY DEF Enters, TypeOK, Slots
      <3> QED
        BY <2>1, <2>3, <3>1, <3>2, <1>0, <1>1, <1>2 DEF Slots
    <2> QED
      BY <2>2, <2>3, <1>0, <1>1
  <1>5. LocalsBelowFrame'
    <2>1. \A i \in 1 .. n : Body(i)' \in Callable => Base(i)' = calls'[i].sp + LocalSpace[Body(i)']
      BY <1>0, <1>1, <1>2 DEF Calls, LocalsBelowFrame
    <2>2. pc'.body \in Callable => bp' = calls'[n + 1].sp + LocalSpace[pc'.body]
      BY <1>0, <1>1 DEF Enters
    <2> QED
      <3> SUFFICES ASSUME NEW i \in 1 .. n + 1, Body(i)' \in Callable
                   PROVE  Base(i)' = calls'[i].sp + LocalSpace[Body(i)']
        BY <1>0, <1>1 DEF LocalsBelowFrame
      <3>1. i \in 1 .. n \/ i = n + 1
        BY <1>0, <1>1
      <3> QED
        BY <2>1, <2>2, <1>2, <3>1
  <1>6. FramesOfCalls'
    <2> SUFFICES ASSUME NEW i \in 1 .. n + 1
                 PROVE  /\ Frame(i)'.kind = "frame"
                        /\ Frame(i)'.ip = calls'[i].back
                        /\ Frame(i)'.base = calls'[i].base
                        /\ Frame(i)'.sp = calls'[i].sp
                        /\ calls'[i].sp <= Base(i)'
                        /\ Base(i)' < Floor(i)'
      BY <1>0, <1>1 DEF FramesOfCalls
    <2>1. CASE i \in 1 .. n
      <3>1. Floor(i)' = Floor(i)
        <4>1. CASE i = n
          <5>1. n > 0 /\ calls # << >>
            BY <2>1, <1>0, CallFacts
          <5>2. Floor(n) = sp - operands /\ Floor(n)' = frame.sp - frame.operands
            BY <2>1, <4>1, <1>0, <1>1, <1>2 DEF Floor, Enters
          <5> QED
            BY <4>1, <5>1, <5>2 DEF Enters
        <4>2. CASE i # n
          <5>1. i + 1 \in 1 .. n
            BY <4>2, <2>1, <1>0, <1>1
          <5> QED
            BY <5>1, <4>2, <1>0, <1>1, <1>2 DEF Floor
        <4> QED
          BY <4>1, <4>2
      <3> QED
        BY <3>1, <2>1, <1>0, <1>1, <1>2 DEF Calls, FramesOfCalls
    <2>2. CASE i = n + 1
      <3>1. Floor(n + 1)' = sp' - operands'
        BY <1>0, <1>1 DEF Floor
      <3> QED
        BY <2>2, <3>1, <1>0, <1>1, <1>2 DEF Enters
    <2> QED
      BY <2>1, <2>2, <1>0, <1>1
  <1>7. Bodies'
    <2>1. calls' # << >> /\ pc'.body # Top
      BY <1>0, <1>1 DEF Enters
    <2>2. \A i \in 1 .. n : /\ calls[i].back.body \in Code
                            /\ calls[i].back.body = Top <=> i = 1
      BY <1>0 DEF Calls, Bodies
    <2>3. call.back.body \in Code /\ (call.back.body = Top <=> n = 0)
      BY <1>0, <1>1, CallFacts DEF Calls, Bodies, Enters
    <2>4. Frame(1)'.operands <= calls'[1].sp
      <3>1. CASE n = 0
        BY <3>1, <1>0, <1>1, <1>2 DEF Enters
      <3>2. CASE n > 0
        BY <3>2, <1>0, <1>1, <1>2, CallFacts DEF Calls, Bodies
      <3> QED
        BY <3>1, <3>2, <1>0, <1>1
    <2>5. operands' <= sp'
      BY Numbers DEF Enters
    <2> QED
      BY <2>1, <2>2, <2>3, <2>4, <2>5, <1>0, <1>1 DEF Bodies
  <1>8. BacksOfCalls'
    <2>1. \A i \in 1 .. n : Body(i)' \in Callable => NotBehindSpawn(calls'[i].back)
      BY <1>0, <1>1, <1>2 DEF Calls, BacksOfCalls
    <2>2. pc'.body \in Callable => NotBehindSpawn(calls'[n + 1].back)
      BY <1>0, <1>1 DEF Enters
    <2>3. BacksOfCalls' <=> \A i \in 1 .. n + 1 : Body(i)' \in Callable => NotBehindSpawn(calls'[i].back)
      BY <1>1 DEF BacksOfCalls, NotBehindSpawn, After
    <2>4. \A i \in 1 .. n + 1 : i \in 1 .. n \/ i = n + 1
      BY <1>0, <1>1
    <2> QED
      BY <2>1, <2>2, <2>3, <2>4, <1>2
  <1> QED
    BY <1>4, <1>5, <1>6, <1>7, <1>8 DEF Calls

LEMMA LeavesKeepsCalls ==
  ASSUME TypeOK, TypeOK', Calls, Leaves
  PROVE  Calls'
  <1>0. PICK n \in Nat : n = Len(calls)
    BY CallFacts
  <1>1. /\ n \in Nat \ {0}
        /\ Len(calls') = n - 1
        /\ \A i \in 1 .. n - 1 : calls'[i] = calls[i]
    <2>1. calls \in Seq([back : Points, base : Slots, sp : 0 .. MaxSlots])
      BY DEF TypeOK
    <2> QED
      <3>1. n \in Nat \ {0}
        BY <1>0, CallFacts DEF Leaves
      <3>2. calls' = SubSeq(calls, 1, n - 1)
        BY <1>0 DEF Leaves
      <3> QED
        BY <2>1, <3>1, <3>2, <1>0
  <1>2. \A i \in 1 .. n - 1 : /\ Base(i)' = Base(i)
                               /\ Body(i)' = Body(i)
                               /\ Frame(i)' = Frame(i)
                               /\ Floor(i)' = Floor(i)
    <2>1. \A i \in 1 .. n - 1 : Base(i)' = Base(i) /\ Body(i)' = Body(i)
      BY <1>0, <1>1 DEF Base, Body, Leaves, CurrentCall
    <2>2. \A i \in 1 .. n - 1 : Frame(i)' = Frame(i)
      BY <2>1, <1>0, <1>1, CallFacts DEF Frame, Leaves, Calls, CallsInOrder, CurrentCall
    <2>3. \A i \in 1 .. n - 1 : Floor(i)' = Floor(i)
      <3> SUFFICES ASSUME NEW i \in 1 .. n - 1 PROVE Floor(i)' = Floor(i)
        OBVIOUS
      <3>1. CASE i = n - 1
        <4>1. Floor(i)' = sp' - operands'
          BY <3>1, <1>0, <1>1 DEF Floor
        <4>2. Floor(i) = calls[n].sp - values[bp].operands
          BY <3>1, <1>0, <1>1 DEF Floor, Frame, Base
        <4> QED
          BY <4>1, <4>2, <3>1, <1>0, <1>1 DEF Leaves, CurrentCall
      <3>2. CASE i # n - 1
        <4>1. i + 1 \in 1 .. n - 1
          BY <3>2, <1>0, <1>1
        <4> QED
          BY <4>1, <3>2, <2>2, <1>0, <1>1 DEF Floor
      <3> QED
        BY <3>1, <3>2
    <2> QED
      BY <2>1, <2>2, <2>3
  <1>3. CallsInOrder' /\ LocalsBelowFrame' /\ FramesOfCalls' /\ BacksOfCalls'
    BY <1>0, <1>1, <1>2
       DEF Calls, CallsInOrder, LocalsBelowFrame, FramesOfCalls, BacksOfCalls, NotBehindSpawn, After
  <1>4. Bodies'
    <2>1. pc'.body = Top <=> n = 1
      BY <1>0, <1>1 DEF Calls, Bodies, Leaves, CurrentCall
    <2>2. calls' = << >> <=> n = 1
      <3>1. calls' \in Seq([back : Points, base : Slots, sp : 0 .. MaxSlots])
        BY DEF TypeOK
      <3> QED
        BY <3>1, <1>0, <1>1
    <2> QED
      BY <2>1, <2>2, <1>0, <1>1, <1>2 DEF Calls, Bodies, Leaves
  <1> QED
    BY <1>3, <1>4 DEF Calls
-----------------------------------------------------------------------------
(* What every body finds, and where its locals are.                        *)
LEMMA Innermost ==
  ASSUME IInv, calls # << >>
  PROVE  /\ Len(calls) \in Nat \ {0}
         /\ values[bp].kind = "frame"
         /\ values[bp].ip = CurrentCall.back
         /\ values[bp].base = CurrentCall.base
         /\ values[bp].sp = CurrentCall.sp
         /\ CurrentCall.back \in Points
         /\ CurrentCall.base \in Slots
         /\ CurrentCall.sp \in 0 .. bp
         /\ bp < sp - operands
         /\ pc.body \in Callable => bp = CurrentCall.sp + LocalSpace[pc.body]
  <1>1. Len(calls) \in 1 .. Len(calls)
    BY CallFacts DEF IInv
  <1>2. Base(Len(calls)) = bp /\ Body(Len(calls)) = pc.body /\ Floor(Len(calls)) = sp - operands
    BY DEF Base, Body, Floor
  <1> QED
    BY <1>1, <1>2, CallFacts, Numbers
       DEF IInv, FramesOfCalls, LocalsBelowFrame, CurrentCall, Frame

(* Which bodies are which, and the operands of the running one.            *)
LEMMA Running ==
  ASSUME IInv
  PROVE  /\ TypeOK
         /\ sp \in 0 .. MaxSlots
         /\ bp \in Slots
         /\ operands \in Nat
         /\ operands <= sp
         /\ pc.body = Top <=> calls = << >>
         /\ pc.body \in Code \cup Events
         /\ pc.body \in Code <=> pc.body \notin Events
         /\ pc.point \in 0 .. MaxPoint
         /\ pc = [body |-> pc.body, point |-> pc.point]
         /\ \A p \in 0 .. MaxPoint : [pc EXCEPT !.point = p] \in Points
         /\ \A p : [pc EXCEPT !.point = p].body = pc.body
  <1>1. TypeOK /\ Bodies
    BY DEF IInv
  <1>2. /\ pc.body \in Code \cup Events
        /\ pc.point \in 0 .. MaxPoint
        /\ pc = [body |-> pc.body, point |-> pc.point]
        /\ \A p \in 0 .. MaxPoint : [pc EXCEPT !.point = p] \in Points
        /\ \A p : [pc EXCEPT !.point = p].body = pc.body
    BY <1>1 DEF TypeOK, Points
  <1>3. pc.body \in Code <=> pc.body \notin Events
    BY <1>2, CallStackAssumption DEF Code
  <1> QED
    BY <1>1, <1>2, <1>3, Numbers DEF Bodies

LEMMA ValuesInBounds ==
  ASSUME TypeOK
  PROVE  /\ Len(calls) \in Nat
         /\ Value \in Values
         /\ Value.kind = "value"
  BY CallFacts DEF Value, Values

(* A step that stays in the innermost call keeps the invariant, if it is   *)
(* not one of an event's body.                                             *)
LEMMA StaysKeepsIInv ==
  ASSUME IInv, TypeOK', Stays, pc.body \notin Events,
         UNCHANGED <<actor, callstack, limit, handled>>,
         mode' = mode \/ mode' = "thrown" \/ (mode' = "halted" /\ ~actor)
  PROVE  IInv' /\ Untouched
  <1>1. Calls'
    BY StaysKeepsCalls DEF IInv, Calls
  <1>2. InEvent'
    BY DEF InEvent, Stays
  <1>3. Count'
    BY DEF IInv, Count, Stays
  <1>4. Untouched
    BY DEF Untouched, Stays
  <1> QED
    BY <1>1, <1>2, <1>3, <1>4 DEF IInv, Calls

LEMMA OperateStep ==
  ASSUME IInv, NEW n \in 0 .. MaxOperands, NEW m \in 0 .. 1, NEW p \in 0 .. MaxPoint,
         Operate(n, m, p)
  PROVE  IInv' /\ Untouched
  <1>1. /\ pc.body \in Code /\ pc' = [pc EXCEPT !.point = p]
        /\ n <= operands /\ sp - n + m <= MaxSlots
        /\ sp' = sp - n + m /\ operands' = operands - n + m
        /\ UNCHANGED <<actor, mode, bp, callstack, limit, handled, calls>>
    BY DEF Operate, In
  <1>2. values' = [i \in Slots |-> IF i \in (sp - n) .. (sp - n + m - 1) THEN Value ELSE values[i]]
    BY DEF Operate
  <1>3. /\ sp' \in 0 .. MaxSlots /\ operands' \in Nat /\ operands' <= sp'
        /\ sp' - operands' = sp - operands
        /\ sp - operands <= sp - n
    <2>1. n \in Nat /\ m \in Nat
      BY CallStackAssumption
    <2>2. sp \in 0 .. MaxSlots /\ operands \in Nat /\ operands <= sp /\ MaxSlots \in Nat
      BY Running, CallStackAssumption
    <2> QED
      BY <1>1, <2>1, <2>2
  <1>4. values' \in [Slots -> Values \cup Frames]
    BY <1>2, Running, ValuesInBounds DEF TypeOK
  <1>5. TypeOK'
    BY <1>1, <1>3, <1>4, Running DEF TypeOK
  <1>6. \A i \in Slots : i < sp - n => values'[i] = values[i]
    BY <1>2, <1>1, Running, Numbers
  <1>7. Stays
    BY <1>1, <1>3, <1>6, Innermost, Running, Numbers, SMTT(30) DEF Stays
  <1> QED
    BY <1>1, <1>5, <1>7, StaysKeepsIInv, Running

(* A local is between the arguments and the frame of its body.             *)
LEMMA LocalAddress ==
  ASSUME IInv, pc.body \in Callable, NEW i \in Slots, i < LocalSpace[pc.body]
  PROVE  /\ calls # << >>
         /\ AddressOf(i) \in CurrentCall.sp .. bp - 1
  <1>1. calls # << >>
    BY Running, CallStackAssumption
  <1>2. LocalSpace[pc.body] \in Nat /\ i \in Nat
    BY CallStackAssumption, Numbers
  <1>3. bp = CurrentCall.sp + LocalSpace[pc.body] /\ CurrentCall.sp \in 0 .. bp /\ bp \in Nat
    BY <1>1, Innermost, Running, Numbers
  <1> QED
    BY <1>1, <1>2, <1>3 DEF AddressOf

LEMMA StoreLocalStep ==
  ASSUME IInv, NEW i \in Slots, NEW p \in 0 .. MaxPoint, StoreLocal(i, p)
  PROVE  IInv' /\ Untouched
  <1>1. /\ pc.body \in Callable /\ pc' = [pc EXCEPT !.point = p]
        /\ i < LocalSpace[pc.body] /\ AddressOf(i) \in Slots
        /\ operands > 0 /\ sp' = sp - 1 /\ operands' = operands - 1
        /\ values' = [values EXCEPT ![AddressOf(i)] = Value]
        /\ UNCHANGED <<actor, mode, bp, callstack, limit, handled, calls>>
    BY DEF StoreLocal, In
  <1>2. /\ sp' \in 0 .. MaxSlots /\ operands' \in Nat /\ operands' <= sp'
        /\ sp' - operands' = sp - operands
    BY <1>1, Running, CallStackAssumption
  <1>3. TypeOK'
    BY <1>1, <1>2, ValuesInBounds, Running DEF TypeOK
  <1>4. \A j \in Slots : j # AddressOf(i) => values'[j] = values[j]
    BY <1>1, Running DEF TypeOK
  <1>5. Stays
    <2>1. /\ AddressOf(i) \in CurrentCall.sp .. bp - 1
          /\ CurrentCall.sp \in 0 .. bp /\ bp \in Nat /\ bp < sp - operands
      BY <1>1, LocalAddress, Innermost, Running, Numbers
    <2>2. bp < sp' - operands'
      BY <1>2, <2>1
    <2>3. \A j \in Slots : j < CurrentCall.sp \/ j = bp => values'[j] = values[j]
      <3>1. \A j \in Slots : j \in Nat
        BY Numbers
      <3> QED
        BY <2>1, <3>1, <1>4
    <2>4. pc'.body = pc.body
      BY <1>1, Running
    <2> QED
      BY <1>1, <1>2, <2>2, <2>3, <2>4 DEF Stays
  <1> QED
    BY <1>1, <1>3, <1>5, StaysKeepsIInv, Running DEF Code

LEMMA SendStep ==
  ASSUME IInv, NEW n \in 1 .. MaxOperands, NEW i \in Slots, NEW p \in 0 .. MaxPoint, Send(n, i, p)
  PROVE  IInv' /\ Untouched
  <1>1. /\ pc.body \in Callable /\ pc' = [pc EXCEPT !.point = p]
        /\ i < LocalSpace[pc.body] /\ AddressOf(i) \in Slots
        /\ n \in 1 .. operands /\ sp' = sp - n /\ operands' = operands - n
        /\ values' = [values EXCEPT ![AddressOf(i)] = values[sp - n - 1]]
        /\ UNCHANGED <<actor, mode, bp, callstack, limit, handled, calls>>
    BY DEF Send, In
  <1>2. /\ sp' \in 0 .. MaxSlots /\ operands' \in Nat /\ operands' <= sp'
        /\ sp' - operands' = sp - operands
    BY <1>1, Running, CallStackAssumption
  <1>3. sp - n - 1 \in Slots
    BY <1>1, LocalAddress, Innermost, Running, Numbers, SMTT(30) DEF Slots
  <1>4. TypeOK'
    BY <1>1, <1>2, <1>3, Running DEF TypeOK
  <1>5. \A j \in Slots : j # AddressOf(i) => values'[j] = values[j]
    BY <1>1, Running DEF TypeOK
  <1>6. Stays
    <2>1. bp < sp' - operands'
      BY <1>1, <1>2, LocalAddress, Innermost
    <2>2. \A j \in Slots : j < CurrentCall.sp \/ j = bp => values'[j] = values[j]
      <3>1. AddressOf(i) \in CurrentCall.sp .. bp - 1 /\ CurrentCall.sp \in 0 .. bp /\ bp \in Nat
        BY <1>1, LocalAddress, Innermost, Running, Numbers
      <3>2. \A j \in Slots : j \in Nat
        BY Numbers
      <3> QED
        BY <3>1, <3>2, <1>5
    <2>3. pc'.body = pc.body
      BY <1>1, Running
    <2> QED
      BY <1>1, <1>2, <2>1, <2>2, <2>3 DEF Stays
  <1> QED
    BY <1>1, <1>4, <1>6, StaysKeepsIInv, Running DEF Code

(* The calls of the callee are one more.                                   *)
LEMMA AppendedCalls ==
  ASSUME TypeOK, NEW call, calls' = Append(calls, call)
  PROVE  Len(calls') = Len(calls) + 1 /\ calls' # << >>
  <1>1. calls \in Seq([back : Points, base : Slots, sp : 0 .. MaxSlots])
    BY DEF TypeOK
  <1>2. Len(calls') = Len(calls) + 1
    BY <1>1
  <1>3. Len(calls) \in Nat /\ Len(<< >>) = 0
    BY <1>1
  <1> QED
    BY <1>2, <1>3

(* The point that a call or a spawn comes back to.                         *)
LEMMA AfterPoint ==
  ASSUME IInv, pc.point < MaxPoint
  PROVE  After(pc) \in Points /\ After(pc).body = pc.body
  <1>1. After(pc) = [body |-> pc.body, point |-> pc.point + 1]
    BY Running DEF After
  <1>2. pc.body \in Code \cup Events /\ pc.point + 1 \in 0 .. MaxPoint
    BY Running, CallStackAssumption
  <1> QED
    BY <1>1, <1>2 DEF Points

(* A step that enters a body keeps the invariant, if the count is right.   *)
LEMMA EntersKeepsIInv ==
  ASSUME IInv, TypeOK', NEW call, NEW frame, Enters(call, frame), InEvent', Count'
  PROVE  IInv' /\ Untouched
  <1>1. Calls'
    BY EntersKeepsCalls DEF IInv, Calls
  <1>2. Untouched
    <2>1. calls # << >> => CurrentCall.sp \in 0 .. bp /\ bp \in Nat
      BY Innermost, Numbers, Running
    <2>2. \A i \in Slots : i \in Nat
      BY Numbers
    <2> QED
      BY <2>1, <2>2 DEF Untouched, Enters
  <1> QED
    BY <1>1, <1>2 DEF IInv, Calls

(* A step that leaves a body keeps the invariant, if the count is right.   *)
LEMMA LeavesKeepsIInv ==
  ASSUME IInv, TypeOK', Leaves, Count'
  PROVE  IInv' /\ Untouched
  <1>1. Calls'
    BY LeavesKeepsCalls DEF IInv, Calls
  <1>2. Untouched
    BY DEF Untouched, Leaves
  <1>3. InEvent'
    <2>1. CurrentCall.back.body \in Code
      BY CallFacts DEF Leaves, IInv, Bodies, CurrentCall
    <2>2. pc'.body \notin Events
      BY <2>1, CallStackAssumption DEF Leaves, Code
    <2> QED
      BY <2>2 DEF InEvent
  <1> QED
    BY <1>1, <1>2, <1>3 DEF IInv, Calls

(* The point behind an instruction that is no spawn is behind no spawn.    *)
LEMMA NotAtSpawn ==
  ASSUME TypeOK, ~AtSpawn
  PROVE  NotBehindSpawn(After(pc))
  <1> SUFFICES ASSUME NEW site \in SpawnSites, After(pc) = After(site)
               PROVE  FALSE
    BY DEF NotBehindSpawn
  <1>1. /\ site \in Points /\ pc \in Points
        /\ MaxPoint \in Nat
    BY CallStackAssumption DEF TypeOK
  <1>2. /\ After(pc).body = pc.body /\ After(pc).point = pc.point + 1
        /\ After(site).body = site.body /\ After(site).point = site.point + 1
    BY <1>1 DEF After, Points
  <1>3. pc.body = site.body /\ pc.point = site.point
    BY <1>1, <1>2 DEF Points
  <1>4. pc = site
    BY <1>1, <1>3 DEF Points
  <1> QED
    BY <1>4 DEF AtSpawn

(* The actions one by one, from here on.                                   *)
LEMMA CallStep ==
  ASSUME IInv, NEW f \in Functions, Call(f)
  PROVE  IInv' /\ Untouched
  <1> USE CallStackAssumption
  <1> DEFINE frame == [kind |-> "frame", ip |-> After(pc), sp |-> StackWithout(f), base |-> bp,
                       ons |-> 0, operands |-> operands - Arity[f] - 1]
  <1>1. /\ pc.body \in Code /\ pc.point < MaxPoint /\ mode = "run"
        /\ operands > Arity[f] /\ FrameSlot(f) \in Slots
        /\ values' = [values EXCEPT ![FrameSlot(f)] = frame]
        /\ bp' = FrameSlot(f) /\ sp' = FrameSlot(f) + 1 /\ callstack' = callstack + 1
        /\ pc' = Entry(f) /\ operands' = 0 /\ calls' = Append(calls, Caller(Arity[f] + 1))
        /\ UNCHANGED <<actor, mode, limit, handled>>
    BY DEF Call, In
  <1>2. /\ f \in Callable /\ f \notin Events /\ f # Top
        /\ Arity[f] \in Nat /\ LocalSpace[f] \in Nat /\ Arity[f] <= LocalSpace[f]
    BY DEF Callable
  <1>3. After(pc) \in Points /\ After(pc).body = pc.body
    BY <1>1, AfterPoint, Running
  <1>4. /\ StackWithout(f) = sp - (Arity[f] + 1) /\ StackWithout(f) \in 0 .. FrameSlot(f)
        /\ StackWithout(f) - (operands - Arity[f] - 1) = sp - operands
        /\ operands - Arity[f] - 1 \in Nat /\ operands - Arity[f] - 1 <= StackWithout(f)
        /\ StackWithout(f) \in 0 .. MaxSlots
        /\ FrameSlot(f) = StackWithout(f) + LocalSpace[f]
        /\ FrameSlot(f) \in Nat /\ FrameSlot(f) < MaxSlots
    <2>1. sp \in Nat /\ operands \in Nat /\ operands <= sp /\ sp <= MaxSlots /\ MaxSlots \in Nat
      BY Running, Numbers
    <2>2. FrameSlot(f) \in Nat /\ FrameSlot(f) < MaxSlots
      BY <1>1, Numbers
    <2>3. StackWithout(f) = sp - 1 - Arity[f] /\ FrameSlot(f) = sp - 1 + (LocalSpace[f] - Arity[f])
      BY DEF StackWithout, FrameSlot
    <2>4. operands > Arity[f]
      BY <1>1
    <2> HIDE CallStackAssumption DEF frame
    <2>5. /\ StackWithout(f) = sp - (Arity[f] + 1) /\ StackWithout(f) \in Nat
          /\ StackWithout(f) <= MaxSlots
      BY <1>2, <2>1, <2>3, <2>4
    <2>6. FrameSlot(f) = StackWithout(f) + LocalSpace[f] /\ StackWithout(f) <= FrameSlot(f)
      BY <1>2, <2>1, <2>3, <2>5
    <2>7. /\ StackWithout(f) - (operands - Arity[f] - 1) = sp - operands
          /\ operands - Arity[f] - 1 \in Nat /\ operands - Arity[f] - 1 <= StackWithout(f)
      BY <1>2, <2>1, <2>4, <2>5
    <2> QED
      BY <2>1, <2>2, <2>5, <2>6, <2>7
  <1>5. TypeOK'
    <2>1. frame \in Frames
      BY <1>3, <1>4, Running, Numbers DEF Frames
    <2>2. Caller(Arity[f] + 1) \in [back : Points, base : Slots, sp : 0 .. MaxSlots]
      BY <1>3, <1>4, Running DEF Caller
    <2>3. Entry(f) \in Points
      BY <1>2 DEF Entry, Points, Code
    <2>4. values' \in [Slots -> Values \cup Frames]
      BY <1>1, <2>1, Running DEF TypeOK
    <2>5. calls' \in Seq([back : Points, base : Slots, sp : 0 .. MaxSlots])
      BY <1>1, <2>2, Running DEF TypeOK
    <2>6. sp' \in 0 .. MaxSlots
      BY <1>1, <1>4, SMTT(30)
    <2>7. callstack' \in Int
      BY <1>1, Running DEF TypeOK
    <2> QED
      BY <1>1, <2>3, <2>4, <2>5, <2>6, <2>7, Running DEF TypeOK
  <1>6. Enters(Caller(Arity[f] + 1), frame)
    <2>1. values'[bp'] = frame
      BY <1>1, Running DEF TypeOK
    <2>2. calls # << >> => /\ bp < StackWithout(f)
                           /\ \A i \in Slots : i <= bp => values'[i] = values[i]
      <3> SUFFICES ASSUME calls # << >>
                   PROVE  /\ bp < StackWithout(f)
                          /\ \A i \in Slots : i <= bp => values'[i] = values[i]
        OBVIOUS
      <3>1. bp < StackWithout(f)
        <4>1. bp < sp - operands /\ bp \in Nat /\ sp \in Nat /\ operands \in Nat
          BY Innermost, Running, Numbers
        <4>2. StackWithout(f) = sp - (Arity[f] + 1) /\ Arity[f] + 1 <= operands
          BY <1>1, <1>2, <1>4, Running
        <4> QED
          BY <4>1, <4>2, <1>2
      <3>2. \A i \in Slots : i <= bp => i # FrameSlot(f)
        <4>1. \A i \in Slots : i \in Nat
          BY Numbers
        <4>2. StackWithout(f) \in Nat /\ FrameSlot(f) \in Nat /\ StackWithout(f) <= FrameSlot(f)
          BY <1>4
        <4>3. bp \in Nat
          BY Running, Numbers
        <4> QED
          BY <3>1, <4>1, <4>2, <4>3
      <3> QED
        BY <3>1, <3>2, <1>1, Running DEF TypeOK
    <2>3. /\ Caller(Arity[f] + 1).base = bp /\ Caller(Arity[f] + 1).back = After(pc)
          /\ Caller(Arity[f] + 1).sp = StackWithout(f)
      BY <1>4 DEF Caller
    <2>4. pc'.body = f
      BY <1>1 DEF Entry
    <2>5. bp' < sp' - operands'
      BY <1>1, <1>4
    <2>6. NotBehindSpawn(After(pc))
      BY NotAtSpawn, Running DEF Call
    <2> QED
      BY <1>1, <1>2, <1>3, <1>4, <2>1, <2>2, <2>3, <2>4, <2>5, <2>6 DEF Enters
  <1>7. InEvent' /\ Count'
    <2>1. pc'.body \notin Events
      BY <1>1, <1>2 DEF Entry
    <2>2. Len(calls') = Len(calls) + 1 /\ calls' # << >>
      BY <1>1, Running, AppendedCalls
    <2>3. callstack \in Int /\ limit \in Int /\ Len(calls) \in Nat
      BY Running, CallFacts DEF TypeOK
    <2>4. Count
      BY DEF IInv
    <2>5. Count'
      BY <1>1, <2>2, <2>3, <2>4 DEF Count
    <2> QED
      BY <2>1, <2>5 DEF InEvent
  <1> QED
    BY <1>5, <1>6, <1>7, EntersKeepsIInv, Running

LEMMA CallFailsStep ==
  ASSUME IInv, CallFails
  PROVE  IInv' /\ Untouched
  <1>1. /\ pc.body \in Code /\ mode' = "thrown"
        /\ UNCHANGED <<actor, pc, values, sp, bp, callstack, limit, operands, handled, calls>>
    BY DEF CallFails, In
  <1>2. TypeOK'
    BY <1>1, Running DEF TypeOK
  <1>3. Stays
    BY <1>1, Running, Innermost DEF Stays
  <1> QED
    BY <1>1, <1>2, <1>3, StaysKeepsIInv, Running

LEMMA HaltStep ==
  ASSUME IInv, Halt
  PROVE  IInv' /\ Untouched
  <1>1. /\ pc.body = Top /\ mode = "run" /\ mode' = "halted"
        /\ UNCHANGED <<actor, pc, values, sp, bp, callstack, limit, operands, handled, calls>>
    BY DEF Halt, In
  <1>2. TypeOK'
    BY <1>1, Running DEF TypeOK
  <1>3. Stays
    BY <1>1, Running, Innermost DEF Stays
  <1>4. ~actor
    BY <1>1, Running DEF IInv, Count
  <1>5. pc.body \notin Events
    BY <1>1, CallStackAssumption
  <1> QED
    BY <1>1, <1>2, <1>3, <1>4, <1>5, StaysKeepsIInv

(* The frame of the running body, as pop_frame finds it.                   *)
LEMMA FrameFound ==
  ASSUME IInv, calls # << >>
  PROVE  /\ values[bp] \in Frames
         /\ values[bp].operands \in Nat
         /\ values[bp].operands <= CurrentCall.sp
         /\ values[bp].ons \in Nat
  <1>0. PICK n \in Nat : n = Len(calls)
    BY CallFacts DEF IInv
  <1>1. n > 0 /\ n \in 1 .. Len(calls) /\ Base(n) = bp /\ Frame(n) = values[bp]
    BY <1>0, CallFacts DEF IInv, Base, Frame
  <1>2. values[bp] \in Frames
    <2>1. values[bp] \in Values \cup Frames /\ values[bp].kind = "frame"
      BY Running, Innermost DEF TypeOK
    <2> QED
      BY <2>1 DEF Values
  <1>3. values[bp].operands <= CurrentCall.sp
    <2>1. CASE n = 1
      BY <2>1, <1>0, <1>1 DEF IInv, Bodies, CurrentCall
    <2>2. CASE n # 1
      <3>1. n - 1 \in 1 .. Len(calls) /\ n - 1 # n /\ (n - 1) + 1 = n
        BY <2>2, <1>0, <1>1
      <3>2. Base(n - 1) < Floor(n - 1) /\ Base(n - 1) \in Nat
        BY <3>1, CallFacts, Numbers DEF IInv, FramesOfCalls
      <3>3. Floor(n - 1) = CurrentCall.sp - values[bp].operands
        BY <3>1, <1>0, <1>1 DEF Floor, CurrentCall
      <3>4. CurrentCall.sp \in Nat /\ values[bp].operands \in Nat
        BY <1>2, Innermost, Running, Numbers DEF Frames
      <3> QED
        BY <3>2, <3>3, <3>4
    <2> QED
      BY <2>1, <2>2
  <1> QED
    BY <1>2, <1>3 DEF Frames

(* The calls of the caller are one less.                                   *)
LEMMA FewerCalls ==
  ASSUME TypeOK, calls # << >>, calls' = SubSeq(calls, 1, Len(calls) - 1)
  PROVE  /\ Len(calls) \in Nat \ {0}
         /\ Len(calls') = Len(calls) - 1
         /\ calls' = << >> <=> Len(calls) = 1
         /\ calls' \in Seq([back : Points, base : Slots, sp : 0 .. MaxSlots])
  <1> DEFINE C == [back : Points, base : Slots, sp : 0 .. MaxSlots]
  <1>1. calls \in Seq(C)
    BY DEF TypeOK
  <1> HIDE DEF C
  <1>2. Len(calls) \in Nat \ {0}
    BY <1>1
  <1>3. PICK n \in Nat \ {0} : n = Len(calls)
    BY <1>2
  <1>4. calls' \in Seq(C) /\ Len(calls') = n - 1
    BY <1>1, <1>3
  <1>5. calls' = << >> <=> Len(calls') = 0
    BY <1>4, EmptySeq
  <1> QED
    BY <1>2, <1>3, <1>4, <1>5 DEF C

LEMMA ReturnStep ==
  ASSUME IInv, Return
  PROVE  IInv' /\ Untouched
  <1> DEFINE frame == values[bp]
  <1>1. /\ pc.body \in Callable /\ mode = "run" /\ callstack' = callstack - 1
        /\ values' = [values EXCEPT ![frame.sp] = [kind |-> "value", owner |-> Len(calls) - 1]]
        /\ sp' = frame.sp + 1 /\ bp' = frame.base /\ pc' = frame.ip
        /\ operands' = frame.operands + 1
        /\ mode' = (IF HandlerIsOver THEN "idle" ELSE "run")
        /\ handled' = (IF HandlerIsOver THEN handled + 1 ELSE handled)
        /\ calls' = SubSeq(calls, 1, Len(calls) - 1)
        /\ UNCHANGED <<actor, limit>>
    BY DEF Return, In, BaseAfterReturn
  <1>2. calls # << >>
    BY <1>1, Running, CallStackAssumption
  <1>3. /\ frame \in Frames /\ frame.operands \in Nat /\ frame.operands <= CurrentCall.sp
        /\ frame.sp = CurrentCall.sp /\ frame.base = CurrentCall.base /\ frame.ip = CurrentCall.back
        /\ CurrentCall.sp \in 0 .. bp /\ CurrentCall.back \in Points /\ CurrentCall.base \in Slots
    BY <1>2, FrameFound, Innermost
  <1>4. /\ Len(calls) \in Nat \ {0}
        /\ Len(calls') = Len(calls) - 1
        /\ calls' = << >> <=> Len(calls) = 1
        /\ calls' \in Seq([back : Points, base : Slots, sp : 0 .. MaxSlots])
    BY <1>1, <1>2, FewerCalls, Running
  <1> HIDE DEF frame
  <1>5. /\ callstack \in Int /\ limit \in Int /\ handled \in 0 .. MaxMessages /\ actor \in BOOLEAN
        /\ values \in [Slots -> Values \cup Frames] /\ MaxMessages \in Nat
    BY Running, CallStackAssumption DEF TypeOK
  <1>6. HandlerIsOver <=> actor /\ Len(calls) = 1
    <2>1. actor => callstack = limit + Len(calls)
      BY <1>1 DEF IInv, Count
    <2>2. actor => (limit = callstack - 1 <=> Len(calls) = 1)
      BY <2>1, <1>4, <1>5
    <2> QED
      BY <2>2 DEF HandlerIsOver
  <1>7. Count'
    BY <1>1, <1>4, <1>5, <1>6 DEF Count, IInv
  <1>8. TypeOK'
    <2>1. frame.sp \in Slots /\ sp' \in 0 .. MaxSlots
      BY <1>1, <1>3, Running, Numbers DEF Slots
    <2>2. values' \in [Slots -> Values \cup Frames]
      <3>1. [kind |-> "value", owner |-> Len(calls) - 1] \in Values
        BY <1>4 DEF Values
      <3> QED
        BY <3>1, <1>1, <1>5
    <2>3. handled' \in 0 .. MaxMessages
      BY <1>1, <1>5, <1>6 DEF IInv, Count
    <2> QED
      BY <1>1, <1>3, <1>4, <1>5, <2>1, <2>2, <2>3 DEF TypeOK
  <1>9. Leaves
    <2>1. \A i \in Slots : i < CurrentCall.sp => values'[i] = values[i]
      BY <1>1, <1>3, <1>5, Numbers
    <2>2. operands' <= sp' /\ sp' - operands' = CurrentCall.sp - frame.operands
      BY <1>1, <1>3, Running, Numbers, SMTT(30)
    <2> QED
      BY <1>1, <1>2, <1>3, <2>1, <2>2 DEF Leaves, frame
  <1> QED
    BY <1>7, <1>8, <1>9, LeavesKeepsIInv

LEMMA SpawnStep ==
  ASSUME SpawnsAtTop, IInv, NEW e \in Events, Spawn(e)
  PROVE  IInv' /\ Untouched
  <1> DEFINE frame == [kind |-> "frame", ip |-> After(pc), sp |-> sp - 1, base |-> bp,
                       ons |-> Ons[e], operands |-> 0]
  <1>1. /\ pc \in SpawnSites /\ mode = "run" /\ operands = 1
        /\ values' = [values EXCEPT ![sp - 1] = frame]
        /\ bp' = sp - 1 /\ callstack' = callstack + 1 /\ pc' = Entry(e) /\ operands' = 0
        /\ calls' = Append(calls, Caller(1))
        /\ UNCHANGED <<actor, mode, sp, limit, handled>>
    BY DEF Spawn, In, AtSpawn
  <1>2. /\ pc.body = Top /\ calls = << >> /\ pc.point < MaxPoint
        /\ Top \in Code /\ e # Top /\ e \notin Callable /\ Ons[e] \in 0 .. MaxPoint
        /\ MaxPoint \in Nat
    BY <1>1, Running, CallStackAssumption DEF SpawnsAtTop, Code
  <1>3. After(pc) \in Points /\ After(pc).body = Top
    BY <1>2, AfterPoint
  <1>4. sp - 1 \in Slots /\ sp - 1 \in Nat
    BY <1>1, Running, Numbers DEF Slots
  <1>5. values \in [Slots -> Values \cup Frames]
    BY Running DEF TypeOK
  <1>6. values'[sp - 1] = frame
    BY <1>1, <1>4, <1>5
  <1>7. Len(calls') = 1 /\ calls' # << >>
    <2>1. Len(calls) = 0
      BY <1>2
    <2> QED
      BY <2>1, <1>1, AppendedCalls, Running
  <1>8. ~actor
    BY <1>1, <1>2 DEF IInv, Count
  <1>9. TypeOK'
    <2>1. frame \in Frames
      BY <1>2, <1>3, <1>4, Running, Numbers DEF Frames
    <2>2. Caller(1) \in [back : Points, base : Slots, sp : 0 .. MaxSlots]
      BY <1>3, <1>4, Running, Numbers DEF Caller
    <2>3. Entry(e) \in Points
      BY <1>2 DEF Entry, Points
    <2>4. values' \in [Slots -> Values \cup Frames]
      BY <1>1, <1>5, <2>1
    <2>5. calls' \in Seq([back : Points, base : Slots, sp : 0 .. MaxSlots])
      BY <1>1, <2>2, Running DEF TypeOK
    <2> QED
      BY <1>1, <1>4, <2>3, <2>4, <2>5, Running DEF TypeOK
  <1>10. Enters(Caller(1), frame)
    <2>1. /\ Caller(1).base = bp /\ Caller(1).back = After(pc) /\ Caller(1).sp = sp - 1
      BY DEF Caller
    <2>2. pc'.body = e /\ bp' < sp' - operands'
      BY <1>1, <1>4, Running, Numbers DEF Entry
    <2> QED
      BY <1>1, <1>2, <1>3, <1>4, <1>6, <2>1, <2>2 DEF Enters
  <1>11. InEvent'
    <2>1. pc'.body = e /\ pc'.point = 0
      BY <1>1 DEF Entry
    <2> QED
      BY <1>1, <1>4, <1>6, <1>7, <1>8, <2>1, Running, Numbers DEF InEvent
  <1>12. Count'
    BY <1>1, <1>8 DEF Count
  <1> QED
    BY <1>9, <1>10, <1>11, <1>12, EntersKeepsIInv

LEMMA EventOnStep ==
  ASSUME IInv, EventOn
  PROVE  IInv' /\ Untouched
  <1>1. /\ pc.body \in Events /\ pc.point < Ons[pc.body] /\ sp < MaxSlots
        /\ values' = [values EXCEPT ![sp] = [kind |-> "on", owner |-> Len(calls)]]
        /\ sp' = sp + 1 /\ operands' = operands + 1 /\ pc' = After(pc)
        /\ UNCHANGED <<actor, mode, bp, callstack, limit, handled, calls>>
    BY DEF EventOn, In
  <1>2. calls # << >>
    BY <1>1, Running, CallStackAssumption
  <1>3. /\ bp < sp - operands /\ CurrentCall.sp \in 0 .. bp /\ sp \in 0 .. MaxSlots
        /\ operands \in Nat /\ operands <= sp /\ bp \in Nat /\ MaxSlots \in Nat
    BY <1>2, Innermost, Running, Numbers
  <1>4. pc.point < MaxPoint /\ pc.point \in Nat
    BY <1>1, Running, CallStackAssumption
  <1>5. After(pc) \in Points /\ After(pc).body = pc.body /\ After(pc).point = pc.point + 1
    BY <1>4, AfterPoint, Running DEF After
  <1>6. values \in [Slots -> Values \cup Frames] /\ [kind |-> "on", owner |-> Len(calls)] \in Values
    BY Running, CallFacts DEF TypeOK, Values
  <1>7. TypeOK'
    <2>1. sp' \in 0 .. MaxSlots /\ operands' \in Nat
      BY <1>1, <1>3
    <2>2. values' \in [Slots -> Values \cup Frames]
      BY <1>1, <1>6
    <2> QED
      BY <1>1, <1>5, <2>1, <2>2, Running DEF TypeOK
  <1>8. \A i \in Slots : i < sp => values'[i] = values[i]
    BY <1>1, <1>3, <1>6, Numbers
  <1>9. bp < sp /\ CurrentCall.sp < sp /\ operands' <= sp' /\ sp' - operands' = sp - operands
    BY <1>1, <1>3
  <1>10. Stays
    BY <1>1, <1>2, <1>3, <1>5, <1>8, <1>9, Numbers DEF Stays
  <1>11. Calls' /\ Untouched
    BY <1>7, <1>10, StaysKeepsCalls DEF IInv, Calls, Untouched, Stays
  <1>12. InEvent'
    <2>1. InEvent /\ values'[bp] = values[bp]
      BY <1>8, <1>9, Running DEF IInv
    <2> QED
      BY <1>1, <1>3, <1>4, <1>5, <2>1 DEF InEvent
  <1>13. Count'
    BY <1>1 DEF Count, IInv
  <1> QED
    BY <1>7, <1>11, <1>12, <1>13 DEF IInv, Calls

LEMMA ReturnEventStep ==
  ASSUME IInv, ReturnEvent
  PROVE  /\ IInv' /\ Untouched
         /\ values'[sp' - 1].kind = "actor"
  <1> DEFINE frame == values[bp]
             at    == sp - frame.ons
  <1>1. /\ pc.body \in Events /\ mode = "run" /\ pc.point = Ons[pc.body] /\ at \in Slots
        /\ callstack' = callstack - 1
        /\ values' = [values EXCEPT ![at] = NewActor]
        /\ sp' = at + 1 /\ pc' = frame.ip /\ operands' = frame.operands + 1
        /\ calls' = SubSeq(calls, 1, Len(calls) - 1)
        /\ UNCHANGED <<actor, mode, bp, limit, handled>>
    BY DEF ReturnEvent, In
  <1>2. /\ ~actor /\ Len(calls) = 1 /\ frame.ons = Ons[pc.body] /\ frame.operands = 0
        /\ operands = pc.point /\ sp = bp + 1 + operands
    BY <1>1 DEF IInv, InEvent
  <1>3. calls # << >>
    BY <1>1, Running, CallStackAssumption
  <1>4. at = bp + 1
    BY <1>1, <1>2, Running, Numbers
  <1>5. /\ frame.ip = CurrentCall.back /\ CurrentCall.sp \in 0 .. bp /\ CurrentCall.back \in Points
        /\ bp \in Nat /\ at < MaxSlots /\ MaxSlots \in Nat
    BY <1>1, <1>3, Innermost, Running, Numbers
  <1>6. values \in [Slots -> Values \cup Frames] /\ NewActor \in Values /\ NewActor.kind = "actor"
    BY <1>2, Running DEF TypeOK, Values, NewActor
  <1>7. /\ calls' \in Seq([back : Points, base : Slots, sp : 0 .. MaxSlots])
        /\ calls' = << >>
    BY <1>1, <1>2, <1>3, FewerCalls, Running
  <1> HIDE DEF frame, at
  <1>8. TypeOK'
    <2>1. sp' \in 0 .. MaxSlots /\ operands' \in Nat
      BY <1>1, <1>2, <1>4, <1>5
    <2>2. values' \in [Slots -> Values \cup Frames]
      BY <1>1, <1>6
    <2>3. callstack' \in Int
      BY <1>1, Running DEF TypeOK
    <2> QED
      BY <1>1, <1>5, <1>7, <2>1, <2>2, <2>3, Running DEF TypeOK
  <1>9. Leaves
    <2>1. \A i \in Slots : i < CurrentCall.sp => values'[i] = values[i]
      BY <1>1, <1>4, <1>5, <1>6, Numbers
    <2>2. operands' <= sp'
      BY <1>1, <1>2, <1>4, <1>5
    <2> QED
      BY <1>1, <1>2, <1>3, <1>5, <2>1, <2>2 DEF Leaves
  <1>10. Count'
    BY <1>1, <1>2 DEF Count
  <1>11. values'[sp' - 1].kind = "actor"
    <2>1. sp' - 1 = at
      BY <1>1, <1>4, <1>5
    <2> QED
      BY <2>1, <1>1, <1>6
  <1> QED
    BY <1>8, <1>9, <1>10, <1>11, LeavesKeepsIInv

LEMMA StartHandlerStep ==
  ASSUME IInv, NEW h \in Handlers, StartHandler(h)
  PROVE  IInv' /\ Untouched
  <1> DEFINE frame == [kind |-> "frame", ip |-> Entry(Top), sp |-> sp, base |-> bp, ons |-> 0,
                       operands |-> 0]
             call  == [back |-> Entry(Top), base |-> bp, sp |-> sp]
  <1>1. /\ mode = "idle" /\ handled < MaxMessages /\ sp + LocalSpace[h] + 2 <= MaxSlots
        /\ bp' = sp + LocalSpace[h] /\ sp' = sp + LocalSpace[h] + 2
        /\ limit' = callstack - 1 /\ mode' = "run" /\ pc' = Entry(h) /\ operands' = 0
        /\ calls' = Append(calls, call)
        /\ UNCHANGED <<actor, callstack, handled>>
    BY DEF StartHandler, LimitOfHandler
  <1>2. values' = [i \in Slots |->
                     IF i \in sp .. (sp + LocalSpace[h] - 1)
                     THEN [kind |-> "value", owner |-> 1]
                     ELSE IF i = sp + LocalSpace[h] THEN frame ELSE values[i]]
    BY DEF StartHandler
  <1>3. actor /\ calls = << >> /\ pc.body = Top
    BY <1>1, Running DEF IInv, Count
  <1>4. /\ h \in Callable /\ h # Top /\ h \notin Events /\ LocalSpace[h] \in Nat
        /\ Top \in Code /\ h \in Code
    BY CallStackAssumption DEF Callable, Code
  <1>5. /\ sp \in Nat /\ bp \in Slots /\ bp \in Nat /\ MaxSlots \in Nat /\ sp \in 0 .. MaxSlots
        /\ MaxPoint \in Nat
    BY Running, Numbers, CallStackAssumption
  <1>6. Entry(Top) \in Points /\ Entry(Top).body = Top /\ Entry(h) \in Points /\ Entry(h).body = h
    BY <1>4, <1>5 DEF Entry, Points
  <1>7. bp' \in Slots /\ sp' \in 0 .. MaxSlots /\ sp \in 0 .. bp'
    BY <1>1, <1>4, <1>5, SMTT(30) DEF Slots
  <1>8. values'[bp'] = frame
    BY <1>1, <1>2, <1>4, <1>5, <1>7, SMTT(30)
  <1>9. TypeOK'
    <2>1. frame \in Frames /\ [kind |-> "value", owner |-> 1] \in Values
      BY <1>5, <1>6, Numbers DEF Frames, Values
    <2>2. call \in [back : Points, base : Slots, sp : 0 .. MaxSlots]
      BY <1>5, <1>6
    <2>3. values' \in [Slots -> Values \cup Frames]
      BY <1>2, <2>1, Running DEF TypeOK
    <2>4. calls' \in Seq([back : Points, base : Slots, sp : 0 .. MaxSlots])
      BY <1>1, <2>2, Running DEF TypeOK
    <2>5. limit' \in Int
      BY <1>1, Running DEF TypeOK
    <2> QED
      BY <1>1, <1>6, <1>7, <2>3, <2>4, <2>5, Running DEF TypeOK
  <1>10. Enters(call, frame)
    <2>1. NotBehindSpawn(Entry(Top))
      <3> SUFFICES ASSUME NEW site \in SpawnSites, Entry(Top) = After(site)
                   PROVE  FALSE
        BY DEF NotBehindSpawn
      <3>1. site \in Points
        BY CallStackAssumption
      <3>2. After(site).point = site.point + 1 /\ site.point \in Nat
        BY <3>1, <1>5 DEF After, Points
      <3> QED
        BY <3>2 DEF Entry
    <2>2. pc'.body = h /\ bp' < sp' - operands'
      BY <1>1, <1>4, <1>5, <1>6
    <2> QED
      BY <1>1, <1>3, <1>4, <1>5, <1>6, <1>7, <1>8, <2>1, <2>2 DEF Enters
  <1>11. InEvent'
    BY <1>1, <1>4, <1>6 DEF InEvent
  <1>12. Count'
    <2>1. Len(calls) = 0
      BY <1>3
    <2>2. Len(calls') = 1 /\ calls' # << >>
      BY <1>1, <2>1, AppendedCalls, Running
    <2>3. callstack \in Int
      BY Running DEF TypeOK
    <2> QED
      BY <1>1, <1>3, <2>2, <2>3 DEF Count
  <1> QED
    BY <1>9, <1>10, <1>11, <1>12, EntersKeepsIInv
-----------------------------------------------------------------------------
LEMMA StepKeepsIInv ==
  ASSUME SpawnsAtTop, IInv, [Next]_vars
  PROVE  IInv' /\ Untouched
  <1>1. ASSUME NEW n \in 0 .. MaxOperands, NEW m \in 0 .. 1, NEW p \in 0 .. MaxPoint, Operate(n, m, p)
        PROVE  IInv' /\ Untouched
    BY <1>1, OperateStep
  <1>2. ASSUME NEW i \in Slots, NEW p \in 0 .. MaxPoint, StoreLocal(i, p)
        PROVE  IInv' /\ Untouched
    BY <1>2, StoreLocalStep
  <1>3. ASSUME NEW n \in 1 .. MaxOperands, NEW i \in Slots, NEW p \in 0 .. MaxPoint, Send(n, i, p)
        PROVE  IInv' /\ Untouched
    BY <1>3, SendStep
  <1>4. ASSUME NEW f \in Functions, Call(f)
        PROVE  IInv' /\ Untouched
    BY <1>4, CallStep
  <1>5. ASSUME NEW e \in Events, Spawn(e)
        PROVE  IInv' /\ Untouched
    BY <1>5, SpawnStep
  <1>6. ASSUME NEW h \in Handlers, StartHandler(h)
        PROVE  IInv' /\ Untouched
    BY <1>6, StartHandlerStep
  <1>7. CASE UNCHANGED vars
    <2>1. IInv'
      BY <1>7, ZenonT(60) DEF IInv, TypeOK, FramesOfCalls, CallsInOrder, LocalsBelowFrame, BacksOfCalls, Bodies,
                  InEvent, Count, Base, Frame, Floor, Body, vars
    <2> QED
      BY <2>1, <1>7 DEF Untouched, vars
  <1> QED
    BY <1>1, <1>2, <1>3, <1>4, <1>5, <1>6, <1>7, CallFailsStep, ReturnStep, EventOnStep,
       ReturnEventStep, HaltStep DEF Next

LEMMA Invariance ==
  ASSUME SpawnsAtTop
  PROVE  Spec => []IInv
  <1>1. IInv /\ [Next]_vars => IInv'
    BY StepKeepsIInv
  <1> QED
    BY <1>1, InitIInv, PTL DEF Spec

(* When events are spawned at the top level, no pop or return (stack_pop    *)
(* and pop_frame, value.c and module.c) takes stack_pointer below the end  *)
(* of the stack or base_pointer out of it, and what a frame restores is    *)
(* what a frame may hold.                                                  *)
THEOREM TypeCorrect ==
  ASSUME SpawnsAtTop
  PROVE  Spec => []TypeOK
  <1>1. IInv => TypeOK
    BY DEF IInv
  <1> QED
    BY <1>1, Invariance, PTL

(* pop_frame (module.c) finds at base_pointer the frame of the call that   *)
(* is running, with what op_call, case_spawn or call_threaded put into it, *)
(* whatever the body did and however deep the calls are.                   *)
THEOREM FramesAreFound ==
  ASSUME SpawnsAtTop
  PROVE  Spec => []FrameAtBase
  <1>1. IInv => FrameAtBase
    <2> SUFFICES ASSUME IInv PROVE FrameAtBase
      OBVIOUS
    <2>1. calls # << >> => bp < sp
      BY Innermost, Running, Numbers
    <2> QED
      BY <2>1, Innermost, Running DEF FrameAtBase
  <1> QED
    BY <1>1, Invariance, PTL

(* run_interpreter leaves the loop of a handler (interpreter.c, does_return *)
(* && callstack == module->callstack) when that handler returns and at no   *)
(* return of a function it called, for every depth of calls.               *)
THEOREM HandlersRunToTheirEnds ==
  ASSUME SpawnsAtTop
  PROVE  Spec => []HandlerRunsToItsEnd
  <1>1. IInv => HandlerRunsToItsEnd
    BY DEF IInv, Count, HandlerRunsToItsEnd, TypeOK
  <1> QED
    BY <1>1, Invariance, PTL

(* No instruction of a body writes into the slots below its arguments:      *)
(* neither stack_push (value.c) nor the addresses that case_store_local    *)
(* and op_call compute from base_pointer and stack_pointer.                *)
THEOREM CallersKeepTheirSlots ==
  ASSUME SpawnsAtTop
  PROVE  Spec => CallersUntouched
  <1>1. IInv /\ [Next]_vars => [Untouched]_vars
    BY StepKeepsIInv
  <1> QED
    BY <1>1, Invariance, PTL DEF Spec, CallersUntouched, Untouched

(* Which steps end a call.                                                 *)
LEMMA EndsACall ==
  ASSUME IInv, [Next]_vars, Len(calls') < Len(calls)
  PROVE  Return \/ ReturnEvent
  <1>1. Len(calls) \in Nat
    BY CallFacts, Running
  <1>2. calls' # calls
    BY <1>1
  <1>3. \A call : calls' # Append(calls, call)
    <2> SUFFICES ASSUME NEW call, calls' = Append(calls, call) PROVE FALSE
      OBVIOUS
    <2> QED
      BY <1>1, AppendedCalls, Running
  <1> QED
    BY <1>2, <1>3 DEF Next, vars, Operate, StoreLocal, Send, Call, CallFails, Spawn, EventOn,
                      StartHandler, Halt

(* Return restores base_pointer, stack_pointer and the instruction pointer *)
(* of the caller (case_return, interpreter.c), whatever was called in      *)
(* between.                                                                *)
THEOREM CallersAreRestored ==
  ASSUME SpawnsAtTop
  PROVE  Spec => ReturnRestoresCaller
  <1> DEFINE Restored == In(Callable) /\ Len(calls') < Len(calls) =>
                           /\ pc' = CurrentCall.back
                           /\ bp' = CurrentCall.base
                           /\ sp' = CurrentCall.sp + 1
  <1>1. ASSUME IInv, [Next]_vars, In(Callable), Len(calls') < Len(calls)
        PROVE  /\ pc' = CurrentCall.back
               /\ bp' = CurrentCall.base
               /\ sp' = CurrentCall.sp + 1
    <2>1. calls # << >>
      BY <1>1, Running, CallStackAssumption DEF In
    <2>2. Return
      BY <1>1, EndsACall, CallStackAssumption DEF ReturnEvent, In
    <2> QED
      BY <1>1, <2>1, <2>2, Innermost DEF Return, BaseAfterReturn
  <1>2. IInv /\ [Next]_vars => [Restored]_vars
    BY <1>1
  <1> QED
    BY <1>2, Invariance, PTL DEF Spec, ReturnRestoresCaller

(* What the code behind a spawn finds on the stack is the new actor        *)
(* (case_return_event, interpreter.c), when the spawn is at the top level; *)
(* the run spawn_in_function shows what it finds elsewhere.                *)
THEOREM SpawnsAtTopYieldActors ==
  ASSUME SpawnsAtTop
  PROVE  Spec => SpawnYieldsActor
  <1> DEFINE Yields == Len(calls') < Len(calls) /\ (\E site \in SpawnSites : pc' = After(site)) =>
                         values'[sp' - 1].kind = "actor"
  <1>1. ASSUME IInv, [Next]_vars, Len(calls') < Len(calls), NEW site \in SpawnSites, pc' = After(site)
        PROVE  values'[sp' - 1].kind = "actor"
    <2>1. CASE Return
      <3>1. pc.body \in Callable /\ pc' = values[bp].ip
        BY <2>1 DEF Return, In
      <3>2. calls # << >>
        BY <1>1, <3>1, Running, CallStackAssumption
      <3>3. Len(calls) \in 1 .. Len(calls) /\ Body(Len(calls)) = pc.body
        BY <3>2, CallFacts, Running, <1>1 DEF Body
      <3>4. NotBehindSpawn(CurrentCall.back)
        BY <1>1, <3>1, <3>3 DEF IInv, BacksOfCalls, CurrentCall
      <3> QED
        BY <1>1, <3>1, <3>2, <3>4, Innermost DEF NotBehindSpawn
    <2>2. CASE ReturnEvent
      BY <1>1, <2>2, ReturnEventStep
    <2> QED
      BY <1>1, <2>1, <2>2, EndsACall
  <1>2. IInv /\ [Next]_vars => [Yields]_vars
    BY <1>1
  <1> QED
    BY <1>2, Invariance, PTL DEF Spec, SpawnYieldsActor
=============================================================================
