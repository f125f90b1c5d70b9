------------------------- MODULE MessageQueue_proofs -------------------------
(***************************************************************************)
(* Proofs about the message queue of an actor for any number of senders,   *)
(* messages and memory cells: what the runs of MC_MessageQueue check on a  *)
(* small instance holds in every one.                                      *)
(***************************************************************************)
EXTENDS MessageQueue, SequenceTheorems, TLAPS

LEMMA AppendFacts ==
  ASSUME NEW S, NEW q \in Seq(S), NEW e \in S
  PROVE  /\ Append(q, e) \in Seq(S)
         /\ Append(q, e) # << >>
         /\ Len(Append(q, e)) = Len(q) + 1
         /\ \A i \in 1 .. Len(q) : Append(q, e)[i] = q[i]
         /\ Append(q, e)[Len(q) + 1] = e
  OBVIOUS

LEMMA TailFacts ==
  ASSUME NEW S, NEW q \in Seq(S), q # << >>
  PROVE  /\ Tail(q) \in Seq(S)
         /\ Len(q) \in Nat \ {0}
         /\ Len(Tail(q)) = Len(q) - 1
         /\ \A i \in 1 .. Len(q) - 1 : Tail(q)[i] = q[i + 1]
         /\ Head(q) = q[1]
         /\ q[1] \in S
  OBVIOUS

-----------------------------------------------------------------------------
(***************************************************************************)
(* The inductive invariant.                                                *)
(***************************************************************************)

(* Only the receiver, inside pthread_cond_wait, is ever asleep.            *)
AsleepInWait == waitSet # {} => pc[Receiver] = "wait"

(* What a sender knows of its message: complete and not linked yet, or the *)
(* last one of the queue.                                                  *)
SenderKnows ==
  \A s \in Senders :
    /\ pc[s] \in {"lock", "link"} =>
         /\ next[own[s]] = NULL
         /\ content[own[s]] = [from |-> s, seq |-> sent[s] + 1]
         /\ sent[s] < MaxSends
    /\ pc[s] = "setTail" => queued # << >> /\ own[s] = Last(queued)

QueuedAreMessages == \A i \in 1 .. Len(queued) : content[queued[i]] \in Message

IInv ==
  /\ TypeOK
  /\ MutualExclusion
  /\ AsleepInWait
  /\ NoNullDereference
  /\ ListShape
  /\ Ownership
  /\ SenderKnows
  /\ QueuedAreMessages
  /\ TailIsLast
  /\ NoLostWakeup

-----------------------------------------------------------------------------
LEMMA InitIInv == Init => IInv
  <1> SUFFICES ASSUME Init PROVE IInv
    OBVIOUS
  <1> USE QueueAssumption DEF Init, Threads
  <1>1. TypeOK
    BY DEF TypeOK, SenderPc, ReceiverPc
  <1>2. MutualExclusion
    BY DEF MutualExclusion, Critical
  <1>3. AsleepInWait /\ NoNullDereference /\ ListShape /\ SenderKnows
        /\ QueuedAreMessages /\ TailIsLast /\ NoLostWakeup
    BY DEF AsleepInWait, NoNullDereference, ListShape, SenderKnows,
           QueuedAreMessages, TailIsLast, NoLostWakeup
  <1>4. Ownership
    <2>1. \A t \in Threads : ~Private(t)
      BY DEF Private
    <2> QED
      BY <2>1 DEF Ownership
  <1> QED
    BY <1>1, <1>2, <1>3, <1>4 DEF IInv

(* The type invariant, together with what it needs of the others.          *)
LEMMA TypeStep == ASSUME IInv, [Next]_vars PROVE TypeOK'
  <1> USE QueueAssumption DEF Threads, GoTo, Acquire, Release
  <1>0. TypeOK /\ Ownership /\ SenderKnows /\ ListShape /\ QueuedAreMessages
        /\ NoNullDereference
    BY DEF IInv
  <1>1. ASSUME NEW s \in Senders, SendMessage(s) PROVE TypeOK'
    BY <1>0, <1>1 DEF SendMessage, TypeOK, Written, Message, SenderPc, ReceiverPc
  <1>2. ASSUME NEW s \in Senders, EnqueueLock(s) PROVE TypeOK'
    BY <1>0, <1>2 DEF EnqueueLock, TypeOK, SenderPc, ReceiverPc
  <1>3. ASSUME NEW s \in Senders, EnqueueLink(s) PROVE TypeOK'
    <2>1. own[s] \in Cells /\ sent[s] < MaxSends
      BY <1>0, <1>3 DEF EnqueueLink, Ownership, Private, TypeOK, SenderKnows
    <2>2. sent' \in [Senders -> 0 .. MaxSends]
      BY <1>0, <1>3, <2>1 DEF EnqueueLink, TypeOK
    <2>3. queued' \in Seq(Cells)
      BY <1>0, <1>3, <2>1, AppendFacts DEF EnqueueLink, TypeOK
    <2> QED
      BY <1>0, <1>3, <2>1, <2>2, <2>3
      DEF EnqueueLink, LinkBehind, TypeOK, SenderPc, ReceiverPc
  <1>4. ASSUME NEW s \in Senders, EnqueueSetTail(s) PROVE TypeOK'
    BY <1>0, <1>4 DEF EnqueueSetTail, TailAfterLink, TypeOK, SenderPc, ReceiverPc
  <1>5. ASSUME NEW s \in Senders, EnqueueSignal(s) PROVE TypeOK'
    BY <1>0, <1>5 DEF EnqueueSignal, Signal, TypeOK, SenderPc, ReceiverPc
  <1>6. ASSUME NEW s \in Senders, EnqueueUnlock(s) PROVE TypeOK'
    BY <1>0, <1>6 DEF EnqueueUnlock, TypeOK, SenderPc, ReceiverPc
  <1>7. CASE DequeueLock
    BY <1>0, <1>7 DEF DequeueLock, TypeOK, SenderPc, ReceiverPc
  <1>8. CASE DequeueWait
    BY <1>0, <1>8 DEF DequeueWait, TypeOK, SenderPc, ReceiverPc
  <1>9. CASE DequeueFound
    BY <1>0, <1>9 DEF DequeueFound, TypeOK, SenderPc, ReceiverPc
  <1>10. CASE DequeueResume
    BY <1>0, <1>10 DEF DequeueResume, AfterWait, TypeOK, SenderPc, ReceiverPc
  <1>11. CASE DequeueTake
    <2>1. head \in Cells /\ queued # << >> /\ head = queued[1]
      BY <1>0, <1>11 DEF DequeueTake, NoNullDereference, ListShape, TypeOK
    <2>2. content[head] \in Message /\ queued' \in Seq(Cells)
      BY <1>0, <1>11, <2>1, TailFacts DEF DequeueTake, QueuedAreMessages, TypeOK
    <2>3. delivered' \in Seq(Message)
      BY <1>0, <1>11, <2>2, AppendFacts DEF DequeueTake, TypeOK
    <2> QED
      BY <1>0, <1>11, <2>1, <2>2, <2>3 DEF DequeueTake, TypeOK, SenderPc, ReceiverPc
  <1>12. CASE DequeueReset
    BY <1>0, <1>12 DEF DequeueReset, TailAfterTake, TypeOK, SenderPc, ReceiverPc
  <1>13. CASE DequeueUnlock
    BY <1>0, <1>13 DEF DequeueUnlock, TypeOK, SenderPc, ReceiverPc
  <1>14. CASE FreeMessage
    BY <1>0, <1>14 DEF FreeMessage, TypeOK, SenderPc, ReceiverPc
  <1>15. CASE SpuriousWakeup
    BY <1>0, <1>15 DEF SpuriousWakeup, TypeOK
  <1>16. CASE UNCHANGED vars
    BY <1>0, <1>16 DEF vars, TypeOK
  <1> QED
    BY <1>1, <1>2, <1>3, <1>4, <1>5, <1>6, <1>7, <1>8, <1>9, <1>10, <1>11,
       <1>12, <1>13, <1>14, <1>15, <1>16 DEF Next, SenderStep, ReceiverStep

(***************************************************************************)
(* What the two statements that change the list start from and end with.   *)
(***************************************************************************)
LEMMA LinkFacts ==
  ASSUME IInv, NEW s \in Senders, EnqueueLink(s)
  PROVE  /\ own[s] \in Cells /\ own[s] \in allocated
         /\ \A i \in 1 .. Len(queued) : queued[i] # own[s]
         /\ next[own[s]] = NULL
         /\ mutex = s
         /\ \A t \in Threads : t # s => ~Critical(t)
         /\ pc[Receiver] # "reset" /\ \A t \in Senders : pc[t] # "setTail"
         /\ queued = << >> => tail = NULL
         /\ queued # << >> => tail = queued[Len(queued)]
         /\ LinkBehind <=> queued # << >>
         /\ Len(queued) \in Nat /\ (queued = << >> <=> Len(queued) = 0)
         /\ queued' \in Seq(Cells) /\ queued' # << >>
         /\ Len(queued') = Len(queued) + 1
         /\ \A i \in 1 .. Len(queued) : queued'[i] = queued[i]
         /\ queued'[Len(queued) + 1] = own[s]
  <1> USE QueueAssumption DEF Threads
  <1>1. pc[s] = "link" /\ queued' = Append(queued, own[s]) /\ s # Receiver
    BY DEF EnqueueLink
  <1>2. TypeOK /\ MutualExclusion /\ Ownership /\ SenderKnows /\ TailIsLast
    BY DEF IInv
  <1>3. /\ own[s] \in Cells /\ own[s] \in allocated
        /\ \A i \in 1 .. Len(queued) : queued[i] # own[s]
    BY <1>1, <1>2 DEF Ownership, Private, TypeOK
  <1>4. next[own[s]] = NULL
    BY <1>1, <1>2 DEF SenderKnows
  <1>5. mutex = s /\ \A t \in Threads : t # s => ~Critical(t)
    BY <1>1, <1>2 DEF MutualExclusion, Critical
  <1>6. pc[Receiver] # "reset" /\ \A t \in Senders : pc[t] # "setTail"
    BY <1>1, <1>5 DEF Critical
  <1>7. Len(queued) \in Nat /\ (queued = << >> <=> Len(queued) = 0)
    BY <1>2 DEF TypeOK
  <1>8. (queued = << >> => tail = NULL) /\ (queued # << >> => tail = queued[Len(queued)])
    BY <1>2, <1>6 DEF TailIsLast, Last
  <1>9. queued # << >> => tail \in Cells
    BY <1>2, <1>7, <1>8 DEF TypeOK
  <1>10. LinkBehind <=> queued # << >>
    BY <1>8, <1>9 DEF LinkBehind
  <1> QED
    BY <1>1, <1>2, <1>3, <1>4, <1>5, <1>6, <1>7, <1>8, <1>10, AppendFacts DEF TypeOK

LEMMA TakeFacts ==
  ASSUME IInv, DequeueTake
  PROVE  /\ queued # << >> /\ head = queued[1] /\ head \in Cells
         /\ \A s \in Senders : ~Critical(s)
         /\ tail = queued[Len(queued)]
         /\ next[head] = IF Len(queued) = 1 THEN NULL ELSE queued[2]
         /\ Len(queued) \in Nat \ {0}
         /\ queued' \in Seq(Cells)
         /\ Len(queued') = Len(queued) - 1
         /\ (queued' = << >> <=> Len(queued) = 1)
         /\ \A i \in 1 .. Len(queued) - 1 : queued'[i] = queued[i + 1]
  <1> USE QueueAssumption DEF Threads
  <1>1. pc[Receiver] = "take" /\ queued' = Tail(queued)
    BY DEF DequeueTake
  <1>2. TypeOK /\ MutualExclusion /\ NoNullDereference /\ ListShape /\ TailIsLast
    BY DEF IInv
  <1>3. queued # << >> /\ head = queued[1] /\ head \in Cells
    BY <1>1, <1>2 DEF NoNullDereference, ListShape, TypeOK
  <1>4. \A s \in Senders : ~Critical(s)
    BY <1>1, <1>2 DEF MutualExclusion, Critical
  <1>5. \A s \in Senders : pc[s] # "setTail"
    BY <1>4 DEF Critical
  <1>6. tail = queued[Len(queued)]
    BY <1>2, <1>3, <1>5 DEF TailIsLast, Last
  <1>7. Len(queued) \in Nat \ {0}
    BY <1>2, <1>3 DEF TypeOK
  <1>8. next[head] = IF Len(queued) = 1 THEN NULL ELSE queued[2]
    <2>1. 1 \in 1 .. Len(queued) /\ 1 + 1 = 2
      BY <1>7
    <2> QED
      BY <1>2, <1>3, <2>1 DEF ListShape
  <1>9. /\ queued' \in Seq(Cells)
        /\ Len(queued') = Len(queued) - 1
        /\ \A i \in 1 .. Len(queued) - 1 : queued'[i] = queued[i + 1]
    BY <1>1, <1>2, <1>3, TailFacts DEF TypeOK
  <1>10. queued' = << >> <=> Len(queued') = 0
    BY <1>9
  <1> QED
    BY <1>3, <1>4, <1>6, <1>7, <1>8, <1>9, <1>10

(* Only the owner of the mutex enters or leaves a critical section.        *)
LEMMA MutexStep == ASSUME IInv, [Next]_vars PROVE MutualExclusion'
  <1> USE QueueAssumption DEF Threads, GoTo, Acquire, Release
  <1>0. TypeOK /\ MutualExclusion
    BY TypeStep DEF IInv
  <1>1. ASSUME NEW s \in Senders, SendMessage(s) PROVE MutualExclusion'
    BY <1>0, <1>1 DEF SendMessage, MutualExclusion, Critical, TypeOK
  <1>2. ASSUME NEW s \in Senders, EnqueueLock(s) PROVE MutualExclusion'
    BY <1>0, <1>2 DEF EnqueueLock, MutualExclusion, Critical, TypeOK
  <1>3. ASSUME NEW s \in Senders, EnqueueLink(s) PROVE MutualExclusion'
    BY <1>0, <1>3 DEF EnqueueLink, LinkBehind, MutualExclusion, Critical, TypeOK
  <1>4. ASSUME NEW s \in Senders, EnqueueSetTail(s) PROVE MutualExclusion'
    BY <1>0, <1>4
    DEF EnqueueSetTail, TailAfterLink, MutualExclusion, Critical, TypeOK
  <1>5. ASSUME NEW s \in Senders, EnqueueSignal(s) PROVE MutualExclusion'
    BY <1>0, <1>5 DEF EnqueueSignal, Signal, MutualExclusion, Critical, TypeOK
  <1>6. ASSUME NEW s \in Senders, EnqueueUnlock(s) PROVE MutualExclusion'
    BY <1>0, <1>6 DEF EnqueueUnlock, MutualExclusion, Critical, TypeOK
  <1>7. CASE DequeueLock
    BY <1>0, <1>7 DEF DequeueLock, MutualExclusion, Critical, TypeOK
  <1>8. CASE DequeueWait
    BY <1>0, <1>8 DEF DequeueWait, MutualExclusion, Critical, TypeOK
  <1>9. CASE DequeueFound
    BY <1>0, <1>9 DEF DequeueFound, MutualExclusion, Critical, TypeOK
  <1>10. CASE DequeueResume
    BY <1>0, <1>10 DEF DequeueResume, AfterWait, MutualExclusion, Critical, TypeOK
  <1>11. CASE DequeueTake
    BY <1>0, <1>11 DEF DequeueTake, MutualExclusion, Critical, TypeOK
  <1>12. CASE DequeueReset
    BY <1>0, <1>12
    DEF DequeueReset, TailAfterTake, MutualExclusion, Critical, TypeOK
  <1>13. CASE DequeueUnlock
    BY <1>0, <1>13 DEF DequeueUnlock, MutualExclusion, Critical, TypeOK
  <1>14. CASE FreeMessage
    BY <1>0, <1>14 DEF FreeMessage, MutualExclusion, Critical, TypeOK
  <1>15. CASE SpuriousWakeup
    BY <1>0, <1>15 DEF SpuriousWakeup, MutualExclusion, Critical, TypeOK
  <1>16. CASE UNCHANGED vars
    BY <1>0, <1>16 DEF vars, MutualExclusion, Critical, TypeOK
  <1> QED
    BY <1>1, <1>2, <1>3, <1>4, <1>5, <1>6, <1>7, <1>8, <1>9, <1>10, <1>11,
       <1>12, <1>13, <1>14, <1>15, <1>16 DEF Next, SenderStep, ReceiverStep

(* The receiver leaves the wait set before it leaves pthread_cond_wait.    *)
LEMMA AsleepStep == ASSUME IInv, [Next]_vars PROVE AsleepInWait'
  <1> USE QueueAssumption DEF Threads, GoTo, Acquire, Release
  <1>0. TypeOK /\ AsleepInWait
    BY TypeStep DEF IInv
  <1>1. ASSUME NEW s \in Senders, SendMessage(s) PROVE AsleepInWait'
    BY <1>0, <1>1 DEF SendMessage, AsleepInWait, TypeOK
  <1>2. ASSUME NEW s \in Senders, EnqueueLock(s) PROVE AsleepInWait'
    BY <1>0, <1>2 DEF EnqueueLock, AsleepInWait, TypeOK
  <1>3. ASSUME NEW s \in Senders, EnqueueLink(s) PROVE AsleepInWait'
    BY <1>0, <1>3 DEF EnqueueLink, LinkBehind, AsleepInWait, TypeOK
  <1>4. ASSUME NEW s \in Senders, EnqueueSetTail(s) PROVE AsleepInWait'
    BY <1>0, <1>4 DEF EnqueueSetTail, TailAfterLink, AsleepInWait, TypeOK
  <1>5. ASSUME NEW s \in Senders, EnqueueSignal(s) PROVE AsleepInWait'
    BY <1>0, <1>5 DEF EnqueueSignal, Signal, AsleepInWait, TypeOK
  <1>6. ASSUME NEW s \in Senders, EnqueueUnlock(s) PROVE AsleepInWait'
    BY <1>0, <1>6 DEF EnqueueUnlock, AsleepInWait, TypeOK
  <1>7. CASE DequeueLock
    BY <1>0, <1>7 DEF DequeueLock, AsleepInWait, TypeOK
  <1>8. CASE DequeueWait
    BY <1>0, <1>8 DEF DequeueWait, AsleepInWait, TypeOK
  <1>9. CASE DequeueFound
    BY <1>0, <1>9 DEF DequeueFound, AsleepInWait, TypeOK
  <1>10. CASE DequeueResume
    BY <1>0, <1>10 DEF DequeueResume, AfterWait, AsleepInWait, TypeOK
  <1>11. CASE DequeueTake
    BY <1>0, <1>11 DEF DequeueTake, AsleepInWait, TypeOK
  <1>12. CASE DequeueReset
    BY <1>0, <1>12 DEF DequeueReset, TailAfterTake, AsleepInWait, TypeOK
  <1>13. CASE DequeueUnlock
    BY <1>0, <1>13 DEF DequeueUnlock, AsleepInWait, TypeOK
  <1>14. CASE FreeMessage
    BY <1>0, <1>14 DEF FreeMessage, AsleepInWait, TypeOK
  <1>15. CASE SpuriousWakeup
    BY <1>0, <1>15 DEF SpuriousWakeup, AsleepInWait, TypeOK
  <1>16. CASE UNCHANGED vars
    BY <1>0, <1>16 DEF vars, AsleepInWait, TypeOK
  <1> QED
    BY <1>1, <1>2, <1>3, <1>4, <1>5, <1>6, <1>7, <1>8, <1>9, <1>10, <1>11,
       <1>12, <1>13, <1>14, <1>15, <1>16 DEF Next, SenderStep, ReceiverStep

(* Between its test and its use the receiver keeps the mutex: head stays.  *)
LEMMA TakeStep == ASSUME IInv, [Next]_vars PROVE NoNullDereference'
  <1> USE QueueAssumption DEF Threads, GoTo, Acquire, Release
  <1>0. TypeOK /\ MutualExclusion /\ NoNullDereference /\ Ownership
    BY TypeStep DEF IInv
  <1>1. ASSUME NEW s \in Senders, SendMessage(s) PROVE NoNullDereference'
    BY <1>0, <1>1
    DEF SendMessage, NoNullDereference, MutualExclusion, Critical, Ownership,
        Private, TypeOK
  <1>2. ASSUME NEW s \in Senders, EnqueueLock(s) PROVE NoNullDereference'
    BY <1>0, <1>2
    DEF EnqueueLock, NoNullDereference, MutualExclusion, Critical, Ownership,
        Private, TypeOK
  <1>3. ASSUME NEW s \in Senders, EnqueueLink(s) PROVE NoNullDereference'
    BY <1>0, <1>3
    DEF EnqueueLink, LinkBehind, NoNullDereference, MutualExclusion, Critical,
        Ownership, Private, TypeOK
  <1>4. ASSUME NEW s \in Senders, EnqueueSetTail(s) PROVE NoNullDereference'
    BY <1>0, <1>4
    DEF EnqueueSetTail, TailAfterLink, NoNullDereference, MutualExclusion,
        Critical, Ownership, Private, TypeOK
  <1>5. ASSUME NEW s \in Senders, EnqueueSignal(s) PROVE NoNullDereference'
    BY <1>0, <1>5
    DEF EnqueueSignal, Signal, NoNullDereference, MutualExclusion, Critical,
        Ownership, Private, TypeOK
  <1>6. ASSUME NEW s \in Senders, EnqueueUnlock(s) PROVE NoNullDereference'
    BY <1>0, <1>6
    DEF EnqueueUnlock, NoNullDereference, MutualExclusion, Critical, Ownership,
        Private, TypeOK
  <1>7. CASE DequeueLock
    BY <1>0, <1>7
    DEF DequeueLock, NoNullDereference, MutualExclusion, Critical, Ownership,
        Private, TypeOK
  <1>8. CASE DequeueWait
    BY <1>0, <1>8
    DEF DequeueWait, NoNullDereference, MutualExclusion, Critical, Ownership,
        Private, TypeOK
  <1>9. CASE DequeueFound
    BY <1>0, <1>9
    DEF DequeueFound, NoNullDereference, MutualExclusion, Critical, Ownership,
        Private, TypeOK
  <1>10. CASE DequeueResume
    BY <1>0, <1>10
    DEF DequeueResume, AfterWait, NoNullDereference, MutualExclusion, Critical,
        Ownership, Private, TypeOK
  <1>11. CASE DequeueTake
    BY <1>0, <1>11
    DEF DequeueTake, NoNullDereference, MutualExclusion, Critical, Ownership,
        Private, TypeOK
  <1>12. CASE DequeueReset
    BY <1>0, <1>12
    DEF DequeueReset, TailAfterTake, NoNullDereference, MutualExclusion,
        Critical, Ownership, Private, TypeOK
  <1>13. CASE DequeueUnlock
    BY <1>0, <1>13
    DEF DequeueUnlock, NoNullDereference, MutualExclusion, Critical, Ownership,
        Private, TypeOK
  <1>14. CASE FreeMessage
    BY <1>0, <1>14
    DEF FreeMessage, NoNullDereference, MutualExclusion, Critical, Ownership,
        Private, TypeOK
  <1>15. CASE SpuriousWakeup
    BY <1>0, <1>15
    DEF SpuriousWakeup, NoNullDereference, MutualExclusion, Critical,
        Ownership, Private, TypeOK
  <1>16. CASE UNCHANGED vars
    BY <1>0, <1>16
    DEF vars, NoNullDereference, MutualExclusion, Critical, Ownership, Private,
        TypeOK
  <1> QED
    BY <1>1, <1>2, <1>3, <1>4, <1>5, <1>6, <1>7, <1>8, <1>9, <1>10, <1>11,
       <1>12, <1>13, <1>14, <1>15, <1>16 DEF Next, SenderStep, ReceiverStep

(* Linking extends the list at its end, taking shortens it at its head.    *)
LEMMA ListStep == ASSUME IInv, [Next]_vars PROVE ListShape'
  <1> USE QueueAssumption DEF Threads, GoTo, Acquire, Release
  <1>0. TypeOK /\ TypeOK' /\ MutualExclusion /\ ListShape /\ Ownership /\ SenderKnows /\ TailIsLast
    BY TypeStep DEF IInv
  <1>1. ASSUME NEW s \in Senders, SendMessage(s) PROVE ListShape'
    <2>1. PICK c \in Cells \ allocated : next' = [next EXCEPT ![c] = NULL]
      BY <1>1 DEF SendMessage
    <2>2. head' = head /\ queued' = queued
      BY <1>1 DEF SendMessage
    <2>3. \A i \in 1 .. Len(queued) : queued[i] \in Cells /\ queued[i] # c
      BY <1>0, <2>1 DEF Ownership, TypeOK
    <2> QED
      BY <1>0, <2>1, <2>2, <2>3 DEF ListShape, TypeOK
  <1>2. ASSUME NEW s \in Senders, EnqueueLock(s) PROVE ListShape'
    BY <1>0, <1>2 DEF EnqueueLock, ListShape, TypeOK
  <1>3. ASSUME NEW s \in Senders, EnqueueLink(s) PROVE ListShape'
    <2> USE <1>3, LinkFacts
    <2>1. CASE queued = << >>
      <3>1. head' = own[s] /\ next' = next
        BY <2>1 DEF EnqueueLink
      <3> QED
        BY <1>0, <2>1, <3>1 DEF ListShape
    <2>2. CASE queued # << >>
      <3>1. head' = head /\ next' = [next EXCEPT ![queued[Len(queued)]] = own[s]]
        BY <2>2 DEF EnqueueLink
      <3>2. head' = queued'[1]
        BY <1>0, <2>2, <3>1 DEF ListShape
      <3>3. ASSUME NEW i \in 1 .. Len(queued')
            PROVE next'[queued'[i]] = IF i = Len(queued') THEN NULL ELSE queued'[i + 1]
        <4>1. \A j \in 1 .. Len(queued) : queued[j] \in Cells
          BY <1>0 DEF TypeOK
        <4>2. CASE i = Len(queued) + 1
          BY <1>0, <2>2, <3>1, <4>1, <4>2 DEF TypeOK
        <4>3. CASE i = Len(queued)
          BY <1>0, <2>2, <3>1, <4>1, <4>3 DEF TypeOK
        <4>4. CASE i < Len(queued)
          <5>1. queued[i] # queued[Len(queued)]
            BY <1>0, <2>2, <4>4 DEF Ownership
          <5>2. next'[queued[i]] = next[queued[i]]
            BY <1>0, <3>1, <4>1, <4>4, <5>1 DEF TypeOK
          <5>3. next[queued[i]] = queued[i + 1]
            BY <1>0, <4>4 DEF ListShape
          <5> QED
            BY <4>4, <5>2, <5>3
        <4> QED
          BY <4>2, <4>3, <4>4
      <3> QED
        BY <3>2, <3>3 DEF ListShape
    <2> QED
      BY <2>1, <2>2
  <1>4. ASSUME NEW s \in Senders, EnqueueSetTail(s) PROVE ListShape'
    BY <1>0, <1>4 DEF EnqueueSetTail, TailAfterLink, ListShape, TypeOK
  <1>5. ASSUME NEW s \in Senders, EnqueueSignal(s) PROVE ListShape'
    BY <1>0, <1>5 DEF EnqueueSignal, Signal, ListShape, TypeOK
  <1>6. ASSUME NEW s \in Senders, EnqueueUnlock(s) PROVE ListShape'
    BY <1>0, <1>6 DEF EnqueueUnlock, ListShape, TypeOK
  <1>7. CASE DequeueLock
    BY <1>0, <1>7 DEF DequeueLock, ListShape, TypeOK
  <1>8. CASE DequeueWait
    BY <1>0, <1>8 DEF DequeueWait, ListShape, TypeOK
  <1>9. CASE DequeueFound
    BY <1>0, <1>9 DEF DequeueFound, ListShape, TypeOK
  <1>10. CASE DequeueResume
    BY <1>0, <1>10 DEF DequeueResume, AfterWait, ListShape, TypeOK
  <1>11. CASE DequeueTake
    <2>1. head' = next[head] /\ next' = next
      BY <1>11 DEF DequeueTake
    <2> QED
      BY <1>0, <1>11, <2>1, TakeFacts DEF ListShape
  <1>12. CASE DequeueReset
    BY <1>0, <1>12 DEF DequeueReset, TailAfterTake, ListShape, TypeOK
  <1>13. CASE DequeueUnlock
    BY <1>0, <1>13 DEF DequeueUnlock, ListShape, TypeOK
  <1>14. CASE FreeMessage
    BY <1>0, <1>14 DEF FreeMessage, ListShape, TypeOK
  <1>15. CASE SpuriousWakeup
    BY <1>0, <1>15 DEF SpuriousWakeup, ListShape, TypeOK
  <1>16. CASE UNCHANGED vars
    BY <1>0, <1>16 DEF vars, ListShape, TypeOK
  <1> QED
    BY <1>1, <1>2, <1>3, <1>4, <1>5, <1>6, <1>7, <1>8, <1>9, <1>10, <1>11,
       <1>12, <1>13, <1>14, <1>15, <1>16 DEF Next, SenderStep, ReceiverStep

(* A message has one owner at a time.                                      *)
LEMMA OwnershipStep == ASSUME IInv, [Next]_vars PROVE Ownership'
  <1> USE QueueAssumption DEF Threads, GoTo, Acquire, Release
  <1>0. TypeOK /\ TypeOK' /\ ListShape /\ Ownership /\ MutualExclusion
    BY TypeStep DEF IInv
  <1>1. ASSUME NEW s \in Senders, SendMessage(s) PROVE Ownership'
    BY <1>0, <1>1 DEF SendMessage, Ownership, Private, TypeOK
  <1>2. ASSUME NEW s \in Senders, EnqueueLock(s) PROVE Ownership'
    BY <1>0, <1>2 DEF EnqueueLock, Ownership, Private, TypeOK
  <1>3. ASSUME NEW s \in Senders, EnqueueLink(s) PROVE Ownership'
    BY <1>0, <1>3 DEF EnqueueLink, LinkBehind, Ownership, Private, TypeOK
  <1>4. ASSUME NEW s \in Senders, EnqueueSetTail(s) PROVE Ownership'
    BY <1>0, <1>4 DEF EnqueueSetTail, TailAfterLink, Ownership, Private, TypeOK
  <1>5. ASSUME NEW s \in Senders, EnqueueSignal(s) PROVE Ownership'
    BY <1>0, <1>5 DEF EnqueueSignal, Signal, Ownership, Private, TypeOK
  <1>6. ASSUME NEW s \in Senders, EnqueueUnlock(s) PROVE Ownership'
    BY <1>0, <1>6 DEF EnqueueUnlock, Ownership, Private, TypeOK
  <1>7. CASE DequeueLock
    BY <1>0, <1>7 DEF DequeueLock, Ownership, Private, TypeOK
  <1>8. CASE DequeueWait
    BY <1>0, <1>8 DEF DequeueWait, Ownership, Private, TypeOK
  <1>9. CASE DequeueFound
    BY <1>0, <1>9 DEF DequeueFound, Ownership, Private, TypeOK
  <1>10. CASE DequeueResume
    BY <1>0, <1>10 DEF DequeueResume, AfterWait, Ownership, Private, TypeOK
  <1>11. CASE DequeueTake
    <2>1. /\ own' = [own EXCEPT ![Receiver] = queued[1]]
          /\ pc' = [pc EXCEPT ![Receiver] = "reset"]
          /\ allocated' = allocated
      BY <1>11, TakeFacts DEF DequeueTake
    <2>2. \A t \in Threads : Private(t)' <=> t = Receiver \/ Private(t)
      BY <1>0, <2>1 DEF Private, TypeOK
    <2>3. \A t \in Threads : t # Receiver => own'[t] = own[t]
      BY <1>0, <2>1 DEF TypeOK
    <2>4. own'[Receiver] = queued[1] /\ queued[1] \in allocated
      BY <1>0, <1>11, <2>1, TakeFacts DEF Ownership, TypeOK
    <2>5. \A i \in 1 .. Len(queued') : i + 1 \in 1 .. Len(queued) /\ queued'[i] = queued[i + 1]
      BY <1>11, TakeFacts
    <2>6. \A i \in 1 .. Len(queued') : queued'[i] # queued[1] /\ queued'[i] \in allocated
      BY <1>0, <1>11, <2>5, TakeFacts DEF Ownership
    <2>7. \A i, j \in 1 .. Len(queued') : queued'[i] = queued'[j] => i = j
      <3> SUFFICES ASSUME NEW i \in 1 .. Len(queued'), NEW j \in 1 .. Len(queued'),
                          queued'[i] = queued'[j]
                   PROVE i = j
        OBVIOUS
      <3>1. i + 1 = j + 1
        BY <1>0, <2>5 DEF Ownership
      <3> QED
        BY <3>1, <1>0, <1>11, TakeFacts
    <2>8. ASSUME NEW t \in Threads, Private(t)'
          PROVE /\ own'[t] \in allocated
                /\ \A i \in 1 .. Len(queued') : queued'[i] # own'[t]
                /\ \A u \in Threads : Private(u)' /\ own'[u] = own'[t] => u = t
      <3>1. 1 \in 1 .. Len(queued)
        BY <1>11, TakeFacts
      <3>2. \A u \in Senders : Private(u)' => own'[u] # queued[1]
        BY <1>0, <2>2, <2>3, <3>1 DEF Ownership
      <3>3. CASE t = Receiver
        BY <2>3, <2>4, <2>6, <3>2, <3>3
      <3>4. CASE t # Receiver
        BY <1>0, <2>2, <2>3, <2>4, <2>5, <2>8, <3>2, <3>4 DEF Ownership
      <3> QED
        BY <3>3, <3>4
    <2> QED
      BY <2>1, <2>6, <2>7, <2>8 DEF Ownership
  <1>12. CASE DequeueReset
    BY <1>0, <1>12 DEF DequeueReset, TailAfterTake, Ownership, Private, TypeOK
  <1>13. CASE DequeueUnlock
    BY <1>0, <1>13 DEF DequeueUnlock, Ownership, Private, TypeOK
  <1>14. CASE FreeMessage
    BY <1>0, <1>14 DEF FreeMessage, Ownership, Private, TypeOK
  <1>15. CASE SpuriousWakeup
    BY <1>0, <1>15 DEF SpuriousWakeup, Ownership, Private, TypeOK
  <1>16. CASE UNCHANGED vars
    BY <1>0, <1>16 DEF vars, Ownership, Private, TypeOK
  <1> QED
    BY <1>1, <1>2, <1>3, <1>4, <1>5, <1>6, <1>7, <1>8, <1>9, <1>10, <1>11,
       <1>12, <1>13, <1>14, <1>15, <1>16 DEF Next, SenderStep, ReceiverStep

LEMMA SenderStepKnows == ASSUME IInv, [Next]_vars PROVE SenderKnows'
  <1> USE QueueAssumption DEF Threads, GoTo, Acquire, Release
  <1>0. TypeOK /\ TypeOK' /\ MutualExclusion /\ ListShape /\ Ownership /\ SenderKnows
    BY TypeStep DEF IInv
  <1>1. ASSUME NEW s \in Senders, SendMessage(s) PROVE SenderKnows'
    <2>1. PICK c \in Cells \ allocated :
            /\ own' = [own EXCEPT ![s] = c]
            /\ content' = [content EXCEPT ![c] = Written(s)]
            /\ next' = [next EXCEPT ![c] = NULL]
      BY <1>1 DEF SendMessage
    <2>2. /\ pc' = [pc EXCEPT ![s] = "lock"] /\ sent' = sent /\ queued' = queued
          /\ sent[s] < MaxSends
      BY <1>1 DEF SendMessage
    <2>3. ASSUME NEW t \in Senders, t # s, pc[t] \in {"lock", "link"}
          PROVE own[t] \in Cells /\ own[t] # c
      BY <1>0, <2>1, <2>3 DEF Ownership, Private, TypeOK
    <2> QED
      BY <1>0, <2>1, <2>2, <2>3 DEF SenderKnows, Written, TypeOK
  <1>2. ASSUME NEW s \in Senders, EnqueueLock(s) PROVE SenderKnows'
    BY <1>0, <1>2
    DEF EnqueueLock, SenderKnows, Ownership, Private, MutualExclusion,
        Critical, TypeOK
  <1>3. ASSUME NEW s \in Senders, EnqueueLink(s) PROVE SenderKnows'
    <2> USE <1>3, LinkFacts
    <2>1. /\ own' = own /\ content' = content /\ pc' = [pc EXCEPT ![s] = "setTail"]
          /\ sent' = [sent EXCEPT ![s] = @ + 1]
      BY DEF EnqueueLink
    <2>2. own[s] = Last(queued')
      BY DEF Last
    <2>3. ASSUME NEW t \in Senders, t # s, pc[t] \in {"lock", "link"}
          PROVE next'[own[t]] = next[own[t]]
      <3>1. own[t] \in Cells /\ \A i \in 1 .. Len(queued) : queued[i] # own[t]
        BY <1>0, <2>3 DEF Ownership, Private, TypeOK
      <3>2. LinkBehind => own[t] # tail
        BY <3>1
      <3> QED
        BY <1>0, <3>1, <3>2 DEF EnqueueLink, TypeOK
    <2>4. ASSUME NEW t \in Senders, t # s
          PROVE pc'[t] = pc[t] /\ sent'[t] = sent[t] /\ pc[t] # "setTail"
      BY <1>0, <2>1, <2>4 DEF TypeOK
    <2>5. pc'[s] = "setTail"
      BY <1>0, <2>1 DEF TypeOK
    <2> QED
      BY <1>0, <2>1, <2>2, <2>3, <2>4, <2>5 DEF SenderKnows
  <1>4. ASSUME NEW s \in Senders, EnqueueSetTail(s) PROVE SenderKnows'
    BY <1>0, <1>4
    DEF EnqueueSetTail, TailAfterLink, SenderKnows, Ownership, Private,
        MutualExclusion, Critical, TypeOK
  <1>5. ASSUME NEW s \in Senders, EnqueueSignal(s) PROVE SenderKnows'
    BY <1>0, <1>5
    DEF EnqueueSignal, Signal, SenderKnows, Ownership, Private,
        MutualExclusion, Critical, TypeOK
  <1>6. ASSUME NEW s \in Senders, EnqueueUnlock(s) PROVE SenderKnows'
    BY <1>0, <1>6
    DEF EnqueueUnlock, SenderKnows, Ownership, Private, MutualExclusion,
        Critical, TypeOK
  <1>7. CASE DequeueLock
    BY <1>0, <1>7
    DEF DequeueLock, SenderKnows, Ownership, Private, MutualExclusion,
        Critical, TypeOK
  <1>8. CASE DequeueWait
    BY <1>0, <1>8
    DEF DequeueWait, SenderKnows, Ownership, Private, MutualExclusion,
        Critical, TypeOK
  <1>9. CASE DequeueFound
    BY <1>0, <1>9
    DEF DequeueFound, SenderKnows, Ownership, Private, MutualExclusion,
        Critical, TypeOK
  <1>10. CASE DequeueResume
    BY <1>0, <1>10
    DEF DequeueResume, AfterWait, SenderKnows, Ownership, Private,
        MutualExclusion, Critical, TypeOK
  <1>11. CASE DequeueTake
    BY <1>0, <1>11
    DEF DequeueTake, SenderKnows, Ownership, Private, MutualExclusion,
        Critical, TypeOK
  <1>12. CASE DequeueReset
    BY <1>0, <1>12
    DEF DequeueReset, TailAfterTake, SenderKnows, Ownership, Private,
        MutualExclusion, Critical, TypeOK
  <1>13. CASE DequeueUnlock
    BY <1>0, <1>13
    DEF DequeueUnlock, SenderKnows, Ownership, Private, MutualExclusion,
        Critical, TypeOK
  <1>14. CASE FreeMessage
    BY <1>0, <1>14
    DEF FreeMessage, SenderKnows, Ownership, Private, MutualExclusion,
        Critical, TypeOK
  <1>15. CASE SpuriousWakeup
    BY <1>0, <1>15
    DEF SpuriousWakeup, SenderKnows, Ownership, Private, MutualExclusion,
        Critical, TypeOK
  <1>16. CASE UNCHANGED vars
    BY <1>0, <1>16
    DEF vars, SenderKnows, Ownership, Private, MutualExclusion, Critical, TypeOK
  <1> QED
    BY <1>1, <1>2, <1>3, <1>4, <1>5, <1>6, <1>7, <1>8, <1>9, <1>10, <1>11,
       <1>12, <1>13, <1>14, <1>15, <1>16 DEF Next, SenderStep, ReceiverStep

LEMMA QueuedStep == ASSUME IInv, [Next]_vars PROVE QueuedAreMessages'
  <1> USE QueueAssumption DEF Threads, GoTo, Acquire, Release
  <1>0. TypeOK /\ TypeOK' /\ MutualExclusion /\ ListShape /\ Ownership /\ SenderKnows /\ QueuedAreMessages
    BY TypeStep DEF IInv
  <1>1. ASSUME NEW s \in Senders, SendMessage(s) PROVE QueuedAreMessages'
    <2>1. PICK c \in Cells \ allocated : content' = [content EXCEPT ![c] = Written(s)]
      BY <1>1 DEF SendMessage
    <2>2. queued' = queued
      BY <1>1 DEF SendMessage
    <2>3. \A i \in 1 .. Len(queued) : queued[i] \in Cells /\ queued[i] # c
      BY <1>0, <2>1 DEF Ownership, TypeOK
    <2> QED
      BY <1>0, <2>1, <2>2, <2>3 DEF QueuedAreMessages, TypeOK
  <1>2. ASSUME NEW s \in Senders, EnqueueLock(s) PROVE QueuedAreMessages'
    BY <1>0, <1>2 DEF EnqueueLock, QueuedAreMessages, TypeOK
  <1>3. ASSUME NEW s \in Senders, EnqueueLink(s) PROVE QueuedAreMessages'
    <2>1. content' = content /\ pc[s] = "link"
      BY <1>3 DEF EnqueueLink
    <2>2. content[own[s]] \in Message
      <3>1. sent[s] \in 0 .. MaxSends /\ sent[s] < MaxSends
        BY <1>0, <2>1 DEF SenderKnows, TypeOK
      <3>2. sent[s] + 1 \in 1 .. MaxSends
        BY <3>1
      <3>3. content[own[s]] = [from |-> s, seq |-> sent[s] + 1]
        BY <1>0, <2>1 DEF SenderKnows
      <3> QED
        BY <3>2, <3>3 DEF Message
    <2> QED
      BY <1>0, <1>3, <2>1, <2>2, LinkFacts DEF QueuedAreMessages
  <1>4. ASSUME NEW s \in Senders, EnqueueSetTail(s) PROVE QueuedAreMessages'
    BY <1>0, <1>4 DEF EnqueueSetTail, TailAfterLink, QueuedAreMessages, TypeOK
  <1>5. ASSUME NEW s \in Senders, EnqueueSignal(s) PROVE QueuedAreMessages'
    BY <1>0, <1>5 DEF EnqueueSignal, Signal, QueuedAreMessages, TypeOK
  <1>6. ASSUME NEW s \in Senders, EnqueueUnlock(s) PROVE QueuedAreMessages'
    BY <1>0, <1>6 DEF EnqueueUnlock, QueuedAreMessages, TypeOK
  <1>7. CASE DequeueLock
    BY <1>0, <1>7 DEF DequeueLock, QueuedAreMessages, TypeOK
  <1>8. CASE DequeueWait
    BY <1>0, <1>8 DEF DequeueWait, QueuedAreMessages, TypeOK
  <1>9. CASE DequeueFound
    BY <1>0, <1>9 DEF DequeueFound, QueuedAreMessages, TypeOK
  <1>10. CASE DequeueResume
    BY <1>0, <1>10 DEF DequeueResume, AfterWait, QueuedAreMessages, TypeOK
  <1>11. CASE DequeueTake
    BY <1>0, <1>11 DEF DequeueTake, QueuedAreMessages, TypeOK
  <1>12. CASE DequeueReset
    BY <1>0, <1>12 DEF DequeueReset, TailAfterTake, QueuedAreMessages, TypeOK
  <1>13. CASE DequeueUnlock
    BY <1>0, <1>13 DEF DequeueUnlock, QueuedAreMessages, TypeOK
  <1>14. CASE FreeMessage
    BY <1>0, <1>14 DEF FreeMessage, QueuedAreMessages, TypeOK
  <1>15. CASE SpuriousWakeup
    BY <1>0, <1>15 DEF SpuriousWakeup, QueuedAreMessages, TypeOK
  <1>16. CASE UNCHANGED vars
    BY <1>0, <1>16 DEF vars, QueuedAreMessages, TypeOK
  <1> QED
    BY <1>1, <1>2, <1>3, <1>4, <1>5, <1>6, <1>7, <1>8, <1>9, <1>10, <1>11,
       <1>12, <1>13, <1>14, <1>15, <1>16 DEF Next, SenderStep, ReceiverStep

LEMMA TailStep == ASSUME IInv, [Next]_vars PROVE TailIsLast'
  <1> USE QueueAssumption DEF Threads, GoTo, Acquire, Release
  <1>0. TypeOK /\ TypeOK' /\ MutualExclusion /\ ListShape /\ Ownership /\ SenderKnows /\ TailIsLast
    BY TypeStep DEF IInv
  <1>1. ASSUME NEW s \in Senders, SendMessage(s) PROVE TailIsLast'
    BY <1>0, <1>1 DEF SendMessage, TailIsLast, TypeOK
  <1>2. ASSUME NEW s \in Senders, EnqueueLock(s) PROVE TailIsLast'
    BY <1>0, <1>2 DEF EnqueueLock, TailIsLast, TypeOK
  <1>3. ASSUME NEW s \in Senders, EnqueueLink(s) PROVE TailIsLast'
    <2>1. tail' = tail /\ pc'[s] = "setTail"
      BY <1>0, <1>3 DEF EnqueueLink, TypeOK
    <2>2. queued = << >> => Len(queued') = 1 /\ tail = NULL
      BY <1>3, LinkFacts
    <2>3. queued # << >> => Len(queued') # 1 /\ tail = queued'[Len(queued') - 1]
      BY <1>3, LinkFacts
    <2> QED
      BY <2>1, <2>2, <2>3 DEF TailIsLast
  <1>4. ASSUME NEW s \in Senders, EnqueueSetTail(s) PROVE TailIsLast'
    <2>1. mutex = s /\ pc[s] = "setTail" /\ tail' = own[s] /\ queued' = queued
          /\ pc' = [pc EXCEPT ![s] = "signal"]
      BY <1>0, <1>4 DEF EnqueueSetTail, TailAfterLink, MutualExclusion, Critical
    <2>2. \A t \in Senders : pc'[t] # "setTail"
      BY <1>0, <2>1 DEF MutualExclusion, Critical, TypeOK
    <2>3. queued # << >> /\ own[s] = Last(queued)
      BY <1>0, <2>1 DEF SenderKnows
    <2> QED
      BY <2>1, <2>2, <2>3 DEF TailIsLast, Last
  <1>5. ASSUME NEW s \in Senders, EnqueueSignal(s) PROVE TailIsLast'
    BY <1>0, <1>5 DEF EnqueueSignal, Signal, TailIsLast, TypeOK
  <1>6. ASSUME NEW s \in Senders, EnqueueUnlock(s) PROVE TailIsLast'
    BY <1>0, <1>6 DEF EnqueueUnlock, TailIsLast, TypeOK
  <1>7. CASE DequeueLock
    BY <1>0, <1>7 DEF DequeueLock, TailIsLast, TypeOK
  <1>8. CASE DequeueWait
    BY <1>0, <1>8 DEF DequeueWait, TailIsLast, TypeOK
  <1>9. CASE DequeueFound
    BY <1>0, <1>9 DEF DequeueFound, TailIsLast, TypeOK
  <1>10. CASE DequeueResume
    BY <1>0, <1>10 DEF DequeueResume, AfterWait, TailIsLast, TypeOK
  <1>11. CASE DequeueTake
    <2>1. /\ tail' = tail /\ own' = [own EXCEPT ![Receiver] = head]
          /\ pc' = [pc EXCEPT ![Receiver] = "reset"]
      BY <1>11 DEF DequeueTake
    <2>2. \A t \in Senders : pc'[t] # "setTail"
      BY <1>0, <1>11, <2>1, TakeFacts DEF Critical, TypeOK
    <2>3. pc'[Receiver] = "reset" /\ own'[Receiver] = head
      BY <1>0, <2>1 DEF TypeOK
    <2>4. queued' # << >> => tail = queued'[Len(queued')]
      BY <1>11, TakeFacts
    <2>5. queued' = << >> => tail = head
      BY <1>11, TakeFacts
    <2> QED
      BY <2>1, <2>2, <2>3, <2>4, <2>5 DEF TailIsLast, Last
  <1>12. CASE DequeueReset
    <2>1. /\ pc[Receiver] = "reset" /\ tail' = IF head = NULL THEN NULL ELSE tail
          /\ pc' = [pc EXCEPT ![Receiver] = "unlock"] /\ queued' = queued
      BY <1>12 DEF DequeueReset, TailAfterTake
    <2>2. \A t \in Senders : pc[t] # "setTail" /\ pc'[t] # "setTail"
      BY <1>0, <2>1 DEF MutualExclusion, Critical, TypeOK
    <2>3. head = NULL <=> queued = << >>
      BY <1>0 DEF ListShape, TypeOK
    <2>4. pc'[Receiver] = "unlock"
      BY <1>0, <2>1 DEF TypeOK
    <2> QED
      BY <1>0, <2>1, <2>2, <2>3, <2>4 DEF TailIsLast, Last
  <1>13. CASE DequeueUnlock
    BY <1>0, <1>13 DEF DequeueUnlock, TailIsLast, TypeOK
  <1>14. CASE FreeMessage
    BY <1>0, <1>14 DEF FreeMessage, TailIsLast, TypeOK
  <1>15. CASE SpuriousWakeup
    BY <1>0, <1>15 DEF SpuriousWakeup, TailIsLast, TypeOK
  <1>16. CASE UNCHANGED vars
    BY <1>0, <1>16 DEF vars, TailIsLast, TypeOK
  <1> QED
    BY <1>1, <1>2, <1>3, <1>4, <1>5, <1>6, <1>7, <1>8, <1>9, <1>10, <1>11,
       <1>12, <1>13, <1>14, <1>15, <1>16 DEF Next, SenderStep, ReceiverStep

LEMMA WakeupStep == ASSUME IInv, [Next]_vars PROVE NoLostWakeup'
  <1> USE QueueAssumption DEF Threads, GoTo, Acquire, Release
  <1>0. TypeOK /\ TypeOK' /\ MutualExclusion /\ ListShape /\ AsleepInWait /\ NoLostWakeup
    BY TypeStep DEF IInv
  <1>1. ASSUME NEW s \in Senders, SendMessage(s) PROVE NoLostWakeup'
    BY <1>0, <1>1 DEF SendMessage, NoLostWakeup, TypeOK
  <1>2. ASSUME NEW s \in Senders, EnqueueLock(s) PROVE NoLostWakeup'
    BY <1>0, <1>2 DEF EnqueueLock, NoLostWakeup, TypeOK
  <1>3. ASSUME NEW s \in Senders, EnqueueLink(s) PROVE NoLostWakeup'
    BY <1>0, <1>3 DEF EnqueueLink, LinkBehind, NoLostWakeup, TypeOK
  <1>4. ASSUME NEW s \in Senders, EnqueueSetTail(s) PROVE NoLostWakeup'
    BY <1>0, <1>4 DEF EnqueueSetTail, TailAfterLink, NoLostWakeup, TypeOK
  <1>5. ASSUME NEW s \in Senders, EnqueueSignal(s) PROVE NoLostWakeup'
    BY <1>0, <1>5 DEF EnqueueSignal, Signal, NoLostWakeup, TypeOK
  <1>6. ASSUME NEW s \in Senders, EnqueueUnlock(s) PROVE NoLostWakeup'
    BY <1>0, <1>6 DEF EnqueueUnlock, NoLostWakeup, TypeOK
  <1>7. CASE DequeueLock
    BY <1>0, <1>7 DEF DequeueLock, NoLostWakeup, TypeOK
  <1>8. CASE DequeueWait
    <2>1. queued' = queued /\ head = NULL
      BY <1>8 DEF DequeueWait
    <2>2. queued = << >>
      BY <1>0, <2>1 DEF ListShape, TypeOK
    <2> QED
      BY <2>1, <2>2 DEF NoLostWakeup
  <1>9. CASE DequeueFound
    BY <1>0, <1>9 DEF DequeueFound, NoLostWakeup, TypeOK
  <1>10. CASE DequeueResume
    BY <1>0, <1>10 DEF DequeueResume, AfterWait, NoLostWakeup, TypeOK
  <1>11. CASE DequeueTake
    BY <1>0, <1>11 DEF DequeueTake, NoLostWakeup, TypeOK
  <1>12. CASE DequeueReset
    BY <1>0, <1>12 DEF DequeueReset, TailAfterTake, NoLostWakeup, TypeOK
  <1>13. CASE DequeueUnlock
    BY <1>0, <1>13 DEF DequeueUnlock, NoLostWakeup, TypeOK
  <1>14. CASE FreeMessage
    BY <1>0, <1>14 DEF FreeMessage, NoLostWakeup, TypeOK
  <1>15. CASE SpuriousWakeup
    BY <1>0, <1>15 DEF SpuriousWakeup, NoLostWakeup, TypeOK
  <1>16. CASE UNCHANGED vars
    BY <1>0, <1>16 DEF vars, NoLostWakeup, TypeOK
  <1> QED
    BY <1>1, <1>2, <1>3, <1>4, <1>5, <1>6, <1>7, <1>8, <1>9, <1>10, <1>11,
       <1>12, <1>13, <1>14, <1>15, <1>16 DEF Next, SenderStep, ReceiverStep

LEMMA Invariance == Spec => []IInv
  <1>1. IInv /\ [Next]_vars => IInv'
    <2> SUFFICES ASSUME IInv, [Next]_vars PROVE IInv'
      OBVIOUS
    <2> QED
      BY TypeStep, MutexStep, AsleepStep, TakeStep, ListStep, OwnershipStep,
         SenderStepKnows, QueuedStep, TailStep, WakeupStep DEF IInv
  <1> QED
    BY InitIInv, <1>1, PTL DEF Spec

(* The variables of the queue keep their types.                            *)
THEOREM TypeCorrect == Spec => []TypeOK
  <1>1. IInv => TypeOK
    BY DEF IInv
  <1> QED
    BY <1>1, Invariance, PTL

(* enqueue and dequeue never run their critical sections at once.          *)
THEOREM QueueMutualExclusion == Spec => []MutualExclusion
  <1>1. IInv => MutualExclusion
    BY DEF IInv
  <1> QED
    BY <1>1, Invariance, PTL

(* head, next and tail always spell the list of the messages enqueued and  *)
(* not yet dequeued.                                                       *)
THEOREM ListIsTheQueue == Spec => [](ListShape /\ TailIsLast)
  <1>1. IInv => ListShape /\ TailIsLast
    BY DEF IInv
  <1> QED
    BY <1>1, Invariance, PTL

(* A message is freed only by its one owner, and never while the list, the *)
(* tail pointer or another thread still leads to it.                       *)
THEOREM MessageOwnership == Spec => []Ownership
  <1>1. IInv => Ownership
    BY DEF IInv
  <1> QED
    BY <1>1, Invariance, PTL

(* The actor never sleeps beside a message nobody is about to signal.      *)
THEOREM WakeupsAreNotLost == Spec => []NoLostWakeup
  <1>1. IInv => NoLostWakeup
    BY DEF IInv
  <1> QED
    BY <1>1, Invariance, PTL

(* dequeue follows queue->head only when it points to a message.           *)
THEOREM HeadIsNotNull == Spec => []NoNullDereference
  <1>1. IInv => NoNullDereference
    BY DEF IInv
  <1> QED
    BY <1>1, Invariance, PTL

-----------------------------------------------------------------------------
(***************************************************************************)
(* Refinement.                                                             *)
(***************************************************************************)
Abstract == [i \in 1 .. Len(queued) |-> content[queued[i]]]

LEMMA InitRefines == Init => Box!Init
  BY DEF Init, Box!Init

LEMMA AbstractFacts ==
  ASSUME IInv
  PROVE  /\ Abstract \in Seq(Message)
         /\ Len(Abstract) = Len(queued)
         /\ \A i \in 1 .. Len(queued) : Abstract[i] = content[queued[i]]
  <1>1. Len(queued) \in Nat
    BY DEF IInv, TypeOK
  <1>2. \A i \in 1 .. Len(queued) : content[queued[i]] \in Message
    BY DEF IInv, QueuedAreMessages
  <1> QED
    BY <1>1, <1>2, IsASeq DEF Abstract

LEMMA LinkIsPut ==
  ASSUME IInv, NEW s \in Senders, EnqueueLink(s), IInv'
  PROVE  Box!Put(s)
  <1>1. /\ content' = content /\ delivered' = delivered /\ pc[s] = "link"
        /\ sent' = [sent EXCEPT ![s] = @ + 1]
    BY DEF EnqueueLink
  <1>2. sent[s] < MaxSends /\ content[own[s]] = [from |-> s, seq |-> sent[s] + 1]
    BY <1>1 DEF IInv, SenderKnows
  <1>3. Abstract' = Append(Abstract, content[own[s]])
    <2>1. content[own[s]] \in Message
      <3>1. Len(queued') \in 1 .. Len(queued') /\ queued'[Len(queued')] = own[s]
        BY LinkFacts
      <3> QED
        BY <3>1, <1>1 DEF IInv, QueuedAreMessages
    <2>2. Append(Abstract, content[own[s]]) \in Seq(Message)
          /\ Len(Append(Abstract, content[own[s]])) = Len(queued) + 1
      BY <2>1, AbstractFacts, AppendFacts
    <2>3. Abstract' \in Seq(Message) /\ Len(Abstract') = Len(queued) + 1
          /\ \A i \in 1 .. Len(queued') : Abstract'[i] = content[queued'[i]]
      BY <1>1, AbstractFacts, LinkFacts DEF Abstract, IInv, TypeOK, QueuedAreMessages
    <2>4. ASSUME NEW i \in 1 .. Len(queued) + 1
          PROVE Abstract'[i] = Append(Abstract, content[own[s]])[i]
      <3>1. CASE i = Len(queued) + 1
        <4>1. queued'[i] = own[s] /\ i \in 1 .. Len(queued')
          BY <3>1, LinkFacts
        <4>2. Abstract'[i] = content[own[s]]
          BY <2>3, <4>1
        <4>3. Append(Abstract, content[own[s]])[i] = content[own[s]]
          BY <2>1, <3>1, AbstractFacts, AppendFacts
        <4> QED
          BY <4>2, <4>3
      <3>2. CASE i \in 1 .. Len(queued)
        <4>1. queued'[i] = queued[i] /\ i \in 1 .. Len(queued')
          BY <3>2, LinkFacts
        <4>2. Abstract'[i] = content[queued[i]]
          BY <2>3, <4>1
        <4>3. Abstract[i] = content[queued[i]]
          BY <3>2, AbstractFacts
        <4>4. Append(Abstract, content[own[s]])[i] = Abstract[i]
          BY <2>1, <3>2, AbstractFacts, AppendFacts
        <4> QED
          BY <4>2, <4>3, <4>4
      <3>3. i = Len(queued) + 1 \/ i \in 1 .. Len(queued)
        BY LinkFacts
      <3> QED
        BY <3>1, <3>2, <3>3, Zenon
    <2> QED
      BY <2>2, <2>3, <2>4, SeqEqual
  <1> QED
    BY <1>1, <1>2, <1>3 DEF Box!Put, Abstract

LEMMA TakeIsTake ==
  ASSUME IInv, DequeueTake, IInv'
  PROVE  Box!Take
  <1>1. /\ content' = content /\ sent' = sent
        /\ delivered' = Append(delivered, content[head])
    BY DEF DequeueTake
  <1>2. Abstract # << >> /\ Head(Abstract) = content[head]
    BY AbstractFacts, TakeFacts
  <1>3. Abstract' = Tail(Abstract)
    <2>1. Tail(Abstract) \in Seq(Message) /\ Len(Tail(Abstract)) = Len(queued) - 1
      BY <1>2, AbstractFacts, TailFacts
    <2>2. Abstract' \in Seq(Message) /\ Len(Abstract') = Len(queued) - 1
          /\ \A i \in 1 .. Len(queued') : Abstract'[i] = content[queued'[i]]
      BY <1>1, AbstractFacts, TakeFacts DEF Abstract, IInv, TypeOK, QueuedAreMessages
    <2>3. ASSUME NEW i \in 1 .. Len(queued) - 1
          PROVE Abstract'[i] = Tail(Abstract)[i]
      <3>1. /\ i + 1 \in 1 .. Len(queued) /\ i \in 1 .. Len(queued')
            /\ queued'[i] = queued[i + 1]
        BY TakeFacts
      <3>2. Abstract'[i] = Abstract[i + 1]
        BY <2>2, <3>1, AbstractFacts
      <3>3. Tail(Abstract)[i] = Abstract[i + 1]
        BY <1>2, AbstractFacts, TailFacts
      <3> QED
        BY <3>2, <3>3
    <2> QED
      BY <2>1, <2>2, <2>3, SeqEqual
  <1> QED
    BY <1>1, <1>2, <1>3 DEF Box!Take, Abstract

LEMMA StepRefines ==
  ASSUME IInv, IInv', [Next]_vars
  PROVE  [Box!Next]_(Box!vars)
  <1> USE DEF Box!vars
  <1>1. ASSUME NEW s \in Senders, SendMessage(s) PROVE UNCHANGED Box!vars
    <2>1. PICK c \in Cells \ allocated : content' = [content EXCEPT ![c] = Written(s)]
      BY <1>1 DEF SendMessage
    <2>2. queued' = queued /\ sent' = sent /\ delivered' = delivered
      BY <1>1 DEF SendMessage
    <2>3. \A i \in 1 .. Len(queued) : content'[queued[i]] = content[queued[i]]
      BY <2>1 DEF IInv, Ownership, TypeOK
    <2> QED
      BY <2>2, <2>3
  <1>2. ASSUME NEW s \in Senders, EnqueueLink(s) PROVE Box!Put(s)
    BY <1>2, LinkIsPut
  <1>3. CASE DequeueTake
    BY <1>3, TakeIsTake DEF Box!Next
  <1>4. CASE UNCHANGED <<queued, content, sent, delivered>>
    BY <1>4
  <1> QED
    BY <1>1, <1>2, <1>3, <1>4
    DEF Box!Next, Next, SenderStep, ReceiverStep, vars, EnqueueLock,
        EnqueueSetTail, EnqueueSignal, EnqueueUnlock, DequeueLock, DequeueWait,
        DequeueFound, DequeueResume, DequeueReset, DequeueUnlock, FreeMessage,
        SpuriousWakeup

(* The linked list, its mutex and its condition variable implement the     *)
(* first-in first-out mailbox.                                             *)
THEOREM QueueImplementsMailbox == Spec => ImplementsMailbox
  <1>1. IInv /\ IInv' /\ [Next]_vars => [Box!Next]_(Box!vars)
    BY StepRefines
  <1> QED
    BY <1>1, InitRefines, Invariance, PTL DEF Spec, Box!Spec, ImplementsMailbox

(***************************************************************************)
(* What the mailbox promises holds of the linked list: BoxProofs are the   *)
(* theorems of Mailbox_proofs about the abstract queue of this module.     *)
(***************************************************************************)
BoxProofs == INSTANCE Mailbox_proofs
               WITH mailbox <- [i \in 1 .. Len(queued) |-> content[queued[i]]]

(* Whatever the interleaving, the actor receives the messages of each      *)
(* sender exactly once and in the order they were sent.                    *)
THEOREM DeliveryExactlyOnceInOrder == Spec => []DeliversExactlyOnceInOrder
  <1>1. BoxProofs!Spec => [](BoxProofs!TypeOK /\ BoxProofs!InOrder /\ BoxProofs!Complete)
    BY BoxProofs!ExactlyOnceInOrder, QueueAssumption
  <1>2. (Box!InOrder <=> BoxProofs!InOrder) /\ (Box!Complete <=> BoxProofs!Complete)
    BY DEF Box!InOrder, BoxProofs!InOrder, Box!Complete, BoxProofs!Complete,
           Box!History, BoxProofs!History
  <1>3. Box!Init <=> BoxProofs!Init
    BY DEF Box!Init, BoxProofs!Init
  <1>4. [Box!Next]_(Box!vars) <=> [BoxProofs!Next]_(BoxProofs!vars)
    BY DEF Box!Next, BoxProofs!Next, Box!vars, BoxProofs!vars, Box!Put,
           BoxProofs!Put, Box!Take, BoxProofs!Take
  <1>5. Box!Spec => BoxProofs!Spec
    BY <1>3, <1>4, PTL DEF Box!Spec, BoxProofs!Spec
  <1> QED
    BY <1>1, <1>2, <1>5, QueueImplementsMailbox, PTL
    DEF DeliversExactlyOnceInOrder, ImplementsMailbox
=============================================================================
