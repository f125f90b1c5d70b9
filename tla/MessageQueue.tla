----------------------------- MODULE MessageQueue -----------------------------
(***************************************************************************)
(* The message queue of one actor (runtime/src/value.c, enqueue and        *)
(* dequeue): a singly linked list with a head and a tail pointer, a mutex  *)
(* and a condition variable.  Any thread that holds a reference to the     *)
(* actor calls send_message, which allocates a message and enqueues it;    *)
(* the actor's own thread (actor_run) dequeues one message after the other *)
(* and frees it once its handler has returned.                             *)
(*                                                                         *)
(* Every statement of the two critical sections is an action of its own.   *)
(* Messages are memory cells that malloc hands out again after free, so    *)
(* that a pointer left dangling would be followed.                         *)
(***************************************************************************)
EXTENDS Integers, Sequences

CONSTANTS Senders,    \* threads that send to the actor
          Receiver,   \* the actor's own thread
          Cells,      \* the memory malloc may use for a Message
          MaxSends,   \* bound: messages each sender sends
          NULL        \* the null pointer; also "no thread"

Threads == Senders \cup {Receiver}

ASSUME QueueAssumption ==
  /\ Receiver \notin Senders
  /\ NULL \notin Threads \cup Cells
  /\ MaxSends \in Nat

VARIABLES
  head, tail,   \* queue->head and queue->tail
  next,         \* next[c]: the field next of the message at c
  content,      \* content[c]: the name and the arguments of the message at c
  mutex,        \* the owner of queue->mutex, NULL when it is free
  waitSet,      \* the threads blocked on queue->cond
  pc,           \* the statement each thread executes next
  own,          \* own[t]: the local variable msg of thread t
  allocated,    \* the cells malloc returned and nobody freed yet
  sent,         \* sent[s]: how many messages of s are linked in
  queued,       \* history: the cells linked in and not taken, oldest first
  delivered     \* history: what dequeue returned, in order

vars == <<head, tail, next, content, mutex, waitSet, pc, own, allocated,
          sent, queued, delivered>>

Message == [from : Senders, seq : 1 .. MaxSends]

SenderPc   == {"idle", "lock", "link", "setTail", "signal", "unlock"}
ReceiverPc == {"lock", "test", "wait", "take", "reset", "unlock", "handle"}

(* The statements executed with the mutex held.                            *)
Critical(t) ==
  pc[t] \in IF t = Receiver THEN {"test", "take", "reset", "unlock"}
                            ELSE {"link", "setTail", "signal", "unlock"}

GoTo(t, label) == pc' = [pc EXCEPT ![t] = label]

Last(s) == s[Len(s)]
-----------------------------------------------------------------------------
(***************************************************************************)
(* create_message_queue: no message, a fresh mutex and condition variable. *)
(***************************************************************************)
Init ==
  /\ head = NULL
  /\ tail = NULL
  /\ next \in [Cells -> {NULL}]
  /\ content \in [Cells -> {NULL}]
  /\ mutex = NULL
  /\ waitSet = {}
  /\ pc = [t \in Threads |-> IF t = Receiver THEN "lock" ELSE "idle"]
  /\ own = [t \in Threads |-> NULL]
  /\ allocated = {}
  /\ sent = [s \in Senders |-> 0]
  /\ queued = << >>
  /\ delivered = << >>

(* pthread_mutex_lock                                                      *)
Acquire(t) ==
  /\ mutex = NULL
  /\ mutex' = t

(* pthread_mutex_unlock                                                    *)
Release == mutex' = NULL
-----------------------------------------------------------------------------
(* msg->name, msg->args and msg->argc                                      *)
Written(s) == [from |-> s, seq |-> sent[s] + 1]

(* send_message: a new message that ends the list it will be linked to.    *)
SendMessage(s) ==
  /\ pc[s] = "idle"
  /\ sent[s] < MaxSends
  /\ \E c \in Cells \ allocated :
       /\ allocated' = allocated \cup {c}
       /\ own' = [own EXCEPT ![s] = c]
       /\ content' = [content EXCEPT ![c] = Written(s)]
       /\ next' = [next EXCEPT ![c] = NULL]
  /\ GoTo(s, "lock")
  /\ UNCHANGED <<head, tail, mutex, waitSet, sent, queued, delivered>>

EnqueueLock(s) ==
  /\ pc[s] = "lock"
  /\ Acquire(s)
  /\ GoTo(s, "link")
  /\ UNCHANGED <<head, tail, next, content, waitSet, own, allocated, sent,
                 queued, delivered>>

\* Mutant: the new message always becomes the head.
NeverBehind == FALSE

(* The test of queue->tail: is there a message to link behind?             *)
LinkBehind == tail # NULL

(* if (queue->tail) queue->tail->next = msg; else queue->head = msg;       *)
EnqueueLink(s) ==
  /\ pc[s] = "link"
  /\ \/ /\ LinkBehind
        /\ next' = [next EXCEPT ![tail] = own[s]]
        /\ UNCHANGED head
     \/ /\ ~LinkBehind
        /\ head' = own[s]
        /\ UNCHANGED next
  /\ queued' = Append(queued, own[s])
  /\ sent' = [sent EXCEPT ![s] = @ + 1]
  /\ GoTo(s, "setTail")
  /\ UNCHANGED <<tail, content, mutex, waitSet, own, allocated, delivered>>

\* Mutant: the tail only moves when the queue was empty.
TailKept(s) == IF tail = NULL THEN own[s] ELSE tail

(* queue->tail = msg                                                       *)
TailAfterLink(s) == own[s]

EnqueueSetTail(s) ==
  /\ pc[s] = "setTail"
  /\ tail' = TailAfterLink(s)
  /\ GoTo(s, "signal")
  /\ UNCHANGED <<head, next, content, mutex, waitSet, own, allocated, sent,
                 queued, delivered>>

\* Mutant: nobody is woken.
NoSignal == waitSet

(* pthread_cond_signal wakes one waiting thread; only the receiver waits.  *)
Signal == {}

EnqueueSignal(s) ==
  /\ pc[s] = "signal"
  /\ waitSet' = Signal
  /\ GoTo(s, "unlock")
  /\ UNCHANGED <<head, tail, next, content, mutex, own, allocated, sent,
                 queued, delivered>>

\* Mutant: the sender frees what it has given away.
EnqueueUnlockAndFree(s) ==
  /\ pc[s] = "unlock"
  /\ Release
  /\ allocated' = allocated \ {own[s]}
  /\ own' = [own EXCEPT ![s] = NULL]
  /\ GoTo(s, "idle")
  /\ UNCHANGED <<head, tail, next, content, waitSet, sent, queued, delivered>>

EnqueueUnlock(s) ==
  /\ pc[s] = "unlock"
  /\ Release
  /\ own' = [own EXCEPT ![s] = NULL]
  /\ GoTo(s, "idle")
  /\ UNCHANGED <<head, tail, next, content, waitSet, allocated, sent, queued,
                 delivered>>
-----------------------------------------------------------------------------
DequeueLock ==
  /\ pc[Receiver] = "lock"
  /\ Acquire(Receiver)
  /\ GoTo(Receiver, "test")
  /\ UNCHANGED <<head, tail, next, content, waitSet, own, allocated, sent,
                 queued, delivered>>

(* while (!queue->head): pthread_cond_wait gives the mutex back and falls  *)
(* asleep in one step.                                                     *)
DequeueWait ==
  /\ pc[Receiver] = "test"
  /\ head = NULL
  /\ waitSet' = {Receiver}
  /\ Release
  /\ GoTo(Receiver, "wait")
  /\ UNCHANGED <<head, tail, next, content, own, allocated, sent, queued,
                 delivered>>

DequeueFound ==
  /\ pc[Receiver] = "test"
  /\ head # NULL
  /\ GoTo(Receiver, "take")
  /\ UNCHANGED <<head, tail, next, content, mutex, waitSet, own, allocated,
                 sent, queued, delivered>>

\* Mutant: "if" instead of "while" around the wait.
TakeAfterWait == "take"

(* pthread_cond_wait returns with the mutex, and the loop tests again.     *)
AfterWait == "test"

DequeueResume ==
  /\ pc[Receiver] = "wait"
  /\ waitSet = {}
  /\ Acquire(Receiver)
  /\ GoTo(Receiver, AfterWait)
  /\ UNCHANGED <<head, tail, next, content, waitSet, own, allocated, sent,
                 queued, delivered>>

(* POSIX lets pthread_cond_wait return without a signal.                   *)
SpuriousWakeup ==
  /\ waitSet # {}
  /\ waitSet' = {}
  /\ UNCHANGED <<head, tail, next, content, mutex, pc, own, allocated, sent,
                 queued, delivered>>

(* Message* msg = queue->head; queue->head = msg->next;                    *)
DequeueTake ==
  /\ pc[Receiver] = "take"
  /\ own' = [own EXCEPT ![Receiver] = head]
  /\ head' = next[head]
  /\ queued' = Tail(queued)
  /\ delivered' = Append(delivered, content[head])
  /\ GoTo(Receiver, "reset")
  /\ UNCHANGED <<tail, next, content, mutex, waitSet, allocated, sent>>

(* if (!queue->head) queue->tail = NULL;                                   *)
TailAfterTake == IF head = NULL THEN NULL ELSE tail

DequeueReset ==
  /\ pc[Receiver] = "reset"
  /\ tail' = TailAfterTake
  /\ GoTo(Receiver, "unlock")
  /\ UNCHANGED <<head, next, content, mutex, waitSet, own, allocated, sent,
                 queued, delivered>>

DequeueUnlock ==
  /\ pc[Receiver] = "unlock"
  /\ Release
  /\ GoTo(Receiver, "handle")
  /\ UNCHANGED <<head, tail, next, content, waitSet, own, allocated, sent,
                 queued, delivered>>

(* actor_run: the handler has returned, free(msg), and the loop dequeues   *)
(* again.                                                                  *)
FreeMessage ==
  /\ pc[Receiver] = "handle"
  /\ allocated' = allocated \ {own[Receiver]}
  /\ own' = [own EXCEPT ![Receiver] = NULL]
  /\ GoTo(Receiver, "lock")
  /\ UNCHANGED <<head, tail, next, content, mutex, waitSet, sent, queued,
                 delivered>>
-----------------------------------------------------------------------------
SenderStep(s) ==
  \/ SendMessage(s)
  \/ EnqueueLock(s)
  \/ EnqueueLink(s)
  \/ EnqueueSetTail(s)
  \/ EnqueueSignal(s)
  \/ EnqueueUnlock(s)

ReceiverStep ==
  \/ DequeueLock
  \/ DequeueWait
  \/ DequeueFound
  \/ DequeueResume
  \/ DequeueTake
  \/ DequeueReset
  \/ DequeueUnlock
  \/ FreeMessage

Next ==
  \/ \E s \in Senders : SenderStep(s)
  \/ ReceiverStep
  \/ SpuriousWakeup

Spec == Init /\ [][Next]_vars

(***************************************************************************)
(* The operating system runs every thread that can run, and wakes a thread *)
(* out of pthread_cond_wait for no reason only finitely often.  Nothing is *)
(* assumed of who gets the mutex.                                          *)
(***************************************************************************)
Fairness ==
  /\ \A s \in Senders : WF_vars(SenderStep(s))
  /\ WF_vars(ReceiverStep)
  /\ <>[][~SpuriousWakeup]_vars

FairSpec == Spec /\ Fairness
-----------------------------------------------------------------------------
TypeOK ==
  /\ head \in Cells \cup {NULL}
  /\ tail \in Cells \cup {NULL}
  /\ next \in [Cells -> Cells \cup {NULL}]
  /\ content \in [Cells -> Message \cup {NULL}]
  /\ mutex \in Threads \cup {NULL}
  /\ waitSet \subseteq {Receiver}
  /\ pc \in [Threads -> SenderPc \cup ReceiverPc]
  /\ pc[Receiver] \in ReceiverPc
  /\ \A s \in Senders : pc[s] \in SenderPc
  /\ own \in [Threads -> Cells \cup {NULL}]
  /\ allocated \subseteq Cells
  /\ sent \in [Senders -> 0 .. MaxSends]
  /\ queued \in Seq(Cells)
  /\ delivered \in Seq(Message)

(* A thread is inside a critical section exactly while it owns the mutex:  *)
(* no two threads touch the list at once, and the receiver, asleep in      *)
(* pthread_cond_wait, does not keep the senders out.                       *)
MutualExclusion == \A t \in Threads : Critical(t) <=> mutex = t

(* The pointers spell the queue: head is its oldest cell, each cell points *)
(* to the next one and the last one to nothing.                            *)
ListShape ==
  /\ head = IF queued = << >> THEN NULL ELSE queued[1]
  /\ \A i \in 1 .. Len(queued) :
       next[queued[i]] = IF i = Len(queued) THEN NULL ELSE queued[i + 1]

(* tail is the last cell of the queue, and NULL for the empty queue, except*)
(* for the two moments, with the mutex held, when it lags one step behind. *)
TailIsLast ==
  IF \E s \in Senders : pc[s] = "setTail"
  THEN tail = IF Len(queued) = 1 THEN NULL ELSE queued[Len(queued) - 1]
  ELSE IF queued # << >> THEN tail = Last(queued)
  ELSE tail = IF pc[Receiver] = "reset" THEN own[Receiver] ELSE NULL

(* Who may touch a message: before it is linked its sender alone, then the *)
(* queue, then the receiver until it frees it.  Nothing is freed while any *)
(* other thread can reach it, so no list pointer dangles.                  *)
Private(t) == IF t = Receiver THEN pc[t] \in {"reset", "unlock", "handle"}
                              ELSE pc[t] \in {"lock", "link"}

Ownership ==
  /\ \A t \in Threads : Private(t) =>
       /\ own[t] \in allocated
       /\ \A i \in 1 .. Len(queued) : queued[i] # own[t]
       /\ \A u \in Threads : Private(u) /\ own[u] = own[t] => u = t
  /\ \A i \in 1 .. Len(queued) : queued[i] \in allocated
  /\ \A i, j \in 1 .. Len(queued) : queued[i] = queued[j] => i = j

(* The wake-up is never lost: a receiver asleep beside a queue that is not *)
(* empty has a sender about to signal it.                                  *)
NoLostWakeup ==
  waitSet # {} /\ queued # << >> => \E s \in Senders : pc[s] \in {"setTail", "signal"}

(* The loop around pthread_cond_wait: the receiver never follows a null    *)
(* head, though it may be woken with nothing to take.                      *)
NoNullDereference == pc[Receiver] = "take" => head # NULL

(* The abstract queue the pointers stand for.                              *)
Box == INSTANCE Mailbox
         WITH mailbox <- [i \in 1 .. Len(queued) |-> content[queued[i]]]

(* The linked list, with its mutex and condition variable, implements the  *)
(* mailbox: every statement is a Put, a Take or invisible.                 *)
ImplementsMailbox == Box!Spec

(* Whatever the interleaving of the threads, the messages of one sender    *)
(* reach the actor in the order they were sent, once each, none missing.   *)
DeliversExactlyOnceInOrder == Box!InOrder /\ Box!Complete

(* Every message that was linked in is eventually taken by the actor.      *)
EveryMessageTaken ==
  \A s \in Senders, n \in 1 .. MaxSends :
    n <= sent[s] ~> \E i \in 1 .. Len(delivered) :
                       delivered[i] = [from |-> s, seq |-> n]
=============================================================================
