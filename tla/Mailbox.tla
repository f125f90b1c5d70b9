------------------------------- MODULE Mailbox -------------------------------
(***************************************************************************)
(* What an actor's message queue promises to the threads that use it: a    *)
(* first-in first-out buffer, filled by any number of senders and emptied  *)
(* by the one actor that owns it.  MessageQueue.tla, the linked list with  *)
(* its mutex and its condition variable, is shown to implement this module.*)
(***************************************************************************)
EXTENDS Integers, Sequences

CONSTANTS Senders,   \* the threads that call send_message
          MaxSends   \* how many messages each of them sends

VARIABLES sent,       \* sent[s]: how many messages s has put in the mailbox
          mailbox,    \* the messages put and not yet taken, oldest first
          delivered   \* the messages taken by the owner, in order

vars == <<sent, mailbox, delivered>>

(***************************************************************************)
(* A message is told apart by its sender and its rank among the messages   *)
(* of that sender; its event number and its arguments do not matter here.  *)
(***************************************************************************)
Message == [from : Senders, seq : 1 .. MaxSends]

Init ==
  /\ sent = [s \in Senders |-> 0]
  /\ mailbox = << >>
  /\ delivered = << >>

Put(s) ==
  /\ sent[s] < MaxSends
  /\ sent' = [sent EXCEPT ![s] = @ + 1]
  /\ mailbox' = Append(mailbox, [from |-> s, seq |-> sent[s] + 1])
  /\ UNCHANGED delivered

Take ==
  /\ mailbox # << >>
  /\ delivered' = Append(delivered, Head(mailbox))
  /\ mailbox' = Tail(mailbox)
  /\ UNCHANGED sent

Next == Take \/ \E s \in Senders : Put(s)

Spec == Init /\ [][Next]_vars

FairSpec == Spec /\ WF_vars(Take)
-----------------------------------------------------------------------------
TypeOK ==
  /\ sent \in [Senders -> 0 .. MaxSends]
  /\ mailbox \in Seq(Message)
  /\ delivered \in Seq(Message)

(***************************************************************************)
(* Everything ever put, in the order the owner gets to see it.             *)
(***************************************************************************)
History == delivered \o mailbox

(* Two messages of one sender are delivered in the order they were sent,   *)
(* and none of them twice.                                                 *)
InOrder ==
  \A i, j \in 1 .. Len(History) :
    i < j /\ History[i].from = History[j].from
      => History[i].seq < History[j].seq

(* No message is invented and none is lost: those of s are exactly its     *)
(* first sent[s] ones.                                                     *)
Complete ==
  \A s \in Senders, n \in 1 .. MaxSends :
    n <= sent[s] <=> \E i \in 1 .. Len(History) :
                        History[i] = [from |-> s, seq |-> n]
=============================================================================
