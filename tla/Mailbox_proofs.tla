---------------------------- MODULE Mailbox_proofs ----------------------------
(***************************************************************************)
(* The mailbox delivers the messages of each sender exactly once and in    *)
(* order, for any senders and any number of messages.                      *)
(***************************************************************************)
EXTENDS Mailbox, SequenceTheorems, TLAPS

LEMMA HistoryOfPut ==
  ASSUME NEW S, NEW d \in Seq(S), NEW m \in Seq(S), NEW e \in S
  PROVE  d \o Append(m, e) = Append(d \o m, e)
  OBVIOUS

LEMMA HistoryOfTake ==
  ASSUME NEW S, NEW d \in Seq(S), NEW m \in Seq(S), m # << >>
  PROVE  Append(d, Head(m)) \o Tail(m) = d \o m
  OBVIOUS

IInv == TypeOK /\ InOrder /\ Complete

LEMMA InitIInv == ASSUME MaxSends \in Nat, Init PROVE IInv
  <1>1. TypeOK
    BY DEF Init, TypeOK
  <1>2. Len(History) = 0
    BY DEF Init, History
  <1> QED
    BY <1>1, <1>2 DEF Init, IInv, InOrder, Complete

(* A message put in is newer than all its sender put in before.            *)
LEMMA PutStep ==
  ASSUME MaxSends \in Nat, IInv, NEW s \in Senders, Put(s)
  PROVE  IInv'
  <1> DEFINE e == [from |-> s, seq |-> sent[s] + 1]
  <1>1. /\ mailbox \in Seq(Message) /\ delivered \in Seq(Message)
        /\ sent \in [Senders -> 0 .. MaxSends] /\ sent[s] \in Nat
    BY DEF IInv, TypeOK
  <1>2. sent[s] + 1 \in 1 .. MaxSends
    BY <1>1 DEF Put
  <1>3. e \in Message
    BY <1>2 DEF Message
  <1>4. TypeOK'
    BY <1>1, <1>2, <1>3 DEF Put, TypeOK
  <1>5. History \in Seq(Message) /\ History' = Append(History, e)
    BY <1>1, <1>3, HistoryOfPut DEF Put, History
  <1> DEFINE n == Len(History)
  <1>6. /\ n \in Nat /\ Len(History') = n + 1
        /\ \A i \in 1 .. n : History'[i] = History[i]
        /\ History'[n + 1] = e
    BY <1>3, <1>5
  <1>7. \A i \in 1 .. n : History[i] \in Message
    BY <1>5
  <1>8. \A i \in 1 .. n : History[i].from = s => History[i].seq <= sent[s]
    <2> SUFFICES ASSUME NEW i \in 1 .. n, History[i].from = s
                 PROVE History[i].seq <= sent[s]
      OBVIOUS
    <2>1. History[i] = [from |-> s, seq |-> History[i].seq]
          /\ History[i].seq \in 1 .. MaxSends
      BY <1>7 DEF Message
    <2> QED
      BY <2>1 DEF IInv, Complete
  <1>9. InOrder'
    <2> SUFFICES ASSUME NEW i \in 1 .. n + 1, NEW j \in 1 .. n + 1, i < j,
                        History'[i].from = History'[j].from
                 PROVE  History'[i].seq < History'[j].seq
      BY <1>6 DEF InOrder
    <2>1. CASE j = n + 1
      <3>1. i \in 1 .. n /\ History[i].from = s /\ History'[j].seq = sent[s] + 1
        BY <1>6, <2>1
      <3>2. History[i].seq \in Nat
        BY <1>7, <3>1 DEF Message
      <3> QED
        BY <1>1, <1>6, <1>8, <3>1, <3>2
    <2>2. CASE j \in 1 .. n
      BY <1>6, <2>2 DEF IInv, InOrder
    <2> QED
      BY <1>6, <2>1, <2>2
  <1>10. Complete'
    <2> SUFFICES ASSUME NEW t \in Senders, NEW k \in 1 .. MaxSends
                 PROVE k <= sent'[t] <=> \E i \in 1 .. n + 1 :
                                            History'[i] = [from |-> t, seq |-> k]
      BY <1>6 DEF Complete
    <2>1. k <= sent[t] <=> \E i \in 1 .. n : History[i] = [from |-> t, seq |-> k]
      BY DEF IInv, Complete
    <2>2. (\E i \in 1 .. n + 1 : History'[i] = [from |-> t, seq |-> k])
          <=> (\E i \in 1 .. n : History[i] = [from |-> t, seq |-> k])
              \/ e = [from |-> t, seq |-> k]
      BY <1>6
    <2>3. e = [from |-> t, seq |-> k] <=> t = s /\ k = sent[s] + 1
      OBVIOUS
    <2>4. sent'[t] = IF t = s THEN sent[s] + 1 ELSE sent[t]
      BY <1>1 DEF Put
    <2> QED
      BY <1>1, <2>1, <2>2, <2>3, <2>4
  <1> QED
    BY <1>4, <1>9, <1>10 DEF IInv

LEMMA TakeStep == ASSUME IInv, Take PROVE IInv'
  <1>1. mailbox \in Seq(Message) /\ delivered \in Seq(Message)
    BY DEF IInv, TypeOK
  <1>2. TypeOK'
    BY <1>1 DEF Take, IInv, TypeOK
  <1>3. History' = History
    BY <1>1, HistoryOfTake DEF Take, History
  <1> QED
    BY <1>2, <1>3 DEF Take, IInv, InOrder, Complete

LEMMA StutterStep == ASSUME IInv, UNCHANGED vars PROVE IInv'
  BY SMTT(30) DEF vars, IInv, TypeOK, InOrder, Complete, History

(* The messages of one sender are taken in the order it sent them, each    *)
(* once, and none of them is missing or invented.                          *)
THEOREM ExactlyOnceInOrder ==
  ASSUME MaxSends \in Nat
  PROVE  Spec => [](TypeOK /\ InOrder /\ Complete)
  <1>1. IInv /\ [Next]_vars => IInv'
    BY PutStep, TakeStep, StutterStep DEF Next
  <1>2. Init => IInv
    BY InitIInv
  <1>3. Spec => []IInv
    BY <1>1, <1>2, PTL DEF Spec
  <1> QED
    BY <1>3, PTL DEF IInv
=============================================================================
