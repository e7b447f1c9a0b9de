---------------------------- MODULE NetsimProofs ----------------------------
(***************************************************************************)
(* One port of the simulated network, for any number of senders and        *)
(* receivers, any delays, any number of messages, with and without loss:   *)
(* no receiver sleeps over a message, none that waits leaves one unread    *)
(* for longer than receive_delay_, and each sender has a queue (Link).     *)
(*                                                                         *)
(* The order of the queue rests on the clock.  A channel sends again only  *)
(* after send_delay_ > 0, so of two messages of one sender that are under  *)
(* way the older is nearer to its delivery (FlyingOK); every message       *)
(* enters the queue at age link_delay_, behind messages of that age or     *)
(* more (QueueOK, ArrivedOK).                                              *)
(***************************************************************************)
EXTENDS Netsim, SequenceTheorems, TLAPS

\* The queue, in the order of age and, for each sender, of number.
QueueOK ==
    \A i, j \in DOMAIN queue : i < j =>
        /\ queue[i].age >= queue[j].age
        /\ queue[i].from = queue[j].from => queue[i].n < queue[j].n

\* What is in the queue was sent, and before what is still on its way.
ArrivedOK ==
    \A i \in DOMAIN queue :
        /\ queue[i].age >= LinkDelay
        /\ queue[i].n <= sent[queue[i].from]
        /\ \A m \in flying : m.from = queue[i].from => queue[i].n < m.n

\* Of one sender's messages on their way, the older number is the older
\* message; the youngest is as old as the sender has been busy.
FlyingOK ==
    \A m \in flying :
        /\ m.n <= sent[m.from]
        /\ busy[m.from] + m.age >= SendDelay
        /\ \A f \in flying : f.from = m.from =>
              /\ m.n < f.n => m.age > f.age
              /\ m.n = f.n => m = f

\* Receivers asleep, woken and delayed have seen nothing older than that.
ReceiverOK(s, q) ==
    /\ s.pc = "armed" => q = << >>
    /\ \A i \in DOMAIN q :
          /\ s.pc = "woken" => q[i].age <= LinkDelay
          /\ s.pc = "delayed" => q[i].age <= LinkDelay + ReceiveDelay - s.left

IInv ==
    /\ TypeOK
    /\ QueueOK
    /\ ArrivedOK
    /\ FlyingOK
    /\ \A r \in Receiver : ReceiverOK(rcv[r], queue)

-----------------------------------------------------------------------------
(* Queues.                                                                 *)

\* A queue that got a message at its end.
LEMMA Longer ==
    ASSUME NEW S, NEW q \in Seq(S), NEW m \in S, NEW p, p = Append(q, m)
    PROVE  /\ p \in Seq(S)
           /\ DOMAIN q = 1 .. Len(q) /\ Len(q) \in Nat
           /\ DOMAIN p = 1 .. Len(q) + 1
           /\ \A i \in DOMAIN q : i \in DOMAIN p /\ p[i] = q[i]
           /\ p[Len(q) + 1] = m
BY AppendProperties, LenProperties

\* A queue without its first message.
LEMMA Shorter ==
    ASSUME NEW S, NEW q \in Seq(S), q # << >>, NEW p, p = Tail(q)
    PROVE  /\ p \in Seq(S)
           /\ 1 \in DOMAIN q /\ q[1] = Head(q) /\ q[1] \in S
           /\ \A i \in DOMAIN q : i \in Nat /\ q[i] \in S
           /\ \A i \in DOMAIN p : i \in Nat /\ i + 1 \in DOMAIN q /\ p[i] = q[i + 1]
           /\ \A i \in DOMAIN q : i # 1 => i - 1 \in DOMAIN p /\ q[i] = p[i - 1]
<1>1. Len(q) \in Nat /\ Len(q) > 0 /\ DOMAIN q = 1 .. Len(q)
  BY EmptySeq, LenProperties
<1>2. /\ Head(q) = q[1] /\ \A i \in 1 .. Len(q) : q[i] \in S
  BY <1>1, ElementOfSeq, HeadTailProperties
<1>3. /\ p \in Seq(S) /\ Len(p) = Len(q) - 1
      /\ \A i \in 1 .. Len(p) : p[i] = q[i + 1]
  BY HeadTailProperties
<1>4. DOMAIN p = 1 .. Len(q) - 1
  BY <1>3, LenProperties
<1> QED  BY <1>1, <1>2, <1>3, <1>4

\* A message's fields.
LEMMA MessageFields ==
    ASSUME NEW m \in Message
    PROVE  m.from \in Sender /\ m.n \in 1 .. MaxSent /\ m.n \in Nat /\ m.age \in Nat
           /\ m.age <= MaxAge
BY NetsimAssumption DEF Message, MaxAge

\* The indices and the elements of the queue.
LEMMA InTheQueue ==
    ASSUME queue \in Seq(Message), NEW i \in DOMAIN queue
    PROVE  i \in Nat /\ queue[i] \in Message
BY LenProperties, ElementOfSeq

-----------------------------------------------------------------------------

LEMMA InitIInv == Init => IInv
<1> SUFFICES ASSUME Init PROVE IInv
  OBVIOUS
<1>1. TypeOK
  BY NetsimAssumption DEF Init, TypeOK, Idle
<1>2. queue = << >> /\ flying = {} /\ DOMAIN queue = {}
  BY DEF Init
<1>3. \A r \in Receiver : ReceiverOK(rcv[r], queue)
  BY <1>2 DEF ReceiverOK
<1> QED  BY <1>1, <1>2, <1>3 DEF IInv, QueueOK, ArrivedOK, FlyingOK

\* A new message is the youngest of its sender's.
LEMMA SendIInv ==
    ASSUME IInv, NEW s \in Sender, Send(s)
    PROVE  IInv'
<1> USE NetsimAssumption
<1> DEFINE m == [from |-> s, n |-> sent[s] + 1, age |-> 0]
<1>1. /\ busy[s] = 0 /\ sent[s] < MaxSent
      /\ sent' = [sent EXCEPT ![s] = @ + 1]
      /\ busy' = [busy EXCEPT ![s] = SendDelay]
      /\ flying' = flying \union {m} \/ flying' = flying
      /\ queue' = queue /\ rcv' = rcv /\ received' = received
  BY DEF Send, SendTakes
<1>2. TypeOK
  BY DEF IInv
<1>3. /\ sent[s] \in Nat /\ sent'[s] = sent[s] + 1 /\ busy'[s] = SendDelay
      /\ \A t \in Sender \ {s} : sent'[t] = sent[t] /\ busy'[t] = busy[t]
      /\ \A t \in Sender : sent[t] \in Nat /\ busy[t] \in Nat
  BY <1>1, <1>2 DEF TypeOK
<1>4. m \in Message /\ m.age <= LinkDelay
  BY <1>1, <1>3 DEF Message, MaxAge
<1>5. TypeOK'
  BY <1>1, <1>2, <1>3, <1>4 DEF TypeOK
<1>6. \A f \in flying : f \in Message
  BY <1>2 DEF TypeOK
<1>7. QueueOK' /\ \A r \in Receiver : ReceiverOK(rcv'[r], queue')
  BY <1>1 DEF IInv, QueueOK
<1>8. ArrivedOK'
  <2> SUFFICES ASSUME NEW i \in DOMAIN queue
               PROVE  /\ queue[i].age >= LinkDelay
                      /\ queue[i].n <= sent'[queue[i].from]
                      /\ \A f \in flying' : f.from = queue[i].from => queue[i].n < f.n
    BY <1>1 DEF ArrivedOK
  <2>1. queue[i] \in Message
    BY <1>2, InTheQueue DEF TypeOK
  <2>2. queue[i].from \in Sender /\ queue[i].n \in Nat
    BY <2>1, MessageFields
  <2>3. /\ queue[i].age >= LinkDelay
        /\ queue[i].n <= sent[queue[i].from]
        /\ \A f \in flying : f.from = queue[i].from => queue[i].n < f.n
    BY DEF IInv, ArrivedOK
  <2>4. m.from = s /\ m.n = sent[s] + 1
    OBVIOUS
  <2> HIDE DEF m
  <2> QED  BY <1>1, <1>3, <2>2, <2>3, <2>4
<1>9. FlyingOK'
  <2> DEFINE Good(x, y) == y.from = x.from =>
                              /\ x.n < y.n => x.age > y.age
                              /\ x.n = y.n => x = y
  <2>1. m.from = s /\ m.n = sent[s] + 1 /\ m.age = 0
    OBVIOUS
  <2> HIDE DEF m
  <2>2. ASSUME NEW x \in flying
        PROVE  /\ x.n <= sent'[x.from] /\ busy'[x.from] + x.age >= SendDelay
               /\ x.from = s => x.n < m.n /\ x.age > m.age
    <3>1. x.from \in Sender /\ x.n \in Nat /\ x.age \in Nat
      BY <1>6, MessageFields
    <3>2. x.n <= sent[x.from] /\ busy[x.from] + x.age >= SendDelay
      BY DEF IInv, FlyingOK
    <3> QED  BY <1>1, <1>3, <2>1, <3>1, <3>2
  <2>3. m.n <= sent'[m.from] /\ busy'[m.from] + m.age >= SendDelay
    BY <1>3, <2>1
  <2>4. \A x \in flying : \A y \in flying : Good(x, y)
    BY DEF IInv, FlyingOK
  <2>5. \A x \in flying : Good(x, m) /\ Good(m, x)
    <3> SUFFICES ASSUME NEW x \in flying, x.from = m.from
                 PROVE  x.n < m.n /\ x.age > m.age /\ ~ (m.n < x.n) /\ m.n # x.n
      OBVIOUS
    <3>1. x.n \in Nat /\ m.n \in Nat
      BY <1>3, <1>6, <2>1, MessageFields
    <3> QED  BY <2>1, <2>2, <3>1
  <2>6. Good(m, m)
    BY <1>3, <2>1
  <2> HIDE DEF Good
  <2>7. \A x \in flying' : /\ x.n <= sent'[x.from] /\ busy'[x.from] + x.age >= SendDelay
                           /\ \A y \in flying' : Good(x, y)
    BY <1>1, <2>2, <2>3, <2>4, <2>5, <2>6
  <2> QED  BY <2>7 DEF FlyingOK, Good
<1> QED  BY <1>5, <1>7, <1>8, <1>9 DEF IInv

\* A delivery puts the message behind those that have arrived, and wakes
\* everyone who sleeps over the queue, which was empty.
LEMMA DeliverIInv ==
    ASSUME IInv, NEW m \in flying, Deliver(m)
    PROVE  IInv'
<1> USE NetsimAssumption
<1>1. /\ m.age = LinkDelay /\ flying' = flying \ {m} /\ queue' = Append(queue, m)
      /\ sent' = sent /\ busy' = busy /\ received' = received
      /\ rcv' = Triggered
  BY DEF Deliver, Enqueued
<1>2. /\ TypeOK /\ queue \in Seq(Message) /\ m \in Message
      /\ \A f \in flying : f \in Message /\ f.age <= LinkDelay
  BY DEF IInv, TypeOK
<1>3. /\ queue' \in Seq(Message) /\ Len(queue) \in Nat
      /\ DOMAIN queue = 1 .. Len(queue) /\ DOMAIN queue' = 1 .. Len(queue) + 1
      /\ \A i \in DOMAIN queue : i \in DOMAIN queue' /\ queue'[i] = queue[i]
      /\ queue'[Len(queue) + 1] = m
  BY <1>1, <1>2, Longer
<1>4. \A i \in DOMAIN queue' : i \in DOMAIN queue \/ i = Len(queue) + 1
  BY <1>3
<1>5. \A r \in Receiver : rcv'[r] = IF rcv[r].pc = "armed"
                                    THEN [rcv[r] EXCEPT !.pc = "woken"] ELSE rcv[r]
  BY <1>1 DEF Triggered
<1>6. TypeOK'
  BY <1>1, <1>2, <1>3 DEF TypeOK, Triggered
<1>7. \A i \in DOMAIN queue : queue[i] \in Message
  BY <1>2, InTheQueue
<1>8. /\ \A i \in DOMAIN queue : /\ queue[i].age >= LinkDelay
                                 /\ queue[i].n <= sent[queue[i].from]
                                 /\ \A f \in flying : f.from = queue[i].from => queue[i].n < f.n
      /\ m.n <= sent[m.from]
  BY DEF IInv, ArrivedOK, FlyingOK
<1>9. QueueOK'
  <2> SUFFICES ASSUME NEW i \in DOMAIN queue', NEW j \in DOMAIN queue', i < j
               PROVE  /\ queue'[i].age >= queue'[j].age
                      /\ queue'[i].from = queue'[j].from => queue'[i].n < queue'[j].n
    BY DEF QueueOK
  <2>1. i \in DOMAIN queue
    BY <1>3
  <2>2. CASE j \in DOMAIN queue
    BY <1>3, <2>1, <2>2 DEF IInv, QueueOK
  <2>3. CASE j = Len(queue) + 1
    BY <1>1, <1>3, <1>8, <2>1, <2>3
  <2> QED  BY <1>4, <2>2, <2>3
<1>10. \A f \in flying' : f.from = m.from => m.n < f.n
  <2> SUFFICES ASSUME NEW f \in flying, f # m, f.from = m.from
               PROVE  m.n < f.n
    BY <1>1
  <2>1. f.n \in Nat /\ m.n \in Nat /\ f.age \in Nat
    BY <1>2, MessageFields
  <2>2. (f.n < m.n => f.age > m.age) /\ (f.n = m.n => f = m)
    BY DEF IInv, FlyingOK
  <2> QED  BY <1>1, <1>2, <2>1, <2>2
<1>11. ArrivedOK'
  <2> SUFFICES ASSUME NEW i \in DOMAIN queue'
               PROVE  /\ queue'[i].age >= LinkDelay
                      /\ queue'[i].n <= sent[queue'[i].from]
                      /\ \A f \in flying' : f.from = queue'[i].from => queue'[i].n < f.n
    BY <1>1 DEF ArrivedOK
  <2>1. CASE i \in DOMAIN queue
    BY <1>1, <1>3, <1>8, <2>1
  <2>2. CASE i = Len(queue) + 1
    BY <1>1, <1>3, <1>8, <1>10, <2>2
  <2> QED  BY <1>4, <2>1, <2>2
<1>12. FlyingOK'
  BY <1>1 DEF IInv, FlyingOK
<1>13. ASSUME NEW r \in Receiver
       PROVE  ReceiverOK(rcv'[r], queue')
  <2>1. /\ rcv[r].pc \in {"idle", "armed", "woken", "delayed", "resolving"}
        /\ rcv[r].left \in 0 .. ReceiveDelay
        /\ rcv[r] \in [pc : {"idle", "armed", "woken", "delayed", "resolving"},
                       left : 0 .. ReceiveDelay]
    BY <1>2 DEF TypeOK
  <2>2. ReceiverOK(rcv[r], queue)
    BY DEF IInv
  <2>3. CASE rcv[r].pc = "armed"
    <3>1. queue = << >> /\ rcv'[r].pc = "woken"
      BY <1>5, <2>1, <2>2, <2>3 DEF ReceiverOK
    <3>2. \A i \in DOMAIN queue' : queue'[i].age <= LinkDelay
      <4>1. DOMAIN queue = {}
        BY <3>1
      <4> QED  BY <1>1, <1>3, <1>4, <4>1
    <3> QED  BY <3>1, <3>2 DEF ReceiverOK
  <2>4. CASE rcv[r].pc # "armed"
    <3>1. rcv'[r] = rcv[r]
      BY <1>5, <2>4
    <3>2. \A i \in DOMAIN queue : /\ rcv[r].pc = "woken" => queue[i].age <= LinkDelay
                                  /\ rcv[r].pc = "delayed" =>
                                        queue[i].age <= LinkDelay + ReceiveDelay - rcv[r].left
      BY <2>2 DEF ReceiverOK
    <3>3. LinkDelay <= LinkDelay + ReceiveDelay - rcv[r].left
      BY <2>1
    <3>4. \A i \in DOMAIN queue' : /\ rcv[r].pc = "woken" => queue'[i].age <= LinkDelay
                                   /\ rcv[r].pc = "delayed" =>
                                        queue'[i].age <= LinkDelay + ReceiveDelay - rcv[r].left
      <4> SUFFICES ASSUME NEW i \in DOMAIN queue'
                   PROVE  /\ rcv[r].pc = "woken" => queue'[i].age <= LinkDelay
                          /\ rcv[r].pc = "delayed" =>
                                queue'[i].age <= LinkDelay + ReceiveDelay - rcv[r].left
        OBVIOUS
      <4>1. CASE i \in DOMAIN queue
        BY <1>3, <3>2, <4>1
      <4>2. CASE i = Len(queue) + 1
        BY <1>1, <1>3, <3>3, <4>2
      <4> QED  BY <1>4, <4>1, <4>2
    <3> QED  BY <2>4, <3>1, <3>4 DEF ReceiverOK
  <2> QED  BY <2>3, <2>4
<1> QED  BY <1>6, <1>9, <1>11, <1>12, <1>13 DEF IInv

\* A receiver that moves, and takes the first message or none.
LEMMA ReceiverMoves ==
    ASSUME IInv, NEW r \in Receiver,
           NEW t \in [pc : {"idle", "armed", "woken", "delayed", "resolving"},
                      left : 0 .. ReceiveDelay],
           rcv' = [rcv EXCEPT ![r] = t],
           queue' = queue \/ (queue # << >> /\ queue' = Tail(queue)),
           ReceiverOK(t, queue'),
           UNCHANGED <<sent, busy, flying>>, received' \in [Sender -> 0 .. MaxSent]
    PROVE  IInv'
<1>1. TypeOK /\ queue \in Seq(Message)
  BY DEF IInv, TypeOK
<1>2. CASE queue' = queue
  <2>1. TypeOK' /\ \A x \in Receiver \ {r} : rcv'[x] = rcv[x]
    BY <1>1, <1>2 DEF TypeOK
  <2>2. \A x \in Receiver : ReceiverOK(rcv'[x], queue')
    <3>1. rcv'[r] = t
      BY <1>1 DEF TypeOK
    <3> QED  BY <1>2, <2>1, <3>1 DEF IInv
  <2> QED  BY <1>2, <2>1, <2>2 DEF IInv, QueueOK, ArrivedOK, FlyingOK
<1>3. CASE queue # << >> /\ queue' = Tail(queue)
  <2>1. /\ queue' \in Seq(Message)
        /\ \A i \in DOMAIN queue' : i \in Nat /\ i + 1 \in DOMAIN queue /\ queue'[i] = queue[i + 1]
    BY <1>1, <1>3, Shorter
  <2>2. TypeOK' /\ \A x \in Receiver \ {r} : rcv'[x] = rcv[x]
    BY <1>1, <2>1 DEF TypeOK
  <2>3. QueueOK'
    <3> SUFFICES ASSUME NEW i \in DOMAIN queue', NEW j \in DOMAIN queue', i < j
                 PROVE  /\ queue'[i].age >= queue'[j].age
                        /\ queue'[i].from = queue'[j].from => queue'[i].n < queue'[j].n
      BY DEF QueueOK
    <3>1. i + 1 < j + 1
      BY <2>1
    <3> QED  BY <2>1, <3>1 DEF IInv, QueueOK
  <2>4. ArrivedOK' /\ FlyingOK'
    BY <2>1 DEF IInv, ArrivedOK, FlyingOK
  <2>5. \A x \in Receiver : ReceiverOK(rcv'[x], queue')
    <3>1. rcv'[r] = t
      BY <1>1 DEF TypeOK
    <3>2. \A x \in Receiver \ {r} : ReceiverOK(rcv[x], queue')
      BY <1>3, <2>1 DEF IInv, ReceiverOK
    <3> QED  BY <2>2, <3>1, <3>2
  <2> QED  BY <2>2, <2>3, <2>4, <2>5 DEF IInv
<1> QED  BY <1>2, <1>3

\* Whoever goes round the loop sleeps only over an empty queue.
LEMMA LoopIInv ==
    ASSUME IInv, NEW r \in Receiver, Loop(r), UNCHANGED <<sent, busy, flying, received>>
    PROVE  IInv'
<1> DEFINE t == [pc |-> IF queue = << >> THEN "armed" ELSE "resolving", left |-> 0]
<1>1. rcv' = [rcv EXCEPT ![r] = t] /\ queue' = queue
  BY DEF Loop, At
<1>2. t \in [pc : {"idle", "armed", "woken", "delayed", "resolving"}, left : 0 .. ReceiveDelay]
  BY NetsimAssumption
<1>3. ReceiverOK(t, queue)
  BY DEF ReceiverOK
<1>4. received' \in [Sender -> 0 .. MaxSent]
  BY DEF IInv, TypeOK
<1> HIDE DEF t
<1> QED  BY <1>1, <1>2, <1>3, <1>4, ReceiverMoves

\* The steps of a receiver.
LEMMA ReceiverIInv ==
    ASSUME IInv, NEW r \in Receiver, Call(r) \/ Step(r) \/ Cancel(r)
    PROVE  IInv'
<1> USE NetsimAssumption
<1>1. /\ received \in [Sender -> 0 .. MaxSent] /\ queue \in Seq(Message)
      /\ ReceiverOK(rcv[r], queue)
  BY DEF IInv, TypeOK
<1>2. ASSUME NEW pc \in {"idle", "resolving"}, At(r, pc), queue' = queue,
             UNCHANGED <<sent, busy, flying, received>>
      PROVE  IInv'
  <2> DEFINE t == [pc |-> pc, left |-> 0]
  <2>1. /\ t \in [pc : {"idle", "armed", "woken", "delayed", "resolving"},
                  left : 0 .. ReceiveDelay]
        /\ rcv' = [rcv EXCEPT ![r] = t] /\ ReceiverOK(t, queue)
    BY <1>2 DEF At, ReceiverOK
  <2> HIDE DEF t
  <2> QED  BY <1>1, <1>2, <2>1, ReceiverMoves
<1>3. CASE Call(r) \/ Delayed(r)
  BY <1>3, LoopIInv DEF Call, Delayed
<1>4. CASE Wake(r)
  <2> DEFINE t == [pc |-> "delayed", left |-> ReceiveDelay]
  <2>1. /\ t \in [pc : {"idle", "armed", "woken", "delayed", "resolving"},
                  left : 0 .. ReceiveDelay]
        /\ rcv' = [rcv EXCEPT ![r] = t] /\ queue' = queue
        /\ UNCHANGED <<sent, busy, flying, received>>
    BY <1>4 DEF Wake
  <2>2. ReceiverOK(t, queue)
    <3>1. \A i \in DOMAIN queue : queue[i].age <= LinkDelay
      BY <1>1, <1>4 DEF ReceiverOK, Wake
    <3> QED  BY <3>1 DEF ReceiverOK
  <2> HIDE DEF t
  <2> QED  BY <1>1, <2>1, <2>2, ReceiverMoves
<1>5. CASE Take(r)
  <2>1. CASE queue = << >>
    BY <1>5, <2>1, LoopIInv DEF Take
  <2>2. CASE queue # << >>
    <3> DEFINE t == [pc |-> "idle", left |-> 0]
    <3>1. /\ rcv' = [rcv EXCEPT ![r] = t] /\ queue' = Tail(queue)
          /\ UNCHANGED <<sent, busy, flying>>
          /\ received' = [received EXCEPT ![Head(queue).from] = Head(queue).n]
      BY <1>5, <2>2 DEF Take, At
    <3>2. Head(queue) \in Message
      BY <1>1, <2>2, HeadTailProperties
    <3>3. received' \in [Sender -> 0 .. MaxSent]
      BY <1>1, <3>1, <3>2, MessageFields
    <3>4. /\ t \in [pc : {"idle", "armed", "woken", "delayed", "resolving"},
                    left : 0 .. ReceiveDelay]
          /\ ReceiverOK(t, queue')
      BY DEF ReceiverOK
    <3> HIDE DEF t
    <3> QED  BY <2>2, <3>1, <3>3, <3>4, ReceiverMoves
  <2> QED  BY <2>1, <2>2
<1>6. CASE Cancel(r)
  BY <1>2, <1>6 DEF Cancel
<1> QED  BY <1>3, <1>4, <1>5, <1>6 DEF Step

\* A message that is a millisecond older.
LEMMA OlderFields ==
    ASSUME NEW m \in Message
    PROVE  /\ Older(m) \in Message /\ Older(m).from = m.from /\ Older(m).n = m.n
           /\ Older(m).age = IF m.age < MaxAge THEN m.age + 1 ELSE m.age
BY NetsimAssumption DEF Older, Message, MaxAge

\* Time passes for everyone, and nobody is woken or due.
LEMMA TickIInv ==
    ASSUME IInv, Tick
    PROVE  IInv'
<1> USE NetsimAssumption
<1>1. /\ Quiet /\ sent' = sent /\ received' = received
      /\ busy' = [s \in Sender |-> Sooner(busy[s])]
      /\ flying' = {Older(m) : m \in flying}
      /\ queue' = [i \in DOMAIN queue |-> Older(queue[i])]
      /\ rcv' = [r \in Receiver |-> [rcv[r] EXCEPT !.left = Sooner(@)]]
  BY DEF Tick
<1>2. /\ TypeOK /\ queue \in Seq(Message) /\ Len(queue) \in Nat /\ DOMAIN queue = 1 .. Len(queue)
      /\ \A f \in flying : f \in Message /\ f.age < LinkDelay
  BY <1>1, LenProperties DEF IInv, TypeOK, Quiet
<1>3. \A i \in DOMAIN queue : queue[i] \in Message
  BY <1>2, InTheQueue
<1>4. /\ \A f \in flying : /\ Older(f) \in Message /\ Older(f).from = f.from
                           /\ Older(f).n = f.n /\ Older(f).age = f.age + 1
                           /\ Older(f).age <= LinkDelay
  <2> SUFFICES ASSUME NEW f \in flying
               PROVE  /\ Older(f) \in Message /\ Older(f).from = f.from
                      /\ Older(f).n = f.n /\ Older(f).age = f.age + 1
                      /\ Older(f).age <= LinkDelay
    OBVIOUS
  <2>1. f.age < MaxAge /\ f.age \in Nat
    BY <1>2, MessageFields DEF MaxAge
  <2> QED  BY <1>2, <2>1, OlderFields
<1>5. /\ DOMAIN queue' = DOMAIN queue /\ queue' \in Seq(Message)
      /\ \A i \in DOMAIN queue :
            /\ queue'[i].from = queue[i].from /\ queue'[i].n = queue[i].n
            /\ queue'[i].age = IF queue[i].age < MaxAge THEN queue[i].age + 1 ELSE queue[i].age
  <2>1. DOMAIN queue' = DOMAIN queue /\ \A i \in DOMAIN queue : queue'[i] = Older(queue[i])
    BY <1>1
  <2>2. \A i \in 1 .. Len(queue) : queue'[i] \in Message
    BY <1>2, <1>3, <2>1, OlderFields
  <2>3. queue' \in [1 .. Len(queue) -> Message]
    BY <1>1, <1>2, <2>2
  <2>4. queue' \in Seq(Message)
    BY <1>2, <2>3
  <2> QED  BY <1>3, <2>1, <2>4, OlderFields
<1>6. \A r \in Receiver :
          /\ rcv[r] \in [pc : {"idle", "armed", "woken", "delayed", "resolving"},
                         left : 0 .. ReceiveDelay]
          /\ rcv'[r].pc = rcv[r].pc
          /\ rcv'[r].left = IF rcv[r].left > 0 THEN rcv[r].left - 1 ELSE 0
  BY <1>1, <1>2 DEF TypeOK, Sooner
<1>7. \A s \in Sender : /\ busy[s] \in 0 .. SendDelay
                        /\ busy'[s] = IF busy[s] > 0 THEN busy[s] - 1 ELSE 0
  BY <1>1, <1>2 DEF TypeOK, Sooner
<1>8. TypeOK'
  <2>1. busy' \in [Sender -> 0 .. SendDelay]
    BY <1>1, <1>7 DEF Sooner
  <2>2. rcv' \in [Receiver -> [pc : {"idle", "armed", "woken", "delayed", "resolving"},
                               left : 0 .. ReceiveDelay]]
    <3>1. ASSUME NEW r \in Receiver
          PROVE  [rcv[r] EXCEPT !.left = Sooner(@)] \in
                     [pc : {"idle", "armed", "woken", "delayed", "resolving"},
                      left : 0 .. ReceiveDelay]
      BY <1>6 DEF Sooner
    <3> QED  BY <1>1, <3>1
  <2>3. flying' \subseteq {m \in Message : m.age <= LinkDelay}
    BY <1>1, <1>4
  <2> QED  BY <1>1, <1>2, <1>5, <2>1, <2>2, <2>3 DEF TypeOK
<1>9. QueueOK'
  <2> SUFFICES ASSUME NEW i \in DOMAIN queue, NEW j \in DOMAIN queue, i < j
               PROVE  /\ queue'[i].age >= queue'[j].age
                      /\ queue'[i].from = queue'[j].from => queue'[i].n < queue'[j].n
    BY <1>5 DEF QueueOK
  <2>1. /\ queue[i].age >= queue[j].age
        /\ queue[i].from = queue[j].from => queue[i].n < queue[j].n
    BY DEF IInv, QueueOK
  <2>2. queue[i].age \in Nat /\ queue[j].age \in Nat /\ queue[i].age <= MaxAge /\ MaxAge \in Nat
    BY <1>3, MessageFields DEF MaxAge
  <2> QED  BY <1>5, <2>1, <2>2
<1>10. ArrivedOK'
  <2> SUFFICES ASSUME NEW i \in DOMAIN queue
               PROVE  /\ queue'[i].age >= LinkDelay
                      /\ queue'[i].n <= sent[queue'[i].from]
                      /\ \A f \in flying' : f.from = queue'[i].from => queue'[i].n < f.n
    BY <1>1, <1>5 DEF ArrivedOK
  <2>1. /\ queue[i].age >= LinkDelay
        /\ queue[i].n <= sent[queue[i].from]
        /\ \A f \in flying : f.from = queue[i].from => queue[i].n < f.n
    BY DEF IInv, ArrivedOK
  <2>2. queue[i].age \in Nat
    BY <1>3, MessageFields
  <2>3. queue'[i].age >= LinkDelay
    BY <1>5, <2>1, <2>2
  <2>4. \A f \in flying' : f.from = queue'[i].from => queue'[i].n < f.n
    BY <1>1, <1>4, <1>5, <2>1
  <2> QED  BY <1>5, <2>1, <2>3, <2>4
<1>11. FlyingOK'
  <2> DEFINE Good(x, y) == y.from = x.from =>
                              /\ x.n < y.n => x.age > y.age
                              /\ x.n = y.n => x = y
  <2>1. ASSUME NEW x \in flying, NEW y \in flying
        PROVE  Good(Older(x), Older(y))
    <3>1. Good(x, y)
      BY DEF IInv, FlyingOK
    <3>2. x.age \in Nat /\ y.age \in Nat
      BY <1>2, MessageFields
    <3> QED  BY <1>4, <3>1, <3>2
  <2>2. ASSUME NEW x \in flying
        PROVE  /\ Older(x).n <= sent'[Older(x).from]
               /\ busy'[Older(x).from] + Older(x).age >= SendDelay
    <3>1. x.n <= sent[x.from] /\ busy[x.from] + x.age >= SendDelay
      BY DEF IInv, FlyingOK
    <3>2. x.age \in Nat /\ x.from \in Sender
      BY <1>2, MessageFields
    <3> QED  BY <1>1, <1>4, <1>7, <3>1, <3>2
  <2> HIDE DEF Good
  <2>3. \A x \in flying' : /\ x.n <= sent'[x.from] /\ busy'[x.from] + x.age >= SendDelay
                           /\ \A y \in flying' : Good(x, y)
    BY <1>1, <2>1, <2>2
  <2> QED  BY <2>3 DEF FlyingOK, Good
<1>12. ASSUME NEW r \in Receiver
       PROVE  ReceiverOK(rcv'[r], queue')
  <2>1. ReceiverOK(rcv[r], queue) /\ rcv[r].left \in 0 .. ReceiveDelay
    BY <1>6 DEF IInv
  <2>2. rcv[r].pc # "woken" /\ (rcv[r].pc = "delayed" => rcv[r].left > 0)
    BY <1>1 DEF Quiet
  <2>3. rcv[r].pc = "armed" => queue' = << >>
    <3> SUFFICES ASSUME queue = << >> PROVE queue' = << >>
      BY <2>1 DEF ReceiverOK
    <3> QED  BY <1>1
  <2>4. ASSUME NEW i \in DOMAIN queue', rcv[r].pc = "delayed"
        PROVE  queue'[i].age <= LinkDelay + ReceiveDelay - rcv'[r].left
    <3>1. queue[i].age <= LinkDelay + ReceiveDelay - rcv[r].left
      BY <1>5, <2>1, <2>4 DEF ReceiverOK
    <3>2. queue[i].age \in Nat
      BY <1>3, <1>5, MessageFields
    <3>3. queue'[i].age <= queue[i].age + 1
      BY <1>5, <3>2
    <3>4. rcv'[r].left = rcv[r].left - 1 /\ rcv[r].left \in Int
      BY <1>6, <2>1, <2>2, <2>4
    <3>5. queue'[i].age \in Int
      <4>1. queue'[i] \in Message
        BY <1>5, ElementOfSeq, LenProperties
      <4> QED  BY <4>1, MessageFields
    <3> QED  BY <3>1, <3>2, <3>3, <3>4, <3>5
  <2> QED  BY <1>6, <2>2, <2>3, <2>4 DEF ReceiverOK
<1> QED  BY <1>8, <1>9, <1>10, <1>11, <1>12 DEF IInv

LEMMA NextIInv == IInv /\ [Next]_vars => IInv'
<1> SUFFICES ASSUME IInv, [Next]_vars PROVE IInv'
  OBVIOUS
<1>1. CASE UNCHANGED vars
  BY <1>1 DEF vars, IInv, TypeOK, QueueOK, ArrivedOK, FlyingOK
<1> QED  BY <1>1, SendIInv, DeliverIInv, ReceiverIInv, TickIInv DEF Next

\* What the receivers have seen, and the order of what is under way.
THEOREM IInvHolds == Spec => []IInv
BY InitIInv, NextIInv, PTL DEF Spec

-----------------------------------------------------------------------------
(* The theorems.                                                           *)

\* Messages, timers and receivers keep their types; in particular no message
\* is on its way for longer than link_delay_ (netsim.hh:377-391).
THEOREM TypeCorrect == Spec => []TypeOK
<1>1. IInv => TypeOK
  BY DEF IInv
<1> QED  BY <1>1, IInvHolds, PTL

\* While a message is in the queue nobody sleeps on the event
\* (netsim.hh:94-122), whoever was woken, took it, or was cancelled.
THEOREM NobodySleeps == Spec => []NoLostWakeup
<1>1. IInv => NoLostWakeup
  BY DEF IInv, ReceiverOK, NoLostWakeup
<1> QED  BY <1>1, IInvHolds, PTL

\* Messages are queued in the order in which they were sent, across channels
\* too (netsim.hh:369-391).
THEOREM QueuedByAge == Spec => []ArrivalOrder
<1>1. IInv => ArrivalOrder
  BY DEF IInv, QueueOK, ArrivalOrder
<1> QED  BY <1>1, IInvHolds, PTL

\* A receiver that waits looks at the queue within receive_delay_ of a
\* delivery (netsim.hh:106-112).
THEOREM ReceiversArePrompt == Spec => []Prompt
<1>1. ASSUME IInv PROVE Prompt
  <2> SUFFICES ASSUME NEW r \in Receiver, rcv[r].pc \in {"woken", "delayed"},
                      NEW i \in DOMAIN queue
               PROVE  queue[i].age <= LinkDelay + ReceiveDelay
    BY DEF Prompt
  <2>1. ReceiverOK(rcv[r], queue) /\ rcv[r].left \in 0 .. ReceiveDelay /\ queue[i].age \in Nat
    BY <1>1, InTheQueue, MessageFields DEF IInv, TypeOK
  <2> QED  BY <2>1, NetsimAssumption DEF ReceiverOK
<1> QED  BY <1>1, IInvHolds, PTL

-----------------------------------------------------------------------------
(* The port implements a queue per sender.                                 *)

\* What is under way, element by element.
LEMMA UnderWayIs ==
    \A s : \A n : n \in UnderWay(s) <=>
        \/ \E i \in DOMAIN queue : queue[i].from = s /\ queue[i].n = n
        \/ \E m \in flying : m.from = s /\ m.n = n
BY DEF UnderWay, InQueue

LEMMA UnderWayNextIs ==
    \A s : \A n : n \in UnderWay(s)' <=>
        \/ \E i \in DOMAIN queue' : queue'[i].from = s /\ queue'[i].n = n
        \/ \E m \in flying' : m.from = s /\ m.n = n
BY DEF UnderWay, InQueue

\* Nothing is sent, received or lost: to the users nothing happens.
LEMMA NothingToUsers ==
    ASSUME sent' = sent, received' = received,
           \A s \in Sender : \A n : n \in UnderWay(s)' <=> n \in UnderWay(s)
    PROVE  UNCHANGED Users!linkVars
<1>1. \A s \in Sender : UnderWay(s)' = UnderWay(s)
  OBVIOUS
<1>2. [s \in Sender |-> UnderWay(s)]' = [s \in Sender |-> UnderWay(s)]
  BY <1>1
<1> QED  BY <1>2 DEF Users!linkVars

\* A send is a Send: the message is under way or lost.
LEMMA SendRefines ==
    ASSUME IInv, NEW s \in Sender, Send(s)
    PROVE  Users!Send(s)
<1> DEFINE m == [from |-> s, n |-> sent[s] + 1, age |-> 0]
<1> DEFINE w == [t \in Sender |-> UnderWay(t)]
<1>1. /\ sent' = [sent EXCEPT ![s] = @ + 1] /\ received' = received /\ queue' = queue
      /\ flying' = flying \union {m} \/ flying' = flying
  BY DEF Send
<1>2. CASE flying' = flying \union {m}
  <2>1. m.from = s /\ m.n = sent[s] + 1
    OBVIOUS
  <2> HIDE DEF m
  <2>2. \A t : \A n : n \in UnderWay(t)' <=>
            n \in UnderWay(t) \/ (t = s /\ n = sent[s] + 1)
    BY <1>1, <1>2, <2>1, UnderWayIs, UnderWayNextIs
  <2>3. \A t \in Sender : UnderWay(t)' = IF t = s THEN UnderWay(t) \union {sent[s] + 1}
                                                  ELSE UnderWay(t)
    BY <2>2
  <2>4. w' = [w EXCEPT ![s] = @ \union {sent[s] + 1}]
    BY <2>3
  <2> QED  BY <1>1, <2>4 DEF Users!Send
<1>3. CASE flying' = flying
  <2>1. \A t \in Sender : UnderWay(t)' = UnderWay(t)
    BY <1>1, <1>3 DEF UnderWay, InQueue
  <2>2. w' = w
    BY <2>1
  <2> QED  BY <1>1, <2>2 DEF Users!Send
<1> QED  BY <1>1, <1>2, <1>3

\* A delivery moves a message from the channel to the queue.
LEMMA DeliverRefines ==
    ASSUME IInv, NEW m \in flying, Deliver(m)
    PROVE  UNCHANGED Users!linkVars
<1>1. /\ flying' = flying \ {m} /\ queue' = Append(queue, m)
      /\ sent' = sent /\ received' = received
  BY DEF Deliver, Enqueued
<1>2. queue \in Seq(Message) /\ m \in Message
  BY DEF IInv, TypeOK
<1>3. /\ Len(queue) \in Nat
      /\ DOMAIN queue = 1 .. Len(queue) /\ DOMAIN queue' = 1 .. Len(queue) + 1
      /\ \A i \in DOMAIN queue : i \in DOMAIN queue' /\ queue'[i] = queue[i]
      /\ queue'[Len(queue) + 1] = m
  BY <1>1, <1>2, Longer
<1>4. \A i \in DOMAIN queue' : i \in DOMAIN queue \/ i = Len(queue) + 1
  BY <1>3
<1>5. Len(queue) + 1 \in DOMAIN queue'
  BY <1>3
<1>6. \A s \in Sender : \A n : n \in UnderWay(s)' <=> n \in UnderWay(s)
  <2> SUFFICES ASSUME NEW s \in Sender, NEW n
               PROVE  n \in UnderWay(s)' <=> n \in UnderWay(s)
    OBVIOUS
  <2> DEFINE At0 == \E i \in DOMAIN queue : queue[i].from = s /\ queue[i].n = n
             At1 == \E i \in DOMAIN queue' : queue'[i].from = s /\ queue'[i].n = n
  <2>1. At1 <=> At0 \/ (m.from = s /\ m.n = n)
    BY <1>3, <1>4, <1>5
  <2> HIDE DEF At0, At1
  <2>2. (\E f \in flying : f.from = s /\ f.n = n)
            <=> (\E f \in flying' : f.from = s /\ f.n = n) \/ (m.from = s /\ m.n = n)
    BY <1>1
  <2>3. n \in UnderWay(s) <=> At0 \/ \E f \in flying : f.from = s /\ f.n = n
    BY UnderWayIs DEF At0
  <2>4. n \in UnderWay(s)' <=> At1 \/ \E f \in flying' : f.from = s /\ f.n = n
    BY UnderWayNextIs DEF At1
  <2> QED  BY <2>1, <2>2, <2>3, <2>4
<1> QED  BY <1>1, <1>6, NothingToUsers

\* The clock moves no message.
LEMMA TickRefines ==
    ASSUME IInv, Tick
    PROVE  UNCHANGED Users!linkVars
<1>1. /\ sent' = sent /\ received' = received
      /\ flying' = {Older(m) : m \in flying}
      /\ queue' = [i \in DOMAIN queue |-> Older(queue[i])]
  BY DEF Tick
<1>2. /\ \A m \in flying : Older(m).from = m.from /\ Older(m).n = m.n
      /\ \A i \in DOMAIN queue : /\ Older(queue[i]).from = queue[i].from
                                 /\ Older(queue[i]).n = queue[i].n
  BY OlderFields, InTheQueue DEF IInv, TypeOK
<1>3. DOMAIN queue' = DOMAIN queue /\ \A i \in DOMAIN queue : queue'[i] = Older(queue[i])
  BY <1>1
<1>4. \A s \in Sender : \A n : n \in UnderWay(s)' <=> n \in UnderWay(s)
  BY <1>1, <1>2, <1>3, UnderWayIs, UnderWayNextIs
<1> QED  BY <1>1, <1>4, NothingToUsers


\* Taking the first message of the queue receives the oldest of its sender.
LEMMA TakeRefines ==
    ASSUME IInv, NEW r \in Receiver, Take(r)
    PROVE  Users!Next \/ UNCHANGED Users!linkVars
<1>1. /\ sent' = sent /\ flying' = flying
      /\ queue \in Seq(Message) /\ QueueOK /\ ArrivedOK
      /\ \A m \in flying : m \in Message
  BY DEF Take, IInv, TypeOK
<1>2. CASE queue = << >>
  <2>1. queue' = queue /\ received' = received
    BY <1>2 DEF Take, Loop
  <2> QED  BY <1>1, <2>1, NothingToUsers DEF UnderWay, InQueue
<1>3. CASE queue # << >>
  <2> DEFINE h == queue[1]
             w == [t \in Sender |-> UnderWay(t)]
  <2>1. /\ queue' = Tail(queue)
        /\ received' = [received EXCEPT ![Head(queue).from] = Head(queue).n]
    BY <1>3 DEF Take
  <2>2. /\ 1 \in DOMAIN queue /\ h = Head(queue) /\ h \in Message
        /\ \A i \in DOMAIN queue : i \in Nat /\ queue[i] \in Message
        /\ \A i \in DOMAIN queue' : i \in Nat /\ i + 1 \in DOMAIN queue /\ queue'[i] = queue[i + 1]
        /\ \A i \in DOMAIN queue : i # 1 => i - 1 \in DOMAIN queue' /\ queue[i] = queue'[i - 1]
    BY <1>1, <1>3, <2>1, Shorter
  <2>3. h.from \in Sender /\ h.n \in Nat
    BY <2>2, MessageFields
  <2>4. /\ \A i \in DOMAIN queue : i # 1 /\ queue[i].from = h.from => h.n < queue[i].n
        /\ \A m \in flying : m.from = h.from => h.n < m.n
    <3>1. \A i \in DOMAIN queue : i # 1 => 1 < i
      BY <1>1, LenProperties
    <3> QED  BY <1>1, <2>2, <3>1 DEF QueueOK, ArrivedOK
  <2> HIDE DEF h
  <2>5. \A t \in Sender : \A n : n \in UnderWay(t)' <=>
            n \in UnderWay(t) /\ ~ (t = h.from /\ n = h.n)
    <3> SUFFICES ASSUME NEW t \in Sender, NEW n
                 PROVE  n \in UnderWay(t)' <=> n \in UnderWay(t) /\ ~ (t = h.from /\ n = h.n)
      OBVIOUS
    <3> DEFINE At0 == \E i \in DOMAIN queue : queue[i].from = t /\ queue[i].n = n
               At1 == \E i \in DOMAIN queue' : queue'[i].from = t /\ queue'[i].n = n
               Fly == \E m \in flying : m.from = t /\ m.n = n
    <3>1. At1 => At0 /\ ~ (t = h.from /\ n = h.n)
      <4> SUFFICES ASSUME NEW i \in DOMAIN queue', queue'[i].from = t, queue'[i].n = n
                   PROVE  At0 /\ ~ (t = h.from /\ n = h.n)
        OBVIOUS
      <4>1. i \in Nat /\ i + 1 \in DOMAIN queue /\ queue'[i] = queue[i + 1] /\ i + 1 # 1
        <5>1. i # 0
          BY <1>1, <2>2, LenProperties, <2>1, HeadTailProperties, <1>3
        <5> QED  BY <2>2, <5>1
      <4>2. t = h.from => h.n < n
        BY <2>4, <4>1
      <4> QED  BY <2>3, <4>1, <4>2
    <3>2. At0 => At1 \/ (t = h.from /\ n = h.n)
      BY <2>2 DEF h
    <3>3. Fly => ~ (t = h.from /\ n = h.n)
      BY <2>3, <2>4
    <3> HIDE DEF At0, At1, Fly
    <3>4. n \in UnderWay(t) <=> At0 \/ Fly
      BY UnderWayIs DEF At0, Fly
    <3>5. n \in UnderWay(t)' <=> At1 \/ Fly
      BY <1>1, UnderWayNextIs DEF At1, Fly
    <3> QED  BY <3>1, <3>2, <3>3, <3>4, <3>5
  <2>6. w' = [w EXCEPT ![h.from] = @ \ {h.n}]
    <3>1. \A t \in Sender : UnderWay(t)' = IF t = h.from THEN UnderWay(t) \ {h.n} ELSE UnderWay(t)
      BY <2>5
    <3> QED  BY <3>1
  <2>7. h.n \in w[h.from] /\ \A k \in w[h.from] : h.n <= k
    <3>1. h.n \in UnderWay(h.from)
      BY <2>2, UnderWayIs DEF h
    <3>2. \A k \in UnderWay(h.from) : h.n <= k
      <4> SUFFICES ASSUME NEW k \in UnderWay(h.from) PROVE h.n <= k
        OBVIOUS
      <4>1. CASE \E i \in DOMAIN queue : queue[i].from = h.from /\ queue[i].n = k
        <5>1. PICK i \in DOMAIN queue : queue[i].from = h.from /\ queue[i].n = k
          BY <4>1
        <5>2. queue[i].n \in Nat
          BY <2>2, MessageFields
        <5>3. CASE i = 1
          BY <2>3, <5>1, <5>3 DEF h
        <5>4. CASE i # 1
          BY <2>3, <2>4, <5>1, <5>2, <5>4
        <5> QED  BY <5>3, <5>4
      <4>2. CASE \E m \in flying : m.from = h.from /\ m.n = k
        BY <1>1, <2>3, <2>4, <4>2, MessageFields
      <4> QED  BY <4>1, <4>2, UnderWayIs
    <3> QED  BY <2>3, <3>1, <3>2
  <2>8. Users!Receive(h.from)
    <3> HIDE DEF w
    <3>1. /\ received' = [received EXCEPT ![h.from] = h.n]
          /\ w' = [w EXCEPT ![h.from] = @ \ {h.n}]
      BY <2>1, <2>2, <2>6
    <3> QED  BY <1>1, <2>7, <3>1 DEF Users!Receive, w
  <2> QED  BY <2>3, <2>8 DEF Users!Next
<1> QED  BY <1>2, <1>3

\* The steps of the port are steps of the queues, or nothing to them.
LEMMA NextRefines ==
    IInv /\ [Next]_vars => [Users!Next]_(Users!linkVars)
<1> SUFFICES ASSUME IInv, [Next]_vars
             PROVE  Users!Next \/ UNCHANGED Users!linkVars
  OBVIOUS
<1>1. ASSUME UNCHANGED <<sent, received, queue, flying>>
      PROVE  UNCHANGED Users!linkVars
  BY <1>1, NothingToUsers DEF UnderWay, InQueue
<1>2. CASE UNCHANGED vars
  BY <1>1, <1>2 DEF vars
<1>3. CASE \E s \in Sender : Send(s)
  BY <1>3, SendRefines DEF Users!Next
<1>4. CASE \E m \in flying : Deliver(m)
  BY <1>4, DeliverRefines
<1>5. CASE \E r \in Receiver : Call(r) \/ Step(r) \/ Cancel(r)
  <2>1. ASSUME NEW r \in Receiver, Call(r) \/ Wake(r) \/ Delayed(r) \/ Cancel(r)
        PROVE  UNCHANGED Users!linkVars
    BY <1>1, <2>1 DEF Call, Wake, Delayed, Cancel, Loop
  <2> QED  BY <1>5, <2>1, TakeRefines DEF Step
<1>6. CASE Tick
  BY <1>6, TickRefines
<1> QED  BY <1>2, <1>3, <1>4, <1>5, <1>6 DEF Next

\* The port is the first-in-first-out queue per sender that its users assume:
\* no delivery, wake-up, delay or cancelled receive (netsim.hh:94-122 and
\* 369-391) loses, repeats or overtakes a message.
THEOREM NetsimImplementsLink == Spec => ImplementsLink
<1>1. Init => Users!Init
  <2> SUFFICES ASSUME Init PROVE Users!Init
    OBVIOUS
  <2>1. queue = << >> /\ flying = {} /\ DOMAIN queue = {}
    BY DEF Init
  <2>2. \A s \in Sender : UnderWay(s) = {}
    BY <2>1 DEF UnderWay, InQueue
  <2> QED  BY <2>2 DEF Init, Users!Init
<1> QED  BY <1>1, NextRefines, IInvHolds, PTL DEF Spec, ImplementsLink, Users!Spec

=============================================================================
