------------------------------- MODULE Netsim -------------------------------
(***************************************************************************)
(* One port of the simulated network (netsim.hh): the channels that send   *)
(* to it, the queue, and the coroutines inside receive_from, with the      *)
(* delays as a discrete clock in milliseconds.                             *)
(*                                                                         *)
(* A coroutine in receive_from is                                          *)
(*   idle       not in receive_from: never called, returned or cancelled   *)
(*   armed      suspended on the event receivable_                         *)
(*   woken      the event was triggered, the driver has yet to resume it   *)
(*   delayed    suspended for receive_delay_                               *)
(*   resolving  suspended on cot::resolve, having seen a message           *)
(* A call may be cancelled wherever it is suspended: attempt() does so     *)
(* when its timer fires first.  All suspended receivers share one event.   *)
(*                                                                         *)
(* The coroutine runtime is external: a triggered event resumes everyone   *)
(* who waits for it, timers that are due in the same millisecond fire in   *)
(* any order, and the clock moves on only when nothing is due.             *)
(***************************************************************************)
EXTENDS Integers, Sequences

CONSTANTS
    Sender,         \* the channels to this port, by source
    Receiver,       \* coroutines that call receive_from on it
    LinkDelay,      \* link_delay_, 5 ms
    SendDelay,      \* send_delay_, 1 ms
    ReceiveDelay,   \* receive_delay_, 1 ms
    Lossy,          \* is loss_ positive?
    MaxSent         \* bound: messages per sender

ASSUME NetsimAssumption ==
    /\ {LinkDelay, SendDelay, ReceiveDelay, MaxSent} \subseteq Nat
    /\ SendDelay > 0       \* no two messages of a channel are due together
    /\ Lossy \in BOOLEAN

VARIABLES
    sent,       \* sent[s]: number of messages s has sent
    busy,       \* busy[s]: ms until `send' returns to s
    flying,     \* messages that send_after will deliver
    queue,      \* messageq_
    rcv,        \* rcv[r]: [pc, left], left the ms of receive_delay_ to go
    received    \* history: received[s], the last message of s received, or 0

vars == <<sent, busy, flying, queue, rcv, received>>

\* A message: its source, its number there and its age in ms.  Ages above
\* MaxAge, which only a message in the queue reaches, count as MaxAge.
MaxAge == LinkDelay + ReceiveDelay + 1

Message == [from : Sender, n : 1 .. MaxSent, age : 0 .. MaxAge]

Idle == [pc |-> "idle", left |-> 0]

Init ==
    /\ sent = [s \in Sender |-> 0]
    /\ busy = [s \in Sender |-> 0]
    /\ flying = {}
    /\ queue = << >>
    /\ rcv = [r \in Receiver |-> Idle]
    /\ received = [s \in Sender |-> 0]

-----------------------------------------------------------------------------
(* Channels.                                                               *)

\* `co_await cot::after(send_delay_)', whether the message was lost or not.
SendTakes(s) == [busy EXCEPT ![s] = SendDelay]

\* channel::send: lose the message or start send_after for it.
Send(s) ==
    /\ busy[s] = 0
    /\ sent[s] < MaxSent
    /\ sent' = [sent EXCEPT ![s] = @ + 1]
    /\ busy' = SendTakes(s)
    /\ \/ flying' = flying \union {[from |-> s, n |-> sent[s] + 1, age |-> 0]}
       \/ Lossy /\ UNCHANGED flying
    /\ UNCHANGED <<queue, rcv, received>>

\* An event that resumes one of those who wait for it.
TriggeredOne ==
    LET armed == {r \in Receiver : rcv[r].pc = "armed"} IN
    [r \in Receiver |->
        IF armed # {} /\ r = CHOOSE a \in armed : TRUE
        THEN [rcv[r] EXCEPT !.pc = "woken"] ELSE rcv[r]]

\* A trigger that also restarts the delay of those it woke before.
TriggeredAgain ==
    [r \in Receiver |->
        IF rcv[r].pc \in {"armed", "delayed"}
        THEN [pc |-> "woken", left |-> 0] ELSE rcv[r]]

\* receivable_.trigger(): everyone suspended on the event is resumed.
Triggered ==
    [r \in Receiver |->
        IF rcv[r].pc = "armed" THEN [rcv[r] EXCEPT !.pc = "woken"] ELSE rcv[r]]

\* A message that is put in front of those that came before it.
EnqueuedFirst(m) == <<m>> \o queue

Enqueued(m) == Append(queue, m)

\* send_after is resumed: receiver::deliver.
Deliver(m) ==
    /\ m.age = LinkDelay
    /\ flying' = flying \ {m}
    /\ queue' = Enqueued(m)
    /\ rcv' = Triggered
    /\ UNCHANGED <<sent, busy, received>>

-----------------------------------------------------------------------------
(* Receivers.                                                              *)

At(r, pc) == rcv' = [rcv EXCEPT ![r] = [pc |-> pc, left |-> 0]]

\* A loop that takes the message when it first sees it.
LoopTakes(r) ==
    IF queue = << >> THEN At(r, "armed") /\ UNCHANGED queue
    ELSE At(r, "resolving") /\ queue' = Tail(queue)

\* A loop that waits for the next event without looking at the queue.
LoopBlind(r) == At(r, "armed") /\ UNCHANGED queue

\* The test of `while (messageq_.empty())', and what follows it up to the
\* next suspension: arm the event, or go on to cot::resolve.
Loop(r) ==
    /\ At(r, IF queue = << >> THEN "armed" ELSE "resolving")
    /\ UNCHANGED queue

\* receive_from is called.
Call(r) ==
    /\ rcv[r].pc = "idle"
    /\ Loop(r)
    /\ UNCHANGED <<sent, busy, flying, received>>

\* Resumed by the event: suspend for receive_delay_.
Wake(r) ==
    /\ rcv[r].pc = "woken"
    /\ rcv' = [rcv EXCEPT ![r] = [pc |-> "delayed", left |-> ReceiveDelay]]
    /\ UNCHANGED <<sent, busy, flying, queue, received>>

Delayed(r) ==
    /\ rcv[r] = [pc |-> "delayed", left |-> 0]
    /\ Loop(r)
    /\ UNCHANGED <<sent, busy, flying, received>>

\* Resumed from cot::resolve: take the first message and return it, or, when
\* another receiver was faster, go round the outer loop.
Take(r) ==
    /\ rcv[r].pc = "resolving"
    /\ \/ /\ queue # << >>
          /\ received' = [received EXCEPT ![Head(queue).from] = Head(queue).n]
          /\ queue' = Tail(queue)
          /\ At(r, "idle")
       \/ /\ queue = << >>
          /\ Loop(r)
          /\ UNCHANGED received
    /\ UNCHANGED <<sent, busy, flying>>

\* attempt() gives up, or the caller is destroyed.
Cancel(r) ==
    /\ rcv[r].pc # "idle"
    /\ At(r, "idle")
    /\ UNCHANGED <<sent, busy, flying, queue, received>>

-----------------------------------------------------------------------------

Older(m) == [m EXCEPT !.age = IF @ < MaxAge THEN @ + 1 ELSE @]

Sooner(ms) == IF ms > 0 THEN ms - 1 ELSE 0

\* A clock that runs on over due messages.
QuietReceivers ==
    \A r \in Receiver :
        /\ rcv[r].pc \notin {"woken", "resolving"}
        /\ rcv[r].pc = "delayed" => rcv[r].left > 0

\* Nothing is due.
Quiet ==
    /\ \A m \in flying : m.age < LinkDelay
    /\ \A r \in Receiver :
          /\ rcv[r].pc \notin {"woken", "resolving"}
          /\ rcv[r].pc = "delayed" => rcv[r].left > 0

\* A millisecond passes.
Tick ==
    /\ Quiet
    /\ busy' = [s \in Sender |-> Sooner(busy[s])]
    /\ flying' = {Older(m) : m \in flying}
    /\ queue' = [i \in DOMAIN queue |-> Older(queue[i])]
    /\ rcv' = [r \in Receiver |-> [rcv[r] EXCEPT !.left = Sooner(@)]]
    /\ UNCHANGED <<sent, received>>

Step(r) == Wake(r) \/ Delayed(r) \/ Take(r)

Next ==
    \/ \E s \in Sender : Send(s)
    \/ \E m \in flying : Deliver(m)
    \/ \E r \in Receiver : Call(r) \/ Step(r) \/ Cancel(r)
    \/ Tick

Spec == Init /\ [][Next]_vars

\* Timers fire and resumed coroutines run; time goes on, since nobody calls
\* and cancels for ever within one millisecond (attempt's timers are seconds
\* long).  Nobody has to send, to call receive_from or to cancel it.
Fairness ==
    /\ SF_vars(Tick)
    /\ WF_vars(\E m \in flying : Deliver(m))
    /\ \A r \in Receiver : WF_vars(Step(r))

FairSpec == Spec /\ Fairness

-----------------------------------------------------------------------------
(* Safety.                                                                 *)

TypeOK ==
    /\ sent \in [Sender -> 0 .. MaxSent]
    /\ busy \in [Sender -> 0 .. SendDelay]
    /\ flying \subseteq {m \in Message : m.age <= LinkDelay}
    /\ queue \in Seq(Message)
    /\ rcv \in [Receiver -> [pc : {"idle", "armed", "woken", "delayed", "resolving"},
                             left : 0 .. ReceiveDelay]]
    /\ received \in [Sender -> 0 .. MaxSent]

\* No lost wake-up: while a message is in the queue nobody sleeps on the
\* event, whoever was woken for it, took it, was cancelled or came late.
NoLostWakeup ==
    queue # << >> => \A r \in Receiver : rcv[r].pc # "armed"

\* Messages are queued in the order in which they were sent, across channels
\* too: what LockSeq relies on when replies of several replicas share a port.
ArrivalOrder ==
    \A i, j \in DOMAIN queue : i < j => queue[i].age >= queue[j].age

\* A receiver that waits keeps no message waiting: it looks at the queue
\* within receive_delay_ of a delivery, so a message that is older has been
\* there before it called.  This bound is why an answer beats the timer.
Prompt ==
    \A r \in Receiver : rcv[r].pc \in {"woken", "delayed"} =>
        \A i \in DOMAIN queue : queue[i].age <= LinkDelay + ReceiveDelay

\* The messages of s in the queue or on their way to it.
InQueue(s) == {queue[i].n : i \in {k \in DOMAIN queue : queue[k].from = s}}

UnderWay(s) == InQueue(s) \union {m.n : m \in {f \in flying : f.from = s}}

Users == INSTANCE Link WITH waiting <- [s \in Sender |-> UnderWay(s)]

\* The port implements the queue per sender that its users assume: order is
\* kept, and no delivery, wake-up or cancelled receive loses, repeats or
\* overtakes a message.
ImplementsLink == Users!Spec

-----------------------------------------------------------------------------
(* Liveness.                                                               *)

Outstanding == queue # << >> \/ flying # {}

\* A receiver does not hang: as long as a message is under way, a call of
\* receive_from is not stuck, unless others take the messages or it is
\* cancelled.
ReceiverServed ==
    \A r \in Receiver : []<>(rcv[r].pc = "idle" \/ ~ Outstanding)

=============================================================================
