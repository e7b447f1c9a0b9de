--------------------------- MODULE NetSetupProofs ---------------------------
(***************************************************************************)
(* The registry of the simulated network and the driver that fills it, for *)
(* any addresses, loss rates, queue lengths and numbers of replicas and    *)
(* clients.                                                                *)
(*                                                                         *)
(* What the class guarantees rests on the shape of its channel pairs       *)
(* (NetOK): the pair kept at the server's port under the client's address  *)
(* leads from that client's response port and back to it, and is there for *)
(* good; a request in a queue came through one (QueuesOK).  What the       *)
(* driver guarantees rests on how far it has come (SetupOK).               *)
(***************************************************************************)
EXTENDS NetSetup, SequenceTheorems, TLAPS

-----------------------------------------------------------------------------
(* The class, in any use.                                                  *)

\* Both ports of a channel pair exist, and its channels lead there and back.
NetOK(n) ==
    /\ n \in [ports : SUBSET Addr, responsePorts : SUBSET Addr,
              pairs : {n.pairs}, loss : Losses]
    /\ DOMAIN n.pairs \subseteq n.responsePorts \X n.ports
    /\ \A p \in DOMAIN n.pairs :
          /\ n.pairs[p].request.source = p[1]
          /\ n.pairs[p].request.destination = p[2]
          /\ n.pairs[p].reply.destination = p[1]

Request == [asker : Addr, source : Addr]

Response == [asker : Addr, server : Addr]

\* A request is queued where its pair is kept, a response where its pair
\* leads back to.
QueuesOK ==
    /\ requests \in [Addr -> Seq(Request)]
    /\ responses \in [Addr -> Seq(Response)]
    /\ \A a \in Addr : \A k \in DOMAIN requests[a] :
          /\ requests[a][k].asker = requests[a][k].source
          /\ HasPair(net, requests[a][k].source, a)
    /\ \A a \in Addr : \A k \in DOMAIN responses[a] :
          /\ responses[a][k].asker = a
          /\ HasPair(net, a, responses[a][k].server)

RegistryOK == NetOK(net) /\ QueuesOK

\* A registry that has all that n has, and all its pairs as they were.
Extends(m, n) ==
    /\ n.ports \subseteq m.ports
    /\ n.responsePorts \subseteq m.responsePorts
    /\ \A p \in DOMAIN n.pairs : p \in DOMAIN m.pairs /\ m.pairs[p] = n.pairs[p]

\* A queue with one more message at its end, and without its first.
LEMMA Longer ==
    ASSUME NEW S, NEW q \in Seq(S), NEW m \in S, NEW p, p = Append(q, m)
    PROVE  /\ p \in Seq(S)
           /\ \A k \in DOMAIN p : (k \in DOMAIN q /\ p[k] = q[k]) \/ p[k] = m
BY AppendProperties, LenProperties

LEMMA Shorter ==
    ASSUME NEW S, NEW q \in Seq(S), q # << >>, NEW p, p = Tail(q)
    PROVE  /\ p \in Seq(S)
           /\ 1 \in DOMAIN q /\ q[1] = Head(q) /\ q[1] \in S
           /\ \A k \in DOMAIN p : k + 1 \in DOMAIN q /\ p[k] = q[k + 1]
<1>1. Len(q) \in Nat /\ Len(q) > 0 /\ DOMAIN q = 1 .. Len(q)
  BY EmptySeq, LenProperties
<1>2. /\ Head(q) = q[1] /\ \A k \in 1 .. Len(q) : q[k] \in S
  BY <1>1, ElementOfSeq, HeadTailProperties
<1>3. /\ p \in Seq(S) /\ Len(p) = Len(q) - 1
      /\ \A k \in 1 .. Len(p) : p[k] = q[k + 1]
  BY HeadTailProperties
<1>4. DOMAIN p = 1 .. Len(q) - 1
  BY <1>3, LenProperties
<1> QED  BY <1>1, <1>2, <1>3, <1>4

\* Registering a port and setting the default take nothing away.
LEMMA Registered ==
    ASSUME NEW n, NetOK(n), NEW a \in Addr, NEW m \in {Port(n, a), ResponsePort(n, a)}
    PROVE  /\ NetOK(m) /\ Extends(m, n) /\ m.loss = n.loss /\ m.pairs = n.pairs
           /\ m = Port(n, a) => a \in m.ports
           /\ m = ResponsePort(n, a) => a \in m.responsePorts
BY DEF NetOK, Extends, Port, ResponsePort

LEMMA DefaultSet ==
    ASSUME NEW n, NetOK(n), NEW l \in Losses, NEW m, m = SetDefaultLoss(n, l)
    PROVE  /\ NetOK(m) /\ Extends(m, n) /\ m.loss = l /\ m.pairs = n.pairs
           /\ m.ports = n.ports
BY DEF NetOK, Extends, SetDefaultLoss

\* find_channel adds at most the pair it was asked for, at the default loss.
LEMMA Found ==
    ASSUME NEW n, NetOK(n), NEW src, NEW dst,
           NEW m, m = FindChannel(n, src, dst).net
    PROVE  /\ NetOK(m) /\ Extends(m, n) /\ m.loss = n.loss
           /\ m.ports = n.ports /\ m.responsePorts = n.responsePorts
           /\ \A p \in DOMAIN m.pairs : \/ p \in DOMAIN n.pairs
                                         \/ /\ m.pairs[p].request.loss = n.loss
                                            /\ m.pairs[p].reply.loss = n.loss
           /\ dst \in n.ports /\ src \in n.responsePorts =>
                  /\ FindChannel(n, src, dst).found = <<src, dst>>
                  /\ <<src, dst>> \in DOMAIN m.pairs
<1>1. CASE HasPort(n, dst) /\ HasPair(n, src, dst)
  BY <1>1 DEF FindChannel, HasPair, Extends, NetOK
<1>2. CASE HasPort(n, dst) /\ ~ HasPair(n, src, dst) /\ src \in n.responsePorts
  <2> DEFINE new == NewPair(n, src, dst)
  <2> DEFINE ps == TryEmplace(n.pairs, <<src, dst>>, new)
  <2>1. m = [n EXCEPT !.pairs = ps] /\ FindChannel(n, src, dst).found = <<src, dst>>
    BY <1>2 DEF FindChannel
  <2>2. /\ new.request.source = src /\ new.request.destination = dst
        /\ new.reply.destination = src /\ new.request.loss = n.loss /\ new.reply.loss = n.loss
    BY DEF NewPair, Channel
  <2> HIDE DEF new
  <2>3. /\ DOMAIN ps = DOMAIN n.pairs \union {<<src, dst>>}
        /\ \A p \in DOMAIN n.pairs : ps[p] = n.pairs[p]
        /\ ps[<<src, dst>>] = new
    BY <1>2 DEF HasPair, TryEmplace
  <2> HIDE DEF ps
  <2>4. /\ m.pairs = ps /\ m.ports = n.ports /\ m.responsePorts = n.responsePorts
        /\ m.loss = n.loss
        /\ m \in [ports : SUBSET Addr, responsePorts : SUBSET Addr,
                  pairs : {m.pairs}, loss : Losses]
    BY <2>1 DEF NetOK
  <2>5. NetOK(m)
    BY <1>2, <2>2, <2>3, <2>4 DEF NetOK, HasPort
  <2> QED  BY <1>2, <2>1, <2>2, <2>3, <2>4, <2>5 DEF Extends
<1>3. CASE ~ (HasPort(n, dst) /\ HasPair(n, src, dst))
           /\ ~ (HasPort(n, dst) /\ src \in n.responsePorts)
  BY <1>3 DEF FindChannel, HasPair, HasPort, Extends, NetOK
<1> QED  BY <1>1, <1>2, <1>3

\* The queues stay sound when the registry is extended.
LEMMA ExtendedQueues ==
    ASSUME QueuesOK, Extends(net', net), UNCHANGED <<requests, responses>>
    PROVE  QueuesOK'
BY DEF QueuesOK, Extends, HasPair


\* A request sent on a pair waits at the server's port under the client's name.
LEMMA SendKeeps ==
    ASSUME RegistryOK, NEW p \in DOMAIN net.pairs, Send(p)
    PROVE  RegistryOK'
<1> DEFINE to == net.pairs[p].request.destination
           msg == [asker |-> p[1], source |-> net.pairs[p].request.source]
<1>1. /\ requests' = [requests EXCEPT ![to] = Append(@, msg)]
      /\ net' = net /\ responses' = responses
  BY DEF Send
<1>2. /\ to = p[2] /\ p[2] \in Addr /\ p[1] \in Addr /\ p = <<p[1], p[2]>>
      /\ msg \in Request /\ msg.asker = p[1] /\ msg.source = p[1]
  BY DEF RegistryOK, NetOK, Request
<1>3. /\ requests \in [Addr -> Seq(Request)]
      /\ \A a \in Addr : \A k \in DOMAIN requests[a] :
            /\ requests[a][k].asker = requests[a][k].source
            /\ HasPair(net, requests[a][k].source, a)
  BY DEF RegistryOK, QueuesOK
<1>4. HasPair(net, p[1], p[2])
  BY <1>2 DEF HasPair
<1> HIDE DEF to, msg
<1>5. \A a \in Addr : requests'[a] = IF a = to THEN Append(requests[a], msg) ELSE requests[a]
  BY <1>1, <1>3
<1>6. /\ requests'[to] \in Seq(Request)
      /\ \A k \in DOMAIN requests'[to] :
            \/ k \in DOMAIN requests[to] /\ requests'[to][k] = requests[to][k]
            \/ requests'[to][k] = msg
  <2>1. requests[to] \in Seq(Request) /\ requests'[to] = Append(requests[to], msg)
    BY <1>2, <1>3, <1>5
  <2> QED  BY <1>2, <2>1, Longer
<1>7. requests' \in [Addr -> Seq(Request)]
  BY <1>1, <1>3, <1>5, <1>6
<1>8. \A a \in Addr : \A k \in DOMAIN requests'[a] :
          /\ requests'[a][k].asker = requests'[a][k].source
          /\ HasPair(net, requests'[a][k].source, a)
  <2> SUFFICES ASSUME NEW a \in Addr, NEW k \in DOMAIN requests'[a]
               PROVE  /\ requests'[a][k].asker = requests'[a][k].source
                      /\ HasPair(net, requests'[a][k].source, a)
    OBVIOUS
  <2>1. CASE a # to
    BY <1>3, <1>5, <2>1
  <2>2. CASE a = to
    <3>1. CASE k \in DOMAIN requests[to] /\ requests'[to][k] = requests[to][k]
      BY <1>2, <1>3, <2>2, <3>1
    <3>2. CASE requests'[to][k] = msg
      BY <1>2, <1>4, <2>2, <3>2
    <3> QED  BY <1>6, <2>2, <3>1, <3>2
  <2> QED  BY <2>1, <2>2
<1> QED  BY <1>1, <1>7, <1>8 DEF RegistryOK, QueuesOK

\* The reply channel of a request leads back to its client.
LEMMA ReplyLeadsBack ==
    ASSUME RegistryOK, NEW port \in Addr, NEW k \in DOMAIN requests[port],
           NEW source, source = requests[port][k].source
    PROVE  /\ source \in Addr /\ source = requests[port][k].asker
           /\ HasPair(net, source, port) /\ HasPort(net, port)
           /\ ReplyChannel(net, port, source).destination = source
           /\ source \in net.responsePorts
<1>1. requests[port] \in Seq(Request) /\ requests[port][k] \in Request
  BY ElementOfSeq, LenProperties DEF RegistryOK, QueuesOK
<1>2. HasPair(net, source, port) /\ source = requests[port][k].asker
  BY DEF RegistryOK, QueuesOK
<1> QED  BY <1>1, <1>2 DEF RegistryOK, NetOK, HasPair, HasPort, ReplyChannel, Request

\* A reply waits at the port of the client whose request it answers.
LEMMA ReplyKeeps ==
    ASSUME RegistryOK, NEW port \in Addr, Reply(port)
    PROVE  RegistryOK'
<1> DEFINE req == Head(requests[port])
           to  == ReplyChannel(net, port, req.source).destination
           msg == [asker |-> req.asker, server |-> port]
<1>1. /\ requests[port] # << >>
      /\ responses' = [responses EXCEPT ![to] = Append(@, msg)]
      /\ requests' = [requests EXCEPT ![port] = Tail(@)]
      /\ net' = net
  BY DEF Reply
<1>2. /\ requests \in [Addr -> Seq(Request)] /\ responses \in [Addr -> Seq(Response)]
      /\ \A a \in Addr : \A k \in DOMAIN requests[a] :
            /\ requests[a][k].asker = requests[a][k].source
            /\ HasPair(net, requests[a][k].source, a)
      /\ \A a \in Addr : \A k \in DOMAIN responses[a] :
            /\ responses[a][k].asker = a
            /\ HasPair(net, a, responses[a][k].server)
  BY DEF RegistryOK, QueuesOK
<1>3. /\ Tail(requests[port]) \in Seq(Request)
      /\ 1 \in DOMAIN requests[port] /\ requests[port][1] = req
      /\ \A k \in DOMAIN Tail(requests[port]) :
            k + 1 \in DOMAIN requests[port] /\ Tail(requests[port])[k] = requests[port][k + 1]
  BY <1>1, <1>2, Shorter
<1>4. /\ to \in Addr /\ to = req.asker /\ HasPair(net, to, port)
  BY <1>3, ReplyLeadsBack
<1>5. msg \in Response /\ msg.asker = to /\ msg.server = port
  BY <1>4 DEF Response
<1> HIDE DEF req, to, msg
<1>6. /\ \A a \in Addr : requests'[a] = IF a = port THEN Tail(requests[a]) ELSE requests[a]
      /\ \A a \in Addr : responses'[a] = IF a = to THEN Append(responses[a], msg) ELSE responses[a]
  BY <1>1, <1>2
<1>7. /\ responses'[to] \in Seq(Response)
      /\ \A k \in DOMAIN responses'[to] :
            \/ k \in DOMAIN responses[to] /\ responses'[to][k] = responses[to][k]
            \/ responses'[to][k] = msg
  <2>1. responses[to] \in Seq(Response) /\ responses'[to] = Append(responses[to], msg)
    BY <1>2, <1>4, <1>6
  <2> QED  BY <1>5, <2>1, Longer
<1>8. requests' \in [Addr -> Seq(Request)] /\ responses' \in [Addr -> Seq(Response)]
  BY <1>1, <1>2, <1>3, <1>6, <1>7
<1>9. \A a \in Addr : \A k \in DOMAIN requests'[a] :
          /\ requests'[a][k].asker = requests'[a][k].source
          /\ HasPair(net, requests'[a][k].source, a)
  <2> SUFFICES ASSUME NEW a \in Addr, NEW k \in DOMAIN requests'[a]
               PROVE  /\ requests'[a][k].asker = requests'[a][k].source
                      /\ HasPair(net, requests'[a][k].source, a)
    OBVIOUS
  <2>1. CASE a # port
    BY <1>2, <1>6, <2>1
  <2>2. CASE a = port
    <3>1. requests'[port] = Tail(requests[port])
      BY <1>6
    <3>2. k + 1 \in DOMAIN requests[port] /\ requests'[port][k] = requests[port][k + 1]
      BY <1>3, <2>2, <3>1
    <3> QED  BY <1>2, <2>2, <3>2
  <2> QED  BY <2>1, <2>2
<1>10. \A a \in Addr : \A k \in DOMAIN responses'[a] :
          /\ responses'[a][k].asker = a
          /\ HasPair(net, a, responses'[a][k].server)
  <2> SUFFICES ASSUME NEW a \in Addr, NEW k \in DOMAIN responses'[a]
               PROVE  /\ responses'[a][k].asker = a
                      /\ HasPair(net, a, responses'[a][k].server)
    OBVIOUS
  <2>1. CASE a # to
    BY <1>2, <1>6, <2>1
  <2>2. CASE a = to
    <3>1. CASE k \in DOMAIN responses[to] /\ responses'[to][k] = responses[to][k]
      BY <1>2, <1>4, <2>2, <3>1
    <3>2. CASE responses'[to][k] = msg
      BY <1>4, <1>5, <2>2, <3>2
    <3> QED  BY <1>7, <2>2, <3>1, <3>2
  <2> QED  BY <2>1, <2>2
<1> QED  BY <1>1, <1>8, <1>9, <1>10 DEF RegistryOK, QueuesOK

LEMMA CollectKeeps ==
    ASSUME RegistryOK, NEW addr \in Addr, Collect(addr)
    PROVE  RegistryOK'
<1>1. /\ responses[addr] # << >>
      /\ responses' = [responses EXCEPT ![addr] = Tail(@)]
      /\ net' = net /\ requests' = requests
  BY DEF Collect
<1>2. /\ responses \in [Addr -> Seq(Response)]
      /\ \A a \in Addr : \A k \in DOMAIN responses[a] :
            /\ responses[a][k].asker = a
            /\ HasPair(net, a, responses[a][k].server)
  BY DEF RegistryOK, QueuesOK
<1>3. /\ Tail(responses[addr]) \in Seq(Response)
      /\ \A k \in DOMAIN Tail(responses[addr]) :
            k + 1 \in DOMAIN responses[addr] /\ Tail(responses[addr])[k] = responses[addr][k + 1]
  BY <1>1, <1>2, Shorter
<1>4. \A a \in Addr : responses'[a] = IF a = addr THEN Tail(responses[a]) ELSE responses[a]
  BY <1>1, <1>2
<1>5. responses' \in [Addr -> Seq(Response)]
  BY <1>1, <1>2, <1>3
<1>6. \A a \in Addr : \A k \in DOMAIN responses'[a] :
          /\ responses'[a][k].asker = a
          /\ HasPair(net, a, responses'[a][k].server)
  <2> SUFFICES ASSUME NEW a \in Addr, NEW k \in DOMAIN responses'[a]
               PROVE  /\ responses'[a][k].asker = a
                      /\ HasPair(net, a, responses'[a][k].server)
    OBVIOUS
  <2>1. CASE a # addr
    BY <1>2, <1>4, <2>1
  <2>2. CASE a = addr
    <3>1. responses'[addr] = Tail(responses[addr])
      BY <1>4
    <3>2. k + 1 \in DOMAIN responses[addr] /\ responses'[addr][k] = responses[addr][k + 1]
      BY <1>3, <2>2, <3>1
    <3> QED  BY <1>2, <2>2, <3>2
  <2> QED  BY <2>1, <2>2
<1> QED  BY <1>1, <1>5, <1>6 DEF RegistryOK, QueuesOK

\* Whatever is done with the class keeps it sound and takes nothing away.
LEMMA UseKeeps ==
    ASSUME RegistryOK, NEW addrs \in SUBSET Addr, Use(addrs)
    PROVE  RegistryOK' /\ Extends(net', net)
<1>1. CASE (Configure \/ Register(addrs) \/ Find(addrs)) /\ UNCHANGED <<requests, responses>>
  <2>1. NetOK(net') /\ Extends(net', net)
    <3>1. NetOK(net)
      BY DEF RegistryOK
    <3>2. CASE Configure
      BY <3>1, <3>2, DefaultSet DEF Configure
    <3>3. CASE Register(addrs)
      BY <3>1, <3>3, Registered DEF Register
    <3>4. CASE Find(addrs)
      <4>1. PICK a \in addrs, b \in addrs : net' = FindChannel(net, a, b).net
        BY <3>4 DEF Find
      <4> QED  BY <3>1, <4>1, Found
    <3> QED  BY <1>1, <3>2, <3>3, <3>4
  <2> QED  BY <1>1, <2>1, ExtendedQueues DEF RegistryOK
<1>2. CASE \E p \in DOMAIN net.pairs : Send(p)
  BY <1>2, SendKeeps DEF Send, Extends
<1>3. CASE \E a \in addrs : Reply(a) \/ Collect(a)
  BY <1>3, ReplyKeeps, CollectKeeps DEF Reply, Collect, Extends
<1> QED  BY <1>1, <1>2, <1>3 DEF Use

LEMMA InitRegistry == Init => RegistryOK
BY RegistryAssumption DEF Init, RegistryOK, NetOK, QueuesOK, NewNetwork

LEMMA NextRegistry ==
    RegistryOK /\ [Next]_netVars => RegistryOK' /\ Extends(net', net)
BY UseKeeps DEF Next, netVars, RegistryOK, NetOK, QueuesOK, Extends

\* The shape of the class's channel pairs and queues, in any use.
LEMMA RegistryHolds == Spec => []RegistryOK
BY InitRegistry, NextRegistry, PTL DEF Spec

LEMMA RegistryReplies == RegistryOK => ReplyChannelFound /\ RepliesComeHome
<1> SUFFICES ASSUME RegistryOK PROVE ReplyChannelFound /\ RepliesComeHome
  OBVIOUS
<1>1. ReplyChannelFound
  BY ReplyLeadsBack DEF ReplyChannelFound, FindResponseChannel
<1>2. RepliesComeHome
  BY DEF RegistryOK, QueuesOK, RepliesComeHome
<1> QED  BY <1>1, <1>2

-----------------------------------------------------------------------------
(* The theorems about the class.                                           *)

\* A request in a queue has a reply channel to a response port that exists:
\* `it->second' of receive_with_channel (netsim.hh:454-460) is never end().
THEOREM ReplyChannelAlwaysFound == Spec => []ReplyChannelFound
BY RegistryHolds, RegistryReplies, PTL

\* A reply reaches the client that asked (netsim.hh:521-526, 454-460).
THEOREM RepliesAlwaysComeHome == Spec => []RepliesComeHome
BY RegistryHolds, RegistryReplies, PTL

\* "Reply channels are stable" (netsim.hh:257-258): pairs are never replaced.
THEOREM ReplyChannelsAreStable == Spec => ChannelsStable
<1>1. RegistryOK /\ [Next]_netVars =>
          [\A p \in DOMAIN net.pairs :
              p \in DOMAIN net'.pairs /\ net'.pairs[p] = net.pairs[p]]_netVars
  BY NextRegistry DEF Extends
<1> QED  BY <1>1, RegistryHolds, PTL DEF Spec, ChannelsStable


-----------------------------------------------------------------------------
(* The vectors of pointers the driver fills.                               *)

\* The pointers from a to the first k replicas.
KeysTo(a, k) == [t \in 1 .. k |-> <<a, ReplicaAddr(t - 1)>>]

\* n replicas, all but the last with m pointers, that one with k.
ReplicaVector(n, k, m) ==
    [s \in 1 .. n |->
        [port  |-> ReplicaAddr(s - 1),
         peers |-> KeysTo(ReplicaAddr(s - 1), IF s < n THEN m ELSE k)]]

\* n clients, likewise.
ClientVector(n, k, m) ==
    [c \in 1 .. n |-> KeysTo(ClientAddr(c - 1), IF c < n THEN m ELSE k)]

\* push_back.
LEMMA PushBack ==
    ASSUME NEW q, NEW n \in Nat, q = [s \in 1 .. n |-> q[s]], NEW e
    PROVE  /\ Len(q) = n
           /\ Append(q, e) = [s \in 1 .. n + 1 |-> IF s <= n THEN q[s] ELSE e]
<1> DEFINE S == {q[s] : s \in 1 .. n} \union {e}
<1>1. q \in [1 .. n -> S]
  OBVIOUS
<1>2. q \in Seq(S) /\ e \in S
  BY <1>1
<1> HIDE DEF S
<1>3. Len(q) = n
  BY <1>2, LenProperties
<1>4. /\ Append(q, e) \in Seq(S) /\ Len(Append(q, e)) = n + 1
      /\ \A s \in 1 .. n : Append(q, e)[s] = q[s]
      /\ Append(q, e)[n + 1] = e
  BY <1>2, <1>3, AppendProperties
<1>5. Append(q, e) = [s \in 1 .. n + 1 |-> Append(q, e)[s]]
  BY <1>4, LenProperties
<1> QED  BY <1>3, <1>4, <1>5

LEMMA KeysPushed ==
    ASSUME NEW a, NEW k \in Nat
    PROVE  /\ Len(KeysTo(a, k)) = k
           /\ Append(KeysTo(a, k), <<a, ReplicaAddr(k)>>) = KeysTo(a, k + 1)
           /\ KeysTo(a, 0) = << >>
<1> DEFINE q == KeysTo(a, k)
           e == <<a, ReplicaAddr(k)>>
<1>1. /\ q = [t \in 1 .. k |-> q[t]]
      /\ \A t \in 1 .. k : q[t] = <<a, ReplicaAddr(t - 1)>>
  BY DEF KeysTo
<1>2. KeysTo(a, k + 1) = [t \in 1 .. k + 1 |-> IF t <= k THEN q[t] ELSE e]
  <2>1. \A t \in 1 .. k + 1 : <<a, ReplicaAddr(t - 1)>> = IF t <= k THEN q[t] ELSE e
    <3> SUFFICES ASSUME NEW t \in 1 .. k + 1
                 PROVE  <<a, ReplicaAddr(t - 1)>> = IF t <= k THEN q[t] ELSE e
      OBVIOUS
    <3>1. CASE t <= k
      <4>1. t \in 1 .. k
        BY <3>1
      <4> HIDE DEF q, e
      <4> QED  BY <1>1, <3>1, <4>1
    <3>2. CASE t = k + 1
      <4>1. t - 1 = k /\ ~ (t <= k)
        BY <3>2
      <4> QED  BY <4>1
    <3> QED  BY <3>1, <3>2
  <2> QED  BY <2>1 DEF KeysTo
<1>3. KeysTo(a, 0) = << >>
  BY DEF KeysTo
<1> HIDE DEF q, e
<1>4. Len(q) = k /\ Append(q, e) = [t \in 1 .. k + 1 |-> IF t <= k THEN q[t] ELSE e]
  BY <1>1, PushBack
<1> QED  BY <1>2, <1>3, <1>4 DEF q, e

\* A replica, or a client, that has no pointers yet.
LEMMA VectorsPushed ==
    ASSUME NEW n \in Nat, NEW m \in Nat
    PROVE  /\ ReplicaVector(0, m, m) = << >> /\ ClientVector(0, m, m) = << >>
           /\ Append(ReplicaVector(n, m, m), [port |-> ReplicaAddr(n), peers |-> << >>])
                  = ReplicaVector(n + 1, 0, m)
           /\ Append(ClientVector(n, m, m), << >>) = ClientVector(n + 1, 0, m)
<1>1. ReplicaVector(0, m, m) = << >> /\ ClientVector(0, m, m) = << >>
  BY DEF ReplicaVector, ClientVector
<1>2. Append(ReplicaVector(n, m, m), [port |-> ReplicaAddr(n), peers |-> << >>])
          = ReplicaVector(n + 1, 0, m)
  <2> DEFINE q == ReplicaVector(n, m, m)
             e == [port |-> ReplicaAddr(n), peers |-> << >>]
             f(s) == [port  |-> ReplicaAddr(s - 1),
                      peers |-> KeysTo(ReplicaAddr(s - 1), IF s < n + 1 THEN m ELSE 0)]
  <2>1. q = [s \in 1 .. n |-> q[s]]
    BY DEF ReplicaVector
  <2>2. \A s \in 1 .. n : q[s] = f(s)
    BY DEF ReplicaVector
  <2>3. e = f(n + 1)
    BY KeysPushed
  <2>4. ReplicaVector(n + 1, 0, m) = [s \in 1 .. n + 1 |-> f(s)]
    BY DEF ReplicaVector
  <2> HIDE DEF q, e, f
  <2>5. Append(q, e) = [s \in 1 .. n + 1 |-> IF s <= n THEN q[s] ELSE e]
    BY <2>1, PushBack
  <2>6. \A s \in 1 .. n + 1 : (IF s <= n THEN q[s] ELSE e) = f(s)
    <3>1. \A s \in 1 .. n + 1 : (s <= n /\ s \in 1 .. n) \/ (~ (s <= n) /\ s = n + 1)
      OBVIOUS
    <3> QED  BY <2>2, <2>3, <3>1
  <2>7. Append(q, e) = [s \in 1 .. n + 1 |-> f(s)]
    BY <2>5, <2>6
  <2> QED  BY <2>4, <2>7 DEF q, e
<1>3. Append(ClientVector(n, m, m), << >>) = ClientVector(n + 1, 0, m)
  <2> DEFINE q == ClientVector(n, m, m)
             e == << >>
             f(s) == KeysTo(ClientAddr(s - 1), IF s < n + 1 THEN m ELSE 0)
  <2>1. q = [s \in 1 .. n |-> q[s]]
    BY DEF ClientVector
  <2>2. \A s \in 1 .. n : q[s] = f(s)
    BY DEF ClientVector
  <2>3. e = f(n + 1)
    BY KeysPushed
  <2>4. ClientVector(n + 1, 0, m) = [s \in 1 .. n + 1 |-> f(s)]
    BY DEF ClientVector
  <2> HIDE DEF q, e, f
  <2>5. Append(q, e) = [s \in 1 .. n + 1 |-> IF s <= n THEN q[s] ELSE e]
    BY <2>1, PushBack
  <2>6. \A s \in 1 .. n + 1 : (IF s <= n THEN q[s] ELSE e) = f(s)
    <3>1. \A s \in 1 .. n + 1 : (s <= n /\ s \in 1 .. n) \/ (~ (s <= n) /\ s = n + 1)
      OBVIOUS
    <3> QED  BY <2>2, <2>3, <3>1
  <2>7. Append(q, e) = [s \in 1 .. n + 1 |-> f(s)]
    BY <2>5, <2>6
  <2> QED  BY <2>4, <2>7 DEF q, e
<1> QED  BY <1>1, <1>2, <1>3

\* A replica, or a client, that got one more pointer.
LEMMA PointerPushed ==
    ASSUME NEW n \in Nat, NEW k \in Nat, NEW m \in Nat
    PROVE  /\ ReplicaVector(n + 1, k, m)[n + 1].peers = KeysTo(ReplicaAddr(n), k)
           /\ [ReplicaVector(n + 1, k, m) EXCEPT ![n + 1].peers = KeysTo(ReplicaAddr(n), k + 1)]
                  = ReplicaVector(n + 1, k + 1, m)
           /\ ClientVector(n + 1, k, m)[n + 1] = KeysTo(ClientAddr(n), k)
           /\ [ClientVector(n + 1, k, m) EXCEPT ![n + 1] = KeysTo(ClientAddr(n), k + 1)]
                  = ClientVector(n + 1, k + 1, m)
<1>1. n + 1 \in 1 .. n + 1 /\ (n + 1) - 1 = n /\ ~ (n + 1 < n + 1)
  OBVIOUS
<1>2. \A s \in 1 .. n + 1 : s # n + 1 => s < n + 1
  OBVIOUS
<1>3. ReplicaVector(n + 1, k, m)[n + 1]
          = [port |-> ReplicaAddr(n), peers |-> KeysTo(ReplicaAddr(n), k)]
  BY <1>1 DEF ReplicaVector
<1>4. ClientVector(n + 1, k, m)[n + 1] = KeysTo(ClientAddr(n), k)
  BY <1>1 DEF ClientVector
<1>5. [ReplicaVector(n + 1, k, m) EXCEPT ![n + 1].peers = KeysTo(ReplicaAddr(n), k + 1)]
          = ReplicaVector(n + 1, k + 1, m)
  <2> DEFINE v == [ReplicaVector(n + 1, k, m) EXCEPT ![n + 1].peers = KeysTo(ReplicaAddr(n), k + 1)]
             w == ReplicaVector(n + 1, k + 1, m)
  <2>1. /\ v = [s \in 1 .. n + 1 |-> v[s]]
        /\ w = [s \in 1 .. n + 1 |-> w[s]]
    BY DEF ReplicaVector
  <2>2. \A s \in 1 .. n + 1 : s # n + 1 => v[s] = w[s]
    BY <1>2 DEF ReplicaVector
  <2>3. v[n + 1] = [port |-> ReplicaAddr(n), peers |-> KeysTo(ReplicaAddr(n), k + 1)]
    BY <1>1, <1>3 DEF ReplicaVector
  <2>4. w[n + 1] = [port |-> ReplicaAddr(n), peers |-> KeysTo(ReplicaAddr(n), k + 1)]
    BY <1>1 DEF ReplicaVector
  <2> HIDE DEF v, w
  <2>5. v = w
    BY <2>1, <2>2, <2>3, <2>4
  <2> QED  BY <2>5 DEF v, w
<1>6. [ClientVector(n + 1, k, m) EXCEPT ![n + 1] = KeysTo(ClientAddr(n), k + 1)]
          = ClientVector(n + 1, k + 1, m)
  <2> DEFINE v == [ClientVector(n + 1, k, m) EXCEPT ![n + 1] = KeysTo(ClientAddr(n), k + 1)]
             w == ClientVector(n + 1, k + 1, m)
  <2>1. /\ v = [s \in 1 .. n + 1 |-> v[s]]
        /\ w = [s \in 1 .. n + 1 |-> w[s]]
    BY DEF ClientVector
  <2>2. \A s \in 1 .. n + 1 : s # n + 1 => v[s] = w[s]
    BY <1>2 DEF ClientVector
  <2>3. v[n + 1] = KeysTo(ClientAddr(n), k + 1)
    BY <1>1 DEF ClientVector
  <2>4. w[n + 1] = KeysTo(ClientAddr(n), k + 1)
    BY <1>1 DEF ClientVector
  <2> HIDE DEF v, w
  <2>5. v = w
    BY <2>1, <2>2, <2>3, <2>4
  <2> QED  BY <2>5 DEF v, w
<1> QED  BY <1>3, <1>4, <1>5, <1>6


-----------------------------------------------------------------------------
(* The driver.                                                             *)

Steps == {"configure", "ports", "model", "thrown", "replicas", "peers",
          "clients", "channels", "run", "any"}

\* The other network.
PeersOK(n) ==
    n \in [ports : SUBSET Addr, channels : {n.channels}, loss : Losses]

\* The configuration and the loop's index.
IndexOK ==
    /\ conf \in [nreplicas : 0 .. MaxReplicas, nclients : 0 .. MaxClients, loss : Losses]
    /\ step \in Steps /\ i \in Nat
    /\ step \in {"configure", "model", "thrown"} => i = 0
    /\ step \in {"ports", "replicas", "peers"} => i < conf.nreplicas
    /\ step \in {"clients", "channels"} => i < conf.nclients
    /\ step \in {"clients", "channels", "run"} => conf.nreplicas > 0

\* The ports that are registered so far.
PortsOK ==
    /\ step = "ports" =>
          \A s \in 0 .. i - 1 : ReplicaAddr(s) \in net.ports \intersect peers.ports
    /\ step \in {"model", "replicas", "peers", "clients", "channels", "run"} =>
          \A s \in 0 .. conf.nreplicas - 1 :
              ReplicaAddr(s) \in net.ports \intersect peers.ports
    /\ step = "channels" => ClientAddr(i) \in net.responsePorts

\* The vectors that are filled so far.
VectorsOK ==
    /\ step \in {"configure", "ports", "model", "thrown", "any"} => replicas = << >>
    /\ step = "replicas" => replicas = ReplicaVector(i, conf.nreplicas, conf.nreplicas)
    /\ step = "peers" => \E k \in 0 .. conf.nreplicas - 1 :
                            replicas = ReplicaVector(i + 1, k, conf.nreplicas)
    /\ step \in {"clients", "channels", "run"} =>
          replicas = ReplicaVector(conf.nreplicas, conf.nreplicas, conf.nreplicas)
    /\ step \notin {"clients", "channels", "run"} => clients = << >>
    /\ step = "clients" => clients = ClientVector(i, conf.nreplicas, conf.nreplicas)
    /\ step = "channels" => \E k \in 0 .. conf.nreplicas - 1 :
                               clients = ClientVector(i + 1, k, conf.nreplicas)
    /\ step = "run" => clients = ClientVector(conf.nclients, conf.nreplicas, conf.nreplicas)

\* The pointers of the clients are keys of the registry.
PointersOK ==
    \A c \in DOMAIN clients : \A k \in DOMAIN clients[c] :
        clients[c][k] \in DOMAIN net.pairs

\* No channel exists before the default is set.
LossOK ==
    /\ step = "configure" => DOMAIN net.pairs = {} /\ DOMAIN peers.channels = {}
    /\ step \notin {"configure", "any"} => net.loss = conf.loss /\ peers.loss = conf.loss
    /\ LossAsConfigured

SetupOK ==
    /\ RegistryOK
    /\ PeersOK(peers)
    /\ IndexOK
    /\ PortsOK
    /\ VectorsOK
    /\ PointersOK
    /\ LossOK


\* The driver's addresses are addresses.
LEMMA OwnAddresses ==
    /\ \A s \in 0 .. MaxReplicas - 1 : ReplicaAddr(s) \in Addr
    /\ \A c \in 0 .. MaxClients - 1 : ClientAddr(c) \in Addr
    /\ {ClientAddr(0), ReplicaAddr(0)} \in SUBSET Addr
<1>1. /\ \A s \in 0 .. MaxReplicas - 1 : ReplicaAddr(s) \in Addr
      /\ \A c \in 0 .. MaxClients - 1 : ClientAddr(c) \in Addr
  BY SetupAssumption DEF Addresses
<1>2. 0 \in 0 .. MaxReplicas - 1 /\ 0 \in 0 .. MaxClients - 1
  BY SetupAssumption
<1> QED  BY <1>1, <1>2

\* The other network's find_channel, likewise.
LEMMA PeerFound ==
    ASSUME NEW n, PeersOK(n), NEW src, NEW dst, NEW m, m = FindPeer(n, src, dst).net
    PROVE  /\ PeersOK(m) /\ m.ports = n.ports /\ m.loss = n.loss
           /\ \A p \in DOMAIN m.channels :
                 \/ p \in DOMAIN n.channels /\ m.channels[p] = n.channels[p]
                 \/ m.channels[p].loss = n.loss
           /\ {src, dst} \subseteq n.ports => FindPeer(n, src, dst).found = <<src, dst>>
<1>1. CASE dst \in n.ports /\ src \in n.ports /\ <<src, dst>> \notin DOMAIN n.channels
  <2> DEFINE new == Channel(src, dst, n.loss)
             cs == TryEmplace(n.channels, <<src, dst>>, new)
  <2>1. m = [n EXCEPT !.channels = cs] /\ FindPeer(n, src, dst).found = <<src, dst>>
    BY <1>1 DEF FindPeer, FindPeerFrom
  <2>2. new.loss = n.loss
    BY DEF Channel
  <2> HIDE DEF new
  <2>3. /\ DOMAIN cs = DOMAIN n.channels \union {<<src, dst>>}
        /\ \A p \in DOMAIN n.channels : cs[p] = n.channels[p]
        /\ cs[<<src, dst>>] = new
    BY <1>1 DEF TryEmplace
  <2> HIDE DEF cs
  <2>4. /\ m.channels = cs /\ m.ports = n.ports /\ m.loss = n.loss
        /\ m \in [ports : SUBSET Addr, channels : {m.channels}, loss : Losses]
    BY <2>1 DEF PeersOK
  <2> QED  BY <2>1, <2>2, <2>3, <2>4 DEF PeersOK
<1>2. CASE ~ (dst \in n.ports /\ src \in n.ports /\ <<src, dst>> \notin DOMAIN n.channels)
  BY <1>2 DEF FindPeer, FindPeerFrom
<1> QED  BY <1>1, <1>2

LEMMA InitSetup == SetupInit => SetupOK
<1> SUFFICES ASSUME SetupInit PROVE SetupOK
  OBVIOUS
<1>1. /\ net = NewNetwork /\ peers = NewPeers /\ i = 0 /\ replicas = << >> /\ clients = << >>
      /\ conf \in [nreplicas : 0 .. MaxReplicas, nclients : 0 .. MaxClients, loss : Losses]
      /\ step \in {"configure", "any"}
  BY DEF SetupInit, Init
<1>2. RegistryOK
  BY InitRegistry DEF SetupInit
<1>3. PeersOK(peers) /\ DOMAIN net.pairs = {} /\ DOMAIN peers.channels = {}
  BY <1>1, RegistryAssumption DEF PeersOK, NewPeers, NewNetwork
<1>4. IndexOK /\ PortsOK /\ VectorsOK /\ PointersOK
  BY <1>1 DEF IndexOK, PortsOK, VectorsOK, PointersOK, Steps
<1>5. LossOK
  BY <1>1, <1>3 DEF LossOK, LossAsConfigured
<1> QED  BY <1>2, <1>3, <1>4, <1>5 DEF SetupOK

\* Setting the default before anything else.
LEMMA ConfigureKeeps ==
    ASSUME SetupOK, ConfigureNetworks
    PROVE  SetupOK' /\ Extends(net', net)
<1>1. /\ step = "configure" /\ net' = SetDefaultLoss(net, conf.loss)
      /\ peers' = [peers EXCEPT !.loss = conf.loss]
      /\ step' = IF conf.nreplicas = 0 THEN "model" ELSE "ports"
      /\ UNCHANGED <<requests, responses, conf, i, replicas, clients>>
  BY DEF ConfigureNetworks, ConfigureBoth
<1>2. conf.loss \in Losses /\ conf.nreplicas \in Nat /\ conf.nclients \in Nat /\ i = 0
  BY <1>1, SetupAssumption DEF SetupOK, IndexOK
<1>3. /\ NetOK(net') /\ Extends(net', net) /\ net'.loss = conf.loss /\ net'.pairs = net.pairs
  BY <1>1, <1>2, DefaultSet DEF SetupOK, RegistryOK
<1>4. RegistryOK'
  BY <1>1, <1>3, ExtendedQueues DEF SetupOK, RegistryOK
<1>5. /\ PeersOK(peers') /\ peers'.loss = conf.loss /\ peers'.channels = peers.channels
  BY <1>1, <1>2 DEF SetupOK, PeersOK
<1>6. IndexOK'
  BY <1>1, <1>2 DEF SetupOK, IndexOK, Steps
<1>7. PortsOK'
  BY <1>1, <1>2 DEF PortsOK
<1>8. VectorsOK'
  BY <1>1 DEF SetupOK, VectorsOK
<1>9. PointersOK'
  BY <1>1, <1>3 DEF SetupOK, PointersOK
<1>10. LossOK'
  BY <1>1, <1>3, <1>5 DEF SetupOK, LossOK, LossAsConfigured
<1> QED  BY <1>3, <1>4, <1>5, <1>6, <1>7, <1>8, <1>9, <1>10 DEF SetupOK

\* A replica's ports.
LEMMA RegisterKeeps ==
    ASSUME SetupOK, RegisterPorts
    PROVE  SetupOK' /\ Extends(net', net)
<1>1. /\ step = "ports" /\ net' = Port(net, ReplicaAddr(i))
      /\ peers' = PeerPort(peers, ReplicaAddr(i))
      /\ IF i + 1 < conf.nreplicas THEN i' = i + 1 /\ step' = "ports"
                                   ELSE i' = 0 /\ step' = "model"
      /\ UNCHANGED <<requests, responses, conf, replicas, clients>>
  BY DEF RegisterPorts, Advance
<1>2. /\ conf.nreplicas \in 0 .. MaxReplicas /\ conf.nreplicas \in Nat /\ conf.nclients \in Nat
      /\ i \in Nat /\ i < conf.nreplicas /\ MaxReplicas \in Nat
  BY <1>1, SetupAssumption DEF SetupOK, IndexOK
<1>3. ReplicaAddr(i) \in Addr
  BY <1>2, OwnAddresses
<1>4. /\ NetOK(net') /\ Extends(net', net) /\ net'.loss = net.loss /\ net'.pairs = net.pairs
      /\ ReplicaAddr(i) \in net'.ports
  BY <1>1, <1>3, Registered DEF SetupOK, RegistryOK
<1>5. RegistryOK'
  BY <1>1, <1>4, ExtendedQueues DEF SetupOK, RegistryOK
<1>6. /\ PeersOK(peers') /\ peers'.loss = peers.loss /\ peers'.channels = peers.channels
      /\ peers'.ports = peers.ports \union {ReplicaAddr(i)}
  BY <1>1, <1>3 DEF SetupOK, PeersOK, PeerPort
<1>7. IndexOK'
  BY <1>1, <1>2 DEF SetupOK, IndexOK, Steps
<1>8. PortsOK'
  <2>1. \A s \in 0 .. i : ReplicaAddr(s) \in net'.ports \intersect peers'.ports
    <3>1. \A s \in 0 .. i - 1 : ReplicaAddr(s) \in net.ports \intersect peers.ports
      BY <1>1 DEF SetupOK, PortsOK
    <3>2. \A s \in 0 .. i : s \in 0 .. i - 1 \/ s = i
      BY <1>2
    <3> QED  BY <1>4, <1>6, <3>1, <3>2 DEF Extends
  <2>2. CASE i + 1 < conf.nreplicas
    <3>1. i' - 1 = i
      BY <1>1, <1>2, <2>2
    <3> QED  BY <1>1, <2>1, <2>2, <3>1 DEF PortsOK
  <2>3. CASE ~ (i + 1 < conf.nreplicas)
    <3>1. conf.nreplicas - 1 = i
      BY <1>2, <2>3
    <3> QED  BY <1>1, <2>1, <2>3, <3>1 DEF PortsOK
  <2> QED  BY <2>2, <2>3
<1>9. VectorsOK'
  BY <1>1 DEF SetupOK, VectorsOK
<1>10. PointersOK'
  BY <1>1, <1>4 DEF SetupOK, PointersOK
<1>11. LossOK'
  BY <1>1, <1>4, <1>6 DEF SetupOK, LossOK, LossAsConfigured
<1> QED  BY <1>4, <1>5, <1>6, <1>7, <1>8, <1>9, <1>10, <1>11 DEF SetupOK

\* The constructors that change no network.
LEMMA ModelKeeps ==
    ASSUME SetupOK, ConstructModel
    PROVE  SetupOK' /\ net' = net
<1>1. /\ step = "model"
      /\ step' = IF conf.nreplicas = 0 THEN "thrown" ELSE "replicas"
      /\ UNCHANGED <<net, requests, responses, conf, i, peers, replicas, clients>>
  BY DEF ConstructModel, netVars
<1>2. conf.nreplicas \in Nat /\ conf.nclients \in Nat /\ i = 0
  BY <1>1, SetupAssumption DEF SetupOK, IndexOK
<1>3. RegistryOK' /\ PeersOK(peers')
  BY <1>1 DEF SetupOK, RegistryOK, QueuesOK
<1>4. IndexOK' /\ PortsOK'
  BY <1>1, <1>2 DEF SetupOK, IndexOK, PortsOK, Steps
<1>5. VectorsOK'
  BY <1>1, <1>2, VectorsPushed DEF SetupOK, VectorsOK
<1>6. PointersOK' /\ LossOK'
  BY <1>1 DEF SetupOK, PointersOK, LossOK, LossAsConfigured
<1> QED  BY <1>1, <1>3, <1>4, <1>5, <1>6 DEF SetupOK

LEMMA ReplicaKeeps ==
    ASSUME SetupOK, ConstructReplica
    PROVE  SetupOK' /\ net' = net
<1>1. /\ step = "replicas" /\ step' = "peers"
      /\ replicas' = Append(replicas,
             [port  |-> IF HasPort(net, ReplicaAddr(i)) THEN ReplicaAddr(i) ELSE Null,
              peers |-> << >>])
      /\ UNCHANGED <<net, requests, responses, conf, i, peers, clients>>
  BY DEF ConstructReplica, netVars
<1>2. conf.nreplicas \in Nat /\ conf.nclients \in Nat /\ i \in Nat /\ i < conf.nreplicas
  BY <1>1, SetupAssumption DEF SetupOK, IndexOK
<1>3. RegistryOK' /\ PeersOK(peers')
  BY <1>1 DEF SetupOK, RegistryOK, QueuesOK
<1>4. IndexOK' /\ PortsOK'
  BY <1>1, <1>2 DEF SetupOK, IndexOK, PortsOK, Steps
<1>5. HasPort(net, ReplicaAddr(i))
  <2>1. i \in 0 .. conf.nreplicas - 1
    BY <1>2
  <2> QED  BY <1>1, <2>1 DEF SetupOK, PortsOK, HasPort
<1>6. replicas' = ReplicaVector(i + 1, 0, conf.nreplicas)
  BY <1>1, <1>2, <1>5, VectorsPushed DEF SetupOK, VectorsOK
<1>7. VectorsOK'
  <2>1. 0 \in 0 .. conf.nreplicas - 1 /\ clients' = << >>
    BY <1>1, <1>2 DEF SetupOK, VectorsOK
  <2> QED  BY <1>1, <1>6, <2>1 DEF VectorsOK
<1>8. PointersOK' /\ LossOK'
  BY <1>1 DEF SetupOK, PointersOK, LossOK, LossAsConfigured
<1> QED  BY <1>1, <1>3, <1>4, <1>7, <1>8 DEF SetupOK


\* One more channel between replicas.
LEMMA PeerKeeps ==
    ASSUME SetupOK, AddPeer
    PROVE  SetupOK' /\ net' = net
<1> DEFINE s == Len(replicas[i + 1].peers)
           peer == FindPeer(peers, ReplicaAddr(i), ReplicaAddr(s))
<1>1. /\ step = "peers" /\ peers' = peer.net
      /\ replicas' = [replicas EXCEPT ![i + 1].peers = Append(@, peer.found)]
      /\ IF s + 1 < conf.nreplicas THEN UNCHANGED <<i, step>>
         ELSE Advance(conf.nreplicas, "replicas",
                      IF conf.nclients = 0 THEN "run" ELSE "clients")
      /\ UNCHANGED <<net, requests, responses, conf, clients>>
  BY DEF AddPeer, netVars
<1>2. conf.nreplicas \in Nat /\ conf.nclients \in Nat /\ i \in Nat /\ i < conf.nreplicas
  BY <1>1, SetupAssumption DEF SetupOK, IndexOK
<1>3. PICK k \in 0 .. conf.nreplicas - 1 : replicas = ReplicaVector(i + 1, k, conf.nreplicas)
  BY <1>1 DEF SetupOK, VectorsOK
<1>4. /\ replicas[i + 1].peers = KeysTo(ReplicaAddr(i), k) /\ k \in Nat /\ s = k
  <2>1. k \in Nat
    BY <1>2
  <2>2. replicas[i + 1].peers = KeysTo(ReplicaAddr(i), k)
    BY <1>2, <1>3, <2>1, PointerPushed
  <2> QED  BY <2>1, <2>2, KeysPushed
<1>5. {ReplicaAddr(i), ReplicaAddr(s)} \subseteq peers.ports
  <2>1. i \in 0 .. conf.nreplicas - 1 /\ s \in 0 .. conf.nreplicas - 1
    BY <1>2, <1>3, <1>4
  <2> QED  BY <1>1, <2>1 DEF SetupOK, PortsOK
<1>6. /\ PeersOK(peers') /\ peers'.ports = peers.ports /\ peers'.loss = peers.loss
      /\ \A p \in DOMAIN peers'.channels :
            \/ p \in DOMAIN peers.channels /\ peers'.channels[p] = peers.channels[p]
            \/ peers'.channels[p].loss = peers.loss
      /\ peer.found = <<ReplicaAddr(i), ReplicaAddr(s)>>
  BY <1>1, <1>5, PeerFound DEF SetupOK
<1>7. replicas' = ReplicaVector(i + 1, k + 1, conf.nreplicas)
  <2>1. Append(replicas[i + 1].peers, peer.found) = KeysTo(ReplicaAddr(i), k + 1)
    BY <1>4, <1>6, KeysPushed
  <2>2. replicas' = [replicas EXCEPT ![i + 1].peers = KeysTo(ReplicaAddr(i), k + 1)]
    BY <1>1, <2>1
  <2> QED  BY <1>2, <1>3, <1>4, <2>2, PointerPushed
<1> HIDE DEF s, peer
<1>8. RegistryOK' /\ PointersOK'
  BY <1>1 DEF SetupOK, RegistryOK, QueuesOK, PointersOK
<1>9. LossOK'
  <2>1. /\ net.loss = conf.loss /\ peers.loss = conf.loss /\ LossAsConfigured
    BY <1>1 DEF SetupOK, LossOK
  <2>2. step' \in {"peers", "replicas", "run", "clients"}
    BY <1>1 DEF Advance
  <2> QED  BY <1>1, <1>6, <2>1, <2>2 DEF LossOK, LossAsConfigured
<1>10. clients = << >>
  BY <1>1 DEF SetupOK, VectorsOK
<1>11. CASE s + 1 < conf.nreplicas
  <2>1. i' = i /\ step' = step /\ k + 1 \in 0 .. conf.nreplicas - 1
    BY <1>1, <1>2, <1>4, <1>11
  <2>2. VectorsOK'
    BY <1>1, <1>7, <1>10, <2>1 DEF VectorsOK
  <2>3. IndexOK' /\ PortsOK'
    BY <1>1, <1>6, <2>1 DEF SetupOK, IndexOK, PortsOK
  <2> QED  BY <1>1, <1>6, <1>8, <1>9, <2>2, <2>3 DEF SetupOK
<1>12. CASE ~ (s + 1 < conf.nreplicas)
  <2>1. k + 1 = conf.nreplicas
    BY <1>2, <1>4, <1>3, <1>12
  <2>2. CASE i + 1 < conf.nreplicas
    <3>1. i' = i + 1 /\ step' = "replicas"
      BY <1>1, <1>12, <2>2 DEF Advance
    <3>2. VectorsOK'
      BY <1>1, <1>7, <1>10, <2>1, <3>1 DEF VectorsOK
    <3>3. IndexOK' /\ PortsOK'
      BY <1>1, <1>2, <1>6, <2>2, <3>1 DEF SetupOK, IndexOK, PortsOK, Steps
    <3> QED  BY <1>1, <1>6, <1>8, <1>9, <3>2, <3>3 DEF SetupOK
  <2>3. CASE ~ (i + 1 < conf.nreplicas)
    <3>1. /\ i' = 0 /\ step' = IF conf.nclients = 0 THEN "run" ELSE "clients"
          /\ i + 1 = conf.nreplicas
      BY <1>1, <1>2, <1>12, <2>3 DEF Advance
    <3>2. VectorsOK'
      <4>1. clients' = ClientVector(0, conf.nreplicas, conf.nreplicas)
        BY <1>1, <1>2, <1>10, VectorsPushed
      <4> QED  BY <1>1, <1>2, <1>7, <2>1, <3>1, <4>1 DEF VectorsOK
    <3>3. IndexOK' /\ PortsOK'
      BY <1>1, <1>2, <1>6, <2>3, <3>1 DEF SetupOK, IndexOK, PortsOK, Steps
    <3> QED  BY <1>1, <1>6, <1>8, <1>9, <3>2, <3>3 DEF SetupOK
  <2> QED  BY <2>2, <2>3
<1> QED  BY <1>11, <1>12

\* A client's response port.
LEMMA ClientKeeps ==
    ASSUME SetupOK, AddClient
    PROVE  SetupOK' /\ Extends(net', net)
<1>1. /\ step = "clients" /\ step' = "channels"
      /\ net' = ResponsePort(net, ClientAddr(i))
      /\ clients' = Append(clients, << >>)
      /\ UNCHANGED <<requests, responses, conf, i, peers, replicas>>
  BY DEF AddClient, ClientPort
<1>2. /\ conf.nreplicas \in Nat /\ conf.nclients \in 0 .. MaxClients /\ MaxClients \in Nat
      /\ conf.nclients \in Nat /\ i \in Nat /\ i < conf.nclients
  BY <1>1, SetupAssumption DEF SetupOK, IndexOK
<1>3. ClientAddr(i) \in Addr
  <2>1. i \in 0 .. MaxClients - 1
    BY <1>2
  <2> QED  BY <2>1, OwnAddresses
<1>4. /\ NetOK(net') /\ Extends(net', net) /\ net'.loss = net.loss /\ net'.pairs = net.pairs
      /\ ClientAddr(i) \in net'.responsePorts
  BY <1>1, <1>3, Registered DEF SetupOK, RegistryOK
<1>5. RegistryOK' /\ PeersOK(peers')
  BY <1>1, <1>4, ExtendedQueues DEF SetupOK, RegistryOK
<1>6. IndexOK'
  BY <1>1, <1>2 DEF SetupOK, IndexOK, Steps
<1>7. PortsOK'
  BY <1>1, <1>4 DEF SetupOK, PortsOK, Extends
<1>8. clients = ClientVector(i, conf.nreplicas, conf.nreplicas)
  BY <1>1 DEF SetupOK, VectorsOK
<1>9. clients' = ClientVector(i + 1, 0, conf.nreplicas)
  BY <1>1, <1>2, <1>8, VectorsPushed
<1>10. conf.nreplicas > 0
  BY <1>1, <1>2 DEF SetupOK, IndexOK
<1>11. VectorsOK'
  BY <1>1, <1>2, <1>9, <1>10 DEF SetupOK, VectorsOK
<1>12. PointersOK'
  <2> SUFFICES ASSUME NEW c \in DOMAIN clients', NEW k \in DOMAIN clients'[c]
               PROVE  clients'[c][k] \in DOMAIN net.pairs
    BY <1>4 DEF PointersOK
  <2>1. CASE c = i + 1
    <3>1. clients'[c] = KeysTo(ClientAddr(i), 0)
      BY <1>2, <1>9, <2>1, PointerPushed
    <3>2. FALSE
      BY <3>1 DEF KeysTo
    <3> QED  BY <3>2
  <2>2. CASE c # i + 1
    <3>1. c \in DOMAIN clients /\ clients'[c] = clients[c]
      BY <1>2, <1>8, <1>9, <2>2 DEF ClientVector
    <3> QED  BY <3>1 DEF SetupOK, PointersOK
  <2> QED  BY <2>1, <2>2
<1>13. LossOK'
  BY <1>1, <1>4 DEF SetupOK, LossOK, LossAsConfigured
<1> QED  BY <1>4, <1>5, <1>6, <1>7, <1>11, <1>12, <1>13 DEF SetupOK


\* One more channel of a client, which has its response port by now.
LEMMA ChannelKeeps ==
    ASSUME SetupOK, AddChannel
    PROVE  SetupOK' /\ Extends(net', net)
<1> DEFINE r == Len(clients[i + 1])
           channel == FindChannel(net, ClientAddr(i), ReplicaAddr(r))
<1>1. /\ step = "channels" /\ net' = channel.net
      /\ clients' = [clients EXCEPT ![i + 1] = Append(@, channel.found)]
      /\ IF r + 1 < conf.nreplicas THEN UNCHANGED <<i, step>>
         ELSE Advance(conf.nclients, "clients", "run")
      /\ UNCHANGED <<requests, responses, conf, peers, replicas>>
  BY DEF AddChannel
<1>2. /\ conf.nreplicas \in Nat /\ conf.nclients \in Nat /\ i \in Nat /\ i < conf.nclients
      /\ conf.nreplicas > 0
  BY <1>1, SetupAssumption DEF SetupOK, IndexOK
<1>3. PICK k \in 0 .. conf.nreplicas - 1 : clients = ClientVector(i + 1, k, conf.nreplicas)
  BY <1>1 DEF SetupOK, VectorsOK
<1>4. /\ clients[i + 1] = KeysTo(ClientAddr(i), k) /\ k \in Nat /\ r = k
  <2>1. k \in Nat
    BY <1>2
  <2>2. clients[i + 1] = KeysTo(ClientAddr(i), k)
    BY <1>2, <1>3, <2>1, PointerPushed
  <2> QED  BY <2>1, <2>2, KeysPushed
<1>5. ReplicaAddr(r) \in net.ports /\ ClientAddr(i) \in net.responsePorts
  BY <1>1, <1>4 DEF SetupOK, PortsOK
<1>6. /\ NetOK(net') /\ Extends(net', net) /\ net'.loss = net.loss
      /\ net'.ports = net.ports /\ net'.responsePorts = net.responsePorts
      /\ \A p \in DOMAIN net'.pairs : \/ p \in DOMAIN net.pairs
                                      \/ /\ net'.pairs[p].request.loss = net.loss
                                         /\ net'.pairs[p].reply.loss = net.loss
      /\ channel.found = <<ClientAddr(i), ReplicaAddr(r)>>
      /\ <<ClientAddr(i), ReplicaAddr(r)>> \in DOMAIN net'.pairs
  BY <1>1, <1>5, Found DEF SetupOK, RegistryOK
<1>7. clients' = ClientVector(i + 1, k + 1, conf.nreplicas)
  <2>1. Append(clients[i + 1], channel.found) = KeysTo(ClientAddr(i), k + 1)
    BY <1>4, <1>6, KeysPushed
  <2>2. clients' = [clients EXCEPT ![i + 1] = KeysTo(ClientAddr(i), k + 1)]
    BY <1>1, <2>1
  <2> QED  BY <1>2, <1>3, <1>4, <2>2, PointerPushed
<1> HIDE DEF channel
<1>8. RegistryOK' /\ PeersOK(peers')
  BY <1>1, <1>6, ExtendedQueues DEF SetupOK, RegistryOK
<1>9. PointersOK'
  <2> SUFFICES ASSUME NEW c \in DOMAIN clients', NEW t \in DOMAIN clients'[c]
               PROVE  clients'[c][t] \in DOMAIN net'.pairs
    BY DEF PointersOK
  <2>1. CASE c = i + 1
    <3>1. clients'[c] = KeysTo(ClientAddr(i), k + 1)
      <4>1. k + 1 \in Nat
        BY <1>4
      <4>2. ClientVector(i + 1, k + 1, conf.nreplicas)[i + 1] = KeysTo(ClientAddr(i), k + 1)
        BY <1>2, <4>1, PointerPushed
      <4> QED  BY <1>7, <2>1, <4>2
    <3>2. t \in 1 .. k + 1 /\ clients'[c][t] = <<ClientAddr(i), ReplicaAddr(t - 1)>>
      BY <3>1 DEF KeysTo
    <3>3. CASE t = k + 1
      <4>1. clients'[c][t] = <<ClientAddr(i), ReplicaAddr(r)>>
        BY <1>4, <3>2, <3>3
      <4> QED  BY <1>6, <4>1
    <3>4. CASE t # k + 1
      <4>1. t \in 1 .. k
        BY <1>4, <3>2, <3>4
      <4>2. /\ c \in DOMAIN clients /\ t \in DOMAIN clients[c]
            /\ clients[c][t] = <<ClientAddr(i), ReplicaAddr(t - 1)>>
        BY <1>2, <1>3, <1>4, <2>1, <4>1 DEF ClientVector, KeysTo
      <4> QED  BY <1>6, <3>2, <4>2 DEF SetupOK, PointersOK, Extends
    <3> QED  BY <3>3, <3>4
  <2>2. CASE c # i + 1
    <3>1. c \in DOMAIN clients /\ clients'[c] = clients[c]
      BY <1>2, <1>3, <1>7, <2>2 DEF ClientVector
    <3> QED  BY <1>6, <3>1 DEF SetupOK, PointersOK, Extends
  <2> QED  BY <2>1, <2>2
<1>10. LossOK'
  <2>1. /\ net.loss = conf.loss /\ peers.loss = conf.loss /\ LossAsConfigured
    BY <1>1 DEF SetupOK, LossOK
  <2>2. step' \in {"channels", "clients", "run"}
    BY <1>1 DEF Advance
  <2>3. \A p \in DOMAIN net.pairs : /\ net.pairs[p].request.loss = conf.loss
                                    /\ net.pairs[p].reply.loss = conf.loss
    BY <1>1, <2>1 DEF LossAsConfigured
  <2>4. \A p \in DOMAIN net'.pairs : /\ net'.pairs[p].request.loss = conf.loss
                                     /\ net'.pairs[p].reply.loss = conf.loss
    BY <1>6, <2>1, <2>3 DEF Extends
  <2> QED  BY <1>1, <1>6, <2>1, <2>2, <2>4 DEF LossOK, LossAsConfigured
<1>11. replicas' = ReplicaVector(conf.nreplicas, conf.nreplicas, conf.nreplicas)
  BY <1>1 DEF SetupOK, VectorsOK
<1>12. \A s \in 0 .. conf.nreplicas - 1 : ReplicaAddr(s) \in net'.ports \intersect peers'.ports
  BY <1>1, <1>6 DEF SetupOK, PortsOK
<1> HIDE DEF r
<1>13. CASE r + 1 < conf.nreplicas
  <2>1. i' = i /\ step' = step /\ k + 1 \in 0 .. conf.nreplicas - 1
    BY <1>1, <1>2, <1>4, <1>13
  <2>2. VectorsOK'
    BY <1>1, <1>7, <1>11, <2>1 DEF VectorsOK
  <2>3. IndexOK' /\ PortsOK'
    BY <1>1, <1>5, <1>6, <1>12, <2>1 DEF SetupOK, IndexOK, PortsOK
  <2> QED  BY <1>6, <1>8, <1>9, <1>10, <2>2, <2>3 DEF SetupOK
<1>14. CASE ~ (r + 1 < conf.nreplicas)
  <2>1. k + 1 = conf.nreplicas
    BY <1>2, <1>3, <1>4, <1>14
  <2>2. CASE i + 1 < conf.nclients
    <3>1. i' = i + 1 /\ step' = "clients"
      BY <1>1, <1>14, <2>2 DEF Advance
    <3>2. VectorsOK'
      BY <1>1, <1>7, <1>11, <2>1, <3>1 DEF VectorsOK
    <3>3. IndexOK' /\ PortsOK'
      BY <1>1, <1>2, <1>12, <2>2, <3>1 DEF SetupOK, IndexOK, PortsOK, Steps
    <3> QED  BY <1>6, <1>8, <1>9, <1>10, <3>2, <3>3 DEF SetupOK
  <2>3. CASE ~ (i + 1 < conf.nclients)
    <3>1. i' = 0 /\ step' = "run" /\ i + 1 = conf.nclients
      BY <1>1, <1>2, <1>14, <2>3 DEF Advance
    <3>2. VectorsOK'
      BY <1>1, <1>7, <1>11, <2>1, <3>1 DEF VectorsOK
    <3>3. IndexOK' /\ PortsOK'
      BY <1>1, <1>2, <1>12, <3>1 DEF SetupOK, IndexOK, PortsOK, Steps
    <3> QED  BY <1>6, <1>8, <1>9, <1>10, <3>2, <3>3 DEF SetupOK
  <2> QED  BY <2>2, <2>3
<1> QED  BY <1>13, <1>14

\* What the vectors' shape says of their elements.
LEMMA Wired ==
    ASSUME SetupOK
    PROVE  /\ WiredByIndex
           /\ step = "run" => \A s \in DOMAIN replicas : replicas[s].port \in Addr
<1>1. conf.nreplicas \in Nat /\ conf.nclients \in Nat /\ i \in Nat /\ step \in Steps
  BY SetupAssumption DEF SetupOK, IndexOK
<1>2. PICK n \in Nat, k \in Nat : replicas = ReplicaVector(n, k, conf.nreplicas)
  <2>1. 0 \in Nat /\ i + 1 \in Nat /\ \A k \in 0 .. conf.nreplicas - 1 : k \in Nat
    BY <1>1
  <2>2. << >> = ReplicaVector(0, conf.nreplicas, conf.nreplicas)
    BY <1>1, VectorsPushed
  <2>3. step \in {"configure", "ports", "model", "thrown", "any"} \/ step = "replicas"
            \/ step = "peers" \/ step \in {"clients", "channels", "run"}
    BY <1>1 DEF Steps
  <2> QED  BY <1>1, <2>1, <2>2, <2>3 DEF SetupOK, VectorsOK
<1>3. PICK l \in Nat, j \in Nat : clients = ClientVector(l, j, conf.nreplicas)
  <2>1. 0 \in Nat /\ i + 1 \in Nat /\ \A m \in 0 .. conf.nreplicas - 1 : m \in Nat
    BY <1>1
  <2>2. << >> = ClientVector(0, conf.nreplicas, conf.nreplicas)
    BY <1>1, VectorsPushed
  <2> QED  BY <1>1, <2>1, <2>2 DEF SetupOK, VectorsOK
<1>4. \A s \in DOMAIN replicas :
          /\ replicas[s].port = ReplicaAddr(s - 1)
          /\ \A t \in DOMAIN replicas[s].peers :
                replicas[s].peers[t] = <<ReplicaAddr(s - 1), ReplicaAddr(t - 1)>>
  BY <1>2 DEF ReplicaVector, KeysTo
<1>5. \A c \in DOMAIN clients : \A r \in DOMAIN clients[c] :
          clients[c][r] = <<ClientAddr(c - 1), ReplicaAddr(r - 1)>>
  BY <1>3 DEF ClientVector, KeysTo
<1>6. ASSUME step = "run"
      PROVE  /\ Len(replicas) = conf.nreplicas /\ Len(clients) = conf.nclients
             /\ \A s \in DOMAIN replicas : Len(replicas[s].peers) = conf.nreplicas
             /\ \A c \in DOMAIN clients : Len(clients[c]) = conf.nreplicas
             /\ \A s \in DOMAIN replicas : replicas[s].port \in Addr
  <2> DEFINE m == conf.nreplicas
             v == ReplicaVector(m, m, m)
             w == ClientVector(conf.nclients, m, m)
  <2>1. replicas = v /\ clients = w
    BY <1>6 DEF SetupOK, VectorsOK
  <2>2. /\ v = [s \in 1 .. m |-> v[s]] /\ w = [c \in 1 .. conf.nclients |-> w[c]]
        /\ \A s \in 1 .. m : v[s].peers = KeysTo(ReplicaAddr(s - 1), m)
        /\ \A c \in 1 .. conf.nclients : w[c] = KeysTo(ClientAddr(c - 1), m)
        /\ DOMAIN v = 1 .. m /\ DOMAIN w = 1 .. conf.nclients
    BY DEF ReplicaVector, ClientVector
  <2> HIDE DEF v, w
  <2>3. Len(v) = m /\ Len(w) = conf.nclients
    BY <1>1, <2>2, PushBack
  <2>4. /\ \A s \in DOMAIN v : Len(v[s].peers) = m
        /\ \A c \in DOMAIN w : Len(w[c]) = m
    <3>1. \A a : Len(KeysTo(a, m)) = m
      BY <1>1, KeysPushed
    <3> QED  BY <2>2, <3>1
  <2>5. \A s \in DOMAIN v : ReplicaAddr(s - 1) \in Addr
    <3>1. m \in 0 .. MaxReplicas /\ MaxReplicas \in Nat
      BY SetupAssumption DEF SetupOK, IndexOK
    <3>2. \A s \in 1 .. m : s - 1 \in 0 .. MaxReplicas - 1
      BY <3>1
    <3> QED  BY <2>2, <3>2, OwnAddresses
  <2> QED  BY <1>4, <2>1, <2>3, <2>4, <2>5
<1> QED  BY <1>4, <1>5, <1>6 DEF WiredByIndex


\* Clients and replicas talk, or another network is used in any way.
LEMMA TalkKeeps ==
    ASSUME SetupOK, Talk \/ AnyUse \/ Silent
    PROVE  SetupOK' /\ Extends(net', net)
<1>1. RegistryOK
  BY DEF SetupOK
<1>2. CASE Talk
  <2>1. step = "run" /\ UNCHANGED setupVars
    BY <1>2 DEF Talk
  <2>2. RegistryOK' /\ net' = net
    <3>1. CASE \E c \in DOMAIN clients : \E r \in 1 .. conf.nreplicas : Send(clients[c][r])
      <4>1. PICK c \in DOMAIN clients, r \in 1 .. conf.nreplicas : Send(clients[c][r])
        BY <3>1
      <4>2. clients[c][r] \in DOMAIN net.pairs
        <5>1. clients = ClientVector(conf.nclients, conf.nreplicas, conf.nreplicas)
          BY <2>1 DEF SetupOK, VectorsOK
        <5>2. r \in DOMAIN clients[c]
          BY <5>1 DEF ClientVector, KeysTo
        <5> QED  BY <5>2 DEF SetupOK, PointersOK
      <4> QED  BY <1>1, <4>1, <4>2, SendKeeps DEF Send
    <3>2. CASE \E s \in DOMAIN replicas : Reply(replicas[s].port)
      BY <1>1, <2>1, <3>2, Wired, ReplyKeeps DEF Reply
    <3>3. CASE \E c \in DOMAIN clients : Collect(ClientAddr(c - 1))
      <4>1. PICK c \in DOMAIN clients : Collect(ClientAddr(c - 1))
        BY <3>3
      <4>2. c - 1 \in 0 .. MaxClients - 1
        <5>1. c \in 1 .. conf.nclients /\ conf.nclients \in 0 .. MaxClients /\ MaxClients \in Nat
          BY <2>1, SetupAssumption DEF SetupOK, VectorsOK, IndexOK, ClientVector
        <5> QED  BY <5>1
      <4> QED  BY <1>1, <4>1, <4>2, OwnAddresses, CollectKeeps DEF Collect
    <3> QED  BY <1>2, <3>1, <3>2, <3>3 DEF Talk
  <2> QED  BY <2>1, <2>2 DEF SetupOK, setupVars, Extends, IndexOK, PortsOK, VectorsOK,
                             PointersOK, LossOK, LossAsConfigured
<1>3. CASE AnyUse
  <2>1. step = "any" /\ UNCHANGED setupVars
    BY <1>3 DEF AnyUse
  <2>2. RegistryOK' /\ Extends(net', net)
    BY <1>1, <1>3, OwnAddresses, UseKeeps DEF AnyUse
  <2> QED  BY <2>1, <2>2 DEF SetupOK, setupVars, Extends, IndexOK, PortsOK, VectorsOK,
                             PointersOK, LossOK, LossAsConfigured
<1>4. CASE Silent
  BY <1>4 DEF Silent, vars, netVars, setupVars, SetupOK, RegistryOK, QueuesOK, Extends, IndexOK,
              PortsOK, VectorsOK, PointersOK, LossOK, LossAsConfigured
<1> QED  BY <1>2, <1>3, <1>4

LEMMA NextSetup == SetupOK /\ [SetupNext]_vars => SetupOK' /\ Extends(net', net)
<1> SUFFICES ASSUME SetupOK, [SetupNext]_vars PROVE SetupOK' /\ Extends(net', net)
  OBVIOUS
<1>1. CASE UNCHANGED vars
  BY <1>1 DEF vars, netVars, setupVars, SetupOK, RegistryOK, QueuesOK, Extends, IndexOK,
              PortsOK, VectorsOK, PointersOK, LossOK, LossAsConfigured
<1>2. net' = net => Extends(net', net)
  BY DEF Extends
<1>3. CASE SetupNext
  BY <1>2, <1>3, ConfigureKeeps, RegisterKeeps, ModelKeeps, ReplicaKeeps, PeerKeeps,
     ClientKeeps, ChannelKeeps, TalkKeeps DEF SetupNext
<1> QED  BY <1>1, <1>3

\* How far the driver has come, and what is there by then.
LEMMA SetupHolds == SetupSpec => []SetupOK
BY InitSetup, NextSetup, PTL DEF SetupSpec

-----------------------------------------------------------------------------
(* The theorems about the driver.                                          *)

\* No lookup of the set-up comes back null, and index r of every vector leads
\* to replica r (pt-paxos.cc:72-96, client_model.cc:17-34).
THEOREM EveryoneIsWired == SetupSpec => []WiredByIndex
<1>1. SetupOK => WiredByIndex
  BY Wired
<1> QED  BY <1>1, SetupHolds, PTL

\* Every channel of both networks has the configured loss rate: it is set
\* before the first channel is made (pt-paxos.cc:137-142).
THEOREM LossIsAsConfigured == SetupSpec => []LossAsConfigured
<1>1. SetupOK => LossAsConfigured
  BY DEF SetupOK, LossOK
<1> QED  BY <1>1, SetupHolds, PTL

\* What the class guarantees holds for the driver's network and for any other
\* (netsim.hh:454-533).
THEOREM SetupKeepsReplies ==
    SetupSpec => [](ReplyChannelFound /\ RepliesComeHome) /\ ChannelsStable
<1>1. SetupOK => ReplyChannelFound /\ RepliesComeHome
  BY RegistryReplies DEF SetupOK
<1>2. SetupOK /\ [SetupNext]_vars =>
          [\A p \in DOMAIN net.pairs :
              p \in DOMAIN net'.pairs /\ net'.pairs[p] = net.pairs[p]]_netVars
  BY NextSetup DEF Extends
<1> QED  BY <1>1, <1>2, SetupHolds, PTL DEF SetupSpec, ChannelsStable

=============================================================================
