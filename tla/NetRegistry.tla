---------------------------- MODULE NetRegistry -----------------------------
(***************************************************************************)
(* network<Req, Resp> of netsim.hh as a registry: server ports, response   *)
(* ports, and for each client that talks to a server a pair of channels    *)
(* kept at the server's port, one for its requests and one for the         *)
(* replies.  Users hold bare pointers to what the registry owns; a pointer *)
(* to a channel pair is its key here, << >> the null pointer.              *)
(*                                                                         *)
(* Next calls the operators in any order; NetSetup calls them as the test  *)
(* driver does.  Delays and loss are Netsim's matter: a message sent is a  *)
(* message queued.                                                         *)
(***************************************************************************)
EXTENDS Naturals, Sequences

CONSTANTS
    Addr,       \* addresses of ports
    Losses,     \* loss probabilities, as far as they differ
    NoLoss,     \* 0.0, the default of the class
    MaxQueue    \* bound: messages queued at a port

ASSUME RegistryAssumption == NoLoss \in Losses /\ MaxQueue \in Nat

VARIABLES
    net,        \* the registry
    requests,   \* requests[a]: the queue of the server port at a
    responses   \* responses[a]: the queue of the response port at a

netVars == <<net, requests, responses>>

Null == << >>

\* The registry: ports_, the ports of response_network_, the channel pairs
\* of all ports by <<client, server>>, and default_loss_.
NewNetwork ==
    [ports |-> {}, responsePorts |-> {}, pairs |-> << >>, loss |-> NoLoss]

Channel(source, destination, loss) ==
    [source |-> source, destination |-> destination, loss |-> loss]

\* try_emplace: a new key with its value; a key that is there keeps its own.
TryEmplace(m, key, value) ==
    [k \in DOMAIN m \union {key} |-> IF k \in DOMAIN m THEN m[k] ELSE value]

-----------------------------------------------------------------------------
(* The operations.                                                         *)

\* port, response_port: register or find.
Port(n, addr) == [n EXCEPT !.ports = @ \union {addr}]

ResponsePort(n, addr) == [n EXCEPT !.responsePorts = @ \union {addr}]

\* set_default_loss: channels that exist keep theirs.
SetDefaultLoss(n, l) == [n EXCEPT !.loss = l]

\* find_port, null or not.
HasPort(n, addr) == addr \in n.ports

HasPair(n, src, dst) == <<src, dst>> \in DOMAIN n.pairs

\* The channel<Req> and channel<Resp> that find_channel constructs together.
NewPair(n, src, dst) ==
    [request |-> Channel(src, dst, n.loss), reply |-> Channel(dst, src, n.loss)]

\* A find_channel that constructs a new pair whenever it is called.
FindChannelAnew(n, src, dst) ==
    IF HasPort(n, dst) /\ src \in n.responsePorts
    THEN [net |-> [n EXCEPT !.pairs =
                       [TryEmplace(@, <<src, dst>>, << >>) EXCEPT ![<<src, dst>>] =
                            NewPair(n, src, dst)]],
          found |-> <<src, dst>>]
    ELSE [net |-> n, found |-> Null]

\* A find_channel that does not ask for a response port.
FindChannelUnchecked(n, src, dst) ==
    IF HasPort(n, dst)
    THEN [net |-> [n EXCEPT !.pairs =
                       TryEmplace(@, <<src, dst>>, NewPair(n, src, dst))],
          found |-> <<src, dst>>]
    ELSE [net |-> n, found |-> Null]

\* find_channel: null without a server port; the pair that is there; null
\* without a response port to reply to; else a new pair.
FindChannel(n, src, dst) ==
    IF HasPort(n, dst) /\ HasPair(n, src, dst)
    THEN [net |-> n, found |-> <<src, dst>>]
    ELSE IF HasPort(n, dst) /\ src \in n.responsePorts
    THEN [net |-> [n EXCEPT !.pairs =
                       TryEmplace(@, <<src, dst>>, NewPair(n, src, dst))],
          found |-> <<src, dst>>]
    ELSE [net |-> n, found |-> Null]

\* find_response_channel: only what find_channel made for the other way.
FindResponseChannel(n, src, dst) ==
    IF HasPort(n, src) /\ HasPair(n, dst, src) THEN <<dst, src>> ELSE Null

\* A reply channel looked up without regard to the sender.
ReplyChannelAny(n, port, source) ==
    n.pairs[CHOOSE p \in DOMAIN n.pairs : p[2] = port].reply

\* receive_with_channel: the result of `find' is used without a test.
ReplyChannel(n, port, source) == n.pairs[<<source, port>>].reply

-----------------------------------------------------------------------------
(* Messages.                                                               *)

\* A request sent on the pair with key p; `asker' is who holds the pointer.
Send(p) ==
    LET to == net.pairs[p].request.destination IN
    /\ Len(requests[to]) < MaxQueue
    /\ requests' = [requests EXCEPT ![to] =
           Append(@, [asker |-> p[1], source |-> net.pairs[p].request.source])]
    /\ UNCHANGED <<net, responses>>

\* A server takes a request with its reply channel, and replies on it.
Reply(port) ==
    /\ requests[port] # << >>
    /\ LET req == Head(requests[port])
           to  == ReplyChannel(net, port, req.source).destination IN
       /\ Len(responses[to]) < MaxQueue
       /\ responses' = [responses EXCEPT ![to] =
              Append(@, [asker |-> req.asker, server |-> port])]
    /\ requests' = [requests EXCEPT ![port] = Tail(@)]
    /\ UNCHANGED net

\* The client takes a reply.
Collect(addr) ==
    /\ responses[addr] # << >>
    /\ responses' = [responses EXCEPT ![addr] = Tail(@)]
    /\ UNCHANGED <<net, requests>>

Init ==
    /\ net = NewNetwork
    /\ requests = [a \in Addr |-> << >>]
    /\ responses = [a \in Addr |-> << >>]

Configure == \E l \in Losses : net' = SetDefaultLoss(net, l)

Register(addrs) == \E a \in addrs : net' \in {Port(net, a), ResponsePort(net, a)}

Find(addrs) == \E a, b \in addrs : net' = FindChannel(net, a, b).net

\* Any use of the class, by whoever has these addresses.
Use(addrs) ==
    \/ /\ Configure \/ Register(addrs) \/ Find(addrs)
       /\ UNCHANGED <<requests, responses>>
    \/ \E p \in DOMAIN net.pairs : Send(p)
    \/ \E a \in addrs : Reply(a) \/ Collect(a)

Next == Use(Addr)

Spec == Init /\ [][Next]_netVars

-----------------------------------------------------------------------------
(* Properties.                                                             *)

\* Whatever order ports were registered and channels looked up in, a request
\* in a queue has a reply channel at that port, to a response port that
\* exists: the unchecked `it->second' of receive_with_channel is safe.
ReplyChannelFound ==
    \A a \in Addr : \A i \in DOMAIN requests[a] :
        LET source == requests[a][i].source IN
        /\ HasPair(net, source, a)
        /\ FindResponseChannel(net, a, source) = <<source, a>>
        /\ ReplyChannel(net, a, source).destination \in net.responsePorts

\* A reply arrives at the port of the client that asked, from the server
\* that it asked.
RepliesComeHome ==
    \A a \in Addr : \A i \in DOMAIN responses[a] :
        responses[a][i].asker = a /\ HasPair(net, a, responses[a][i].server)

\* "Reply channels are stable across multiple requests from the same peer":
\* what a pointer points to is neither replaced nor changed by any later
\* registration, lookup or change of the default.
ChannelsStable ==
    [][\A p \in DOMAIN net.pairs :
          p \in DOMAIN net'.pairs /\ net'.pairs[p] = net.pairs[p]]_netVars

=============================================================================
