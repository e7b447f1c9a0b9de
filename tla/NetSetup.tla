------------------------------ MODULE NetSetup ------------------------------
(***************************************************************************)
(* How the test driver wires a run (pt-paxos.cc:133-156), step by step:    *)
(* try_one_seed configures the networks and registers the replicas' ports, *)
(* the replicas find them, lockseq_model::start adds the clients by        *)
(* client_model::set_nclients, and then clients and replicas talk.         *)
(* Nothing on the way tests a pointer for null, and a channel takes the    *)
(* loss that is the default when it is made, so the order of the steps is  *)
(* what makes them right.                                                  *)
(*                                                                         *)
(* Beside it, a network whose user keeps no order at all (AnyUse): what    *)
(* the class itself guarantees does not rest on the driver.                *)
(*                                                                         *)
(* The inter-replica network is a registry of its own, one-way: a port and *)
(* the channels to it.                                                     *)
(***************************************************************************)
EXTENDS NetRegistry

CONSTANTS
    MaxReplicas,    \* bounds of a run
    MaxClients

VARIABLES
    conf,       \* the configuration: [nreplicas, nclients, loss]
    step,       \* where try_one_seed is
    i,          \* the index of the outer loop there: replicas or clients done
    peers,      \* the inter-replica network: [ports, channels, loss]
    replicas,   \* replicas[s]: its from_clients_ and to_replicas_, pointers
    clients     \* clients[c]: the pointers in its `channels'

setupVars == <<conf, step, i, peers, replicas, clients>>

vars == <<netVars, setupVars>>

\* "c{}" and "R{}"; the "R{}/r" of the other network is "R{}" there.
ClientAddr(c) == <<"c", c>>
ReplicaAddr(s) == <<"R", s>>

Addresses ==
    {ClientAddr(c) : c \in 0 .. MaxClients - 1} \union
    {ReplicaAddr(s) : s \in 0 .. MaxReplicas - 1}

ASSUME SetupAssumption ==
    /\ {MaxReplicas, MaxClients} \subseteq Nat \ {0}
    /\ Addresses \subseteq Addr

-----------------------------------------------------------------------------
(* network<T>: the one-way registry.                                       *)

NewPeers == [ports |-> {}, channels |-> << >>, loss |-> NoLoss]

PeerPort(n, addr) == [n EXCEPT !.ports = @ \union {addr}]

\* find_channel_from, at a port that exists: the channel that is there; null
\* without a port at the source; else a new channel.
FindPeerFrom(n, src, dst) ==
    IF <<src, dst>> \in DOMAIN n.channels
    THEN [net |-> n, found |-> <<src, dst>>]
    ELSE IF src \in n.ports
    THEN [net |-> [n EXCEPT !.channels =
                       TryEmplace(@, <<src, dst>>, Channel(src, dst, n.loss))],
          found |-> <<src, dst>>]
    ELSE [net |-> n, found |-> Null]

\* find_channel: null without a port at the destination.
FindPeer(n, src, dst) ==
    IF dst \in n.ports THEN FindPeerFrom(n, src, dst) ELSE [net |-> n, found |-> Null]

-----------------------------------------------------------------------------
(* try_one_seed.                                                           *)

\* The test's parameters.
SetupInit ==
    /\ Init
    /\ conf \in [nreplicas : 0 .. MaxReplicas, nclients : 0 .. MaxClients, loss : Losses]
    /\ step \in {"configure", "any"}
    /\ i = 0
    /\ peers = NewPeers
    /\ replicas = << >>
    /\ clients = << >>

\* One round of a loop over n > 0 indices: the next index and another round
\* from `again', or the next step.
Advance(n, again, next) ==
    IF i + 1 < n THEN i' = i + 1 /\ step' = again
    ELSE i' = 0 /\ step' = next

\* configure_network, of the client network only.
ConfigureClients ==
    /\ net' = SetDefaultLoss(net, conf.loss)
    /\ UNCHANGED peers

\* configure_network, of both networks.
ConfigureBoth ==
    /\ net' = SetDefaultLoss(net, conf.loss)
    /\ peers' = [peers EXCEPT !.loss = conf.loss]

ConfigureNetworks ==
    /\ step = "configure"
    /\ ConfigureBoth
    /\ step' = IF conf.nreplicas = 0 THEN "model" ELSE "ports"
    /\ UNCHANGED <<requests, responses, conf, i, replicas, clients>>

\* client_network.port and interreplica_network.port, for each replica.
RegisterPorts ==
    /\ step = "ports"
    /\ net' = Port(net, ReplicaAddr(i))
    /\ peers' = PeerPort(peers, ReplicaAddr(i))
    /\ Advance(conf.nreplicas, "ports", "model")
    /\ UNCHANGED <<requests, responses, conf, replicas, clients>>

\* client_model's constructor, which throws out of main without a replica.
ConstructModel ==
    /\ step = "model"
    /\ step' = IF conf.nreplicas = 0 THEN "thrown" ELSE "replicas"
    /\ UNCHANGED <<netVars, conf, i, peers, replicas, clients>>

\* pt_paxos_replica's constructor: find_port, whose result is dereferenced.
ConstructReplica ==
    /\ step = "replicas"
    /\ replicas' = Append(replicas,
           [port  |-> IF HasPort(net, ReplicaAddr(i)) THEN ReplicaAddr(i) ELSE Null,
            peers |-> << >>])
    /\ step' = "peers"
    /\ UNCHANGED <<netVars, conf, i, peers, clients>>

\* One round of its loop: a channel to every replica, itself included.
AddPeer ==
    /\ step = "peers"
    /\ LET s    == Len(replicas[i + 1].peers)
           peer == FindPeer(peers, ReplicaAddr(i), ReplicaAddr(s)) IN
       /\ peers' = peer.net
       /\ replicas' = [replicas EXCEPT ![i + 1].peers = Append(@, peer.found)]
       /\ IF s + 1 < conf.nreplicas THEN UNCHANGED <<i, step>>
          ELSE Advance(conf.nreplicas, "replicas",
                       IF conf.nclients = 0 THEN "run" ELSE "clients")
    /\ UNCHANGED <<netVars, conf, clients>>

\* A client that looks up its channels without a response port.
ClientPortMissing(addr) == net

\* The client's response port, which its channels need.
ClientPort(addr) == ResponsePort(net, addr)

\* start: one round of the loop of set_nclients.
AddClient ==
    /\ step = "clients"
    /\ net' = ClientPort(ClientAddr(i))
    /\ clients' = Append(clients, << >>)
    /\ step' = "channels"
    /\ UNCHANGED <<requests, responses, conf, i, peers, replicas>>

\* One round of the loop in it: a channel to every replica.
AddChannel ==
    /\ step = "channels"
    /\ LET r       == Len(clients[i + 1])
           channel == FindChannel(net, ClientAddr(i), ReplicaAddr(r)) IN
       /\ net' = channel.net
       /\ clients' = [clients EXCEPT ![i + 1] = Append(@, channel.found)]
       /\ IF r + 1 < conf.nreplicas THEN UNCHANGED <<i, step>>
          ELSE Advance(conf.nclients, "clients", "run")
    /\ UNCHANGED <<requests, responses, conf, peers, replicas>>

-----------------------------------------------------------------------------
(* cot::loop: send_request on clients_[cid].channels[replicaid], a replica *)
(* that receives with the reply channel and replies, a client that takes   *)
(* what its response port holds.                                           *)

Talk ==
    /\ step = "run"
    /\ \/ \E c \in DOMAIN clients : \E r \in 1 .. conf.nreplicas : Send(clients[c][r])
       \/ \E s \in DOMAIN replicas : Reply(replicas[s].port)
       \/ \E c \in DOMAIN clients : Collect(ClientAddr(c - 1))
    /\ UNCHANGED setupVars

\* Another network, used in any way.
AnyUse ==
    /\ step = "any"
    /\ Use({ClientAddr(0), ReplicaAddr(0)})
    /\ UNCHANGED setupVars

\* Nothing left to do: the set-up threw, or there is nobody to send.
Silent ==
    /\ \/ step = "thrown"
       \/ step = "run" /\ clients = << >>
    /\ UNCHANGED vars

SetupNext ==
    \/ ConfigureNetworks
    \/ RegisterPorts
    \/ ConstructModel
    \/ ConstructReplica
    \/ AddPeer
    \/ AddClient
    \/ AddChannel
    \/ Talk
    \/ AnyUse
    \/ Silent

SetupSpec == SetupInit /\ [][SetupNext]_vars

-----------------------------------------------------------------------------
(* Properties.                                                             *)

\* Everyone is wired to whom its index names: no lookup of the set-up comes
\* back null (each is dereferenced at once or when first used), the pointer at
\* index r of a vector leads to replica r, and no vector is short when the
\* coroutines start to index it.
WiredByIndex ==
    /\ \A s \in DOMAIN replicas :
          /\ replicas[s].port = ReplicaAddr(s - 1)
          /\ \A t \in DOMAIN replicas[s].peers :
                replicas[s].peers[t] = <<ReplicaAddr(s - 1), ReplicaAddr(t - 1)>>
    /\ \A c \in DOMAIN clients : \A r \in DOMAIN clients[c] :
          clients[c][r] = <<ClientAddr(c - 1), ReplicaAddr(r - 1)>>
    /\ step = "run" =>
          /\ Len(replicas) = conf.nreplicas /\ Len(clients) = conf.nclients
          /\ \A s \in DOMAIN replicas : Len(replicas[s].peers) = conf.nreplicas
          /\ \A c \in DOMAIN clients : Len(clients[c]) = conf.nreplicas

\* Every channel of either network loses messages at the configured rate, on
\* the way there and on the way back: none was made before the default was
\* set, and a default set later would not reach it.
LossAsConfigured == step # "any" =>
    /\ \A p \in DOMAIN net.pairs :
          net.pairs[p].request.loss = conf.loss /\ net.pairs[p].reply.loss = conf.loss
    /\ \A p \in DOMAIN peers.channels : peers.channels[p].loss = conf.loss

=============================================================================
