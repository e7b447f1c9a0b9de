------------------------------ MODULE Tracker -------------------------------
(***************************************************************************)
(* The BitTorrent tracker: its state (tracker/state.cc), its answers       *)
(* (tracker/http.cc), the message interface (tracker/messages.cc) and the  *)
(* coroutine that serves a connection (tracker.cc).                        *)
(*                                                                         *)
(* A connection is suspended in receive or in send; between the two it     *)
(* runs without a suspension, so an announce is parsed, applied and        *)
(* answered in one step, and the answer is out of date when the state      *)
(* changes before it is sent.                                              *)
(***************************************************************************)
EXTENDS AnnounceParse, FiniteSetsExt, Functions

CONSTANTS
    Connection,
    ConnectionIP,   \* what peer_ipv4 can answer; 0 stands for no answer
    Query           \* queries of announce requests, sequences of parameters

ASSUME TrackerAssumption ==
    /\ IsFiniteSet(PeerId) /\ PeerId \subseteq Int
    /\ Limit["numwant"] \subseteq Int
    /\ ConnectionIP \subseteq Address
    /\ \A q \in Query : Len(q) \in Nat /\ DOMAIN q = 1 .. Len(q)

VARIABLES
    torrents,   \* info hash -> peer id -> peer, both partial
    conn,       \* conn[c]: [pc, ip, response]
    last        \* history: last[<<h, p>>], the last announce of peer p for h
                \* that was accepted, as [query, ip]

vars == <<torrents, conn, last>>

NoResponse == [kind |-> "none"]

Closed == [pc |-> "closed", ip |-> 0, response |-> NoResponse]

Init ==
    /\ torrents = << >>
    /\ conn = [c \in Connection |-> Closed]
    /\ last = << >>

-----------------------------------------------------------------------------
(* apply_announce.                                                         *)

\* A peer that counts as complete only when it says so.
PeerByEvent(req) ==
    [peer_id |-> req.peer_id, ip |-> req.ip, port |-> req.port,
     uploaded |-> req.uploaded, downloaded |-> req.downloaded, left |-> req.left,
     complete |-> req.event = "completed"]

\* A peer recorded without its id.
PeerAnonymous(req) == [PeerByEvent(req) EXCEPT !.peer_id = 0]

PeerOf(req) ==
    [peer_id |-> req.peer_id, ip |-> req.ip, port |-> req.port,
     uploaded |-> req.uploaded, downloaded |-> req.downloaded, left |-> req.left,
     complete |-> req.event = "completed" \/ req.left = 0]

\* `map[key] = value'
Assign(map, key, value) ==
    [k \in DOMAIN map \union {key} |-> IF k = key THEN value ELSE map[k]]

\* torrents[info_hash] as operator[] finds it: an empty map if it was absent.
PeersOf(t, info_hash) == IF info_hash \in DOMAIN t THEN t[info_hash] ELSE << >>

\* A stop that drops the whole torrent.
ApplyAnnounceDropping(t, req) ==
    IF req.event = "stopped" THEN Restrict(t, DOMAIN t \ {req.info_hash})
    ELSE Assign(t, req.info_hash,
                Assign(PeersOf(t, req.info_hash), req.peer_id, PeerOf(req)))

\* The torrent is there afterwards, also when a peer stops that never came.
ApplyAnnounce(t, req) ==
    LET peers == PeersOf(t, req.info_hash)
        after == IF req.event = "stopped"
                 THEN Restrict(peers, DOMAIN peers \ {req.peer_id})
                 ELSE Assign(peers, req.peer_id, PeerOf(req))
    IN  Assign(t, req.info_hash, after)

-----------------------------------------------------------------------------
(* Answers.                                                                *)

\* How many of the keys of a map come before one of them.
Rank(keys, key) == Cardinality({k \in keys : k < key})

\* The keys in the order in which a loop over the map meets them.
InOrder(keys) ==
    [n \in 1 .. Cardinality(keys) |-> CHOOSE key \in keys : Rank(keys, key) = n - 1]

Entry(peer) == [ip |-> FormatIPv4(peer.ip), port |-> peer.port]

\* A limit that counts the asker as well.
ListPeerOneLess(list, peers, p, req) ==
    IF p = req.peer_id \/ Len(list) + 1 = req.numwant THEN list
    ELSE Append(list, Entry(peers[p]))

\* One round of the loop: not the one who asks, and nobody once
\* `count == numwant'.
ListPeer(list, peers, p, req) ==
    IF p = req.peer_id \/ Len(list) = req.numwant THEN list
    ELSE Append(list, Entry(peers[p]))

\* tracker_success_response
ListPeers(t, req) ==
    LET peers == PeersOf(t, req.info_hash)
        ids == InOrder(DOMAIN peers)
        list[n \in 0 .. Cardinality(DOMAIN peers)] ==
            IF n = 0 THEN << >> ELSE ListPeer(list[n - 1], peers, ids[n], req)
    IN  list[Cardinality(DOMAIN peers)]

Success(t, req) == [kind |-> "peers", to |-> req, peers |-> ListPeers(t, req)]

\* tracker_debug_response: the number of peers of each torrent (the rest of
\* the page is the record of each peer).
Debug(t) == [kind |-> "debug", peers |-> [h \in DOMAIN t |-> Cardinality(DOMAIN t[h])]]

Failure(name) == [kind |-> "failure", failure |-> name]

NotFound == [kind |-> "not_found"]

-----------------------------------------------------------------------------
(* handle_connection.                                                      *)

Accept(c) ==
    /\ conn[c] = Closed
    /\ \E ip \in ConnectionIP :
           conn' = [conn EXCEPT ![c] = [pc |-> "receive", ip |-> ip, response |-> NoResponse]]
    /\ UNCHANGED <<torrents, last>>

\* From receive to send with an answer.
Answer(c, response) ==
    /\ conn[c].pc = "receive"
    /\ conn' = [conn EXCEPT ![c].pc = "send", ![c].response = response]

\* The address of the connection for a request that names none.
WithAddress(req, ip) == IF req.ip = 0 THEN [req EXCEPT !.ip = ip] ELSE req

\* Apply the request and remember it.
Accepted(req, asked, ip) ==
    /\ torrents' = ApplyAnnounce(torrents, req)
    /\ last' = Assign(last, <<req.info_hash, req.peer_id>>, [query |-> asked, ip |-> ip])

\* A handler that looks at the failure after it has applied the request.
ServeHastily(c, asked, parsed, req) ==
    /\ Accepted(req, asked, conn[c].ip)
    /\ Answer(c, IF parsed.failure # NoFailure THEN Failure(parsed.failure)
                 ELSE Success(torrents', req))

\* A failure is answered and nothing else happens; a good request is applied
\* and answered with the peers that there are then.
Serve(c, asked, parsed, req) ==
    \/ /\ parsed.failure # NoFailure
       /\ Answer(c, Failure(parsed.failure))
       /\ UNCHANGED <<torrents, last>>
    \/ /\ parsed.failure = NoFailure
       /\ Accepted(req, asked, conn[c].ip)
       /\ Answer(c, Success(torrents', req))

\* GET /announce
Announce(c) ==
    \E q \in Query :
        LET parsed == ParseAnnounce(q) IN
        Serve(c, q, parsed, WithAddress(parsed.req, conn[c].ip))

\* GET /debug, and any other path
Other(c) ==
    /\ Answer(c, Debug(torrents)) \/ Answer(c, NotFound)
    /\ UNCHANGED <<torrents, last>>

\* The response is sent; the connection stays if it should be kept alive.
Sent(c) ==
    /\ conn[c].pc = "send"
    /\ conn' \in {[conn EXCEPT ![c].pc = "receive", ![c].response = NoResponse],
                  [conn EXCEPT ![c] = Closed]}
    /\ UNCHANGED <<torrents, last>>

\* receive fails: the peer has closed, or does not speak HTTP.
HangUp(c) ==
    /\ conn[c].pc = "receive"
    /\ conn' = [conn EXCEPT ![c] = Closed]
    /\ UNCHANGED <<torrents, last>>

\* process_request of tracker/messages.cc: the announce of a message is
\* applied as it is, with whatever address it carries.  Nothing calls it yet.
ProcessMessage ==
    /\ \E q \in Query :
           LET parsed == ParseAnnounce(q) IN
           parsed.failure = NoFailure /\ Accepted(parsed.req, q, 0)
    /\ UNCHANGED conn

Next ==
    \/ \E c \in Connection :
          Accept(c) \/ Announce(c) \/ Other(c) \/ Sent(c) \/ HangUp(c)
    \/ ProcessMessage

Spec == Init /\ [][Next]_vars

-----------------------------------------------------------------------------
(* Properties.                                                             *)

\* bt_peer
PeerSet ==
    [peer_id : PeerId, ip : Address, port : Limit["port"], uploaded : Limit["uploaded"],
     downloaded : Limit["downloaded"], left : Limit["left"], complete : BOOLEAN]

\* A peer is filed under its own id, and a connection holds a response
\* exactly while it sends it.
TypeOK ==
    /\ \A h \in DOMAIN torrents : h \in Hash /\ \A p \in DOMAIN torrents[h] :
          torrents[h][p] \in PeerSet /\ torrents[h][p].peer_id = p
    /\ \A c \in Connection :
          /\ conn[c].pc \in {"closed", "receive", "send"}
          /\ conn[c].pc = "send" <=> conn[c].response.kind # "none"

\* What a query that was accepted says of a field, or its default.
Given(query, name) ==
    LET named == {k \in DOMAIN query : query[k].name = name} IN
    IF named = {} THEN BlankRequest[name]
    ELSE ParseValue(name, query[Max(named)].value)

\* Over any sequence of announces on any connections, the tracker knows of a
\* peer exactly what the peer's own last accepted announce said: gone if it
\* stopped; else there, with the address it gave or that of its connection,
\* complete if it said so or had nothing left to load.  No other peer's
\* announce, refused request or stale default touches it.
RegisteredAsAnnounced ==
    \A h \in Hash, p \in PeerId :
        LET registered == p \in DOMAIN PeersOf(torrents, h)
            peer == torrents[h][p]
            by == last[<<h, p>>]
            said(name) == Given(by.query, name) IN
        /\ registered <=> <<h, p>> \in DOMAIN last /\ said("event") # "stopped"
        /\ registered =>
              /\ peer.ip = IF said("ip") = 0 THEN by.ip ELSE said("ip")
              /\ <<peer.port, peer.uploaded, peer.downloaded, peer.left>> =
                    <<said("port"), said("uploaded"), said("downloaded"), said("left")>>
              /\ peer.complete <=> said("event") = "completed" \/ said("left") = 0

\* A torrent is known once anybody has announced anything for it, if only
\* that it stopped, and is known for ever (nothing erases from `torrents').
TorrentsKeptForEver == DOMAIN torrents = {pair[1] : pair \in DOMAIN last}

\* Whoever asks for however many peers, the answer is the first of the other
\* peers, all of them if a negative number or more than there are is wanted.
AnswerIsPrefix ==
    \A h \in DOMAIN torrents, self \in PeerId, n \in Limit["numwant"] :
        LET peers == torrents[h]
            others == DOMAIN peers \ {self}
            count == Cardinality(others)
            req == [BlankRequest EXCEPT !.info_hash = h, !.peer_id = self, !.numwant = n]
            answer == ListPeers(torrents, req) IN
        /\ Len(answer) = IF n < 0 \/ n > count THEN count ELSE n
        /\ \A k \in 1 .. Len(answer) : \E p \in others :
              Rank(others, p) = k - 1 /\ answer[k] = Entry(peers[p])

\* The record of a peer, if there is one.
Registered(t, h, p) ==
    LET peers == PeersOf(t, h) IN {peers[q] : q \in DOMAIN peers \intersect {p}}

\* A request that is refused, or only looks, changes nothing.  When the
\* state changes, it is by an announce that touches no record but the
\* announcing peer's own, and that is a message or was answered with peers
\* as they are registered after it, of which none is the asker.
OnlyAcceptedChange ==
    [][torrents' # torrents =>
          \E h \in Hash, self \in PeerId :
              /\ \A g \in Hash, p \in PeerId : <<g, p>> # <<h, self>> =>
                    Registered(torrents', g, p) = Registered(torrents, g, p)
              /\ \/ UNCHANGED conn
                 \/ \E c \in Connection :
                       LET answer == conn'[c].response IN
                       /\ conn[c].pc = "receive" /\ answer.kind = "peers"
                       /\ answer.to.info_hash = h /\ answer.to.peer_id = self
                       /\ \A k \in DOMAIN answer.peers :
                             \E p \in PeerId \ {self} :
                                 \E peer \in Registered(torrents', h, p) :
                                     answer.peers[k] = Entry(peer)]_vars

=============================================================================
