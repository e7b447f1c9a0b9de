----------------------------- MODULE MCTracker ------------------------------
(***************************************************************************)
(* Tracker for TLC: two torrents, three peer ids, the all-zero one of each *)
(* among them, and one query for each case of the parser and the state.    *)
(*                                                                         *)
(* Instead of running the tracker, an initial state may give the parser    *)
(* one input: any query of a few parameters, or any address of up to five  *)
(* parts.  The properties of the parser do not go through the parameters   *)
(* in a loop as the code does.                                             *)
(***************************************************************************)
EXTENDS Tracker, SequencesExt

CONSTANTS
    MaxParams,      \* bounds
    MaxParts

ASSUME BoundAssumption == MaxParams \in Nat /\ MaxParts \in Nat

VARIABLES query, address

MCLimit == [name \in NumberNames |-> IF name = "numwant" THEN -1 .. 2 ELSE 0 .. 1]

Symmetry == Permutations(Connection)

P(name, value) == [name |-> name, value |-> value]

MCQuery ==
    {\* a leecher, a seed behind an address of its own, one that stops
     <<P("info_hash", 1), P("peer_id", 1), P("port", 1), P("left", 1)>>,
     <<P("info_hash", 1), P("peer_id", 2), P("left", 1), P("event", "completed"),
       P("ip", <<0, 0, 1, 1>>), P("numwant", 1)>>,
     <<P("info_hash", 1), P("peer_id", 1), P("event", "stopped")>>,
     \* no peer_id, left given twice, no limit
     <<P("left", 1), P("info_hash", 1), P("left", 0), P("numwant", -1)>>,
     \* a bad port, corrected afterwards
     <<P("info_hash", 1), P("peer_id", 2), P("port", 2), P("port", 1)>>,
     \* a stop for a torrent nobody announced; no info_hash
     <<P("peer_id", 2), P("event", "stopped")>>}

Params ==
    UNION {{P("info_hash", v) : v \in {1, Junk}}, {P("peer_id", v) : v \in {0, 1, Junk}},
           {P("ip", v) : v \in {<<1, 0, 0, 1>>, <<1, 0>>}}, {P("port", v) : v \in {1, 2}},
           {P("left", v) : v \in {0, 1, -1}}, {P("event", v) : v \in {"stopped", Junk}},
           {P("numwant", v) : v \in {-1, 1}}, {P("key", Junk)}}

Addresses == BoundedSeq((0 .. Octet) \union {Junk}, MaxParts)

NoInput == query = << >> /\ address = << >>

MCInit ==
    /\ Init
    /\ \/ query \in BoundedSeq(Params, MaxParams) /\ address = << >>
       \/ query = << >> /\ address \in Addresses

MCNext ==
    \/ NoInput /\ Next /\ UNCHANGED <<query, address>>
    \/ ~ NoInput /\ UNCHANGED <<vars, query, address>>

MCSpec == MCInit /\ [][MCNext]_<<vars, query, address>>

-----------------------------------------------------------------------------
(* Properties.                                                             *)

\* Whatever the order of the parameters, one bad value of a known one
\* refuses the request for good and the complaint is about the last of them,
\* and the last good value of each is what counts, the field's default if
\* there is none (parse_announce_request goes on after a failure).
ReadsLastGoodValue ==
    LET known == {k \in DOMAIN query : query[k].name \in DOMAIN BlankRequest}
        good == {k \in known : ParseValue(query[k].name, query[k].value) # Junk}
        bad == known \ good
        parsed == ParseAnnounce(query)
    IN  /\ parsed.failure = IF bad = {} THEN NoFailure ELSE query[Max(bad)].name
        /\ \A name \in DOMAIN BlankRequest :
              LET named == {k \in good : query[k].name = name} IN
              parsed.req[name] = IF named = {} THEN BlankRequest[name]
                                 ELSE ParseValue(name, query[Max(named)].value)

\* parse_ipv4 takes four octets and nothing else, and what format_ipv4 shows
\* of the result is what was read.
AddressRoundTrip ==
    LET ip == ParseIPv4(address) IN
    /\ ip # Junk <=> Len(address) = 4 /\ \A k \in 1 .. 4 : address[k] \in 0 .. Octet - 1
    /\ ip # Junk => ip \in Address /\ FormatIPv4(ip) = address

=============================================================================
