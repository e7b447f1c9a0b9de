--------------------------- MODULE AnnounceParse ----------------------------
(***************************************************************************)
(* How the tracker reads an announce request (tracker/http.cc): dotted     *)
(* addresses, numbers with a range, and the parameters of the query in     *)
(* their order.                                                            *)
(*                                                                         *)
(* A parameter is [name, value].  Its value is what its text means: a      *)
(* number, an event, an identifier of the right length, for an address the *)
(* sequence of the texts between its dots; Junk is any other text.         *)
(***************************************************************************)
EXTENDS Integers, Sequences

CONSTANTS
    Junk,               \* text that does not parse
    Octet,              \* 256: how many values an octet has
    Limit,              \* Limit[name]: the range of each number's C++ type
    Hash,               \* 20-byte info hashes, the all-zero one is 0
    PeerId,             \* 20-byte peer ids, the all-zero one is 0
    DefaultNumwant      \* 50

NumberNames == {"port", "uploaded", "downloaded", "left", "numwant"}

ASSUME ParseAssumption ==
    /\ Octet \in Nat \ {0}
    /\ DefaultNumwant \in Int
    /\ 0 \in Hash /\ 0 \in PeerId
    /\ \A name \in NumberNames : 0 \in Limit[name]
    /\ Junk \notin Nat

\* An empty `failure'.
NoFailure == ""

EventSet == {"started", "stopped", "completed"}

\* bt_tracker_announce_request{}: every member that has no initialiser is
\* zero, which makes the event `started'.
BlankRequest ==
    [info_hash |-> 0, peer_id |-> 0, ip |-> 0, port |-> 0, uploaded |-> 0,
     downloaded |-> 0, left |-> 0, event |-> "started", numwant |-> DefaultNumwant]

-----------------------------------------------------------------------------
(* Values.                                                                 *)

\* parse_number<T>: the whole text is a number in T's range.
ParseNumber(range, value) == IF value \in range THEN value ELSE Junk

\* copy_exact: any text of exactly the length of the field.
CopyExact(ids, value) == IF value \in ids THEN value ELSE Junk

Address == 0 .. Octet * Octet * Octet * Octet - 1

\* Four times `ip = (ip << 8) | *part', from zero.
Join(parts) ==
    ((parts[1] * Octet + parts[2]) * Octet + parts[3]) * Octet + parts[4]

\* An address whose first four parts are right, whatever follows.
ParseIPv4Prefix(parts) ==
    IF Len(parts) < 4 \/ \E k \in 1 .. 4 : ParseNumber(0 .. Octet - 1, parts[k]) = Junk
    THEN Junk
    ELSE Join(parts)

\* parse_ipv4: exactly four parts, each an octet; the first one is the most
\* significant.
ParseIPv4(parts) ==
    IF Len(parts) # 4 \/ \E k \in 1 .. 4 : ParseNumber(0 .. Octet - 1, parts[k]) = Junk
    THEN Junk
    ELSE Join(parts)

\* What one of the k-th octet counts: shifts by 24, 16, 8 and no bits.
Weight == <<Octet * Octet * Octet, Octet * Octet, Octet, 1>>

\* format_ipv4
FormatIPv4(ip) == [k \in 1 .. 4 |-> (ip \div Weight[k]) % Octet]

\* The reading of one parameter's value.
ParseValue(name, value) ==
    CASE name = "info_hash"    -> CopyExact(Hash, value)
      [] name = "peer_id"      -> CopyExact(PeerId, value)
      [] name = "ip"           -> ParseIPv4(value)
      [] name = "event"        -> IF value \in EventSet THEN value ELSE Junk
      [] name \in NumberNames  -> ParseNumber(Limit[name], value)

-----------------------------------------------------------------------------
(* parse_announce_request.                                                 *)

\* A parameter that is kept only if none was given before.
ParseParamFirst(acc, param) ==
    IF param.name \notin DOMAIN BlankRequest THEN acc
    ELSE LET value == ParseValue(param.name, param.value) IN
         IF value = Junk THEN [acc EXCEPT !.failure = param.name]
         ELSE IF acc.req[param.name] # BlankRequest[param.name] THEN acc
         ELSE [acc EXCEPT !.req[param.name] = value]

\* One round of the loop: a name nobody knows is skipped, a bad value sets
\* the failure and leaves the field, a good one sets the field.
ParseParam(acc, param) ==
    IF param.name \notin DOMAIN BlankRequest THEN acc
    ELSE LET value == ParseValue(param.name, param.value) IN
         IF value = Junk THEN [acc EXCEPT !.failure = param.name]
         ELSE [acc EXCEPT !.req[param.name] = value]

\* The request, and the name of the parameter that `failure' complains
\* about, "" if it is empty.
ParseAnnounce(params) ==
    LET acc[n \in 0 .. Len(params)] ==
            IF n = 0 THEN [req |-> BlankRequest, failure |-> NoFailure]
            ELSE ParseParam(acc[n - 1], params[n])
    IN  acc[Len(params)]

=============================================================================
