------------------------------ MODULE PancyDB -------------------------------
(***************************************************************************)
(* One pancydb object driven through its whole modifying interface: the    *)
(* message API (process_req) and the direct API (put, remove).  The state  *)
(* is the database and the last exchange, so that properties can relate a  *)
(* response to the database that follows it.                               *)
(***************************************************************************)
EXTENDS PancyOps

CONSTANTS
    Key,
    Value,          \* the values stored, EmptyValue among them or not
    MaxVersion      \* bound: modifications stop when next_version_ gets here

ASSUME PancyDBAssumption == MaxVersion \in Nat

VARIABLES
    db,     \* the object
    last    \* [req, resp] of the last message, a NoExchange before any

vars == <<db, last>>

AnyValue == Value \union {EmptyValue}

\* A client can name any version it has been told of, or one to come.
VersionMatch == AnyVersion .. db.next

\* No message has been answered since the direct API last used key k.
NoExchange(k) ==
    [req  |-> GetRequest(0, k),
     resp |-> Response(GetRequest(0, k), "none", EmptyValue,
                       NonexistentVersion, NonexistentVersion)]

Init ==
    /\ db = EmptyDB(Key)
    /\ \E k \in Key : last = NoExchange(k)

-----------------------------------------------------------------------------

\* The bound.
Room == db.next < MaxVersion

\* Answer one request.
Handle(req) ==
    /\ db' = Process(db, req).db
    /\ last' = [req |-> req, resp |-> Process(db, req).resp]

Get(k) ==
    /\ Room
    /\ Handle(GetRequest(0, k))

Put(k) ==
    /\ Room
    /\ \E v \in AnyValue, m \in VersionMatch : Handle(PutRequest(0, k, v, m))

Cas(k) ==
    /\ Room
    /\ \E e, v \in AnyValue, m \in VersionMatch : Handle(CasRequest(0, k, e, v, m))

Remove(k) ==
    /\ Room
    /\ \E m \in VersionMatch : Handle(RemoveRequest(0, k, m))

\* The direct `put': insert or overwrite, whatever the version.
DirectPut(k) ==
    /\ Room
    /\ \E v \in AnyValue : db' = Store(db, k, v)
    /\ last' = NoExchange(k)

\* The direct `remove' returns false and changes nothing on an absent key.
DirectRemove(k) ==
    /\ Room
    /\ db' = IF Exists(db, k) THEN Erase(db, k) ELSE db
    /\ last' = NoExchange(k)

Next ==
    \E k \in Key :
        Get(k) \/ Put(k) \/ Cas(k) \/ Remove(k) \/ DirectPut(k) \/ DirectRemove(k)

Spec == Init /\ [][Next]_vars

-----------------------------------------------------------------------------
(* Types.                                                                  *)

\* The database keeps its shape; an absent key has the one absent entry,
\* and the log never outgrows its capacity.
TypeOK ==
    /\ db \in DBSet(Key, AnyValue)
    /\ last.req \in RequestSet(Key, AnyValue)
    /\ last.resp \in ResponseSet(AnyValue)
    /\ \A k \in Key : ~ Exists(db, k) => db.vv[k] = NonexistentVV
    /\ Len(db.removes) <= MaxRecentRemoves

-----------------------------------------------------------------------------
(* Safety.                                                                 *)

\* A version number belongs to one modification: no two live keys share
\* one, and next_version_ is above them all.  The clients' unlock by version
\* (lockseq_model.cc:170) and diff's comparison of versions stand on it.
VersionsUnique ==
    \A j \in Key :
        /\ db.vv[j].version < db.next
        /\ \A k \in Key \ {j} :
              Exists(db, j) => db.vv[j].version # db.vv[k].version

\* The removal log is a history: newest first, each removal later than the
\* modification it undid, and a key that lives again is newer than every
\* logged removal of it (find_recent_remove stops at the first match).
LogSound ==
    \A i \in DOMAIN db.removes :
        LET e == db.removes[i] IN
        /\ 0 < e.version /\ e.version < e.remove_version /\ e.remove_version < db.next
        /\ Exists(db, e.key) => db.vv[e.key].version > e.remove_version
        /\ \A j \in 1 .. i - 1 : db.removes[j].remove_version > e.remove_version

\* Does answering this request a second time have to fail?
Conditional(req) ==
    \/ req.op = "remove"
    \/ req.op \in {"put", "cas"} /\ req.version_match >= 0
    \/ req.op = "cas" /\ req.expected # req.value

\* A duplicated or retried conditional request takes effect at most once:
\* right after it succeeded, the same message is refused.
RetryRejected ==
    last.resp.errc = "ok" /\ Conditional(last.req)
        => Process(db, last.req).resp.errc # "ok"

\* Whatever branch a put or cas took, the version in the response is the
\* key's version now; a client adopts it as its lock version after `ok'
\* and after `no_match' alike (lockseq_model.cc:75 and 84).
AnswerNamesCurrentVersion ==
    last.req.op \in {"put", "cas"} =>
        /\ last.resp.version = db.vv[last.req.key].version
        /\ last.resp.errc = "no_match" =>
              last.resp.actual = db.vv[last.req.key].value

\* No ABA: a step gives a key either a version never used before or none,
\* and a used version number never becomes available again.
FreshVersions ==
    [][/\ db'.next >= db.next
       /\ \A k \in Key : db'.vv[k] # db.vv[k] =>
              /\ db'.next > db.next
              /\ \/ db'.vv[k] = NonexistentVV
                 \/ db'.vv[k].version >= db.next]_vars

-----------------------------------------------------------------------------
(* What pancydb.cc:9-11 says of a get.                                     *)

\* A get of a key that is not in the database answers not_found.
GetMissingNotFound ==
    last.req.op = "get" /\ last.resp.errc # "none" /\ ~ Exists(db, last.req.key)
        => last.resp.errc = "not_found"

=============================================================================
