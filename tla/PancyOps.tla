------------------------------ MODULE PancyOps ------------------------------
(***************************************************************************)
(* The data operations of a Pancy database (pancydb.hh, pancydb.cc) and    *)
(* the messages they answer (pancy_msgs.hh), as pure operators.            *)
(*                                                                         *)
(* A database is a record                                                  *)
(*   next     next_version_, the version the next modification takes       *)
(*   vv       db_, a total function from keys to versioned values; a key   *)
(*            the std::map does not hold maps to NonexistentVV, which is   *)
(*            what find_vvptr answers for it                               *)
(*   removes  recent_removes_, the log of removals, most recent first      *)
(*                                                                         *)
(* Keys and values are opaque, except for the empty string, which `cas'    *)
(* compares equal to the value of an absent key.  Requests and responses   *)
(* are records with one common set of fields: a field that a message type  *)
(* lacks is EmptyValue or 0 in its record.                                 *)
(***************************************************************************)
EXTENDS Integers, Sequences

CONSTANTS
    EmptyValue,         \* the empty string
    MaxRecentRemoves    \* max_recent_removes, 100 in the code

ASSUME PancyAssumption == MaxRecentRemoves \in Nat

NonexistentVersion == 0
AnyVersion == -1

Op == {"get", "put", "cas", "remove"}

Errc == {"ok", "not_found", "no_match", "redirect"}

NonexistentVV == [value |-> EmptyValue, version |-> NonexistentVersion]

EmptyDB(keys) ==
    [next |-> 1, vv |-> [k \in keys |-> NonexistentVV], removes |-> << >>]

(* The types of versioned values, databases, requests and responses.       *)

VVSet(values) == [value : values, version : Nat]

LogSet(keys, values) ==
    [key : keys, value : values, version : Nat, remove_version : Nat]

DBSet(keys, values) ==
    [next : Nat, vv : [keys -> VVSet(values)], removes : Seq(LogSet(keys, values))]

RequestSet(keys, values) ==
    [op : Op, serial : Nat, key : keys, expected : values, value : values,
     version_match : Int]

\* errc "none": no message answered yet.
ResponseSet(values) ==
    [op : Op, serial : Nat, errc : Errc \union {"none"}, actual : values,
     previous_version : Nat, version : Nat]

RedirectionSet(replicas) ==
    [op : {"redirect"}, serial : Nat, errc : {"redirect"}, redirection : replicas]

-----------------------------------------------------------------------------
(* The two ways a database changes.                                        *)

\* A modification that forgets to advance next_version_.
StoreNoBump(d, key, value) ==
    [d EXCEPT !.vv[key] = [value |-> value, version |-> d.next]]

\* Version numbers counted per key.
StorePerKey(d, key, value) ==
    [d EXCEPT !.next = @ + 1,
              !.vv[key] = [value |-> value, version |-> d.vv[key].version + 1]]

\* emplace_vvptr, or the assignments to an existing entry, then
\* `++next_version_'.
Store(d, key, value) ==
    [next    |-> d.next + 1,
     vv      |-> [d.vv EXCEPT ![key] = [value |-> value, version |-> d.next]],
     removes |-> d.removes]

\* A log that keeps one entry too many.
TrimLate(log) ==
    IF Len(log) > MaxRecentRemoves + 1
    THEN SubSeq(log, 1, MaxRecentRemoves + 1) ELSE log

\* The log, newest first, cut back to its capacity by pop_back.
Trim(log) ==
    IF Len(log) > MaxRecentRemoves THEN SubSeq(log, 1, MaxRecentRemoves) ELSE log

\* recent_remove: the entry and the version its removal consumes.
Logged(d, key) ==
    [key |-> key, value |-> d.vv[key].value, version |-> d.vv[key].version,
     remove_version |-> d.next]

\* A removal that is logged but does not consume the version it is logged at.
EraseNoBump(d, key) ==
    [next    |-> d.next,
     vv      |-> [d.vv EXCEPT ![key] = NonexistentVV],
     removes |-> Trim(<<Logged(d, key)>> \o d.removes)]

\* do_remove: log the entry with the version the removal consumes, erase it.
Erase(d, key) ==
    [next    |-> d.next + 1,
     vv      |-> [d.vv EXCEPT ![key] = NonexistentVV],
     removes |-> Trim(<<Logged(d, key)>> \o d.removes)]

Exists(d, key) == d.vv[key].version # NonexistentVersion

-----------------------------------------------------------------------------
(* Requests.                                                               *)

GetRequest(serial, key) ==
    [op |-> "get", serial |-> serial, key |-> key,
     expected |-> EmptyValue, value |-> EmptyValue, version_match |-> AnyVersion]

PutRequest(serial, key, value, version_match) ==
    [op |-> "put", serial |-> serial, key |-> key,
     expected |-> EmptyValue, value |-> value, version_match |-> version_match]

CasRequest(serial, key, expected, desired, version_match) ==
    [op |-> "cas", serial |-> serial, key |-> key,
     expected |-> expected, value |-> desired, version_match |-> version_match]

RemoveRequest(serial, key, version_match) ==
    [op |-> "remove", serial |-> serial, key |-> key,
     expected |-> EmptyValue, value |-> EmptyValue, version_match |-> version_match]

(* Responses; `actual' is also get_response's `value'.                     *)

Response(req, errc, actual, previous_version, version) ==
    [op |-> req.op, serial |-> req.serial, errc |-> errc, actual |-> actual,
     previous_version |-> previous_version, version |-> version]

ModNoMatch(req, vv) == Response(req, "no_match", vv.value, vv.version, vv.version)

\* A success that reports the version it replaced.
ModOkOld(req, previous_version, version) ==
    Response(req, "ok", EmptyValue, previous_version, previous_version)

ModOk(req, previous_version, version) ==
    Response(req, "ok", EmptyValue, previous_version, version)

\* A redirect that does not echo the serial.
RedirectionNoSerial(req, leader) ==
    [op |-> "redirect", serial |-> 0, errc |-> "redirect", redirection |-> leader]

\* The client model's redirect: the replica is not the leader.
Redirection(req, leader) ==
    [op |-> "redirect", serial |-> req.serial, errc |-> "redirect",
     redirection |-> leader]

-----------------------------------------------------------------------------
(* Message API: what each `process' overload does to the database and      *)
(* answers.                                                                *)

\* A guard that takes version_match = 0 for "any", as the default -1 is.
VersionAdmitsZero(req, vv) ==
    req.version_match <= 0 \/ req.version_match = vv.version

\* `version_match' admits the current version; any_version is negative.
VersionAdmits(req, vv) ==
    req.version_match < 0 \/ req.version_match = vv.version

\* find_vvptr never answers null, so the not_found branch is not reachable.
ProcessGet(d, req) ==
    [db |-> d,
     resp |-> Response(req, "ok", d.vv[req.key].value,
                       NonexistentVersion, d.vv[req.key].version)]

ProcessPut(d, req) ==
    LET old == d.vv[req.key] IN
    IF ~ VersionAdmits(req, old)
    THEN [db |-> d, resp |-> ModNoMatch(req, old)]
    ELSE [db |-> Store(d, req.key, req.value),
          resp |-> ModOk(req, old.version, d.next)]

ProcessCas(d, req) ==
    LET old == d.vv[req.key] IN
    IF req.expected # old.value \/ ~ VersionAdmits(req, old)
    THEN [db |-> d, resp |-> ModNoMatch(req, old)]
    ELSE [db |-> Store(d, req.key, req.value),
          resp |-> ModOk(req, old.version, d.next)]

ProcessRemove(d, req) ==
    LET old == d.vv[req.key] IN
    IF ~ Exists(d, req.key)
    THEN [db |-> d, resp |-> Response(req, "not_found", EmptyValue,
                                      NonexistentVersion, NonexistentVersion)]
    ELSE IF ~ VersionAdmits(req, old)
    THEN [db |-> d, resp |-> ModNoMatch(req, old)]
    ELSE [db |-> Erase(d, req.key),
          resp |-> ModOk(req, old.version, NonexistentVersion)]

\* process_req: dispatch on the request's type.
Process(d, req) ==
    CASE req.op = "get"    -> ProcessGet(d, req)
      [] req.op = "put"    -> ProcessPut(d, req)
      [] req.op = "cas"    -> ProcessCas(d, req)
      [] req.op = "remove" -> ProcessRemove(d, req)

=============================================================================
