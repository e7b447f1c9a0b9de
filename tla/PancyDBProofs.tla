--------------------------- MODULE PancyDBProofs ----------------------------
(***************************************************************************)
(* PancyDB for every set of keys and values, every capacity of the removal *)
(* log and every number of modifications.                                  *)
(***************************************************************************)
EXTENDS MCPancyDB, PancyOpsProofs

\* What a step does to the database.
DBStep ==
    \/ db' = db
    \/ \E k \in Key, v \in AnyValue : db' = Store(db, k, v)
    \/ \E k \in Key : Exists(db, k) /\ db' = Erase(db, k)

DBType == db \in DBSet(Key, AnyValue)

LastType == last.req \in RequestSet(Key, AnyValue) /\ last.resp \in ResponseSet(AnyValue)

AbsentIsNonexistent == \A k \in Key : ~ Exists(db, k) => db.vv[k] = NonexistentVV

LogBounded == Len(db.removes) <= MaxRecentRemoves

LEMMA EmptyIsAValue == EmptyValue \in AnyValue
BY DEF AnyValue

LEMMA NoExchangeType ==
    ASSUME NEW k \in Key
    PROVE  /\ NoExchange(k).req \in RequestSet(Key, AnyValue)
           /\ NoExchange(k).resp \in ResponseSet(AnyValue)
BY EmptyIsAValue
   DEF NoExchange, GetRequest, Response, RequestSet, ResponseSet, Op, Errc,
       AnyVersion, NonexistentVersion

LEMMA HandleStep ==
    ASSUME DBType, NEW req \in RequestSet(Key, AnyValue), Handle(req)
    PROVE  DBStep /\ LastType'
<1>1. req.key \in Key /\ req.value \in AnyValue
  BY DEF RequestSet
<1>2. Process(db, req).resp \in ResponseSet(AnyValue)
  BY ProcessType, EmptyIsAValue DEF DBType
<1>3. LastType'
  BY <1>2 DEF Handle, LastType
<1>4. \/ db' = db
      \/ db' = Store(db, req.key, req.value)
      \/ db' = Erase(db, req.key) /\ Exists(db, req.key)
  BY ProcessCases DEF Handle, DBType
<1> QED  BY <1>1, <1>3, <1>4 DEF DBStep

LEMMA RequestTypes ==
    ASSUME NEW k \in Key, NEW e \in AnyValue, NEW v \in AnyValue, NEW m \in Int
    PROVE  /\ GetRequest(0, k) \in RequestSet(Key, AnyValue)
           /\ PutRequest(0, k, v, m) \in RequestSet(Key, AnyValue)
           /\ CasRequest(0, k, e, v, m) \in RequestSet(Key, AnyValue)
           /\ RemoveRequest(0, k, m) \in RequestSet(Key, AnyValue)
BY EmptyIsAValue
   DEF GetRequest, PutRequest, CasRequest, RemoveRequest, RequestSet, Op, AnyVersion

\* Every action is a DBStep.
LEMMA NextStep ==
    ASSUME DBType, LastType, [Next]_vars
    PROVE  DBStep /\ LastType'
<1>1. \A m \in VersionMatch : m \in Int
  BY DEF VersionMatch, AnyVersion, DBType, DBSet
<1>2. CASE UNCHANGED vars
  BY <1>2 DEF vars, DBStep, LastType
<1>3. ASSUME NEW k \in Key, Get(k)
      PROVE  DBStep /\ LastType'
  BY <1>3, HandleStep, RequestTypes, EmptyIsAValue DEF Get
<1>4. ASSUME NEW k \in Key, Put(k)
      PROVE  DBStep /\ LastType'
  <2>1. PICK v \in AnyValue, m \in VersionMatch : Handle(PutRequest(0, k, v, m))
    BY <1>4 DEF Put
  <2>2. PutRequest(0, k, v, m) \in RequestSet(Key, AnyValue)
    BY <1>1, RequestTypes
  <2> QED  BY <2>1, <2>2, HandleStep
<1>5. ASSUME NEW k \in Key, Cas(k)
      PROVE  DBStep /\ LastType'
  <2>1. PICK e \in AnyValue, v \in AnyValue, m \in VersionMatch :
               Handle(CasRequest(0, k, e, v, m))
    BY <1>5 DEF Cas
  <2>2. CasRequest(0, k, e, v, m) \in RequestSet(Key, AnyValue)
    BY <1>1, RequestTypes
  <2> QED  BY <2>1, <2>2, HandleStep
<1>6. ASSUME NEW k \in Key, Remove(k)
      PROVE  DBStep /\ LastType'
  <2>1. PICK m \in VersionMatch : Handle(RemoveRequest(0, k, m))
    BY <1>6 DEF Remove
  <2>2. RemoveRequest(0, k, m) \in RequestSet(Key, AnyValue)
    BY <1>1, RequestTypes, EmptyIsAValue
  <2> QED  BY <2>1, <2>2, HandleStep
<1>7. ASSUME NEW k \in Key, DirectPut(k)
      PROVE  DBStep /\ LastType'
  <2>1. LastType'
    BY <1>7, NoExchangeType DEF DirectPut, LastType
  <2>2. DBStep
    BY <1>7 DEF DirectPut, DBStep
  <2> QED  BY <2>1, <2>2
<1>8. ASSUME NEW k \in Key, DirectRemove(k)
      PROVE  DBStep /\ LastType'
  <2>1. LastType'
    BY <1>8, NoExchangeType DEF DirectRemove, LastType
  <2>2. DBStep
    BY <1>8 DEF DirectRemove, DBStep
  <2> QED  BY <2>1, <2>2
<1> QED  BY <1>2, <1>3, <1>4, <1>5, <1>6, <1>7, <1>8 DEF Next

-----------------------------------------------------------------------------
IInv ==
    /\ DBType
    /\ LastType
    /\ AbsentIsNonexistent
    /\ LogBounded
    /\ VersionsUnique
    /\ LogSound

LEMMA InitIInv == Init => IInv
<1> SUFFICES ASSUME Init PROVE IInv
  OBVIOUS
<1>1. DBType
  BY EmptyIsAValue DEF Init, EmptyDB, DBType, DBSet, VVSet, NonexistentVV, NonexistentVersion
<1>2. LastType
  BY NoExchangeType DEF Init, LastType
<1>3. /\ db.removes = << >> /\ db.next = 1
      /\ \A k \in Key : db.vv[k] = NonexistentVV /\ db.vv[k].version = 0
  BY DEF Init, EmptyDB, NonexistentVV, NonexistentVersion
<1>4. AbsentIsNonexistent /\ VersionsUnique
  BY <1>3 DEF AbsentIsNonexistent, VersionsUnique, Exists, NonexistentVersion
<1>5. LogBounded /\ LogSound
  BY <1>3, PancyAssumption DEF LogBounded, LogSound
<1> QED  BY <1>1, <1>2, <1>4, <1>5 DEF IInv

LEMMA StoreIInv ==
    ASSUME IInv, LastType', NEW k \in Key, NEW v \in AnyValue, db' = Store(db, k, v)
    PROVE  IInv'
<1>1. db \in DBSet(Key, AnyValue)
  BY DEF IInv, DBType
<1>2. /\ db' \in DBSet(Key, AnyValue)
      /\ db'.removes = db.removes /\ db'.next = db.next + 1
      /\ \A j \in Key : db'.vv[j] =
            IF j = k THEN [value |-> v, version |-> db.next] ELSE db.vv[j]
  BY <1>1, StoreType
<1>3. /\ db.next \in Nat
      /\ \A j \in Key : db.vv[j].version \in Nat /\ db.vv[j].version < db.next
  BY <1>1 DEF IInv, VersionsUnique, DBSet, VVSet
<1>4. AbsentIsNonexistent'
  BY <1>2, <1>3 DEF IInv, AbsentIsNonexistent, Exists, NonexistentVersion
<1>5. VersionsUnique'
  BY <1>2, <1>3 DEF IInv, VersionsUnique, Exists, NonexistentVersion
<1>6. LogSound'
  <2> SUFFICES ASSUME NEW i \in DOMAIN db.removes
               PROVE  LET e == db.removes[i] IN
                      /\ 0 < e.version /\ e.version < e.remove_version
                      /\ e.remove_version < db'.next
                      /\ Exists(db', e.key) => db'.vv[e.key].version > e.remove_version
                      /\ \A j \in 1 .. i - 1 :
                            db.removes[j].remove_version > e.remove_version
    BY <1>2 DEF LogSound
  <2> DEFINE e == db.removes[i]
  <2>1. e \in LogSet(Key, AnyValue)
    BY <1>1, ElementOfSeq, LenProperties DEF DBSet
  <2>2. e.key \in Key /\ e.remove_version \in Nat /\ e.version \in Nat
    BY <2>1 DEF LogSet
  <2>3. /\ 0 < e.version /\ e.version < e.remove_version /\ e.remove_version < db.next
        /\ Exists(db, e.key) => db.vv[e.key].version > e.remove_version
        /\ \A j \in 1 .. i - 1 : db.removes[j].remove_version > e.remove_version
    BY DEF IInv, LogSound
  <2> HIDE DEF e
  <2>4. Exists(db', e.key) => db'.vv[e.key].version > e.remove_version
    BY <1>2, <1>3, <2>2, <2>3 DEF Exists
  <2>5. e.remove_version < db'.next
    BY <1>2, <1>3, <2>2, <2>3
  <2> QED  BY <2>3, <2>4, <2>5 DEF e
<1>7. LogBounded'
  BY <1>2 DEF IInv, LogBounded
<1> QED  BY <1>2, <1>4, <1>5, <1>6, <1>7 DEF IInv, DBType

LEMMA EraseIInv ==
    ASSUME IInv, LastType', NEW k \in Key, Exists(db, k), db' = Erase(db, k)
    PROVE  IInv'
<1>1. db \in DBSet(Key, AnyValue)
  BY DEF IInv, DBType
<1>2. /\ db' \in DBSet(Key, AnyValue)
      /\ db'.next = db.next + 1
      /\ \A j \in Key : db'.vv[j] = IF j = k THEN NonexistentVV ELSE db.vv[j]
  BY <1>1, EraseType, EmptyIsAValue
<1>3. /\ db.next \in Nat
      /\ \A j \in Key : db.vv[j].version \in Nat /\ db.vv[j].version < db.next
  BY <1>1 DEF IInv, VersionsUnique, DBSet, VVSet
<1>4. db'.removes = Trim(<<Logged(db, k)>> \o db.removes)
  BY DEF Erase
<1>5. /\ db'.removes \in Seq(LogSet(Key, AnyValue))
      /\ Len(db'.removes) <= Len(db.removes) + 1
      /\ Len(db'.removes) <= MaxRecentRemoves
      /\ \A i \in 1 .. Len(db'.removes) :
            db'.removes[i] = IF i = 1 THEN Logged(db, k) ELSE db.removes[i - 1]
  BY <1>1, <1>4, EraseLog
<1>6. /\ DOMAIN db.removes = 1 .. Len(db.removes) /\ Len(db.removes) \in Nat
      /\ DOMAIN db'.removes = 1 .. Len(db'.removes) /\ Len(db'.removes) \in Nat
  BY <1>1, <1>5, LenProperties DEF DBSet
<1>7. AbsentIsNonexistent'
  BY <1>2 DEF IInv, AbsentIsNonexistent, Exists
<1>8. NonexistentVV.version = 0
  BY DEF NonexistentVV, NonexistentVersion
<1>9. VersionsUnique'
  BY <1>2, <1>3, <1>8 DEF IInv, VersionsUnique, Exists, NonexistentVersion
<1>10. LogSound'
  <2> DEFINE Good(i) ==
        LET e == db'.removes[i] IN
        /\ 0 < e.version /\ e.version < e.remove_version /\ e.remove_version < db'.next
        /\ Exists(db', e.key) => db'.vv[e.key].version > e.remove_version
        /\ \A j \in 1 .. i - 1 : db'.removes[j].remove_version > e.remove_version
  <2> SUFFICES ASSUME NEW i \in 1 .. Len(db'.removes) PROVE Good(i)
    BY <1>6 DEF LogSound
  <2>1. /\ Logged(db, k).key = k
        /\ Logged(db, k).version = db.vv[k].version
        /\ Logged(db, k).remove_version = db.next
    BY DEF Logged
  <2>2. db.vv[k].version > 0
    BY <1>3 DEF Exists, NonexistentVersion
  <2>3. CASE i = 1
    <3>1. db'.removes[i] = Logged(db, k)
      BY <2>3, <1>5, <1>6
    <3>2. ~ Exists(db', k)
      BY <1>2, <1>8 DEF Exists, NonexistentVersion
    <3> QED  BY <3>1, <3>2, <2>1, <2>2, <2>3, <1>2, <1>3
  <2>4. CASE i # 1
    <3> DEFINE e == db.removes[i - 1]
    <3>1. i - 1 \in 1 .. Len(db.removes) /\ db'.removes[i] = e
      BY <2>4, <1>5, <1>6
    <3>2. e \in LogSet(Key, AnyValue)
      BY <3>1, <1>1, ElementOfSeq DEF DBSet
    <3>3. e.key \in Key /\ e.remove_version \in Nat /\ e.version \in Nat
      BY <3>2 DEF LogSet
    <3>4. /\ 0 < e.version /\ e.version < e.remove_version /\ e.remove_version < db.next
          /\ Exists(db, e.key) => db.vv[e.key].version > e.remove_version
          /\ \A j \in 1 .. (i - 1) - 1 : db.removes[j].remove_version > e.remove_version
      BY <3>1, <1>6 DEF IInv, LogSound
    <3> HIDE DEF e
    <3>5. Exists(db', e.key) => db'.vv[e.key].version > e.remove_version
      BY <1>2, <1>8, <3>3, <3>4 DEF Exists, NonexistentVersion
    <3>6. \A j \in 1 .. i - 1 : db'.removes[j].remove_version > e.remove_version
      <4> SUFFICES ASSUME NEW j \in 1 .. i - 1
                   PROVE  db'.removes[j].remove_version > e.remove_version
        OBVIOUS
      <4>1. CASE j = 1
        <5>1. 1 \in 1 .. Len(db'.removes)
          BY <1>6
        <5>2. db'.removes[1] = Logged(db, k)
          BY <5>1, <1>5
        <5>3. db'.removes[j].remove_version = db.next
          BY <4>1, <5>2, <2>1
        <5> QED  BY <5>3, <3>3, <3>4, <1>3
      <4>2. CASE j # 1
        <5>1. j - 1 \in 1 .. (i - 1) - 1 /\ db'.removes[j] = db.removes[j - 1]
          BY <4>2, <1>5, <1>6
        <5> QED  BY <5>1, <3>4
      <4> QED  BY <4>1, <4>2
    <3> QED  BY <3>1, <3>3, <3>4, <3>5, <3>6, <1>2, <1>3
  <2> QED  BY <2>3, <2>4
<1>11. LogBounded'
  BY <1>5 DEF LogBounded
<1> QED  BY <1>2, <1>7, <1>9, <1>10, <1>11 DEF IInv, DBType

LEMMA NextIInv == IInv /\ [Next]_vars => IInv'
<1> SUFFICES ASSUME IInv, [Next]_vars PROVE IInv'
  OBVIOUS
<1>1. DBStep /\ LastType'
  BY NextStep DEF IInv
<1>2. CASE db' = db
  BY <1>1, <1>2 DEF IInv, DBType, AbsentIsNonexistent, LogBounded, VersionsUnique, LogSound
<1>3. CASE \E k \in Key, v \in AnyValue : db' = Store(db, k, v)
  BY <1>1, <1>3, StoreIInv
<1>4. CASE \E k \in Key : Exists(db, k) /\ db' = Erase(db, k)
  BY <1>1, <1>4, EraseIInv
<1> QED  BY <1>1, <1>2, <1>3, <1>4 DEF DBStep

\* Every state of the database satisfies the inductive invariant.
THEOREM IInvHolds == Spec => []IInv
BY InitIInv, NextIInv, PTL DEF Spec

\* The database keeps its shape and the removal log its capacity.
THEOREM TypeCorrect == Spec => []TypeOK
<1>1. IInv => TypeOK
  BY DEF IInv, TypeOK, DBType, LastType, AbsentIsNonexistent, LogBounded
<1> QED  BY <1>1, IInvHolds, PTL

\* Live keys never share a version (emplace_vvptr, do_remove, put, cas).
THEOREM VersionsAreUnique == Spec => []VersionsUnique
<1>1. IInv => VersionsUnique
  BY DEF IInv
<1> QED  BY <1>1, IInvHolds, PTL

\* The removal log is ordered, and older than every key that lives again.
THEOREM LogIsSound == Spec => []LogSound
<1>1. IInv => LogSound
  BY DEF IInv
<1> QED  BY <1>1, IInvHolds, PTL

\* No version number is ever used twice.
THEOREM VersionsAreFresh == Spec => FreshVersions
<1> DEFINE A ==
      /\ db'.next >= db.next
      /\ \A k \in Key : db'.vv[k] # db.vv[k] =>
            /\ db'.next > db.next
            /\ \/ db'.vv[k] = NonexistentVV
               \/ db'.vv[k].version >= db.next
<1>1. IInv /\ [Next]_vars => [A]_vars
  <2> SUFFICES ASSUME IInv, [Next]_vars PROVE A
    OBVIOUS
  <2>1. db \in DBSet(Key, AnyValue) /\ db.next \in Nat
    BY DEF IInv, DBType, DBSet
  <2>2. DBStep
    BY NextStep DEF IInv
  <2>3. CASE db' = db
    BY <2>1, <2>3
  <2>4. ASSUME NEW k \in Key, NEW v \in AnyValue, db' = Store(db, k, v)
        PROVE  A
    <3>1. /\ db'.next = db.next + 1
          /\ \A j \in Key : db'.vv[j] =
                IF j = k THEN [value |-> v, version |-> db.next] ELSE db.vv[j]
      BY <2>1, <2>4, StoreType
    <3> QED  BY <2>1, <3>1
  <2>5. ASSUME NEW k \in Key, db' = Erase(db, k)
        PROVE  A
    BY <2>1, <2>5, EraseType, EmptyIsAValue
  <2> QED  BY <2>2, <2>3, <2>4, <2>5 DEF DBStep
<1> QED  BY <1>1, IInvHolds, PTL DEF Spec, FreshVersions

-----------------------------------------------------------------------------
(* The last answer, and what it says of the database that follows it.      *)

\* A removed key has the absent entry.
LEMMA Erased ==
    ASSUME NEW d \in DBSet(Key, AnyValue), NEW k \in Key
    PROVE  Erase(d, k).vv[k] = NonexistentVV
BY DEF Erase, DBSet

\* The same request again, right after it was granted.
LEMMA SecondTime ==
    ASSUME NEW d \in DBSet(Key, AnyValue), NEW req \in RequestSet(Key, AnyValue),
           d.vv[req.key].version < d.next,
           Conditional(req), Process(d, req).resp.errc = "ok",
           NEW e, e = Process(d, req).db
    PROVE  Process(e, req).resp.errc # "ok"
<1>1. req.key \in Key /\ req.value \in AnyValue /\ req.version_match \in Int
  BY DEF RequestSet
<1>2. d.vv[req.key].version \in Nat /\ d.next \in Nat
  BY <1>1 DEF DBSet, VVSet
<1>3. CASE req.op = "remove"
  <2>1. e = Erase(d, req.key)
    BY <1>3 DEF Process, ProcessRemove, ModNoMatch, Response
  <2>2. ~ Exists(e, req.key)
    <3>1. Erase(d, req.key).vv[req.key] = NonexistentVV
      BY <1>1, Erased
    <3> QED  BY <2>1, <3>1 DEF Exists, NonexistentVV, NonexistentVersion
  <2> QED  BY <1>3, <2>2 DEF Process, ProcessRemove, Response
<1>4. CASE req.op \in {"put", "cas"}
  <2>1. /\ e = Store(d, req.key, req.value) /\ VersionAdmits(req, d.vv[req.key])
        /\ req.op = "cas" => req.expected = d.vv[req.key].value
    <3>1. CASE req.op = "put"
      BY <3>1 DEF Process, ProcessPut, ModNoMatch, Response
    <3>2. CASE req.op = "cas"
      BY <3>2 DEF Process, ProcessCas, ModNoMatch, Response
    <3> QED  BY <1>4, <3>1, <3>2
  <2>2. e.vv[req.key].value = req.value /\ e.vv[req.key].version = d.next
    <3>1. e.vv[req.key] = [value |-> req.value, version |-> d.next]
      BY <1>1, <2>1, StoreType
    <3> QED  BY <3>1
  <2>3. \/ ~ VersionAdmits(req, e.vv[req.key])
        \/ req.op = "cas" /\ req.expected # e.vv[req.key].value
    BY <1>1, <1>2, <1>4, <2>1, <2>2 DEF Conditional, VersionAdmits
  <2>4. CASE req.op = "put"
    BY <2>3, <2>4 DEF Process, ProcessPut, ModNoMatch, Response
  <2>5. CASE req.op = "cas"
    BY <2>3, <2>5 DEF Process, ProcessCas, ModNoMatch, Response
  <2> QED  BY <1>4, <2>4, <2>5
<1> QED  BY <1>3, <1>4 DEF Conditional

\* The answer to a put or a cas, and the key's entry after it.
LEMMA AnswerNames ==
    ASSUME NEW d \in DBSet(Key, AnyValue), NEW req \in RequestSet(Key, AnyValue),
           req.op \in {"put", "cas"},
           NEW e, e = Process(d, req).db, NEW a, a = Process(d, req).resp
    PROVE  /\ a.version = e.vv[req.key].version
           /\ a.errc = "no_match" => a.actual = e.vv[req.key].value
<1>1. req.key \in Key /\ req.value \in AnyValue
  BY DEF RequestSet
<1>2. \/ e = d /\ a = ModNoMatch(req, d.vv[req.key])
      \/ /\ e = Store(d, req.key, req.value)
         /\ a = ModOk(req, d.vv[req.key].version, d.next)
  <2>1. CASE req.op = "put"
    BY <2>1 DEF Process, ProcessPut
  <2>2. CASE req.op = "cas"
    BY <2>2 DEF Process, ProcessCas
  <2> QED  BY <2>1, <2>2
<1>3. Store(d, req.key, req.value).vv[req.key] = [value |-> req.value, version |-> d.next]
  BY <1>1, StoreType
<1>4. Store(d, req.key, req.value).vv[req.key].version = d.next
  BY <1>3
<1> QED  BY <1>2, <1>4 DEF ModNoMatch, ModOk, Response

AnswerInv == RetryRejected /\ AnswerNamesCurrentVersion

LEMMA InitAnswer == Init => AnswerInv
BY DEF Init, AnswerInv, RetryRejected, AnswerNamesCurrentVersion, NoExchange, GetRequest, Response

\* After a step of the direct API there is no answer.
LEMMA NoAnswer ==
    ASSUME NEW k \in Key, last' = NoExchange(k)
    PROVE  AnswerInv'
BY DEF AnswerInv, RetryRejected, AnswerNamesCurrentVersion, NoExchange, GetRequest, Response

LEMMA HandleAnswer ==
    ASSUME IInv, NEW req \in RequestSet(Key, AnyValue), Handle(req)
    PROVE  AnswerInv'
<1>1. db \in DBSet(Key, AnyValue) /\ req.key \in Key
  BY DEF IInv, DBType, RequestSet
<1>2. db.vv[req.key].version < db.next
  BY <1>1 DEF IInv, VersionsUnique
<1>3. /\ db' = Process(db, req).db
      /\ last'.req = req /\ last'.resp = Process(db, req).resp
  BY DEF Handle
<1>4. RetryRejected'
  BY <1>1, <1>2, <1>3, SecondTime DEF RetryRejected
<1>5. AnswerNamesCurrentVersion'
  BY <1>1, <1>3, AnswerNames DEF AnswerNamesCurrentVersion
<1> QED  BY <1>4, <1>5 DEF AnswerInv

LEMMA NextAnswer == IInv /\ AnswerInv /\ [Next]_vars => AnswerInv'
<1> SUFFICES ASSUME IInv, AnswerInv, [Next]_vars PROVE AnswerInv'
  OBVIOUS
<1>1. \A m \in VersionMatch : m \in Int
  BY DEF VersionMatch, AnyVersion, IInv, DBType, DBSet
<1>2. CASE UNCHANGED vars
  BY <1>2 DEF vars, AnswerInv, RetryRejected, AnswerNamesCurrentVersion
<1>3. ASSUME NEW k \in Key, Get(k) \/ Put(k) \/ Cas(k) \/ Remove(k)
      PROVE  \E req \in RequestSet(Key, AnyValue) : Handle(req)
  BY <1>1, <1>3, RequestTypes, EmptyIsAValue DEF Get, Put, Cas, Remove
<1>4. ASSUME NEW k \in Key, DirectPut(k) \/ DirectRemove(k)
      PROVE  AnswerInv'
  BY <1>4, NoAnswer DEF DirectPut, DirectRemove
<1> QED  BY <1>2, <1>3, <1>4, HandleAnswer DEF Next

\* A conditional request that succeeded is refused when it comes again right
\* after (process of put, cas and remove, pancydb.cc:31-74): a duplicate or
\* a retry takes effect at most once.
THEOREM RetriesAreRejected == Spec => []RetryRejected
<1>1. AnswerInv => RetryRejected
  BY DEF AnswerInv
<1> QED  BY <1>1, IInvHolds, InitAnswer, NextAnswer, PTL DEF Spec

\* The version in the answer to a put or a cas is the key's version now
\* (pancydb.cc:31-62), also when the request was refused.
THEOREM AnswersAreCurrent == Spec => []AnswerNamesCurrentVersion
<1>1. AnswerInv => AnswerNamesCurrentVersion
  BY DEF AnswerInv
<1> QED  BY <1>1, IInvHolds, InitAnswer, NextAnswer, PTL DEF Spec

-----------------------------------------------------------------------------
(* The two databases that MCPancyDB compares are those of PancyDiffProofs. *)

PDP == INSTANCE PancyDiffProofs
           WITH MaxRecentRemoves <- MaxRecentRemoves - 1, MaxVersion <- MaxVersion - 1

\* A log of the compared databases has room for an entry.
SmallerBounds == MaxRecentRemoves > 1 /\ MaxVersion > 0

LEMMA SmallerAssumption == SmallerBounds => MaxRecentRemoves - 1 \in Nat
BY PancyAssumption DEF SmallerBounds

LEMMA ComparedInit ==
    ASSUME SmallerBounds, MCInit
    PROVE  PDP!DInv
<1>1. PDP!Init
  BY DEF MCInit, PD!Init, PDP!Init, PD!EmptyDB, PDP!EmptyDB, PD!NonexistentVV,
     PDP!NonexistentVV, PD!NonexistentVersion, PDP!NonexistentVersion
<1> QED  BY <1>1, SmallerAssumption, PDP!InitDInv

LEMMA ComparedNext ==
    ASSUME SmallerBounds, PDP!DInv, [MCNext]_<<vars, compared>>
    PROVE  PDP!DInv'
<1>1. [PDP!Next]_(PDP!vars)
  <2>1. CASE UNCHANGED compared
    BY <2>1 DEF compared, PDP!vars
  <2>2. CASE PD!Next
    BY <2>2 DEF PD!Next, PDP!Next, PD!ModifyThis, PDP!ModifyThis, PD!ModifyOther,
       PDP!ModifyOther, PD!Snapshot, PDP!Snapshot, PD!Modified, PDP!Modified,
       PD!AnyValue, PDP!AnyValue, PD!Store, PDP!Store, PD!Erase, PDP!Erase,
       PD!Exists, PDP!Exists, PD!Trim, PDP!Trim, PD!Logged, PDP!Logged,
       PD!NonexistentVV, PDP!NonexistentVV, PD!NonexistentVersion,
       PDP!NonexistentVersion
  <2> QED  BY <2>1, <2>2 DEF MCNext
<1> QED  BY <1>1, SmallerAssumption, PDP!NextDInv

\* PD and PDP compare alike.
LEMMA SameDiff ==
    /\ PDP!NoFalseAlarm => PD!NoFalseAlarm
    /\ PDP!ZeroSkewIsEquality => PD!ZeroSkewIsEquality
    /\ PDP!ReportedKeysDiffer => PD!ReportedKeysDiffer
    /\ PDP!OldDivergenceReported => PD!OldDivergenceReported
<1>1. PDP!Skews = PD!Skews
  BY DEF PDP!Skews, PD!Skews
<1>2. \A d, k, m : PDP!FindRecentRemove(d, k, m) = PD!FindRecentRemove(d, k, m)
  BY DEF PDP!FindRecentRemove, PD!FindRecentRemove, PDP!Min, PD!Min,
     PDP!NonexistentVV, PD!NonexistentVV, PDP!NonexistentVersion, PD!NonexistentVersion
<1>3. \A d, k, m : PDP!Remembered(d, k, m) = PD!Remembered(d, k, m)
  BY <1>2 DEF PDP!Remembered, PD!Remembered, PDP!Exists, PD!Exists,
     PDP!NonexistentVersion, PD!NonexistentVersion
<1>4. \A d, m : PDP!RemovesComplete(d, m) <=> PD!RemovesComplete(d, m)
  BY DEF PDP!RemovesComplete, PD!RemovesComplete
<1>5. \A a, b, k, m : PDP!DiffersAt(a, b, k, m) <=> PD!DiffersAt(a, b, k, m)
  BY <1>3, <1>4 DEF PDP!DiffersAt, PD!DiffersAt, PDP!Exists, PD!Exists,
     PDP!IsNull, PD!IsNull, PDP!Mismatch, PD!Mismatch,
     PDP!NonexistentVersion, PD!NonexistentVersion
<1>6. \A a, b, s : PDP!Diff(a, b, s) = PD!Diff(a, b, s)
  BY <1>5 DEF PDP!Diff, PD!Diff, PDP!DiffNewer, PD!DiffNewer
<1>7. PDP!NoFalseAlarm => PD!NoFalseAlarm
  BY <1>1, <1>6 DEF PDP!NoFalseAlarm, PD!NoFalseAlarm
<1>8. PDP!ZeroSkewIsEquality => PD!ZeroSkewIsEquality
  BY <1>6 DEF PDP!ZeroSkewIsEquality, PD!ZeroSkewIsEquality
<1>9. PDP!ReportedKeysDiffer => PD!ReportedKeysDiffer
  BY <1>1, <1>6 DEF PDP!ReportedKeysDiffer, PD!ReportedKeysDiffer
<1>10. PDP!OldDivergenceReported => PD!OldDivergenceReported
  BY <1>1, <1>4, <1>6 DEF PDP!OldDivergenceReported, PD!OldDivergenceReported
<1> QED  BY <1>7, <1>8, <1>9, <1>10

LEMMA ComparedSound ==
    ASSUME SmallerBounds, PDP!DInv
    PROVE  NoFalseAlarm /\ ZeroSkewIsEquality /\ ReportedKeysDiffer /\ OldDivergenceReported
<1>1. MaxVersion - 1 \in Nat /\ MaxRecentRemoves - 1 > 0
  BY PancyAssumption, PancyDBAssumption DEF SmallerBounds
<1>2. PDP!NoFalseAlarm
  BY <1>1, SmallerAssumption, PDP!LagAccepted
<1>3. PDP!ZeroSkewIsEquality
  BY <1>1, SmallerAssumption, PDP!ContentsCompared
<1>4. PDP!ReportedKeysDiffer
  BY <1>1, SmallerAssumption, PDP!ReportsDiffer
<1>5. PDP!OldDivergenceReported
  BY <1>1, SmallerAssumption, PDP!OldDiverges
<1> QED  BY <1>2, <1>3, <1>4, <1>5, SameDiff
     DEF NoFalseAlarm, ZeroSkewIsEquality, ReportedKeysDiffer, OldDivergenceReported

LEMMA ComparedHolds ==
    ASSUME SmallerBounds
    PROVE  MCSpec => []PDP!DInv
BY ComparedInit, ComparedNext, PTL DEF MCSpec

\* The promises of diff (pancydb.cc:83-155) of the two databases that a
\* behaviour of MCSpec compares.  A lagging copy is not reported:
THEOREM ComparedLagIsAccepted ==
    ASSUME SmallerBounds
    PROVE  MCSpec => []NoFalseAlarm
BY ComparedHolds, ComparedSound, PTL

\* without skew, only equal contents pass;
THEOREM ComparedWithoutSkew ==
    ASSUME SmallerBounds
    PROVE  MCSpec => []ZeroSkewIsEquality
BY ComparedHolds, ComparedSound, PTL

\* equal entries are not reported;
THEOREM ComparedReportsDiffer ==
    ASSUME SmallerBounds
    PROVE  MCSpec => []ReportedKeysDiffer
BY ComparedHolds, ComparedSound, PTL

\* and an old divergence is, while the newer log reaches back far enough.
THEOREM ComparedOldDivergence ==
    ASSUME SmallerBounds
    PROVE  MCSpec => []OldDivergenceReported
BY ComparedHolds, ComparedSound, PTL

=============================================================================
