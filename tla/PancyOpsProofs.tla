--------------------------- MODULE PancyOpsProofs ---------------------------
(***************************************************************************)
(* Lemmas about the operators of PancyOps: what they return for every      *)
(* database and request, whatever the keys, the values and the capacity of *)
(* the removal log.                                                        *)
(***************************************************************************)
EXTENDS PancyOps, SequenceTheorems, TLAPS

\* Trimming keeps the front of the log and respects the capacity.
LEMMA TrimProperties ==
    ASSUME NEW S, NEW log \in Seq(S)
    PROVE  /\ Trim(log) \in Seq(S)
           /\ Len(Trim(log)) <= Len(log)
           /\ Len(Trim(log)) <= MaxRecentRemoves
           /\ \A i \in 1 .. Len(Trim(log)) : Trim(log)[i] = log[i]
<1> USE PancyAssumption
<1>1. CASE Len(log) > MaxRecentRemoves
  <2>1. \A i \in 1 .. MaxRecentRemoves : log[i] \in S
    BY <1>1, ElementOfSeq, LenProperties
  <2>2. /\ SubSeq(log, 1, MaxRecentRemoves) \in Seq(S)
        /\ Len(SubSeq(log, 1, MaxRecentRemoves)) =
             IF 1 <= MaxRecentRemoves THEN MaxRecentRemoves - 1 + 1 ELSE 0
        /\ \A i \in 1 .. MaxRecentRemoves - 1 + 1 :
             SubSeq(log, 1, MaxRecentRemoves)[i] = log[1 + i - 1]
    BY <2>1, SubSeqProperties
  <2> QED  BY <1>1, <2>2, LenProperties DEF Trim
<1>2. CASE ~ (Len(log) > MaxRecentRemoves)
  BY <1>2, LenProperties DEF Trim
<1> QED  BY <1>1, <1>2

\* The log after a removal: the new entry in front, then entries of the old
\* log in their order.
LEMMA EraseLog ==
    ASSUME NEW keys, NEW values, NEW d \in DBSet(keys, values), NEW key \in keys
    PROVE  LET log == Trim(<<Logged(d, key)>> \o d.removes) IN
           /\ log \in Seq(LogSet(keys, values))
           /\ Len(log) <= Len(d.removes) + 1
           /\ Len(log) <= MaxRecentRemoves
           /\ \A i \in 1 .. Len(log) :
                log[i] = IF i = 1 THEN Logged(d, key) ELSE d.removes[i - 1]
<1> DEFINE S == LogSet(keys, values)
           e == Logged(d, key)
           whole == <<e>> \o d.removes
           log == Trim(whole)
<1>1. d.removes \in Seq(S) /\ d.vv[key] \in VVSet(values) /\ d.next \in Nat
  BY DEF DBSet
<1>2. e \in S
  BY <1>1 DEF Logged, LogSet, VVSet
<1>3. <<e>> \in Seq(S) /\ Len(<<e>>) = 1 /\ <<e>>[1] = e
  BY <1>2
<1>4. /\ whole \in Seq(S)
      /\ Len(whole) = 1 + Len(d.removes)
      /\ \A i \in 1 .. 1 + Len(d.removes) :
            whole[i] = IF i <= 1 THEN <<e>>[i] ELSE d.removes[i - 1]
  <2> HIDE DEF e, S
  <2> QED  BY <1>1, <1>3, ConcatProperties
<1>5. /\ log \in Seq(S)
      /\ Len(log) <= Len(whole)
      /\ Len(log) <= MaxRecentRemoves
      /\ \A i \in 1 .. Len(log) : log[i] = whole[i]
  <2> HIDE DEF whole, S
  <2> QED  BY <1>4, TrimProperties
<1>6. Len(log) \in Nat /\ Len(d.removes) \in Nat
  <2> HIDE DEF log, S
  <2> QED  BY <1>1, <1>5, LenProperties
<1>7. \A i \in 1 .. Len(log) : log[i] = IF i = 1 THEN e ELSE d.removes[i - 1]
  <2> HIDE DEF log, e, whole
  <2> QED  BY <1>3, <1>4, <1>5, <1>6
<1> HIDE DEF log
<1>8. Len(log) <= Len(d.removes) + 1
  <2> HIDE DEF whole
  <2> QED  BY <1>4, <1>5, <1>6
<1> QED  BY <1>5, <1>7, <1>8 DEF log

LEMMA StoreType ==
    ASSUME NEW keys, NEW values, NEW d \in DBSet(keys, values),
           NEW key \in keys, NEW value \in values
    PROVE  /\ Store(d, key, value) \in DBSet(keys, values)
           /\ Store(d, key, value).removes = d.removes
           /\ Store(d, key, value).next = d.next + 1
           /\ \A k \in keys : Store(d, key, value).vv[k] =
                IF k = key THEN [value |-> value, version |-> d.next] ELSE d.vv[k]
BY DEF Store, DBSet, VVSet

LEMMA EraseType ==
    ASSUME NEW keys, NEW values, EmptyValue \in values,
           NEW d \in DBSet(keys, values), NEW key \in keys
    PROVE  /\ Erase(d, key) \in DBSet(keys, values)
           /\ Erase(d, key).next = d.next + 1
           /\ \A k \in keys : Erase(d, key).vv[k] =
                IF k = key THEN NonexistentVV ELSE d.vv[k]
<1>1. Trim(<<Logged(d, key)>> \o d.removes) \in Seq(LogSet(keys, values))
  BY EraseLog
<1>2. NonexistentVV \in VVSet(values)
  BY DEF NonexistentVV, NonexistentVersion, VVSet
<1> QED  BY <1>1, <1>2 DEF Erase, DBSet

\* A request changes the database in one of three ways.
LEMMA ProcessCases ==
    ASSUME NEW keys, NEW values, NEW d \in DBSet(keys, values),
           NEW req \in RequestSet(keys, values)
    PROVE  \/ Process(d, req).db = d
           \/ Process(d, req).db = Store(d, req.key, req.value)
           \/ /\ Process(d, req).db = Erase(d, req.key)
              /\ Exists(d, req.key)
<1>1. req.op \in {"get", "put", "cas", "remove"}
  BY DEF RequestSet, Op
<1>2. CASE req.op = "get"
  BY <1>2 DEF Process, ProcessGet
<1>3. CASE req.op = "put"
  BY <1>3 DEF Process, ProcessPut
<1>4. CASE req.op = "cas"
  BY <1>4 DEF Process, ProcessCas
<1>5. CASE req.op = "remove"
  BY <1>5 DEF Process, ProcessRemove
<1> QED  BY <1>1, <1>2, <1>3, <1>4, <1>5

\* A database stays a database, and the answer is a response.
LEMMA ProcessType ==
    ASSUME NEW keys, NEW values, EmptyValue \in values,
           NEW d \in DBSet(keys, values), NEW req \in RequestSet(keys, values)
    PROVE  /\ Process(d, req).db \in DBSet(keys, values)
           /\ Process(d, req).resp \in ResponseSet(values)
<1>1. req.key \in keys /\ req.value \in values /\ req.op \in Op /\ req.serial \in Nat
  BY DEF RequestSet
<1>2. Process(d, req).db \in DBSet(keys, values)
  <2>1. /\ Store(d, req.key, req.value) \in DBSet(keys, values)
        /\ Erase(d, req.key) \in DBSet(keys, values)
    BY <1>1, StoreType, EraseType
  <2> QED  BY <2>1, ProcessCases
<1>3. /\ d.vv[req.key] \in [value : values, version : Nat] /\ d.next \in Nat
      /\ d.vv[req.key].value \in values /\ d.vv[req.key].version \in Nat
  BY <1>1 DEF DBSet, VVSet
<1>4. \A errc \in Errc, a \in values, p \in Nat, v \in Nat :
          Response(req, errc, a, p, v) \in ResponseSet(values)
  BY <1>1 DEF Response, ResponseSet
<1>5. /\ ModNoMatch(req, d.vv[req.key]) \in ResponseSet(values)
      /\ \A p \in Nat, v \in Nat : ModOk(req, p, v) \in ResponseSet(values)
  BY <1>3, <1>4 DEF ModNoMatch, ModOk, Errc
<1>6. NonexistentVersion \in Nat
  BY DEF NonexistentVersion
<1>7. CASE req.op = "get"
  <2>1. Process(d, req).resp = Response(req, "ok", d.vv[req.key].value,
                                        NonexistentVersion, d.vv[req.key].version)
    BY <1>7 DEF Process, ProcessGet
  <2> QED  BY <2>1, <1>2, <1>3, <1>4, <1>6 DEF Errc
<1>8. CASE req.op = "put"
  <2>1. Process(d, req).resp \in {ModNoMatch(req, d.vv[req.key]),
                                  ModOk(req, d.vv[req.key].version, d.next)}
    BY <1>8 DEF Process, ProcessPut
  <2> QED  BY <2>1, <1>2, <1>3, <1>5
<1>9. CASE req.op = "cas"
  <2>1. Process(d, req).resp \in {ModNoMatch(req, d.vv[req.key]),
                                  ModOk(req, d.vv[req.key].version, d.next)}
    BY <1>9 DEF Process, ProcessCas
  <2> QED  BY <2>1, <1>2, <1>3, <1>5
<1>10. CASE req.op = "remove"
  <2>1. Process(d, req).resp \in
          {Response(req, "not_found", EmptyValue, NonexistentVersion, NonexistentVersion),
           ModNoMatch(req, d.vv[req.key]),
           ModOk(req, d.vv[req.key].version, NonexistentVersion)}
    BY <1>10 DEF Process, ProcessRemove
  <2> QED  BY <2>1, <1>2, <1>3, <1>4, <1>5, <1>6 DEF Errc
<1> QED  BY <1>1, <1>2, <1>7, <1>8, <1>9, <1>10 DEF Op

=============================================================================
