-------------------------- MODULE PancyDiffProofs ---------------------------
(***************************************************************************)
(* PancyDiff for every set of keys and values, every number of             *)
(* modifications and every capacity of the removal log that is not 0,      *)
(* where pancydb.cc:113 would have no back() to read.                      *)
(***************************************************************************)
EXTENDS PancyDiff, PancyOpsProofs, WellFoundedInduction

(* What diff relies on in each of the two databases, d, with c its part of *)
(* `changed'.                                                              *)

Positions(d) == 1 .. Len(d.removes)

ChangedOK(d, c) == c \in [Key -> Nat] /\ \A k \in Key : c[k] < d.next

\* A live entry is the last modification of its key.
LiveOK(d, c) ==
    \A k \in Key : \/ Exists(d, k) /\ d.vv[k].version = c[k]
                   \/ ~ Exists(d, k) /\ d.vv[k] = NonexistentVV

\* A logged removal undid a modification before it and is not later than
\* the last change of its key.
LogOK(d, c) ==
    \A i \in Positions(d) :
        LET e == d.removes[i] IN
        /\ 0 < e.version /\ e.version < e.remove_version
        /\ e.remove_version <= c[e.key]

NewestFirst(d) ==
    \A i, j \in Positions(d) :
        i < j => d.removes[i].remove_version > d.removes[j].remove_version

Evicted(d, version) ==
    /\ Len(d.removes) = MaxRecentRemoves
    /\ \A i \in Positions(d) : d.removes[i].remove_version > version

\* The last removal of a key that is gone is in the log, unless the log is
\* full of later ones.
GoneOK(d, c) ==
    \A k \in Key :
        ~ Exists(d, k) /\ c[k] # 0 =>
            \/ \E i \in Positions(d) : /\ d.removes[i].key = k
                                       /\ d.removes[i].remove_version = c[k]
            \/ Evicted(d, c[k])

DatabaseOK(d, c) ==
    /\ d \in DBSet(Key, AnyValue)
    /\ Len(d.removes) <= MaxRecentRemoves
    /\ ChangedOK(d, c)
    /\ LiveOK(d, c)
    /\ LogOK(d, c)
    /\ NewestFirst(d)
    /\ GoneOK(d, c)

(* What makes b, whose part of `changed' is not needed, an earlier state   *)
(* of a: what a has not changed since is b's, and so is what a's log says  *)
(* was there before.                                                       *)

SameSince(a, ca, b) ==
    \A k \in Key : ca[k] < b.next => a.vv[k] = b.vv[k]

LoggedSince(a, b) ==
    \A i \in Positions(a) :
        LET e == a.removes[i] IN
        e.remove_version >= b.next /\ e.version < b.next =>
            b.vv[e.key] = [value |-> e.value, version |-> e.version]

EarlierState(a, ca, b) ==
    /\ b.next <= a.next
    /\ SameSince(a, ca, b)
    /\ LoggedSince(a, b)

DInv ==
    /\ changed \in [this : [Key -> Nat], other : [Key -> Nat]]
    /\ DatabaseOK(this, changed.this)
    /\ DatabaseOK(other, changed.other)
    /\ behind => EarlierState(this, changed.this, other)

-----------------------------------------------------------------------------
(* What a database is made of.                                             *)

LEMMA DatabaseTypes ==
    ASSUME NEW d \in DBSet(Key, AnyValue)
    PROVE  /\ d.next \in Nat
           /\ \A k \in Key : /\ d.vv[k] \in [value : AnyValue, version : Nat]
                             /\ d.vv[k].version \in Nat
           /\ d.vv \in [Key -> [value : AnyValue, version : Nat]]
           /\ DOMAIN d.removes = Positions(d) /\ Len(d.removes) \in Nat
           /\ \A i \in Positions(d) :
                 /\ d.removes[i] \in LogSet(Key, AnyValue)
                 /\ d.removes[i].key \in Key
                 /\ d.removes[i].value \in AnyValue
                 /\ d.removes[i].version \in Nat
                 /\ d.removes[i].remove_version \in Nat
<1>1. /\ d.next \in Nat
      /\ d.vv \in [Key -> VVSet(AnyValue)]
      /\ d.removes \in Seq(LogSet(Key, AnyValue))
  BY DEF DBSet
<1>2. /\ DOMAIN d.removes = Positions(d) /\ Len(d.removes) \in Nat
      /\ \A i \in Positions(d) : d.removes[i] \in LogSet(Key, AnyValue)
  BY <1>1, LenProperties, ElementOfSeq DEF Positions
<1> QED  BY <1>1, <1>2 DEF VVSet, LogSet

\* A set of positions that is not empty has a least one, and Min finds it.
LEMMA LeastPosition ==
    ASSUME NEW S \in SUBSET Nat, S # {}
    PROVE  Min(S) \in S /\ \A i \in S : Min(S) <= i
<1> DEFINE Below == {ss \in Nat \X Nat : ss[1] < ss[2]}
<1>1. IsWellFoundedOn(Below, Nat)
  BY NatLessThanWellFounded DEF OpToRel
<1>2. PICK x \in S : \A y \in S : ~ (<<y, x>> \in Below)
  <2> HIDE DEF Below
  <2> QED  BY <1>1, WFMin
<1>3. ASSUME NEW y \in S
      PROVE  x <= y
  <2>1. x \in Nat /\ y \in Nat
    OBVIOUS
  <2>2. ~ (y < x)
    <3>1. <<y, x>> \in Nat \X Nat /\ <<y, x>>[1] = y /\ <<y, x>>[2] = x
      BY <2>1
    <3>2. ~ (<<y, x>> \in Below)
      BY <1>2
    <3> QED  BY <3>1, <3>2
  <2> HIDE DEF Below
  <2> QED  BY <2>1, <2>2
<1> QED  BY <1>2, <1>3 DEF Min

-----------------------------------------------------------------------------
(* What find_recent_remove returns.                                        *)

LEMMA NothingFound ==
    ASSUME NEW d \in DBSet(Key, AnyValue), NEW k \in Key, NEW min \in Int,
           \A i \in Positions(d) :
               d.removes[i].key = k => d.removes[i].remove_version < min
    PROVE  FindRecentRemove(d, k, min) = NonexistentVV
<1>1. {i \in DOMAIN d.removes : /\ d.removes[i].key = k
                                /\ d.removes[i].remove_version >= min} = {}
  BY DatabaseTypes
<1> QED  BY <1>1 DEF FindRecentRemove

LEMMA NewestFound ==
    ASSUME NEW d \in DBSet(Key, AnyValue), NEW k \in Key, NEW min \in Int,
           NEW i \in Positions(d),
           d.removes[i].key = k, d.removes[i].remove_version >= min
    PROVE  \E j \in Positions(d) :
              /\ j <= i /\ d.removes[j].key = k
              /\ FindRecentRemove(d, k, min) =
                   [value |-> d.removes[j].value, version |-> d.removes[j].version]
<1> DEFINE found == {n \in DOMAIN d.removes :
                        /\ d.removes[n].key = k
                        /\ d.removes[n].remove_version >= min}
<1>1. i \in found /\ found \in SUBSET Nat /\ found \subseteq Positions(d)
  BY DatabaseTypes DEF Positions
<1>2. Min(found) \in found /\ Min(found) <= i
  <2> HIDE DEF found
  <2> QED  BY <1>1, LeastPosition
<1>3. FindRecentRemove(d, k, min) = [value |-> d.removes[Min(found)].value,
                                     version |-> d.removes[Min(found)].version]
  BY <1>1 DEF FindRecentRemove
<1>4. d.removes[Min(found)].key = k
  BY <1>2
<1> HIDE DEF found
<1> QED  BY <1>1, <1>2, <1>3, <1>4

-----------------------------------------------------------------------------
(* Every modification leaves a database as diff relies on it.              *)

LEMMA EmptyOK ==
    DatabaseOK(EmptyDB(Key), [k \in Key |-> 0])
<1> DEFINE d == EmptyDB(Key)
           c == [k \in Key |-> 0]
<1>1. /\ d.next = 1 /\ d.removes = << >>
      /\ \A k \in Key : /\ d.vv[k] = NonexistentVV /\ d.vv[k].version = 0
                        /\ c[k] = 0
      /\ c \in [Key -> Nat]
  BY DEF EmptyDB, NonexistentVV, NonexistentVersion
<1>2. d \in DBSet(Key, AnyValue)
  BY DEF EmptyDB, DBSet, VVSet, AnyValue, NonexistentVV, NonexistentVersion
<1>3. Len(d.removes) = 0 /\ Positions(d) = {}
  BY <1>1 DEF Positions
<1> HIDE DEF d, c
<1>4. ChangedOK(d, c) /\ LiveOK(d, c) /\ GoneOK(d, c)
  BY <1>1 DEF ChangedOK, LiveOK, GoneOK, Exists, NonexistentVersion
<1>5. LogOK(d, c) /\ NewestFirst(d)
  BY <1>3 DEF LogOK, NewestFirst
<1>6. DatabaseOK(d, c)
  BY <1>2, <1>3, <1>4, <1>5, PancyAssumption DEF DatabaseOK
<1> QED  BY <1>6 DEF d, c

LEMMA StoreOK ==
    ASSUME NEW d, NEW c, DatabaseOK(d, c), NEW k \in Key, NEW v \in AnyValue,
           NEW dd, dd = Store(d, k, v), NEW cc, cc = [c EXCEPT ![k] = d.next]
    PROVE  DatabaseOK(dd, cc)
<1>1. d \in DBSet(Key, AnyValue) /\ c \in [Key -> Nat]
  BY DEF DatabaseOK, ChangedOK
<1>2. /\ dd \in DBSet(Key, AnyValue)
      /\ dd.removes = d.removes /\ dd.next = d.next + 1
      /\ \A j \in Key : dd.vv[j] =
            IF j = k THEN [value |-> v, version |-> d.next] ELSE d.vv[j]
  BY <1>1, StoreType
<1>3. d.next \in Nat
  BY <1>1, DatabaseTypes
<1>4. /\ cc \in [Key -> Nat]
      /\ \A j \in Key : cc[j] = IF j = k THEN d.next ELSE c[j]
  BY <1>1, <1>3
<1>5. \A j \in Key : c[j] < d.next /\ c[j] <= cc[j] /\ c[j] \in Nat
  BY <1>1, <1>3, <1>4 DEF DatabaseOK, ChangedOK
<1>6. Positions(dd) = Positions(d)
  BY <1>2 DEF Positions
<1>7. ChangedOK(dd, cc)
  BY <1>2, <1>3, <1>4, <1>5 DEF ChangedOK
<1>8. LiveOK(dd, cc)
  <2>1. d.next # 0
    BY <1>3, <1>5
  <2>2. LiveOK(d, c)
    BY DEF DatabaseOK
  <2> QED  BY <1>2, <1>4, <2>1, <2>2 DEF LiveOK, Exists, NonexistentVersion
<1>9. LogOK(dd, cc)
  <2>1. LogOK(d, c)
    BY DEF DatabaseOK
  <2> SUFFICES ASSUME NEW i \in Positions(d)
               PROVE  LET e == d.removes[i] IN
                      /\ 0 < e.version /\ e.version < e.remove_version
                      /\ e.remove_version <= cc[e.key]
    BY <1>2, <1>6 DEF LogOK
  <2> DEFINE e == d.removes[i]
  <2>2. e.key \in Key /\ e.remove_version \in Nat
    BY <1>1, DatabaseTypes
  <2>3. /\ 0 < e.version /\ e.version < e.remove_version
        /\ e.remove_version <= c[e.key]
    BY <2>1 DEF LogOK
  <2>4. cc[e.key] \in Nat /\ c[e.key] \in Nat /\ c[e.key] <= cc[e.key]
    BY <1>4, <1>5, <2>2
  <2> QED  BY <2>2, <2>3, <2>4
<1>10. NewestFirst(dd)
  BY <1>2, <1>6 DEF DatabaseOK, NewestFirst
<1>11. GoneOK(dd, cc)
  <2> SUFFICES ASSUME NEW j \in Key, ~ Exists(dd, j), cc[j] # 0
               PROVE  \/ \E i \in Positions(dd) :
                            /\ dd.removes[i].key = j
                            /\ dd.removes[i].remove_version = cc[j]
                      \/ Evicted(dd, cc[j])
    BY DEF GoneOK
  <2>1. j # k
    BY <1>2, <1>3, <1>5 DEF Exists, NonexistentVersion
  <2>2. ~ Exists(d, j) /\ c[j] # 0 /\ cc[j] = c[j]
    BY <1>2, <1>4, <2>1 DEF Exists
  <2> QED  BY <1>2, <1>6, <2>2 DEF DatabaseOK, GoneOK, Evicted
<1> QED  BY <1>2, <1>7, <1>8, <1>9, <1>10, <1>11 DEF DatabaseOK

\* The log after a removal, by positions.
LEMMA ErasedLog ==
    ASSUME NEW d \in DBSet(Key, AnyValue), NEW k \in Key,
           NEW dd, dd = Erase(d, k)
    PROVE  /\ dd \in DBSet(Key, AnyValue) /\ dd.next = d.next + 1
           /\ \A j \in Key : dd.vv[j] = IF j = k THEN NonexistentVV ELSE d.vv[j]
           /\ Len(dd.removes) \in Nat /\ Len(dd.removes) <= MaxRecentRemoves
           /\ Len(d.removes) + 1 <= MaxRecentRemoves =>
                 Len(dd.removes) = Len(d.removes) + 1
           /\ Len(d.removes) = MaxRecentRemoves => Len(dd.removes) = MaxRecentRemoves
           /\ \A i \in Positions(dd) :
                 \/ i = 1 /\ dd.removes[i] = Logged(d, k)
                 \/ i # 1 /\ i - 1 \in Positions(d) /\ dd.removes[i] = d.removes[i - 1]
<1>1. EmptyValue \in AnyValue
  BY DEF AnyValue
<1>2. /\ dd \in DBSet(Key, AnyValue) /\ dd.next = d.next + 1
      /\ \A j \in Key : dd.vv[j] = IF j = k THEN NonexistentVV ELSE d.vv[j]
  <2>1. Erase(d, k) \in DBSet(Key, AnyValue)
    BY <1>1, EraseType
  <2>2. Erase(d, k).next = d.next + 1
    BY DEF Erase
  <2>3. \A j \in Key : Erase(d, k).vv[j] =
                     IF j = k THEN NonexistentVV ELSE d.vv[j]
    BY DEF Erase, DBSet
  <2> QED  BY <2>1, <2>2, <2>3
<1>3. dd.removes = Trim(<<Logged(d, k)>> \o d.removes)
  BY DEF Erase
<1>4. /\ Len(dd.removes) <= Len(d.removes) + 1
      /\ Len(dd.removes) <= MaxRecentRemoves
      /\ \A i \in 1 .. Len(dd.removes) :
            dd.removes[i] = IF i = 1 THEN Logged(d, k) ELSE d.removes[i - 1]
  BY <1>3, EraseLog
<1>5. Len(dd.removes) \in Nat /\ Len(d.removes) \in Nat
  BY <1>2, DatabaseTypes
<1>6. \A i \in Positions(dd) : i # 1 => i - 1 \in Positions(d)
  BY <1>4, <1>5 DEF Positions
<1>7. \A i \in Positions(dd) :
        \/ i = 1 /\ dd.removes[i] = Logged(d, k)
        \/ i # 1 /\ i - 1 \in Positions(d) /\ dd.removes[i] = d.removes[i - 1]
  BY <1>4, <1>6 DEF Positions
<1>8. Logged(d, k) \in LogSet(Key, AnyValue)
  BY DatabaseTypes DEF Logged, LogSet
<1>9. LET whole == <<Logged(d, k)>> \o d.removes IN
      /\ whole \in Seq(LogSet(Key, AnyValue))
      /\ Len(whole) = Len(d.removes) + 1
  <2> DEFINE S == LogSet(Key, AnyValue)
             e == Logged(d, k)
  <2>1. d.removes \in Seq(S)
    BY DEF DBSet
  <2>2. <<e>> \in Seq(S) /\ Len(<<e>>) = 1
    BY <1>8
  <2> HIDE DEF S, e
  <2>3. /\ <<e>> \o d.removes \in Seq(S)
        /\ Len(<<e>> \o d.removes) = Len(d.removes) + 1
    BY <1>5, <2>1, <2>2, ConcatProperties
  <2> QED  BY <2>3 DEF S, e
<1>10. Len(dd.removes) = IF Len(d.removes) + 1 > MaxRecentRemoves
                         THEN MaxRecentRemoves ELSE Len(d.removes) + 1
  <2> DEFINE whole == <<Logged(d, k)>> \o d.removes
  <2>1. whole \in Seq(LogSet(Key, AnyValue)) /\ Len(whole) = Len(d.removes) + 1
    BY <1>9
  <2>2. dd.removes = Trim(whole)
    BY <1>3
  <2> HIDE DEF whole
  <2>3. CASE Len(whole) > MaxRecentRemoves
    <3>1. \A i \in 1 .. MaxRecentRemoves : whole[i] \in LogSet(Key, AnyValue)
      BY <1>5, <2>1, <2>3, PancyAssumption, ElementOfSeq, LenProperties
    <3>2. Len(SubSeq(whole, 1, MaxRecentRemoves)) =
             IF 1 <= MaxRecentRemoves THEN MaxRecentRemoves - 1 + 1 ELSE 0
      BY <3>1, PancyAssumption, SubSeqProperties
    <3>3. dd.removes = SubSeq(whole, 1, MaxRecentRemoves)
      BY <2>2, <2>3 DEF Trim
    <3> QED  BY <1>5, <2>1, <2>3, <3>2, <3>3, PancyAssumption
  <2>4. CASE ~ (Len(whole) > MaxRecentRemoves)
    BY <2>1, <2>2, <2>4 DEF Trim
  <2> QED  BY <2>3, <2>4
<1>11. /\ Len(d.removes) + 1 <= MaxRecentRemoves =>
                 Len(dd.removes) = Len(d.removes) + 1
       /\ Len(d.removes) = MaxRecentRemoves => Len(dd.removes) = MaxRecentRemoves
  BY <1>5, <1>10, PancyAssumption
<1> QED  BY <1>2, <1>4, <1>5, <1>7, <1>11

LEMMA EraseOK ==
    ASSUME NEW d, NEW c, DatabaseOK(d, c), NEW k \in Key, Exists(d, k),
           NEW dd, dd = Erase(d, k), NEW cc, cc = [c EXCEPT ![k] = d.next]
    PROVE  DatabaseOK(dd, cc)
<1>1. d \in DBSet(Key, AnyValue) /\ c \in [Key -> Nat]
  BY DEF DatabaseOK, ChangedOK
<1>2. /\ dd \in DBSet(Key, AnyValue) /\ dd.next = d.next + 1
      /\ \A j \in Key : dd.vv[j] = IF j = k THEN NonexistentVV ELSE d.vv[j]
      /\ Len(dd.removes) \in Nat /\ Len(dd.removes) <= MaxRecentRemoves
  BY <1>1, ErasedLog
<1>3. \A i \in Positions(dd) :
         \/ i = 1 /\ dd.removes[i] = Logged(d, k)
         \/ i # 1 /\ i - 1 \in Positions(d) /\ dd.removes[i] = d.removes[i - 1]
  BY <1>1, ErasedLog
<1>4. d.next \in Nat /\ Len(d.removes) \in Nat /\ d.vv[k].version \in Nat
  BY <1>1, DatabaseTypes
<1>5. /\ cc \in [Key -> Nat]
      /\ \A j \in Key : cc[j] = IF j = k THEN d.next ELSE c[j]
  BY <1>1, <1>4
<1>6. \A j \in Key : c[j] < d.next /\ c[j] <= cc[j] /\ c[j] \in Nat
  BY <1>1, <1>4, <1>5 DEF DatabaseOK, ChangedOK
<1>7. \A i \in Positions(d) :
         /\ 0 < d.removes[i].version
         /\ d.removes[i].version < d.removes[i].remove_version
         /\ d.removes[i].remove_version <= c[d.removes[i].key]
         /\ d.removes[i].remove_version < d.next
         /\ d.removes[i].remove_version <= cc[d.removes[i].key]
         /\ d.removes[i].remove_version \in Nat /\ d.removes[i].key \in Key
  <2> SUFFICES ASSUME NEW i \in Positions(d)
               PROVE  /\ 0 < d.removes[i].version
                      /\ d.removes[i].version < d.removes[i].remove_version
                      /\ d.removes[i].remove_version <= c[d.removes[i].key]
                      /\ d.removes[i].remove_version < d.next
                      /\ d.removes[i].remove_version <= cc[d.removes[i].key]
                      /\ d.removes[i].remove_version \in Nat
                      /\ d.removes[i].key \in Key
    OBVIOUS
  <2>1. d.removes[i].key \in Key /\ d.removes[i].remove_version \in Nat
    BY <1>1, DatabaseTypes
  <2>2. /\ 0 < d.removes[i].version
        /\ d.removes[i].version < d.removes[i].remove_version
        /\ d.removes[i].remove_version <= c[d.removes[i].key]
    BY DEF DatabaseOK, LogOK
  <2>3. /\ c[d.removes[i].key] < d.next
        /\ c[d.removes[i].key] <= cc[d.removes[i].key]
        /\ c[d.removes[i].key] \in Nat /\ cc[d.removes[i].key] \in Nat
    BY <1>5, <1>6, <2>1
  <2> QED  BY <1>4, <2>1, <2>2, <2>3
<1>8. /\ Logged(d, k).key = k /\ Logged(d, k).version = d.vv[k].version
      /\ Logged(d, k).remove_version = d.next
      /\ d.vv[k].version = c[k] /\ 0 < c[k]
  BY <1>4, <1>6 DEF Logged, DatabaseOK, LiveOK, Exists, NonexistentVersion
<1>9. ChangedOK(dd, cc)
  BY <1>2, <1>4, <1>5, <1>6 DEF ChangedOK
<1>10. LiveOK(dd, cc)
  BY <1>2, <1>5 DEF DatabaseOK, LiveOK, Exists, NonexistentVV, NonexistentVersion
<1>11. LogOK(dd, cc)
  <2> SUFFICES ASSUME NEW i \in Positions(dd)
               PROVE  /\ 0 < dd.removes[i].version
                      /\ dd.removes[i].version < dd.removes[i].remove_version
                      /\ dd.removes[i].remove_version <= cc[dd.removes[i].key]
    BY DEF LogOK
  <2>1. CASE i = 1
    <3>1. dd.removes[i] = Logged(d, k)
      BY <1>3, <2>1
    <3> QED  BY <1>4, <1>5, <1>6, <1>8, <3>1
  <2>2. CASE i # 1
    BY <1>3, <1>7, <2>2
  <2> QED  BY <2>1, <2>2
<1>12. NewestFirst(dd)
  <2> SUFFICES ASSUME NEW i \in Positions(dd), NEW j \in Positions(dd), i < j
               PROVE  dd.removes[i].remove_version > dd.removes[j].remove_version
    BY DEF NewestFirst
  <2>1. j # 1 /\ j - 1 \in Positions(d) /\ dd.removes[j] = d.removes[j - 1]
    BY <1>3 DEF Positions
  <2>2. CASE i = 1
    <3>1. dd.removes[i].remove_version = d.next
      BY <1>3, <1>8, <2>2
    <3> QED  BY <1>4, <1>7, <2>1, <3>1
  <2>3. CASE i # 1
    <3>1. i - 1 \in Positions(d) /\ dd.removes[i] = d.removes[i - 1]
      BY <1>3, <2>3
    <3>2. i - 1 < j - 1
      BY DEF Positions
    <3> QED  BY <2>1, <3>1, <3>2 DEF DatabaseOK, NewestFirst
  <2> QED  BY <2>2, <2>3
<1>13. GoneOK(dd, cc)
  <2> SUFFICES ASSUME NEW j \in Key, ~ Exists(dd, j), cc[j] # 0
               PROVE  \/ \E i \in Positions(dd) :
                            /\ dd.removes[i].key = j
                            /\ dd.removes[i].remove_version = cc[j]
                      \/ Evicted(dd, cc[j])
    BY DEF GoneOK
  <2>1. \A i \in Positions(dd) : i # 1 => dd.removes[i] = d.removes[i - 1]
    BY <1>3
  \* The key just removed heads the log, if the log holds anything at all.
  <2>2. CASE j = k
    <3>1. CASE Len(dd.removes) = 0
      <4>1. Positions(dd) = {}
        BY <3>1 DEF Positions
      <4>2. MaxRecentRemoves = 0
        <5>1. Len(d.removes) <= MaxRecentRemoves
          BY DEF DatabaseOK
        <5>2. /\ Len(d.removes) + 1 <= MaxRecentRemoves =>
                    Len(dd.removes) = Len(d.removes) + 1
              /\ Len(d.removes) = MaxRecentRemoves =>
                    Len(dd.removes) = MaxRecentRemoves
          BY <1>1, ErasedLog
        <5> QED  BY <1>4, <3>1, <5>1, <5>2, PancyAssumption
      <4> QED  BY <3>1, <4>1, <4>2 DEF Evicted
    <3>2. CASE Len(dd.removes) # 0
      <4>1. 1 \in Positions(dd)
        BY <1>2, <3>2 DEF Positions
      <4>2. dd.removes[1] = Logged(d, k)
        BY <1>3, <4>1
      <4> QED  BY <1>5, <1>8, <2>2, <4>1, <4>2
    <3> QED  BY <3>1, <3>2
  \* An earlier removal moves back one place, or falls off the end.
  <2>3. CASE j # k
    <3>1. ~ Exists(d, j) /\ cc[j] = c[j] /\ c[j] # 0
      BY <1>2, <1>5, <2>3 DEF Exists
    <3>2. \/ \E i \in Positions(d) : /\ d.removes[i].key = j
                                     /\ d.removes[i].remove_version = c[j]
          \/ Evicted(d, c[j])
      BY <3>1 DEF DatabaseOK, GoneOK
    <3>3. c[j] < d.next /\ c[j] \in Nat
      BY <1>6
    <3>4. CASE Evicted(d, c[j])
      <4>1. Len(dd.removes) = MaxRecentRemoves
        BY <1>1, <3>4, ErasedLog DEF Evicted
      <4>2. \A i \in Positions(dd) : dd.removes[i].remove_version > c[j]
        <5> SUFFICES ASSUME NEW i \in Positions(dd)
                     PROVE  dd.removes[i].remove_version > c[j]
          OBVIOUS
        <5>1. CASE i = 1
          BY <1>3, <1>4, <1>8, <3>3, <5>1
        <5>2. CASE i # 1
          BY <1>3, <3>4, <5>2 DEF Evicted
        <5> QED  BY <5>1, <5>2
      <4> QED  BY <3>1, <4>1, <4>2 DEF Evicted
    <3>5. ASSUME NEW n \in Positions(d), d.removes[n].key = j,
                 d.removes[n].remove_version = c[j]
          PROVE  \/ \E i \in Positions(dd) :
                       /\ dd.removes[i].key = j
                       /\ dd.removes[i].remove_version = cc[j]
                 \/ Evicted(dd, cc[j])
      <4>1. n \in Nat /\ 1 <= n /\ n <= Len(d.removes) /\ n + 1 # 1
        BY <1>4 DEF Positions
      <4>2. CASE n + 1 \in Positions(dd)
        <5>1. dd.removes[n + 1] = d.removes[n + 1 - 1] /\ n + 1 - 1 = n
          BY <1>3, <4>1, <4>2
        <5> QED  BY <3>1, <3>5, <4>2, <5>1
      <4>3. CASE n + 1 \notin Positions(dd)
        <5>1. Len(dd.removes) < n + 1
          BY <1>2, <4>1, <4>3 DEF Positions
        <5>2. /\ Len(d.removes) <= MaxRecentRemoves
              /\ Len(d.removes) + 1 <= MaxRecentRemoves =>
                    Len(dd.removes) = Len(d.removes) + 1
              /\ Len(d.removes) = MaxRecentRemoves =>
                    Len(dd.removes) = MaxRecentRemoves
          BY <1>1, ErasedLog DEF DatabaseOK
        <5>3. Len(dd.removes) = MaxRecentRemoves /\ n = Len(dd.removes)
          BY <1>2, <1>4, <4>1, <5>1, <5>2, PancyAssumption
        <5>4. \A i \in Positions(dd) : dd.removes[i].remove_version > c[j]
          <6> SUFFICES ASSUME NEW i \in Positions(dd)
                       PROVE  dd.removes[i].remove_version > c[j]
            OBVIOUS
          <6>1. CASE i = 1
            BY <1>3, <1>4, <1>8, <3>3, <6>1
          <6>2. CASE i # 1
            <7>1. i - 1 \in Positions(d) /\ dd.removes[i] = d.removes[i - 1]
              BY <1>3, <6>2
            <7>2. i - 1 < n
              BY <1>2, <4>1, <5>3 DEF Positions
            <7>3. d.removes[i - 1].remove_version > d.removes[n].remove_version
              BY <7>1, <7>2 DEF DatabaseOK, NewestFirst
            <7> QED  BY <3>5, <7>1, <7>3
          <6> QED  BY <6>1, <6>2
        <5> QED  BY <3>1, <5>3, <5>4 DEF Evicted
      <4> QED  BY <4>2, <4>3
    <3> QED  BY <3>2, <3>4, <3>5
  <2> QED  BY <2>2, <2>3
<1> QED  BY <1>2, <1>9, <1>10, <1>11, <1>12, <1>13 DEF DatabaseOK

-----------------------------------------------------------------------------
(* A modification of the one leaves the other an earlier state of it.      *)

LEMMA SelfEarlier ==
    ASSUME NEW a, NEW ca, DatabaseOK(a, ca)
    PROVE  EarlierState(a, ca, a)
<1>1. a \in DBSet(Key, AnyValue) /\ a.next \in Nat
  BY DatabaseTypes DEF DatabaseOK
<1>2. \A i \in Positions(a) : ~ (a.removes[i].remove_version >= a.next)
  <2> SUFFICES ASSUME NEW i \in Positions(a)
               PROVE  a.removes[i].remove_version < a.next
    BY <1>1, DatabaseTypes
  <2>1. a.removes[i].key \in Key /\ a.removes[i].remove_version \in Nat
    BY <1>1, DatabaseTypes
  <2>2. a.removes[i].remove_version <= ca[a.removes[i].key]
    BY DEF DatabaseOK, LogOK
  <2>3. ca[a.removes[i].key] < a.next /\ ca[a.removes[i].key] \in Nat
    BY <2>1 DEF DatabaseOK, ChangedOK
  <2> QED  BY <1>1, <2>1, <2>2, <2>3
<1>3. SameSince(a, ca, a)
  BY DEF SameSince
<1>4. LoggedSince(a, a)
  BY <1>2 DEF LoggedSince
<1> QED  BY <1>1, <1>3, <1>4 DEF EarlierState

LEMMA StoreEarlier ==
    ASSUME NEW a, NEW ca, NEW b, DatabaseOK(a, ca), b \in DBSet(Key, AnyValue),
           EarlierState(a, ca, b), NEW k \in Key, NEW v \in AnyValue,
           NEW aa, aa = Store(a, k, v), NEW cc, cc = [ca EXCEPT ![k] = a.next]
    PROVE  EarlierState(aa, cc, b)
<1>1. a \in DBSet(Key, AnyValue) /\ ca \in [Key -> Nat]
  BY DEF DatabaseOK, ChangedOK
<1>2. /\ aa.removes = a.removes /\ aa.next = a.next + 1
      /\ \A j \in Key \ {k} : aa.vv[j] = a.vv[j]
  BY <1>1 DEF Store, DBSet
<1>3. a.next \in Nat /\ b.next \in Nat /\ b.next <= a.next
  BY <1>1, DatabaseTypes DEF EarlierState
<1>4. \A j \in Key : cc[j] = IF j = k THEN a.next ELSE ca[j]
  BY <1>1
<1>5. SameSince(aa, cc, b)
  BY <1>2, <1>3, <1>4 DEF EarlierState, SameSince
<1>6. LoggedSince(aa, b)
  BY <1>2 DEF EarlierState, LoggedSince, Positions
<1> QED  BY <1>2, <1>3, <1>5, <1>6 DEF EarlierState

\* What the removal logs is b's entry still, if it is as old as b.
LEMMA EraseEarlier ==
    ASSUME NEW a, NEW ca, NEW b, DatabaseOK(a, ca), b \in DBSet(Key, AnyValue),
           EarlierState(a, ca, b), NEW k \in Key, Exists(a, k),
           NEW aa, aa = Erase(a, k), NEW cc, cc = [ca EXCEPT ![k] = a.next]
    PROVE  EarlierState(aa, cc, b)
<1>1. a \in DBSet(Key, AnyValue) /\ ca \in [Key -> Nat]
  BY DEF DatabaseOK, ChangedOK
<1>2. /\ aa.next = a.next + 1
      /\ \A j \in Key \ {k} : aa.vv[j] = a.vv[j]
  BY <1>1 DEF Erase, DBSet
<1>3. a.next \in Nat /\ b.next \in Nat /\ b.next <= a.next
  BY <1>1, DatabaseTypes DEF EarlierState
<1>4. \A j \in Key : cc[j] = IF j = k THEN a.next ELSE ca[j]
  BY <1>1
<1>5. SameSince(aa, cc, b)
  BY <1>2, <1>3, <1>4 DEF EarlierState, SameSince
<1>6. LoggedSince(aa, b)
  <2> SUFFICES ASSUME NEW i \in Positions(aa),
                      aa.removes[i].remove_version >= b.next,
                      aa.removes[i].version < b.next
               PROVE  b.vv[aa.removes[i].key] =
                         [value |-> aa.removes[i].value, version |-> aa.removes[i].version]
    BY DEF LoggedSince
  <2>1. \/ i = 1 /\ aa.removes[i] = Logged(a, k)
        \/ i # 1 /\ i - 1 \in Positions(a) /\ aa.removes[i] = a.removes[i - 1]
    BY <1>1, ErasedLog
  <2>2. CASE aa.removes[i] = Logged(a, k)
    <3>1. /\ aa.removes[i].key = k /\ aa.removes[i].value = a.vv[k].value
          /\ aa.removes[i].version = a.vv[k].version
      BY <2>2 DEF Logged
    <3>2. a.vv[k].version = ca[k]
      BY DEF DatabaseOK, LiveOK
    <3>3. a.vv[k] = b.vv[k]
      BY <3>1, <3>2 DEF EarlierState, SameSince
    <3>4. b.vv[k] \in [value : AnyValue, version : Nat]
      BY DatabaseTypes
    <3> QED  BY <3>1, <3>3, <3>4
  <2>3. CASE i - 1 \in Positions(a) /\ aa.removes[i] = a.removes[i - 1]
    BY <2>3 DEF EarlierState, LoggedSince
  <2> QED  BY <2>1, <2>2, <2>3
<1> QED  BY <1>2, <1>3, <1>5, <1>6 DEF EarlierState

-----------------------------------------------------------------------------
(* The invariant is inductive.                                             *)

LEMMA InitDInv == Init => DInv
<1> SUFFICES ASSUME Init PROVE DInv
  OBVIOUS
<1> DEFINE c == [k \in Key |-> 0]
<1>1. /\ this = EmptyDB(Key) /\ other = EmptyDB(Key)
      /\ changed = [this |-> c, other |-> c]
      /\ changed.this = c /\ changed.other = c
  BY DEF Init
<1>2. DatabaseOK(EmptyDB(Key), c)
  BY EmptyOK
<1>3. c \in [Key -> Nat]
  OBVIOUS
<1> HIDE DEF c
<1>4. EarlierState(EmptyDB(Key), c, EmptyDB(Key))
  <2> DEFINE e == EmptyDB(Key)
  <2>1. DatabaseOK(e, c)
    BY <1>2
  <2> HIDE DEF e
  <2>2. EarlierState(e, c, e)
    BY <2>1, SelfEarlier
  <2> QED  BY <2>2 DEF e
<1> QED  BY <1>1, <1>2, <1>3, <1>4 DEF DInv

LEMMA ModifyThisDInv ==
    ASSUME DInv, NEW k \in Key, ModifyThis(k)
    PROVE  DInv'
<1>1. /\ DatabaseOK(this, changed.this) /\ DatabaseOK(other, changed.other)
      /\ changed.this \in [Key -> Nat] /\ changed.other \in [Key -> Nat]
      /\ changed \in [this : [Key -> Nat], other : [Key -> Nat]]
  BY DEF DInv
<1>2. this.next \in Nat /\ other \in DBSet(Key, AnyValue)
  BY <1>1, DatabaseTypes DEF DatabaseOK
<1>3. /\ changed' \in [this : [Key -> Nat], other : [Key -> Nat]]
      /\ changed'.this = [changed.this EXCEPT ![k] = this.next]
      /\ changed'.other = changed.other
  BY <1>1, <1>2 DEF ModifyThis
<1>4. other' = other /\ behind' = behind
  BY DEF ModifyThis
<1> DEFINE cc == changed'.this
<1>5. \/ \E v \in AnyValue : this' = Store(this, k, v)
      \/ Exists(this, k) /\ this' = Erase(this, k)
  BY DEF ModifyThis, Modified
<1>6. /\ DatabaseOK(this', cc)
      /\ EarlierState(this, changed.this, other) => EarlierState(this', cc, other)
  <2>1. CASE \E v \in AnyValue : this' = Store(this, k, v)
    BY <1>1, <1>2, <1>3, <2>1, StoreOK, StoreEarlier
  <2>2. CASE Exists(this, k) /\ this' = Erase(this, k)
    BY <1>1, <1>2, <1>3, <2>2, EraseOK, EraseEarlier
  <2> QED  BY <1>5, <2>1, <2>2
<1> QED  BY <1>1, <1>3, <1>4, <1>6 DEF DInv

LEMMA ModifyOtherDInv ==
    ASSUME DInv, NEW k \in Key, ModifyOther(k)
    PROVE  DInv'
<1>1. /\ DatabaseOK(this, changed.this) /\ DatabaseOK(other, changed.other)
      /\ changed.this \in [Key -> Nat] /\ changed.other \in [Key -> Nat]
      /\ changed \in [this : [Key -> Nat], other : [Key -> Nat]]
  BY DEF DInv
<1>2. other.next \in Nat
  BY <1>1, DatabaseTypes DEF DatabaseOK
<1>3. /\ changed' \in [this : [Key -> Nat], other : [Key -> Nat]]
      /\ changed'.other = [changed.other EXCEPT ![k] = other.next]
      /\ changed'.this = changed.this
  BY <1>1, <1>2 DEF ModifyOther
<1>4. this' = this /\ ~ behind'
  BY DEF ModifyOther
<1> DEFINE cc == changed'.other
<1>5. \/ \E v \in AnyValue : other' = Store(other, k, v)
      \/ Exists(other, k) /\ other' = Erase(other, k)
  BY DEF ModifyOther, Modified
<1>6. DatabaseOK(other', cc)
  <2>1. CASE \E v \in AnyValue : other' = Store(other, k, v)
    BY <1>1, <1>3, <2>1, StoreOK
  <2>2. CASE Exists(other, k) /\ other' = Erase(other, k)
    BY <1>1, <1>3, <2>2, EraseOK
  <2> QED  BY <1>5, <2>1, <2>2
<1> QED  BY <1>1, <1>3, <1>4, <1>6 DEF DInv

LEMMA SnapshotDInv ==
    ASSUME DInv, Snapshot
    PROVE  DInv'
<1>1. /\ this' = this /\ other' = this
      /\ changed' \in [this : [Key -> Nat], other : [Key -> Nat]]
      /\ changed'.this = changed.this /\ changed'.other = changed.this
  BY DEF Snapshot, DInv
<1>2. DatabaseOK(this, changed.this)
  BY DEF DInv
<1>3. EarlierState(this, changed.this, this)
  BY <1>2, SelfEarlier
<1> QED  BY <1>1, <1>2, <1>3 DEF DInv

LEMMA NextDInv == DInv /\ [Next]_vars => DInv'
<1> SUFFICES ASSUME DInv, [Next]_vars PROVE DInv'
  OBVIOUS
<1>1. CASE UNCHANGED vars
  BY <1>1 DEF vars, DInv
<1>2. ASSUME NEW k \in Key, ModifyThis(k) PROVE DInv'
  BY <1>2, ModifyThisDInv
<1>3. ASSUME NEW k \in Key, ModifyOther(k) PROVE DInv'
  BY <1>3, ModifyOtherDInv
<1>4. CASE Snapshot
  BY <1>4, SnapshotDInv
<1> QED  BY <1>1, <1>2, <1>3, <1>4 DEF Next

\* What diff relies on holds in every pair of databases, whatever was done
\* to either of them (the private state of pancydb.hh:58-66, and what
\* replicas that execute the same requests have in common).
THEOREM DInvHolds == Spec => []DInv
BY InitDInv, NextDInv, PTL DEF Spec

-----------------------------------------------------------------------------
(* What diff says of one key.                                              *)

LEMMA SameNotReported ==
    ASSUME NEW a \in DBSet(Key, AnyValue), NEW b \in DBSet(Key, AnyValue),
           NEW k \in Key, NEW min \in Int, a.vv[k] = b.vv[k]
    PROVE  ~ DiffersAt(a, b, k, min)
<1>1. a.vv[k].version \in Nat
  BY DatabaseTypes
<1>2. Exists(a, k) <=> Exists(b, k)
  BY DEF Exists
<1>3. CASE ~ Exists(a, k)
  BY <1>2, <1>3 DEF DiffersAt
<1>4. CASE Exists(a, k)
  <2>1. Remembered(a, k, min) = a.vv[k] /\ Remembered(b, k, min) = a.vv[k]
    BY <1>2, <1>4 DEF Remembered
  <2>2. ~ IsNull(a.vv[k])
    BY <1>4 DEF IsNull, Exists
  <2>3. ~ Mismatch(a.vv[k], a.vv[k], min)
    BY <1>1 DEF Mismatch
  <2> QED  BY <2>1, <2>2, <2>3 DEF DiffersAt
<1> QED  BY <1>3, <1>4

\* The log has nothing of a key that was last changed before the window.
LEMMA OldRemembered ==
    ASSUME NEW d, NEW c, DatabaseOK(d, c), NEW k \in Key, NEW min \in Int,
           c[k] < min
    PROVE  /\ Remembered(d, k, min) = d.vv[k]
           /\ d.vv[k].version < min \/ ~ Exists(d, k)
           /\ IsNull(d.vv[k]) <=> ~ Exists(d, k)
<1>1. d \in DBSet(Key, AnyValue) /\ c[k] \in Nat
  BY DEF DatabaseOK, ChangedOK
<1>2. \A i \in Positions(d) : d.removes[i].key = k => d.removes[i].remove_version < min
  <2> SUFFICES ASSUME NEW i \in Positions(d), d.removes[i].key = k
               PROVE  d.removes[i].remove_version < min
    OBVIOUS
  <2>1. d.removes[i].remove_version <= c[k]
    BY DEF DatabaseOK, LogOK
  <2>2. d.removes[i].remove_version \in Nat
    BY <1>1, DatabaseTypes
  <2> QED  BY <1>1, <2>1, <2>2
<1>3. FindRecentRemove(d, k, min) = NonexistentVV
  BY <1>1, <1>2, NothingFound
<1>4. \/ Exists(d, k) /\ d.vv[k].version = c[k]
      \/ ~ Exists(d, k) /\ d.vv[k] = NonexistentVV
  BY DEF DatabaseOK, LiveOK
<1>5. Remembered(d, k, min) = d.vv[k]
  BY <1>3, <1>4 DEF Remembered
<1> QED  BY <1>4, <1>5 DEF IsNull, Exists

LEMMA OldReported ==
    ASSUME NEW a, NEW ca, NEW b, NEW cb, DatabaseOK(a, ca), DatabaseOK(b, cb),
           NEW k \in Key, NEW min \in Int, ca[k] < min, cb[k] < min,
           RemovesComplete(a, min), a.vv[k] # b.vv[k]
    PROVE  DiffersAt(a, b, k, min)
<1>1. /\ a.vv[k] \in [value : AnyValue, version : Nat]
      /\ b.vv[k] \in [value : AnyValue, version : Nat]
  BY DatabaseTypes DEF DatabaseOK
<1>2. /\ Remembered(a, k, min) = a.vv[k]
      /\ a.vv[k].version < min \/ ~ Exists(a, k)
      /\ IsNull(a.vv[k]) <=> ~ Exists(a, k)
  BY OldRemembered
<1>3. /\ Remembered(b, k, min) = b.vv[k]
      /\ b.vv[k].version < min \/ ~ Exists(b, k)
      /\ IsNull(b.vv[k]) <=> ~ Exists(b, k)
  BY OldRemembered
<1>4. Exists(a, k) \/ Exists(b, k)
  BY DEF DatabaseOK, LiveOK
<1>5. ~ (~ IsNull(a.vv[k]) /\ IsNull(b.vv[k]) /\ a.vv[k].version >= min)
  BY <1>1, <1>2
<1>6. IsNull(a.vv[k]) \/ IsNull(b.vv[k]) \/ Mismatch(a.vv[k], b.vv[k], min)
  BY <1>1, <1>2, <1>3 DEF Mismatch
<1> QED  BY <1>2, <1>3, <1>4, <1>5, <1>6 DEF DiffersAt

\* With no skew the window is empty and the log cannot be missing any of it.
LEMMA NoWindow ==
    ASSUME MaxRecentRemoves > 0, NEW a, NEW ca, DatabaseOK(a, ca)
    PROVE  RemovesComplete(a, a.next)
<1>1. a \in DBSet(Key, AnyValue) /\ a.next \in Nat /\ Len(a.removes) \in Nat
  BY DatabaseTypes DEF DatabaseOK
<1>2. CASE Len(a.removes) < MaxRecentRemoves
  BY <1>2 DEF RemovesComplete
<1>3. CASE ~ (Len(a.removes) < MaxRecentRemoves)
  <2> DEFINE n == Len(a.removes)
             e == a.removes[n]
  <2>1. n \in Positions(a)
    BY <1>1, <1>3, PancyAssumption DEF Positions
  <2>2. e.key \in Key /\ e.remove_version \in Nat
    BY <1>1, <2>1, DatabaseTypes
  <2>3. e.remove_version <= ca[e.key]
    BY <2>1 DEF DatabaseOK, LogOK
  <2>4. ca[e.key] < a.next /\ ca[e.key] \in Nat
    BY <2>2 DEF DatabaseOK, ChangedOK
  <2>5. e.remove_version <= a.next
    BY <1>1, <2>2, <2>3, <2>4
  <2> QED  BY <2>5 DEF RemovesComplete
<1> QED  BY <1>2, <1>3

LEMMA NewerWithoutSkew ==
    ASSUME MaxRecentRemoves > 0, NEW a, NEW ca, NEW b, NEW cb,
           DatabaseOK(a, ca), DatabaseOK(b, cb), b.next <= a.next
    PROVE  DiffNewer(a, b, 0) = {k \in Key : a.vv[k] # b.vv[k]}
<1>1. /\ a \in DBSet(Key, AnyValue) /\ b \in DBSet(Key, AnyValue)
      /\ a.next \in Nat /\ b.next \in Nat /\ a.next - 0 = a.next
  BY DatabaseTypes DEF DatabaseOK
<1>2. RemovesComplete(a, a.next)
  BY NoWindow
<1>3. ASSUME NEW k \in Key
      PROVE  DiffersAt(a, b, k, a.next) <=> a.vv[k] # b.vv[k]
  <2>1. ca[k] < a.next /\ cb[k] < a.next
    <3>1. /\ ca[k] < a.next /\ cb[k] < b.next
          /\ ca[k] \in Nat /\ cb[k] \in Nat
      BY DEF DatabaseOK, ChangedOK
    <3> QED  BY <1>1, <3>1
  <2>2. CASE a.vv[k] = b.vv[k]
    BY <1>1, <2>2, SameNotReported
  <2>3. CASE a.vv[k] # b.vv[k]
    BY <1>1, <1>2, <2>1, <2>3, OldReported
  <2> QED  BY <2>2, <2>3
<1> QED  BY <1>1, <1>3 DEF DiffNewer

-----------------------------------------------------------------------------
(* A database that lags is not reported.                                   *)

\* Whatever diff finds in the older database is older than its next version.
LEMMA RememberedIsPast ==
    ASSUME NEW d, NEW c, DatabaseOK(d, c), NEW k \in Key, NEW min \in Int,
           ~ IsNull(Remembered(d, k, min))
    PROVE  /\ Remembered(d, k, min).version \in Nat
           /\ Remembered(d, k, min).version < d.next
<1>1. d \in DBSet(Key, AnyValue) /\ d.next \in Nat
  BY DatabaseTypes DEF DatabaseOK
<1>2. CASE Exists(d, k)
  <2>1. d.vv[k].version = c[k] /\ c[k] < d.next /\ c[k] \in Nat
    BY <1>2 DEF DatabaseOK, LiveOK, ChangedOK
  <2> QED  BY <1>2, <2>1 DEF Remembered
<1>3. CASE ~ Exists(d, k)
  <2>1. Remembered(d, k, min) = FindRecentRemove(d, k, min)
    BY <1>3 DEF Remembered
  <2>2. FindRecentRemove(d, k, min) # NonexistentVV
    BY <2>1 DEF IsNull, NonexistentVV
  <2>3. PICK i \in Positions(d) :
               d.removes[i].key = k /\ ~ (d.removes[i].remove_version < min)
    BY <1>1, <2>2, NothingFound
  <2>4. \A n \in Positions(d) : d.removes[n].key \in Key /\ d.removes[n].remove_version \in Nat
                                /\ d.removes[n].version \in Nat
    BY <1>1, DatabaseTypes
  <2>5. d.removes[i].remove_version >= min
    BY <2>3, <2>4
  <2>6. PICK j \in Positions(d) :
               /\ d.removes[j].key = k
               /\ FindRecentRemove(d, k, min) =
                    [value |-> d.removes[j].value, version |-> d.removes[j].version]
    BY <1>1, <2>3, <2>5, NewestFound
  <2>7. /\ d.removes[j].version < d.removes[j].remove_version
        /\ d.removes[j].remove_version <= c[k]
    BY <2>6 DEF DatabaseOK, LogOK
  <2>8. c[k] < d.next /\ c[k] \in Nat
    BY DEF DatabaseOK, ChangedOK
  <2>9. Remembered(d, k, min).version = d.removes[j].version
    BY <2>1, <2>6
  <2> QED  BY <1>1, <2>4, <2>7, <2>8, <2>9
<1> QED  BY <1>2, <1>3

\* A key that is gone from the newer database since b: its log names what b
\* has, or something that came later, or nothing because it is full.
LEMMA GoneNotReported ==
    ASSUME MaxRecentRemoves > 0,
           NEW a, NEW ca, NEW b, NEW cb, DatabaseOK(a, ca), DatabaseOK(b, cb),
           EarlierState(a, ca, b), NEW k \in Key, NEW min \in Int,
           min <= b.next, b.next <= ca[k], ~ Exists(a, k)
    PROVE  ~ DiffersAt(a, b, k, min)
<1>1. /\ a \in DBSet(Key, AnyValue) /\ b \in DBSet(Key, AnyValue)
      /\ a.next \in Nat /\ b.next \in Nat /\ Len(a.removes) \in Nat
      /\ b.vv[k] \in [value : AnyValue, version : Nat]
      /\ ca[k] \in Nat
      /\ \A i \in Positions(a) : /\ a.removes[i].remove_version \in Nat
                                 /\ a.removes[i].version \in Nat
  BY DatabaseTypes DEF DatabaseOK, ChangedOK
<1> SUFFICES ASSUME Exists(b, k)
             PROVE  ~ DiffersAt(a, b, k, min)
  BY DEF DiffersAt
<1> DEFINE avv == Remembered(a, k, min)
<1>2. /\ Remembered(b, k, min) = b.vv[k] /\ ~ IsNull(b.vv[k])
      /\ b.vv[k].version = cb[k] /\ cb[k] < b.next /\ cb[k] \in Nat
  BY DEF Remembered, IsNull, Exists, DatabaseOK, LiveOK, ChangedOK
<1>3. 0 < ca[k]
  BY <1>1, <1>2
<1>4. \/ \E i \in Positions(a) : /\ a.removes[i].key = k
                                 /\ a.removes[i].remove_version = ca[k]
      \/ Evicted(a, ca[k])
  BY <1>3 DEF DatabaseOK, GoneOK
<1>5. avv = FindRecentRemove(a, k, min)
  BY DEF Remembered
<1>6. CASE Evicted(a, ca[k])
  <2>1. \A i \in Positions(a) : a.removes[i].key # k
    <3> SUFFICES ASSUME NEW i \in Positions(a), a.removes[i].key = k
                 PROVE  FALSE
      OBVIOUS
    <3>1. a.removes[i].remove_version <= ca[k]
      BY DEF DatabaseOK, LogOK
    <3>2. a.removes[i].remove_version > ca[k]
      BY <1>6 DEF Evicted
    <3> QED  BY <1>1, <3>1, <3>2
  <2>2. IsNull(avv)
    BY <1>1, <1>5, <2>1, NothingFound DEF IsNull, NonexistentVV
  <2>3. ~ RemovesComplete(a, min)
    <3>1. Len(a.removes) = MaxRecentRemoves /\ Len(a.removes) \in Positions(a)
      BY <1>1, <1>6, PancyAssumption DEF Evicted, Positions
    <3>2. /\ a.removes[Len(a.removes)].remove_version > ca[k]
          /\ a.removes[Len(a.removes)].remove_version \in Nat
      BY <1>1, <1>6, <3>1 DEF Evicted
    <3>3. ~ (a.removes[Len(a.removes)].remove_version <= min)
      BY <1>1, <3>2
    <3> QED  BY <3>1, <3>3, PancyAssumption DEF RemovesComplete
  <2> QED  BY <2>2, <2>3 DEF DiffersAt
<1>7. ASSUME NEW n \in Positions(a), a.removes[n].key = k,
             a.removes[n].remove_version = ca[k]
      PROVE  ~ DiffersAt(a, b, k, min)
  <2>1. a.removes[n].remove_version >= min
    BY <1>1, <1>7
  <2>2. PICK j \in Positions(a) :
               /\ j <= n /\ a.removes[j].key = k
               /\ FindRecentRemove(a, k, min) =
                    [value |-> a.removes[j].value, version |-> a.removes[j].version]
    BY <1>1, <1>7, <2>1, NewestFound
  <2>3. a.removes[j].remove_version >= b.next
    <3>1. a.removes[j].remove_version >= a.removes[n].remove_version
      <4>1. CASE j = n
        BY <1>1, <4>1
      <4>2. CASE j # n
        <5>1. j < n
          BY <2>2, <4>2 DEF Positions
        <5>2. a.removes[j].remove_version > a.removes[n].remove_version
          BY <5>1 DEF DatabaseOK, NewestFirst
        <5> QED  BY <1>1, <5>2
      <4> QED  BY <4>1, <4>2
    <3> QED  BY <1>1, <1>7, <3>1
  <2>4. /\ avv.version = a.removes[j].version /\ avv.value = a.removes[j].value
        /\ avv.version \in Nat /\ 0 < avv.version
    BY <1>1, <1>5, <2>2 DEF DatabaseOK, LogOK
  <2>5. CASE avv.version < b.next
    <3>1. b.vv[k] = [value |-> a.removes[j].value, version |-> a.removes[j].version]
      BY <2>2, <2>3, <2>4, <2>5 DEF EarlierState, LoggedSince
    <3>2. ~ Mismatch(avv, b.vv[k], min)
      BY <1>1, <2>4, <3>1 DEF Mismatch
    <3> QED  BY <1>2, <2>4, <3>2 DEF DiffersAt, IsNull, NonexistentVersion
  <2>6. CASE ~ (avv.version < b.next)
    <3>1. ~ Mismatch(avv, b.vv[k], min)
      BY <1>1, <1>2, <2>4, <2>6 DEF Mismatch
    <3> QED  BY <1>2, <2>4, <3>1 DEF DiffersAt, IsNull, NonexistentVersion
  <2> QED  BY <2>5, <2>6
<1> QED  BY <1>4, <1>6, <1>7

LEMMA LagNotReported ==
    ASSUME MaxRecentRemoves > 0,
           NEW a, NEW ca, NEW b, NEW cb, DatabaseOK(a, ca), DatabaseOK(b, cb),
           EarlierState(a, ca, b), NEW min \in Int, min <= b.next
    PROVE  DiffNewer(a, b, a.next - min) = {}
<1>1. /\ a \in DBSet(Key, AnyValue) /\ b \in DBSet(Key, AnyValue)
      /\ a.next \in Nat /\ b.next \in Nat
  BY DatabaseTypes DEF DatabaseOK
<1>2. ASSUME NEW k \in Key
      PROVE  ~ DiffersAt(a, b, k, min)
  <2>0. ca[k] \in Nat
    BY DEF DatabaseOK, ChangedOK
  <2>1. CASE ca[k] < b.next
    BY <1>1, <2>1, SameNotReported DEF EarlierState, SameSince
  <2>2. CASE ~ (ca[k] < b.next) /\ ~ Exists(a, k)
    BY <1>1, <2>0, <2>2, GoneNotReported
  <2>3. CASE ~ (ca[k] < b.next) /\ Exists(a, k)
    <3> DEFINE bvv == Remembered(b, k, min)
    <3>1. /\ Remembered(a, k, min) = a.vv[k] /\ ~ IsNull(a.vv[k])
          /\ a.vv[k].version = ca[k] /\ ca[k] >= min /\ ca[k] >= b.next
      BY <1>1, <2>0, <2>3 DEF Remembered, IsNull, Exists, DatabaseOK, LiveOK
    <3>2. CASE IsNull(bvv)
      BY <3>1, <3>2 DEF DiffersAt
    <3>3. CASE ~ IsNull(bvv)
      <4>1. bvv.version \in Nat /\ bvv.version < b.next
        BY <3>3, RememberedIsPast
      <4>2. ~ Mismatch(a.vv[k], bvv, min)
        <5> HIDE DEF bvv
        <5> QED  BY <1>1, <2>0, <3>1, <4>1 DEF Mismatch
      <4> QED  BY <3>1, <3>3, <4>2 DEF DiffersAt
    <3> QED  BY <3>2, <3>3
  <2> QED  BY <2>1, <2>2, <2>3
<1>3. a.next - (a.next - min) = min
  BY <1>1
<1> QED  BY <1>2, <1>3 DEF DiffNewer

-----------------------------------------------------------------------------
(* The promises of diff.                                                   *)

LEMMA LagAccepted ==
    ASSUME MaxVersion \in Nat, MaxRecentRemoves > 0, DInv
    PROVE  NoFalseAlarm
<1> SUFFICES ASSUME behind, NEW skew \in Skews, skew >= this.next - other.next
             PROVE  Diff(this, other, skew) = {} /\ Diff(other, this, skew) = {}
  BY DEF NoFalseAlarm
<1>1. /\ DatabaseOK(this, changed.this) /\ DatabaseOK(other, changed.other)
      /\ EarlierState(this, changed.this, other)
  BY DEF DInv
<1>2. /\ this.next \in Nat /\ other.next \in Nat /\ skew \in Nat
      /\ this \in DBSet(Key, AnyValue) /\ other \in DBSet(Key, AnyValue)
      /\ other.next <= this.next
  BY <1>1, DatabaseTypes DEF DatabaseOK, Skews, EarlierState
<1> DEFINE min == this.next - skew
<1>3. min \in Int /\ min <= other.next /\ this.next - min = skew
  BY <1>2
<1>4. DiffNewer(this, other, skew) = {}
  <2>1. DiffNewer(this, other, this.next - min) = {}
    <3> HIDE DEF min
    <3> QED  BY <1>1, <1>3, LagNotReported
  <2> QED  BY <1>3, <2>1
<1>5. Diff(this, other, skew) = DiffNewer(this, other, skew)
  BY <1>2 DEF Diff
<1>6. CASE other.next < this.next
  <2>1. Diff(other, this, skew) = DiffNewer(this, other, skew)
    BY <1>6 DEF Diff
  <2> QED  BY <1>4, <1>5, <2>1
\* As new as each other, they are the same.
<1>7. CASE other.next = this.next
  <2>1. \A k \in Key : this.vv[k] = other.vv[k]
    BY <1>1, <1>7 DEF EarlierState, SameSince, DatabaseOK, ChangedOK
  <2>2. \A k \in Key : ~ DiffersAt(other, this, k, min)
    <3> HIDE DEF min
    <3> QED  BY <1>2, <1>3, <2>1, SameNotReported
  <2>3. DiffNewer(other, this, skew) = {}
    BY <1>7, <2>2 DEF DiffNewer
  <2>4. Diff(other, this, skew) = DiffNewer(other, this, skew)
    BY <1>2, <1>7 DEF Diff
  <2> QED  BY <1>4, <1>5, <2>3, <2>4
<1> QED  BY <1>2, <1>6, <1>7

\* No false alarm (pancydb.cc:83-89): a database that lags by no more than
\* version_skew modifications is not reported, in either order of the two,
\* however many keys, values and modifications there are and whatever the
\* log has evicted.
THEOREM LaggardsAreNotReported ==
    ASSUME MaxVersion \in Nat, MaxRecentRemoves > 0
    PROVE  Spec => []NoFalseAlarm
BY DInvHolds, LagAccepted, PTL

LEMMA ContentsCompared ==
    ASSUME MaxVersion \in Nat, MaxRecentRemoves > 0, DInv
    PROVE  ZeroSkewIsEquality
<1>1. /\ DatabaseOK(this, changed.this) /\ DatabaseOK(other, changed.other)
  BY DEF DInv
<1>2. /\ this.next \in Nat /\ other.next \in Nat
      /\ this.vv \in [Key -> [value : AnyValue, version : Nat]]
      /\ other.vv \in [Key -> [value : AnyValue, version : Nat]]
  BY <1>1, DatabaseTypes DEF DatabaseOK
<1> DEFINE differing == {k \in Key : this.vv[k] # other.vv[k]}
<1>3. other.next <= this.next => DiffNewer(this, other, 0) = differing
  BY <1>1, NewerWithoutSkew
<1>4. this.next <= other.next => DiffNewer(other, this, 0) = differing
  <2>1. this.next <= other.next =>
           DiffNewer(other, this, 0) = {k \in Key : other.vv[k] # this.vv[k]}
    BY <1>1, NewerWithoutSkew
  <2>2. {k \in Key : other.vv[k] # this.vv[k]} = differing
    OBVIOUS
  <2> QED  BY <2>1, <2>2
<1>5. Diff(this, other, 0) = differing /\ Diff(other, this, 0) = differing
  <2> HIDE DEF differing
  <2> QED  BY <1>2, <1>3, <1>4 DEF Diff
<1>6. differing = {} <=> this.vv = other.vv
  BY <1>2
<1> QED  BY <1>5, <1>6 DEF ZeroSkewIsEquality

\* With version_skew 0 diff is equality of contents (pancydb.cc:86), also of
\* databases whose histories have nothing in common.
THEOREM NoSkewComparesContents ==
    ASSUME MaxVersion \in Nat, MaxRecentRemoves > 0
    PROVE  Spec => []ZeroSkewIsEquality
BY DInvHolds, ContentsCompared, PTL

LEMMA ReportsDiffer ==
    ASSUME MaxVersion \in Nat, DInv
    PROVE  ReportedKeysDiffer
<1> SUFFICES ASSUME NEW skew \in Skews, NEW k \in Key,
                    k \in Diff(this, other, skew), this.vv[k] = other.vv[k]
             PROVE  FALSE
  BY DEF ReportedKeysDiffer, Diff, DiffNewer
<1>1. /\ this \in DBSet(Key, AnyValue) /\ other \in DBSet(Key, AnyValue)
      /\ this.next \in Nat /\ other.next \in Nat /\ skew \in Nat
  BY DatabaseTypes DEF DInv, DatabaseOK, Skews
<1>2. this.next - skew \in Int /\ other.next - skew \in Int
  BY <1>1
<1>3. ~ DiffersAt(this, other, k, this.next - skew)
  BY <1>1, <1>2, SameNotReported
<1>4. ~ DiffersAt(other, this, k, other.next - skew)
  BY <1>1, <1>2, SameNotReported
<1> QED  BY <1>3, <1>4 DEF Diff, DiffNewer

\* Whatever the skew, a reported key is one at which the databases differ
\* (pancydb.cc:89).
THEOREM ReportsAreDifferences ==
    ASSUME MaxVersion \in Nat
    PROVE  Spec => []ReportedKeysDiffer
BY DInvHolds, ReportsDiffer, PTL

LEMMA OldDiverges ==
    ASSUME MaxVersion \in Nat, DInv
    PROVE  OldDivergenceReported
<1> DEFINE newest == IF this.next < other.next THEN other ELSE this
<1> SUFFICES ASSUME NEW skew \in Skews, NEW k \in Key,
                    RemovesComplete(newest, newest.next - skew),
                    changed.this[k] < newest.next - skew,
                    changed.other[k] < newest.next - skew,
                    this.vv[k] # other.vv[k]
             PROVE  k \in Diff(this, other, skew)
  BY DEF OldDivergenceReported
<1>1. /\ DatabaseOK(this, changed.this) /\ DatabaseOK(other, changed.other)
      /\ this.next \in Nat /\ other.next \in Nat /\ skew \in Nat
  BY DatabaseTypes DEF DInv, DatabaseOK, Skews
<1>2. CASE this.next < other.next
  <2> DEFINE min == other.next - skew
  <2>1. newest = other /\ min \in Int
    BY <1>1, <1>2
  <2>2. /\ RemovesComplete(other, min) /\ changed.this[k] < min
        /\ changed.other[k] < min
    BY <2>1
  <2>3. DiffersAt(other, this, k, min)
    <3> HIDE DEF min
    <3> QED  BY <1>1, <2>1, <2>2, OldReported
  <2> QED  BY <1>2, <2>3 DEF Diff, DiffNewer
<1>3. CASE ~ (this.next < other.next)
  <2> DEFINE min == this.next - skew
  <2>1. newest = this /\ min \in Int
    BY <1>1, <1>3
  <2>2. /\ RemovesComplete(this, min) /\ changed.this[k] < min
        /\ changed.other[k] < min
    BY <2>1
  <2>3. DiffersAt(this, other, k, min)
    <3> HIDE DEF min
    <3> QED  BY <1>1, <2>1, <2>2, OldReported
  <2> QED  BY <1>3, <2>3 DEF Diff, DiffNewer
<1> QED  BY <1>2, <1>3

\* A divergence that both databases have left behind for longer than the
\* window is reported, as long as the newer one's log reaches back over the
\* window (pancydb.cc:109-147).
THEOREM OldDivergenceIsReported ==
    ASSUME MaxVersion \in Nat
    PROVE  Spec => []OldDivergenceReported
BY DInvHolds, OldDiverges, PTL

=============================================================================
