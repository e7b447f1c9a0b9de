-------------------------- MODULE GroupLocksProofs ---------------------------
(***************************************************************************)
(* GroupLocks keeps every row within the grammar of lockseq_model::check,  *)
(* for every set of groups, every set of values and every row length; and  *)
(* check decides that grammar, for every database of finitely many groups. *)
(*                                                                         *)
(* The second is an induction along the keys of a group (AfterKeys) within *)
(* one along the groups (AfterGroups).  What the state of the pass says of *)
(* the keys behind it (Seen) is the grammar of a row that ends there, in   *)
(* the one way to read it that leaves most open: holder's values while     *)
(* they can be that, the last run only after a gap or another value.       *)
(***************************************************************************)
EXTENDS MCLockCheck, FiniteSetTheorems, WellFoundedInduction, TLAPS

IInv == TypeOK /\ WellFormed

LEMMA InitIInv == Init => IInv
<1> SUFFICES ASSUME Init PROVE IInv
  OBVIOUS
<1> USE GroupLocksAssumption
<1>1. TypeOK
  BY DEF Init, TypeOK, AnyValue
<1>2. ASSUME NEW g \in Group
      PROVE  RunFrom(row[g], 0)
  <2>1. Filled(row[g], 0, MaxLen, EmptyValue)
    BY DEF Init, Filled, Index
  <2> QED  BY <2>1 DEF RunFrom
<1>3. WellFormed
  BY <1>2 DEF WellFormed, GroupWellFormed, Init
<1> QED  BY <1>1, <1>3 DEF IInv

\* A group that a step leaves alone stays well formed.
LEMMA OtherGroup ==
    ASSUME NEW g \in Group, GroupWellFormed(g), lock'[g] = lock[g], row'[g] = row[g]
    PROVE  GroupWellFormed(g)'
BY DEF GroupWellFormed

LEMMA AcquireWellFormed ==
    ASSUME IInv, NEW g \in Group, Acquire(g)
    PROVE  IInv'
<1> USE GroupLocksAssumption
<1>1. PICK v \in Value : lock' = [lock EXCEPT ![g] = v]
  BY DEF Acquire
<1>2. row' = row /\ lock[g] = EmptyValue
  BY DEF Acquire
<1>3. TypeOK'
  BY <1>1, <1>2 DEF IInv, TypeOK, AnyValue
<1>4. lock'[g] = v /\ v # EmptyValue
  BY <1>1 DEF IInv, TypeOK
<1>5. RunFrom(row'[g], 0)
  BY <1>2 DEF IInv, WellFormed, GroupWellFormed
<1>6. Filled(row'[g], 0, 0, lock'[g]) /\ Filled(row'[g], 0, 0, EmptyValue)
  BY DEF Filled
<1>7. GroupWellFormed(g)'
  BY <1>4, <1>5, <1>6 DEF GroupWellFormed
<1>8. \A h \in Group \ {g} : GroupWellFormed(h)'
  BY <1>1, <1>2, OtherGroup DEF IInv, TypeOK, WellFormed
<1> QED  BY <1>3, <1>7, <1>8 DEF IInv, WellFormed

LEMMA ReleaseWellFormed ==
    ASSUME IInv, NEW g \in Group, Release(g)
    PROVE  IInv'
<1> USE GroupLocksAssumption
<1>1. lock' = [lock EXCEPT ![g] = EmptyValue] /\ row' = row /\ lock[g] # EmptyValue
  BY DEF Release
<1>2. TypeOK'
  BY <1>1 DEF IInv, TypeOK, AnyValue
<1>3. PICK k \in 1 .. MaxLen :
          Filled(row[g], 0, k, lock[g]) /\ Filled(row[g], k, MaxLen, EmptyValue)
  BY DEF Release
<1>4. lock[g] \in Value /\ lock'[g] = EmptyValue
  BY <1>1 DEF IInv, TypeOK, AnyValue
<1>5. RunFrom(row'[g], 0)
  BY <1>1, <1>3, <1>4 DEF RunFrom
<1>6. GroupWellFormed(g)'
  BY <1>4, <1>5 DEF GroupWellFormed
<1>7. \A h \in Group \ {g} : GroupWellFormed(h)'
  BY <1>1, OtherGroup DEF IInv, TypeOK, WellFormed
<1> QED  BY <1>2, <1>6, <1>7 DEF IInv, WellFormed

\* The picture of a locked row: values of the holder up to k, a gap up to
\* m, a run of w up to e, and nothing behind it.
RowShape(r, v, w, k, m, e) ==
    /\ k \in 0 .. MaxLen /\ m \in k .. MaxLen /\ e \in m .. MaxLen
    /\ Filled(r, 0, k, v) /\ Filled(r, k, m, EmptyValue)
    /\ Filled(r, m, e, w) /\ Filled(r, e, MaxLen, EmptyValue)

LEMMA ShapeOfLocked ==
    ASSUME NEW g \in Group, lock[g] \in Value, GroupWellFormed(g)
    PROVE  \E w \in Value : \E k, m, e \in Int : RowShape(row[g], lock[g], w, k, m, e)
<1> USE GroupLocksAssumption
<1>1. lock[g] # EmptyValue
  OBVIOUS
<1>2. PICK k \in 0 .. MaxLen : \E m \in k .. MaxLen :
            /\ Filled(row[g], 0, k, lock[g])
            /\ Filled(row[g], k, m, EmptyValue)
            /\ RunFrom(row[g], m)
  BY <1>1 DEF GroupWellFormed
<1>3. PICK m \in k .. MaxLen :
            /\ Filled(row[g], 0, k, lock[g])
            /\ Filled(row[g], k, m, EmptyValue)
            /\ RunFrom(row[g], m)
  BY <1>2
<1>4. PICK e \in m .. MaxLen :
            /\ Filled(row[g], e, MaxLen, EmptyValue)
            /\ e = m \/ \E v \in Value : Filled(row[g], m, e, v)
  BY <1>3 DEF RunFrom
<1>5. PICK w \in Value : Filled(row[g], m, e, w)
  <2>1. CASE e = m
    <3>1. Filled(row[g], m, e, lock[g])
      BY <2>1 DEF Filled
    <3> QED  BY <3>1
  <2>2. CASE e # m
    BY <2>2, <1>4
  <2> QED  BY <2>1, <2>2
<1>6. RowShape(row[g], lock[g], w, k, m, e)
  BY <1>3, <1>4, <1>5 DEF RowShape
<1>7. k \in Int /\ m \in Int /\ e \in Int
  OBVIOUS
<1> QED  BY <1>6, <1>7

LEMMA LockedFromShape ==
    ASSUME NEW r, NEW v, NEW w \in Value, NEW k \in Int, NEW m \in Int, NEW e \in Int,
           RowShape(r, v, w, k, m, e)
    PROVE  \E i \in 0 .. MaxLen : \E j \in i .. MaxLen :
              /\ Filled(r, 0, i, v) /\ Filled(r, i, j, EmptyValue) /\ RunFrom(r, j)
<1> USE GroupLocksAssumption
<1>1. RunFrom(r, m)
  BY DEF RowShape, RunFrom
<1> QED  BY <1>1 DEF RowShape

\* Writing cell i of a row whose cells before i hold v moves the borders of
\* the picture at most.
LEMMA WriteShape ==
    ASSUME NEW r \in [Index -> AnyValue], NEW v \in Value, NEW w \in Value,
           NEW k \in Int, NEW m \in Int, NEW e \in Int, RowShape(r, v, w, k, m, e),
           NEW i \in Index, Filled(r, 0, i, v)
    PROVE  \E x \in Value : \E a, b, c \in Int :
              RowShape([r EXCEPT ![i] = v], v, x, a, b, c)
<1> USE GroupLocksAssumption DEF Index
<1> DEFINE s == [r EXCEPT ![i] = v]
<1>1. s[i] = v /\ \A j \in Index : j # i => s[j] = r[j]
  OBVIOUS
<1>2. v # EmptyValue
  OBVIOUS
<1>3. k \in 0 .. MaxLen /\ m \in k .. MaxLen /\ e \in m .. MaxLen
  BY DEF RowShape
<1> HIDE DEF s
<1>4. CASE i < k
  <2>1. RowShape(s, v, w, k, m, e)
    BY <1>1, <1>3, <1>4 DEF RowShape, Filled
  <2> QED  BY <2>1 DEF s
<1>5. CASE i = k /\ k < m
  <2>1. RowShape(s, v, w, k + 1, m, e)
    BY <1>1, <1>3, <1>5 DEF RowShape, Filled
  <2> QED  BY <2>1 DEF s
<1>6. CASE i >= k /\ k = m /\ i < e
  \* Cells before i hold v, so the run is one of v up to i.
  <2>1. RowShape(s, v, w, i + 1, i + 1, e)
    BY <1>1, <1>3, <1>6 DEF RowShape, Filled
  <2> QED  BY <2>1 DEF s
<1>7. CASE i = e /\ k = m
  <2>1. RowShape(s, v, v, i + 1, i + 1, i + 1)
    BY <1>1, <1>3, <1>7 DEF RowShape, Filled
  <2> QED  BY <2>1 DEF s
<1>8. i < k \/ (i = k /\ k < m) \/ (i >= k /\ k = m /\ i < e) \/ (i = e /\ k = m)
  <2>1. ~ (k < m /\ i > k)
    BY <1>2, <1>3 DEF RowShape, Filled
  <2>2. ~ (e < i)
    BY <1>2, <1>3 DEF RowShape, Filled
  <2> QED  BY <2>1, <2>2, <1>3
<1> QED  BY <1>4, <1>5, <1>6, <1>7, <1>8

LEMMA WriteWellFormed ==
    ASSUME IInv, NEW g \in Group, NEW i \in Index, Write(g, i)
    PROVE  IInv'
<1> USE GroupLocksAssumption
<1>1. /\ lock[g] # EmptyValue /\ Filled(row[g], 0, i, lock[g])
      /\ row' = [row EXCEPT ![g][i] = lock[g]] /\ lock' = lock
  BY DEF Write
<1>2. lock[g] \in Value /\ row[g] \in [Index -> AnyValue]
  BY <1>1 DEF IInv, TypeOK, AnyValue
<1>3. row'[g] = [row[g] EXCEPT ![i] = lock[g]]
  BY <1>1 DEF IInv, TypeOK
<1>4. TypeOK'
  BY <1>1, <1>2 DEF IInv, TypeOK, AnyValue
<1>5. GroupWellFormed(g)
  BY DEF IInv, WellFormed
<1>6. PICK w \in Value : \E k, m, e \in Int : RowShape(row[g], lock[g], w, k, m, e)
  BY <1>2, <1>5, ShapeOfLocked
<1>7. PICK k \in Int, m \in Int, e \in Int : RowShape(row[g], lock[g], w, k, m, e)
  BY <1>6
<1>8. PICK x \in Value : \E a, b, c \in Int : RowShape(row'[g], lock[g], x, a, b, c)
  BY <1>1, <1>2, <1>3, <1>7, WriteShape
<1>9. PICK a \in Int, b \in Int, c \in Int : RowShape(row'[g], lock[g], x, a, b, c)
  BY <1>8
<1>10. GroupWellFormed(g)'
  BY <1>1, <1>9, LockedFromShape DEF GroupWellFormed
<1>11. \A h \in Group \ {g} : GroupWellFormed(h)'
  BY <1>1, OtherGroup DEF IInv, TypeOK, WellFormed
<1> QED  BY <1>4, <1>10, <1>11 DEF IInv, WellFormed

LEMMA ClearWellFormed ==
    ASSUME IInv, NEW g \in Group, NEW i \in Index, Clear(g, i)
    PROVE  IInv'
<1> USE GroupLocksAssumption
<1>1. /\ lock[g] # EmptyValue /\ RunFrom(row[g], i)
      /\ row' = [row EXCEPT ![g][i] = EmptyValue] /\ lock' = lock
  BY DEF Clear
<1>2. PICK k \in 1 .. i :
          Filled(row[g], 0, k, lock[g]) /\ Filled(row[g], k, i, EmptyValue)
  BY DEF Clear
<1>3. lock[g] \in Value /\ row[g] \in [Index -> AnyValue]
  BY <1>1 DEF IInv, TypeOK, AnyValue
<1>4. row'[g] = [row[g] EXCEPT ![i] = EmptyValue]
  BY <1>1 DEF IInv, TypeOK
<1>5. TypeOK'
  BY <1>1, <1>3 DEF IInv, TypeOK, AnyValue
<1>6. row'[g][i] = EmptyValue /\ \A j \in Index : j # i => row'[g][j] = row[g][j]
  BY <1>3, <1>4
<1>7. i \in 0 .. MaxLen - 1 /\ k \in 0 .. MaxLen /\ k <= i
  BY DEF Index
<1>8. Filled(row'[g], 0, k, lock[g]) /\ Filled(row'[g], k, i + 1, EmptyValue)
  BY <1>2, <1>6, <1>7 DEF Filled, Index
<1>9. RunFrom(row'[g], i + 1)
  <2>1. PICK e \in i .. MaxLen :
            /\ Filled(row[g], e, MaxLen, EmptyValue)
            /\ e = i \/ \E v \in Value : Filled(row[g], i, e, v)
    BY <1>1 DEF RunFrom
  <2>2. CASE e = i
    <3>1. Filled(row'[g], i + 1, MaxLen, EmptyValue)
      BY <2>1, <2>2, <1>6, <1>7 DEF Filled, Index
    <3> QED  BY <3>1, <1>7 DEF RunFrom
  <2>3. CASE e # i
    <3>1. PICK v \in Value : Filled(row[g], i, e, v)
      BY <2>1, <2>3
    <3>2. Filled(row'[g], i + 1, e, v) /\ Filled(row'[g], e, MaxLen, EmptyValue)
      BY <2>1, <2>3, <3>1, <1>6, <1>7 DEF Filled, Index
    <3>3. e \in i + 1 .. MaxLen
      BY <2>3, <1>7
    <3> QED  BY <3>2, <3>3 DEF RunFrom
  <2> QED  BY <2>2, <2>3
<1>10. GroupWellFormed(g)'
  <2>1. i + 1 \in k .. MaxLen
    BY <1>7
  <2> QED  BY <1>1, <1>7, <1>8, <1>9, <2>1 DEF GroupWellFormed
<1>11. \A h \in Group \ {g} : GroupWellFormed(h)'
  BY <1>1, OtherGroup DEF IInv, TypeOK, WellFormed
<1> QED  BY <1>5, <1>10, <1>11 DEF IInv, WellFormed

LEMMA NextIInv == IInv /\ [Next]_vars => IInv'
<1> SUFFICES ASSUME IInv, [Next]_vars PROVE IInv'
  OBVIOUS
<1>1. CASE UNCHANGED vars
  BY <1>1 DEF vars, IInv, TypeOK, WellFormed, GroupWellFormed
<1>2. CASE \E g \in Group : Acquire(g)
  BY <1>2, AcquireWellFormed
<1>3. CASE \E g \in Group : Release(g)
  BY <1>3, ReleaseWellFormed
<1>4. CASE \E g \in Group : \E i \in Index : Write(g, i)
  BY <1>4, WriteWellFormed
<1>5. CASE \E g \in Group : \E i \in Index : Clear(g, i)
  BY <1>5, ClearWellFormed
<1> QED  BY <1>1, <1>2, <1>3, <1>4, <1>5 DEF Next

\* Every row the abstract protocol can reach is one that check accepts
\* (the grammar of lockseq_model.cc:226-242).
THEOREM AlwaysWellFormed == Spec => []WellFormed
<1>1. IInv => WellFormed
  BY DEF IInv
<1> QED  BY <1>1, InitIInv, NextIInv, PTL DEF Spec

-----------------------------------------------------------------------------
(* Loops.                                                                  *)

\* A set of numbers that is not empty has a least one.
LEMMA LeastNumber ==
    ASSUME NEW S \in SUBSET Nat, S # {}
    PROVE  \E x \in S : \A y \in S : x <= y
<1> DEFINE Below == {ss \in Nat \X Nat : ss[1] < ss[2]}
<1>1. IsWellFoundedOn(Below, Nat)
  BY NatLessThanWellFounded DEF OpToRel
<1>2. PICK x \in S : \A y \in S : ~ (<<y, x>> \in Below)
  <2> HIDE DEF Below
  <2> QED  BY <1>1, WFMin
<1>3. ASSUME NEW y \in S
      PROVE  x <= y
  <2>1. x \in Nat /\ y \in Nat
    OBVIOUS
  <2>2. ~ (y < x)
    <3>1. <<y, x>> \in Nat \X Nat /\ <<y, x>>[1] = y /\ <<y, x>>[2] = x
      BY <2>1
    <3>2. ~ (<<y, x>> \in Below)
      BY <1>2
    <3> QED  BY <3>1, <3>2
  <2> HIDE DEF Below
  <2> QED  BY <2>1, <2>2
<1> QED  BY <1>2, <1>3

\* Induction along 0 .. N, as a property of sets.
LEMMA CountingUp ==
    ASSUME NEW N \in Nat, NEW T, 0 \in T, \A n \in 0 .. N - 1 : n \in T => n + 1 \in T
    PROVE  \A n \in 0 .. N : n \in T
<1> SUFFICES ASSUME NEW n \in 0 .. N, n \notin T PROVE FALSE
  OBVIOUS
<1> DEFINE S == {m \in 0 .. N : m \notin T}
<1>1. PICK x \in S : \A y \in S : x <= y
  <2>1. n \in S /\ S \in SUBSET Nat
    OBVIOUS
  <2> HIDE DEF S
  <2> QED  BY <2>1, LeastNumber
<1>2. x # 0 /\ x - 1 \in 0 .. N - 1 /\ x \in Nat
  OBVIOUS
<1>3. x - 1 \in T
  <2>1. x - 1 \notin S
    BY <1>1, <1>2
  <2> QED  BY <1>2, <2>1
<1> QED  BY <1>2, <1>3

\* The rounds of a loop, each of which takes a state of S to one of S, and
\* the states between them.
Steps(N, S) == [S \X (1 .. N) -> S]

IsLoop(f, N, S, s0, step) ==
    /\ f \in [0 .. N -> S]
    /\ f[0] = s0
    /\ \A n \in 1 .. N : f[n] = step[<<f[n - 1], n>>]

\* A loop can run.
LEMMA LoopExists ==
    ASSUME NEW N \in Nat, NEW S, NEW s0 \in S, NEW step \in Steps(N, S)
    PROVE  \E f : IsLoop(f, N, S, s0, step)
<1> USE DEF Steps
<1> DEFINE SoFar(f, n) == /\ f \in [0 .. n -> S]
                        /\ f[0] = s0
                        /\ \A k \in 1 .. n : f[k] = step[<<f[k - 1], k>>]
           T == {n \in 0 .. N : \E f : SoFar(f, n)}
<1>1. 0 \in T
  <2> DEFINE f == [k \in 0 .. 0 |-> s0]
  <2>1. SoFar(f, 0)
    OBVIOUS
  <2> HIDE DEF f, SoFar
  <2> QED  BY <2>1
<1>2. ASSUME NEW n \in 0 .. N - 1, n \in T
      PROVE  n + 1 \in T
  <2>1. PICK f : SoFar(f, n)
    BY <1>2
  <2> DEFINE g == [k \in 0 .. n + 1 |-> IF k = n + 1 THEN step[<<f[n], n + 1>>] ELSE f[k]]
  <2>2. n + 1 \in 1 .. N /\ n \in 0 .. n /\ f[n] \in S
    BY <2>1
  <2>3. step[<<f[n], n + 1>>] \in S
    BY <2>2
  <2>4. g \in [0 .. n + 1 -> S]
    BY <2>1, <2>3
  <2>5. g[0] = s0
    BY <2>1
  <2>6. ASSUME NEW k \in 1 .. n + 1
        PROVE  g[k] = step[<<g[k - 1], k>>]
    <3>1. CASE k = n + 1
      <4>1. g[k] = step[<<f[n], n + 1>>]
        BY <3>1
      <4>2. k - 1 = n /\ n \in 0 .. n + 1 /\ n # n + 1
        BY <3>1
      <4>3. g[k - 1] = f[n]
        BY <4>2
      <4> HIDE DEF g
      <4> QED  BY <3>1, <4>1, <4>3
    <3>2. CASE k # n + 1
      <4>1. k \in 1 .. n /\ k \in 0 .. n + 1 /\ k - 1 \in 0 .. n + 1 /\ k - 1 # n + 1
        BY <3>2
      <4>2. g[k] = f[k] /\ g[k - 1] = f[k - 1]
        BY <3>2, <4>1
      <4>3. f[k] = step[<<f[k - 1], k>>]
        BY <2>1, <4>1
      <4> QED  BY <4>2, <4>3
    <3> QED  BY <3>1, <3>2
  <2>7. SoFar(g, n + 1)
    BY <2>4, <2>5, <2>6
  <2> HIDE DEF g
  <2> QED  BY <2>2, <2>7
<1>3. N \in T
  <2> HIDE DEF T
  <2>1. \A n \in 0 .. N : n \in T
    BY <1>1, <1>2, CountingUp
  <2> QED  BY <2>1
<1>4. PICK f : SoFar(f, N)
  BY <1>3
<1> QED  BY <1>4 DEF IsLoop

-----------------------------------------------------------------------------
(* The pass of check.                                                      *)

Contents == Content \union {NoKey}

Database == [Key -> Contents]

State ==
    [last_group : Group \union {NoKey}, expected_value : Content, expected_index : Nat,
     lock_state : {"unlocked", "locked_start", "locked_rest"}, bad : BOOLEAN]

\* Each function of the pass yields a state.
LEMMA NextGroupType ==
    ASSUME NEW g \in Group \union {NoKey} PROVE NextGroup(g) \in State
BY ValueAssumption DEF NextGroup, State, Content

LEMMA CheckLockType ==
    ASSUME NEW s \in State, NEW v \in Content
    PROVE  CheckLock(s, v) \in State
BY ValueAssumption DEF CheckLock, Bad, State, Content

LEMMA CheckCellType ==
    ASSUME NEW s \in State, NEW i \in Nat, NEW v \in Content
    PROVE  CheckCell(s, i, v) \in State
<1>1. CheckIndex(s, i) \in State
  BY ValueAssumption DEF CheckIndex, Bad, State, Content
<1>2. ASSUME NEW t \in State PROVE CheckValue(t, v) \in State
  BY ValueAssumption DEF CheckValue, Bad, State, Content
<1>3. ASSUME NEW t \in State
      PROVE  [t EXCEPT !.expected_value = v, !.expected_index = @ + 1] \in State
  <2>1. t.expected_index + 1 \in Nat
    BY DEF State
  <2> QED  BY <2>1 DEF State
<1>4. Bad(s) \in State
  BY DEF Bad, State
<1> QED  BY <1>1, <1>2, <1>3, <1>4 DEF CheckCell

\* The state in which s looks at a key of group g.
Entering(s, g) == IF g = s.last_group THEN s ELSE NextGroup(g)

\* What the pass does with a key.
LEMMA KeyCases ==
    ASSUME NEW s, NEW g, NEW i \in OtherIndex .. MaxLen - 1, NEW v
    PROVE  /\ s.bad \/ v = NoKey => CheckKey(s, <<g, i>>, v) = s
           /\ ~ (s.bad \/ v = NoKey) =>
                 /\ i = OtherIndex => CheckKey(s, <<g, i>>, v) = Bad(Entering(s, g))
                 /\ i = LockIndex => CheckKey(s, <<g, i>>, v) = CheckLock(Entering(s, g), v)
                 /\ i >= 0 => CheckKey(s, <<g, i>>, v) = CheckCell(Entering(s, g), i, v)
BY GroupLocksAssumption DEF CheckKey, OtherIndex, LockIndex, Entering

LEMMA CheckKeyType ==
    ASSUME NEW s \in State, NEW g \in Group, NEW i \in OtherIndex .. MaxLen - 1,
           NEW v \in Contents
    PROVE  CheckKey(s, <<g, i>>, v) \in State
<1> DEFINE t == Entering(s, g)
<1>1. t \in State
  BY NextGroupType DEF Entering
<1>2. Bad(t) \in State
  BY <1>1 DEF Bad, State
<1>3. v # NoKey => v \in Content
  BY DEF Contents
<1>4. v # NoKey => CheckLock(t, v) \in State
  BY <1>1, <1>3, CheckLockType
<1>5. v # NoKey /\ i >= 0 => CheckCell(t, i, v) \in State
  <2>1. i >= 0 => i \in Nat
    BY GroupLocksAssumption DEF OtherIndex
  <2> QED  BY <1>1, <1>3, <2>1, CheckCellType
<1>6. i = OtherIndex \/ i = LockIndex \/ i >= 0
  BY GroupLocksAssumption DEF OtherIndex, LockIndex
<1> HIDE DEF t
<1> QED  BY <1>2, <1>4, <1>5, <1>6, KeyCases DEF t

\* The pass over a group as the sequence of its states.
LEMMA GroupPass ==
    ASSUME d \in Database, NEW g \in Group, NEW s \in State
    PROVE  \E f \in [0 .. MaxLen + 2 -> State] :
              /\ f[0] = s
              /\ \A n \in 1 .. MaxLen + 2 :
                    f[n] = CheckKey(f[n - 1], <<g, n - 1 + OtherIndex>>, d[<<g, n - 1 + OtherIndex>>])
              /\ CheckGroup(d, s, g, MaxLen) = f[MaxLen + 2]
<1> DEFINE N == MaxLen + 2
           next(x, n) == CheckKey(x, <<g, n - 1 + OtherIndex>>, d[<<g, n - 1 + OtherIndex>>])
           step == [x \in State \X (1 .. N) |-> next(x[1], x[2])]
           Pass(h) == h = [n \in 0 .. N |-> IF n = 0 THEN s ELSE next(h[n - 1], n)]
           scan == CHOOSE h : Pass(h)
<1>1. N \in Nat
  BY GroupLocksAssumption
<1>2. ASSUME NEW x \in State, NEW n \in 1 .. N
      PROVE  next(x, n) \in State
  <2>1. n - 1 + OtherIndex \in OtherIndex .. MaxLen - 1
    BY GroupLocksAssumption DEF OtherIndex
  <2>2. <<g, n - 1 + OtherIndex>> \in Key
    BY <2>1 DEF Key
  <2>3. d[<<g, n - 1 + OtherIndex>>] \in Contents
    BY <2>2 DEF Database
  <2> QED  BY <2>1, <2>3, CheckKeyType
<1>3. CheckGroup(d, s, g, MaxLen) = scan[N]
  BY DEF CheckGroup
<1> HIDE DEF N, next
<1>4. step \in Steps(N, State)
  BY <1>2 DEF Steps
<1>5. PICK f : IsLoop(f, N, State, s, step)
  <2> HIDE DEF step
  <2> QED  BY <1>1, <1>4, LoopExists
<1>6. \A n \in 1 .. N : step[<<f[n - 1], n>>] = next(f[n - 1], n)
  <2> SUFFICES ASSUME NEW n \in 1 .. N
               PROVE  step[<<f[n - 1], n>>] = next(f[n - 1], n)
    OBVIOUS
  <2>1. n - 1 \in 0 .. N
    BY <1>1
  <2>2. f[n - 1] \in State
    BY <1>5, <2>1 DEF IsLoop
  <2>3. <<f[n - 1], n>> \in State \X (1 .. N)
    BY <2>2
  <2> QED  BY <2>3
<1>7. Pass(f)
  <2> HIDE DEF step
  <2>1. \A n \in 0 .. N : n # 0 => n \in 1 .. N
    BY <1>1
  <2>2. \A n \in 0 .. N : f[n] = IF n = 0 THEN s ELSE next(f[n - 1], n)
    BY <1>5, <1>6, <2>1 DEF IsLoop
  <2>3. f \in [0 .. N -> State]
    BY <1>5 DEF IsLoop
  <2> QED  BY <2>2, <2>3
<1>8. Pass(scan)
  <2> HIDE DEF Pass
  <2> QED  BY <1>7
<1> HIDE DEF scan
<1>9. /\ scan[0] = s
      /\ \A n \in 1 .. N : scan[n] = next(scan[n - 1], n)
  <2>1. 0 \in 0 .. N /\ \A n \in 1 .. N : n \in 0 .. N /\ n # 0
    BY <1>1
  <2> QED  BY <1>8, <2>1
<1>10. scan \in [0 .. N -> State]
  <2> DEFINE T == {n \in 0 .. N : scan[n] \in State}
  <2>1. 0 \in T
    BY <1>1, <1>9
  <2>2. ASSUME NEW n \in 0 .. N - 1, n \in T
        PROVE  n + 1 \in T
    <3>1. n + 1 \in 1 .. N /\ n + 1 \in 0 .. N /\ n + 1 - 1 = n
      BY <1>1
    <3>2. scan[n + 1] = next(scan[n], n + 1)
      BY <1>9, <3>1
    <3>3. next(scan[n], n + 1) \in State
      BY <1>2, <2>2, <3>1
    <3> QED  BY <3>1, <3>2, <3>3
  <2> HIDE DEF T
  <2>3. \A n \in 0 .. N : n \in T
    BY <1>1, <2>1, <2>2, CountingUp
  <2> USE DEF T
  <2>4. \A n \in 0 .. N : scan[n] \in State
    BY <2>3
  <2> QED  BY <1>8, <2>4
<1>11. PICK h \in [0 .. N -> State] : h = scan
  BY <1>10
<1> QED  BY <1>3, <1>9, <1>11 DEF N, next

-----------------------------------------------------------------------------
(* What the pass has seen of a group.                                      *)

\* Cells from..to-1 of group g all hold v; NoKey for a missing cell.
All(g, from, to, v) == \A i \in from .. to - 1 : d[<<g, i>>] = v

\* They are there and all hold the same.
OneRun(g, from, to) ==
    /\ \A i \in from .. to - 1 : d[<<g, i>>] # NoKey
    /\ \A i, j \in from .. to - 1 : d[<<g, i>>] = d[<<g, j>>]

\* In an unlocked group: one run.
SeenUnlocked(g, t, m) ==
    /\ d[<<g, LockIndex>>] \in {NoKey, EmptyValue}
    /\ t.lock_state = "unlocked"
    /\ All(g, 0, t.expected_index, t.expected_value)
    /\ t.expected_index > 0 <=> t.expected_value # EmptyValue

\* In a locked group: the holder's values.
SeenHolder(g, t, m) ==
    /\ d[<<g, LockIndex>>] \in LockLike
    /\ t.lock_state = "locked_start"
    /\ t.expected_value = d[<<g, LockIndex>>]
    /\ All(g, 0, t.expected_index, t.expected_value)

\* In a locked group: the holder's values, a gap and a run, which is not a
\* continuation of the holder's.
SeenRest(g, t, m) ==
    /\ d[<<g, LockIndex>>] \in LockLike
    /\ t.lock_state = "locked_rest"
    /\ t.expected_value # EmptyValue
    /\ \E k \in 0 .. m, n \in 0 .. m :
          /\ k <= n /\ n < t.expected_index
          /\ All(g, 0, k, d[<<g, LockIndex>>])
          /\ All(g, k, n, NoKey)
          /\ All(g, n, t.expected_index, t.expected_value)
          /\ k = n => t.expected_value # d[<<g, LockIndex>>]

\* The cells below m are legal so far, and t is the state that they lead to.
Seen(g, t, m) ==
    /\ t \in State /\ ~ t.bad /\ t.last_group = g
    /\ t.expected_index <= m
    /\ d[<<g, OtherIndex>>] = NoKey
    /\ \A i \in 0 .. m - 1 : d[<<g, i>>] # EmptyValue
    /\ All(g, t.expected_index, m, NoKey)
    /\ SeenUnlocked(g, t, m) \/ SeenHolder(g, t, m) \/ SeenRest(g, t, m)

\* The grammar without sets.
LEMMA CellSets ==
    ASSUME NEW g, NEW from \in Int, NEW to \in Int
    PROVE  /\ Missing(g, from, to) <=> All(g, from, to, NoKey)
           /\ Run(g, from, to) <=> OneRun(g, from, to)
           /\ \A v : Cells(g, from, to) \subseteq {v} <=> All(g, from, to, v)
           /\ \A v : v \notin Cells(g, from, to) <=> \A i \in from .. to - 1 : d[<<g, i>>] # v
BY DEF Missing, Run, Cells, All, OneRun

\* A run of one value, and then nothing.
LEMMA RunThenMissingIs ==
    ASSUME NEW g, NEW from \in 0 .. MaxLen
    PROVE  RunThenMissing(g, from) <=>
              \E e \in from .. MaxLen : OneRun(g, from, e) /\ All(g, e, MaxLen, NoKey)
<1>1. ASSUME NEW e \in from .. MaxLen
      PROVE  /\ Run(g, from, e) <=> OneRun(g, from, e)
             /\ Missing(g, e, MaxLen) <=> All(g, e, MaxLen, NoKey)
  <2>1. from \in Int /\ e \in Int /\ MaxLen \in Int
    BY GroupLocksAssumption
  <2> QED  BY <2>1, CellSets
<1> QED  BY <1>1 DEF RunThenMissing

\* A cell that is missing: nothing changes.
LEMMA SeenMissing ==
    ASSUME NEW g \in Group, NEW t, NEW m \in 0 .. MaxLen - 1, Seen(g, t, m),
           d[<<g, m>>] = NoKey
    PROVE  Seen(g, t, m + 1)
<1> USE GroupLocksAssumption
<1>1. t.expected_index \in Nat
  BY DEF Seen, State
<1>2. NoKey # EmptyValue
  BY ValueAssumption
<1>3. All(g, t.expected_index, m + 1, NoKey) /\ \A i \in 0 .. m : d[<<g, i>>] # EmptyValue
  BY <1>1, <1>2 DEF Seen, All
<1>4. SeenRest(g, t, m) => SeenRest(g, t, m + 1)
  BY DEF SeenRest
<1>5. /\ SeenUnlocked(g, t, m) => SeenUnlocked(g, t, m + 1)
      /\ SeenHolder(g, t, m) => SeenHolder(g, t, m + 1)
  BY DEF SeenUnlocked, SeenHolder
<1> QED  BY <1>1, <1>3, <1>4, <1>5 DEF Seen

\* The changes of a state of the pass.
LEMMA BadState ==
    ASSUME NEW t \in State, NEW u, u = Bad(t)
    PROVE  u \in State /\ u.bad
BY DEF Bad, State

LEMMA LastRun ==
    ASSUME NEW t \in State, NEW u, u = [t EXCEPT !.lock_state = "locked_rest"]
    PROVE  /\ u \in State /\ u.bad = t.bad /\ u.last_group = t.last_group
           /\ u.lock_state = "locked_rest" /\ u.expected_index = t.expected_index
           /\ u.expected_value = t.expected_value
BY DEF State

\* The pass finds fault with a cell: with its content, with a gap before it
\* or with its value.
Fault(t, i, v) ==
    \/ v = EmptyValue
    \/ t.expected_index # i /\ t.lock_state # "locked_start"
    \/ t.expected_index = i /\ t.expected_value \notin {EmptyValue, v}
       /\ t.lock_state # "locked_start"

\* It goes on, in the run it was in or in the last one.
LEMMA CellCases ==
    ASSUME NEW t \in State, ~ t.bad, NEW i \in Nat, t.expected_index <= i, NEW v \in Content,
           NEW u, u = CheckCell(t, i, v)
    PROVE  /\ Fault(t, i, v) => u.bad
           /\ ~ Fault(t, i, v) =>
                 /\ ~ u.bad
                 /\ u.expected_index = i + 1
                 /\ u.expected_value = v
                 /\ u.last_group = t.last_group
                 /\ u.lock_state = IF t.expected_index = i /\ t.expected_value \in {EmptyValue, v}
                                   THEN t.lock_state ELSE "locked_rest"
<1> DEFINE x == CheckIndex(t, i)
           y == CheckValue(x, v)
<1>1. u \in State
  BY CheckCellType
<1>2. v = EmptyValue => u = Bad(t)
  BY ValueAssumption DEF CheckCell
<1>3. v # EmptyValue => u = [y EXCEPT !.expected_value = v, !.expected_index = @ + 1]
  BY ValueAssumption DEF CheckCell
<1>4. EmptyValue \in Content /\ t.expected_index \in Nat
  BY DEF Content, State
<1>5. CASE v = EmptyValue
  BY <1>2, <1>5, BadState DEF Fault
<1>6. CASE v # EmptyValue /\ t.expected_index = i
  <2>1. x = t
    BY <1>6 DEF CheckIndex
  <2>2. CASE t.expected_value \in {EmptyValue, v}
    <3>1. y = t
      BY <2>1, <2>2, ValueAssumption DEF CheckValue
    <3> HIDE DEF y
    <3>2. /\ u.bad = t.bad /\ u.last_group = t.last_group
          /\ u.lock_state = t.lock_state /\ u.expected_index = i + 1
          /\ u.expected_value = v
      BY <1>3, <1>6, <3>1 DEF State
    <3> QED  BY <1>6, <2>2, <3>2 DEF Fault
  <2>3. CASE t.expected_value \notin {EmptyValue, v} /\ t.lock_state = "locked_start"
    <3>1. y = [t EXCEPT !.lock_state = "locked_rest"]
      BY <2>1, <2>3, ValueAssumption DEF CheckValue
    <3> HIDE DEF y
    <3>2. /\ y \in State /\ y.bad = t.bad /\ y.last_group = t.last_group
          /\ y.lock_state = "locked_rest" /\ y.expected_index = i
      BY <1>6, <3>1, LastRun
    <3>3. /\ u = [y EXCEPT !.expected_value = v, !.expected_index = @ + 1]
          /\ y \in State
      BY <1>3, <1>6, <3>2
    <3>4. /\ u.bad = y.bad /\ u.last_group = y.last_group
          /\ u.lock_state = y.lock_state /\ u.expected_index = y.expected_index + 1
          /\ u.expected_value = v
      BY <3>3 DEF State
    <3> QED  BY <1>6, <2>3, <3>2, <3>4 DEF Fault
  <2>4. CASE t.expected_value \notin {EmptyValue, v} /\ t.lock_state # "locked_start"
    <3>1. y = Bad(t)
      BY <2>1, <2>4, ValueAssumption DEF CheckValue
    <3> HIDE DEF y
    <3>2. y \in State /\ y.bad
      BY <3>1, BadState
    <3>3. u.bad
      BY <1>3, <1>6, <3>2 DEF State
    <3> QED  BY <1>6, <2>4, <3>3 DEF Fault
  <2> QED  BY <2>2, <2>3, <2>4
<1>7. CASE v # EmptyValue /\ t.expected_index # i /\ t.lock_state = "locked_start"
  <2>1. x = [t EXCEPT !.lock_state = "locked_rest", !.expected_index = i,
                      !.expected_value = EmptyValue]
    BY <1>4, <1>7, ValueAssumption DEF CheckIndex
  <2> HIDE DEF x
  <2>2. /\ x \in State /\ x.bad = t.bad /\ x.last_group = t.last_group
        /\ x.lock_state = "locked_rest" /\ x.expected_index = i
        /\ x.expected_value = EmptyValue
    BY <1>4, <2>1 DEF State
  <2>3. y = x
    BY <2>2, ValueAssumption DEF CheckValue
  <2> HIDE DEF y
  <2>4. /\ u.bad = t.bad /\ u.last_group = t.last_group
        /\ u.lock_state = "locked_rest" /\ u.expected_index = i + 1
        /\ u.expected_value = v
    BY <1>3, <1>7, <2>2, <2>3 DEF State
  <2> QED  BY <1>7, <2>4 DEF Fault
<1>8. CASE v # EmptyValue /\ t.expected_index # i /\ t.lock_state # "locked_start"
  <2>1. x = Bad(t)
    BY <1>4, <1>8 DEF CheckIndex
  <2> HIDE DEF x
  <2>2. x \in State /\ x.bad
    BY <2>1, BadState
  <2>3. y \in {x, Bad(x), [x EXCEPT !.lock_state = "locked_rest"]}
    BY DEF CheckValue
  <2> HIDE DEF y
  <2>4. y \in State /\ y.bad
    BY <2>2, <2>3, BadState, LastRun
  <2>5. u.bad
    BY <1>3, <1>8, <2>4 DEF State
  <2> QED  BY <1>8, <2>5 DEF Fault
<1> QED  BY <1>5, <1>6, <1>7, <1>8

\* A cell without fault: the pass has seen one more.
LEMMA SeenCell ==
    ASSUME d \in Database, NEW g \in Group, NEW t, NEW m \in 0 .. MaxLen - 1, Seen(g, t, m),
           NEW v \in Content, v = d[<<g, m>>], ~ Fault(t, m, v),
           NEW u, u = CheckCell(t, m, v)
    PROVE  Seen(g, u, m + 1)
<1> USE GroupLocksAssumption
<1> DEFINE e == t.expected_index
           w == t.expected_value
           h == d[<<g, LockIndex>>]
<1>1. t \in State /\ ~ t.bad /\ e \in Nat /\ e <= m /\ m \in Nat
  BY DEF Seen, State
<1>2. /\ u \in State /\ ~ u.bad /\ u.last_group = g
      /\ u.expected_index = m + 1
      /\ u.expected_value = v
      /\ u.lock_state = IF e = m /\ w \in {EmptyValue, v} THEN t.lock_state ELSE "locked_rest"
  BY <1>1, CellCases, CheckCellType DEF Seen
<1>3. v # EmptyValue
  BY DEF Fault
<1>4. (\A i \in 0 .. m : d[<<g, i>>] # EmptyValue) /\ All(g, m + 1, m + 1, NoKey)
  BY <1>3 DEF Seen, All
<1>5. \A k \in Nat : All(g, k, m, v) => All(g, k, m + 1, v)
  BY DEF All
<1>6. All(g, m, m + 1, v) /\ All(g, m, m, NoKey) /\ All(g, 0, 0, v)
  BY DEF All
<1>7. EmptyValue \notin LockLike
  BY ValueAssumption
<1> HIDE DEF e, w, h
<1>8. CASE SeenUnlocked(g, t, m)
  <2>1. e = m /\ w \in {EmptyValue, v} /\ t.lock_state = "unlocked"
    BY <1>8 DEF SeenUnlocked, Fault, e, w
  <2>2. All(g, 0, m, v)
    BY <1>6, <1>8, <2>1 DEF SeenUnlocked, e, w, All
  <2>3. SeenUnlocked(g, u, m + 1)
    BY <1>1, <1>2, <1>3, <1>5, <1>8, <2>1, <2>2 DEF SeenUnlocked
  <2> QED  BY <1>2, <1>4, <2>3 DEF Seen
<1>9. CASE SeenHolder(g, t, m)
  <2>1. /\ h \in LockLike /\ t.lock_state = "locked_start" /\ w = h /\ All(g, 0, e, h)
        /\ All(g, e, m, NoKey)
    BY <1>9 DEF SeenHolder, Seen, e, w, h
  <2>2. CASE e = m /\ v = h
    <3>1. u.lock_state = "locked_start"
      BY <1>2, <2>1, <2>2
    <3>2. SeenHolder(g, u, m + 1)
      BY <1>2, <1>5, <2>1, <2>2, <3>1 DEF SeenHolder, h
    <3> QED  BY <1>2, <1>4, <3>2 DEF Seen
  <2>3. CASE ~ (e = m /\ v = h)
    <3>1. u.lock_state = "locked_rest"
      BY <1>2, <1>7, <2>1, <2>3
    <3>2. e = m => v # h
      BY <2>3
    <3>3. e \in 0 .. m + 1 /\ m \in 0 .. m + 1 /\ e <= m /\ m < m + 1
      BY <1>1
    <3>4. SeenRest(g, u, m + 1)
      BY <1>2, <1>3, <1>6, <2>1, <3>1, <3>2, <3>3 DEF SeenRest, h
    <3> QED  BY <1>2, <1>4, <3>4 DEF Seen
  <2> QED  BY <2>2, <2>3
<1>10. CASE SeenRest(g, t, m)
  <2>1. PICK k \in 0 .. m, n \in 0 .. m :
          /\ k <= n /\ n < e
          /\ All(g, 0, k, h)
          /\ All(g, k, n, NoKey)
          /\ All(g, n, e, w)
          /\ k = n => w # h
    BY <1>10 DEF SeenRest, e, w, h
  <2>2. h \in LockLike /\ t.lock_state = "locked_rest" /\ w # EmptyValue
    BY <1>10 DEF SeenRest, w, h
  <2>3. e = m /\ w = v
    BY <2>2 DEF Fault, e, w
  <2>4. k \in 0 .. m + 1 /\ n \in 0 .. m + 1 /\ n < m + 1
    BY <1>1
  <2>5. All(g, n, m + 1, v)
    BY <1>5, <2>1, <2>3
  <2>6. SeenRest(g, u, m + 1)
    BY <1>2, <1>3, <2>1, <2>2, <2>3, <2>4, <2>5 DEF SeenRest, h
  <2> QED  BY <1>2, <1>4, <2>6 DEF Seen
<1> QED  BY <1>8, <1>9, <1>10 DEF Seen

\* A cell that is there and with which the pass finds fault.
LEMMA FaultIsIllegal ==
    ASSUME d \in Database, NEW g \in Group, NEW t, NEW m \in 0 .. MaxLen - 1, Seen(g, t, m),
           NEW v \in Content, v = d[<<g, m>>], Fault(t, m, v)
    PROVE  ~ ToleratedGroup(g)
<1> USE GroupLocksAssumption
<1> SUFFICES ASSUME ToleratedGroup(g) PROVE FALSE
  OBVIOUS
<1> DEFINE e == t.expected_index
           w == t.expected_value
           h == d[<<g, LockIndex>>]
           at(i) == d[<<g, i>>]
<1>1. t \in State /\ e \in Nat /\ e <= m /\ m \in Nat /\ All(g, e, m, NoKey)
  BY DEF Seen, State
<1>2. /\ NoKey \notin Content /\ LockLike \subseteq Content /\ EmptyValue \in Content
      /\ EmptyValue \notin LockLike
  BY ValueAssumption DEF Content
<1>3. v # NoKey /\ at(m) = v
  BY <1>2
<1>4. v # EmptyValue
  BY CellSets DEF ToleratedGroup, LegalGroup
<1>5. \/ e < m /\ t.lock_state # "locked_start"
      \/ e = m /\ w \notin {EmptyValue, v} /\ t.lock_state # "locked_start"
  BY <1>1, <1>4 DEF Fault
<1>6. e < m => at(e) = NoKey
  BY <1>1 DEF All
<1> HIDE DEF e, w, h, at
<1>7. CASE SeenUnlocked(g, t, m)
  <2>1. h \in {NoKey, EmptyValue} /\ h \notin LockLike
    BY <1>2, <1>7 DEF SeenUnlocked, h
  <2>2. PICK x \in 0 .. MaxLen :
            /\ \A i \in 0 .. x - 1 : at(i) # NoKey
            /\ \A i, j \in 0 .. x - 1 : at(i) = at(j)
            /\ \A i \in x .. MaxLen - 1 : at(i) = NoKey
    <3>1. RunThenMissing(g, 0) /\ 0 \in 0 .. MaxLen
      BY <2>1 DEF ToleratedGroup, LegalGroup, UnlockedGroup, LockedGroup, h
    <3>2. PICK x \in 0 .. MaxLen : OneRun(g, 0, x) /\ All(g, x, MaxLen, NoKey)
      BY <3>1, RunThenMissingIs
    <3> QED  BY <3>2 DEF OneRun, All, at
  <2>3. m \in 0 .. x - 1
    BY <1>3, <2>2
  <2>4. e < m => FALSE
    BY <1>1, <1>6, <2>2, <2>3
  <2>5. e = m /\ e > 0 /\ at(0) = w /\ w # v
    BY <1>1, <1>5, <1>7, <2>4 DEF SeenUnlocked, All, e, w, at
  <2> QED  BY <1>3, <2>2, <2>3, <2>5
<1>8. CASE SeenHolder(g, t, m)
  BY <1>5, <1>8 DEF SeenHolder
<1>9. CASE SeenRest(g, t, m)
  <2>1. h \in LockLike /\ h # NoKey /\ h \notin {NoKey, EmptyValue} /\ w # EmptyValue
    BY <1>2, <1>9 DEF SeenRest, h, w
  <2>2. PICK k \in 0 .. m, n \in 0 .. m :
          /\ k <= n /\ n < e
          /\ \A i \in 0 .. k - 1 : at(i) = h
          /\ \A i \in k .. n - 1 : at(i) = NoKey
          /\ \A i \in n .. e - 1 : at(i) = w
          /\ k = n => w # h
    BY <1>9 DEF SeenRest, All, e, w, h, at
  <2>3. PICK p \in 0 .. MaxLen : \E q \in p .. MaxLen :
          /\ Cells(g, 0, p) \subseteq {h}
          /\ Missing(g, p, q)
          /\ RunThenMissing(g, q)
    BY <2>1 DEF ToleratedGroup, LegalGroup, UnlockedGroup, LockedGroup, h
  <2>4. PICK q \in p .. MaxLen :
          /\ Cells(g, 0, p) \subseteq {h}
          /\ Missing(g, p, q)
          /\ RunThenMissing(g, q)
    BY <2>3
  <2>5. /\ \A i \in 0 .. p - 1 : at(i) = h
        /\ \A i \in p .. q - 1 : at(i) = NoKey
    <3>1. 0 \in Int /\ p \in Int /\ q \in Int
      OBVIOUS
    <3>2. All(g, 0, p, h)
      BY <2>4, <3>1, CellSets
    <3>3. All(g, p, q, NoKey)
      BY <2>4, <3>1, CellSets
    <3> QED  BY <3>2, <3>3 DEF All, at
  <2>6. PICK x \in q .. MaxLen :
            /\ \A i \in q .. x - 1 : at(i) # NoKey
            /\ \A i, j \in q .. x - 1 : at(i) = at(j)
            /\ \A i \in x .. MaxLen - 1 : at(i) = NoKey
    <3>1. q \in 0 .. MaxLen
      OBVIOUS
    <3>2. PICK x \in q .. MaxLen : OneRun(g, q, x) /\ All(g, x, MaxLen, NoKey)
      BY <2>4, <3>1, RunThenMissingIs
    <3> QED  BY <3>2 DEF OneRun, All, at
  <2>7. at(e - 1) = w /\ e - 1 \in Nat /\ w # NoKey
    <3>1. w \in Content
      BY <1>1 DEF State, w
    <3> QED  BY <1>1, <1>2, <2>2, <3>1
  <2>8. m >= p
    <3> SUFFICES ASSUME m < p PROVE FALSE
      BY <1>1
    <3>1. at(m) = h /\ at(e - 1) = h /\ at(e) = h
      BY <1>1, <2>5, <2>7
    <3> QED  BY <1>1, <1>3, <1>5, <1>6, <2>1, <2>7, <3>1
  <2>9. m \in q .. x - 1
    BY <1>1, <1>3, <2>5, <2>6, <2>8
  <2>10. e - 1 < q
    <3> SUFFICES ASSUME e - 1 >= q PROVE FALSE
      BY <1>1
    <3>1. e - 1 \in q .. x - 1 /\ e \in q .. x - 1
      BY <1>1, <2>7, <2>9
    <3>2. at(e) # NoKey /\ at(e - 1) = at(m)
      BY <2>6, <2>9, <3>1
    <3> QED  BY <1>1, <1>3, <1>5, <1>6, <2>1, <2>7, <3>2
  <2>11. e - 1 < p
    BY <1>1, <2>5, <2>7, <2>10
  <2>12. \A i \in 0 .. e - 1 : at(i) = h
    BY <1>1, <2>5, <2>11
  <2>13. n \in 0 .. e - 1 /\ n \in n .. e - 1 /\ (k # n => k \in 0 .. e - 1 /\ k \in k .. n - 1)
    BY <1>1, <2>2
  <2> QED  BY <2>1, <2>2, <2>12, <2>13
<1> QED  BY <1>7, <1>8, <1>9 DEF Seen

\* What the pass has seen of a group by its last key is what the grammar
\* allows.
LEMMA SeenIsLegal ==
    ASSUME d \in Database, NEW g \in Group, NEW t, Seen(g, t, MaxLen)
    PROVE  ToleratedGroup(g)
<1> USE GroupLocksAssumption
<1> DEFINE e == t.expected_index
           w == t.expected_value
           h == d[<<g, LockIndex>>]
           at(i) == d[<<g, i>>]
<1>1. t \in State /\ e \in 0 .. MaxLen /\ w \in Content
  BY DEF Seen, State
<1>2. /\ NoKey \notin Content /\ LockLike \subseteq Content /\ EmptyValue \in Content
      /\ EmptyValue \notin LockLike
  BY ValueAssumption DEF Content
<1>3. 0 \in Int /\ MaxLen \in Int /\ e \in Int
  BY <1>1
<1>4. EmptyValue \notin Cells(g, 0, MaxLen) /\ d[<<g, OtherIndex>>] = NoKey
  BY <1>3, CellSets DEF Seen
<1>5. \A i \in e .. MaxLen - 1 : at(i) = NoKey
  BY DEF Seen, All
<1>6. \A n \in 0 .. e : (\A i \in n .. e - 1 : at(i) = w) => RunThenMissing(g, n)
  <2> SUFFICES ASSUME NEW n \in 0 .. e, \A i \in n .. e - 1 : at(i) = w
               PROVE  RunThenMissing(g, n)
    OBVIOUS
  <2>1. w # NoKey
    BY <1>1, <1>2
  <2>2. n \in 0 .. MaxLen /\ e \in n .. MaxLen
    BY <1>1
  <2> QED  BY <1>5, <2>1, <2>2, RunThenMissingIs DEF OneRun, All
<1> HIDE DEF e, w, h
<1>7. CASE SeenUnlocked(g, t, MaxLen)
  <2>1. h \in {NoKey, EmptyValue} /\ \A i \in 0 .. e - 1 : at(i) = w
    BY <1>7 DEF SeenUnlocked, All, e, w, h
  <2>2. 0 \in 0 .. e
    BY <1>1
  <2>3. RunThenMissing(g, 0)
    BY <1>6, <2>1, <2>2
  <2> QED  BY <1>4, <2>1, <2>3 DEF ToleratedGroup, LegalGroup, UnlockedGroup, h
<1>8. CASE SeenHolder(g, t, MaxLen)
  <2>1. h \in LockLike /\ All(g, 0, e, h) /\ All(g, e, MaxLen, NoKey)
    BY <1>5, <1>8 DEF SeenHolder, All, e, w, h
  <2>2. Cells(g, 0, e) \subseteq {h} /\ Missing(g, e, MaxLen)
    BY <1>3, <2>1, CellSets
  <2>3. RunThenMissing(g, MaxLen)
    <3>1. MaxLen \in 0 .. MaxLen /\ MaxLen \in MaxLen .. MaxLen
      OBVIOUS
    <3> QED  BY <3>1, RunThenMissingIs DEF OneRun, All
  <2>4. MaxLen \in e .. MaxLen
    BY <1>1
  <2>5. LockedGroup(g, LockLike)
    BY <1>1, <2>1, <2>2, <2>3, <2>4 DEF LockedGroup, h
  <2> QED  BY <1>4, <2>5 DEF ToleratedGroup, LegalGroup
<1>9. CASE SeenRest(g, t, MaxLen)
  <2>1. PICK k \in 0 .. MaxLen, n \in 0 .. MaxLen :
          /\ k <= n /\ n < e
          /\ All(g, 0, k, h)
          /\ All(g, k, n, NoKey)
          /\ All(g, n, e, w)
    BY <1>9 DEF SeenRest, e, w, h
  <2>2. k \in Int /\ n \in Int /\ n \in 0 .. e /\ n \in k .. MaxLen
    BY <1>1, <2>1
  <2>3. Cells(g, 0, k) \subseteq {h} /\ Missing(g, k, n)
    BY <1>3, <2>1, <2>2, CellSets
  <2>4. RunThenMissing(g, n)
    BY <1>6, <2>1, <2>2 DEF All
  <2>5. LockedGroup(g, LockLike)
    BY <1>9, <2>2, <2>3, <2>4 DEF LockedGroup, SeenRest, h
  <2> QED  BY <1>4, <2>5 DEF ToleratedGroup, LegalGroup
<1> QED  BY <1>7, <1>8, <1>9 DEF Seen

\* What the pass knows after n keys of group g, which it entered in state s.
AfterKeys(g, s, t, n) ==
    IF t.bad THEN ~ ToleratedGroup(g)
    ELSE /\ t \in State
         /\ t # s => t.last_group = g
         /\ n < 2 => t = s
         /\ n > 0 => d[<<g, OtherIndex>>] = NoKey
         /\ n > 1 => Seen(g, Entering(t, g), n - 2)

\* A group that is new to the pass is entered in its own first state.
Fresh(s, g) == s \in State /\ ~ s.bad /\ Entering(s, g) = NextGroup(g)

\* The lock.
LEMMA AfterLock ==
    ASSUME d \in Database, NEW g \in Group, NEW s, Fresh(s, g),
           NEW v, v = d[<<g, LockIndex>>], d[<<g, OtherIndex>>] = NoKey,
           NEW u, u = CheckKey(s, <<g, LockIndex>>, v)
    PROVE  AfterKeys(g, s, u, 2)
<1> DEFINE t == NextGroup(g)
<1>1. /\ t \in State /\ ~ t.bad /\ t.last_group = g /\ t.lock_state = "unlocked"
      /\ t.expected_index = 0 /\ t.expected_value = EmptyValue
  BY NextGroupType, ValueAssumption DEF NextGroup
<1>2. s \in State /\ ~ s.bad /\ Entering(s, g) = t
  BY DEF Fresh
<1>3. LockIndex \in OtherIndex .. MaxLen - 1
  BY GroupLocksAssumption DEF LockIndex, OtherIndex
<1>4. v \in Contents
  BY <1>3 DEF Database, Key
<1>5. NoKey \notin Content /\ LockLike \subseteq Content /\ EmptyValue \in Content
      /\ EmptyValue \notin LockLike
  BY ValueAssumption, GroupLocksAssumption DEF Content
<1>5a. u = IF v = NoKey THEN s ELSE CheckLock(t, v)
  BY <1>2 DEF CheckKey, Entering, LockIndex, OtherIndex
<1> HIDE DEF t
<1>6. \A x, n : All(g, 0, 0, x)
  BY DEF All
<1>7. CASE v = NoKey
  <2>1. u = s
    BY <1>7, <1>5a
  <2>2. SeenUnlocked(g, t, 0)
    BY <1>1, <1>6, <1>7 DEF SeenUnlocked
  <2>3. Seen(g, t, 0)
    BY <1>1, <1>6, <2>2 DEF Seen
  <2> QED  BY <1>2, <2>1, <2>3 DEF AfterKeys
<1>8. CASE v = EmptyValue
  <2>1. u = t
    BY <1>1, <1>5, <1>8, <1>5a, ValueAssumption DEF CheckLock
  <2>2. SeenUnlocked(g, t, 0)
    BY <1>1, <1>6, <1>8 DEF SeenUnlocked
  <2>3. Seen(g, t, 0) /\ Entering(t, g) = t
    BY <1>1, <1>6, <2>2 DEF Seen, Entering
  <2> QED  BY <1>1, <2>1, <2>3 DEF AfterKeys
<1>9. CASE v \in LockLike
  <2>1. u = [t EXCEPT !.lock_state = "locked_start", !.expected_value = v]
    BY <1>1, <1>5, <1>9, <1>5a, ValueAssumption DEF CheckLock
  <2>2. /\ u \in State /\ ~ u.bad /\ u.last_group = g /\ u.lock_state = "locked_start"
        /\ u.expected_index = 0 /\ u.expected_value = v
    BY <1>1, <1>5, <1>9, <2>1 DEF State
  <2>3. SeenHolder(g, u, 0)
    BY <1>6, <1>9, <2>2 DEF SeenHolder
  <2>4. Seen(g, u, 0) /\ Entering(u, g) = u
    BY <1>6, <2>2, <2>3 DEF Seen, Entering
  <2> QED  BY <2>2, <2>4 DEF AfterKeys
<1>10. CASE v \notin LockLike \union {NoKey, EmptyValue}
  <2>1. u = Bad(t)
    BY <1>1, <1>10, <1>5a, ValueAssumption DEF CheckLock
  <2>2. u.bad
    BY <1>1, <2>1, BadState
  <2>3. ~ ToleratedGroup(g)
    BY <1>10 DEF ToleratedGroup, LegalGroup, UnlockedGroup, LockedGroup
  <2> QED  BY <2>2, <2>3 DEF AfterKeys
<1> QED  BY <1>7, <1>8, <1>9, <1>10

\* A value key.
LEMMA AfterCell ==
    ASSUME d \in Database, NEW g \in Group, NEW s, NEW m \in 0 .. MaxLen - 1,
           NEW t, AfterKeys(g, s, t, m + 2),
           NEW u, u = CheckKey(t, <<g, m>>, d[<<g, m>>])
    PROVE  AfterKeys(g, s, u, m + 3)
<1> USE GroupLocksAssumption
<1> DEFINE v == d[<<g, m>>]
           x == Entering(t, g)
<1>1. m \in OtherIndex .. MaxLen - 1 /\ m >= 0 /\ m \in Nat
  BY DEF OtherIndex
<1>2. v \in Contents
  BY <1>1 DEF Database, Key
<1>3. u = IF t.bad \/ v = NoKey THEN t ELSE CheckCell(x, m, v)
  BY <1>1, KeyCases
<1>4. m + 2 > 1 /\ m + 2 > 0 /\ m + 2 - 2 = m /\ m + 3 - 2 = m + 1 /\ ~ (m + 3 < 2) /\ ~ (m + 2 < 2)
  BY <1>1
<1>5. CASE t.bad
  BY <1>3, <1>5 DEF AfterKeys
<1>6. CASE ~ t.bad
  <2>1. /\ t \in State
        /\ t # s => t.last_group = g
        /\ d[<<g, OtherIndex>>] = NoKey
        /\ Seen(g, x, m)
    BY <1>4, <1>6 DEF AfterKeys
  <2>2. CASE v = NoKey
    <3>1. Seen(g, x, m + 1)
      BY <2>1, <2>2, SeenMissing
    <3> QED  BY <1>3, <1>4, <1>6, <2>1, <2>2, <3>1 DEF AfterKeys
  <2>3. CASE v # NoKey /\ Fault(x, m, v)
    <3>1. v \in Content
      BY <1>2, <2>3 DEF Contents
    <3>2. ~ ToleratedGroup(g)
      BY <2>1, <2>3, <3>1, FaultIsIllegal
    <3>3. x \in State /\ ~ x.bad /\ x.expected_index <= m
      BY <2>1 DEF Seen
    <3>4. u = CheckCell(x, m, v)
      BY <1>3, <1>6, <2>3
    <3> HIDE DEF x, v
    <3>5. u.bad
      BY <1>1, <2>3, <3>1, <3>3, <3>4, CellCases
    <3> QED  BY <3>2, <3>5 DEF AfterKeys
  <2>4. CASE v # NoKey /\ ~ Fault(x, m, v)
    <3>1. v \in Content
      BY <1>2, <2>4 DEF Contents
    <3>2. u = CheckCell(x, m, v)
      BY <1>3, <1>6, <2>4
    <3> HIDE DEF x
    <3>3. Seen(g, u, m + 1)
      BY <2>1, <2>4, <3>1, <3>2, SeenCell
    <3>4. u \in State /\ ~ u.bad /\ u.last_group = g /\ Entering(u, g) = u
      BY <3>3 DEF Seen, Entering
    <3> QED  BY <1>4, <2>1, <3>3, <3>4 DEF AfterKeys
  <2> QED  BY <2>2, <2>3, <2>4
<1> QED  BY <1>5, <1>6

\* The pass over a group finds a bad key exactly if the group is not legal.
LEMMA GroupChecked ==
    ASSUME d \in Database, NEW g \in Group, NEW s, Fresh(s, g),
           NEW t, t = CheckGroup(d, s, g, MaxLen)
    PROVE  /\ t \in State
           /\ t.bad <=> ~ ToleratedGroup(g)
           /\ ~ t.bad /\ t # s => t.last_group = g
<1> USE GroupLocksAssumption
<1> DEFINE N == MaxLen + 2
<1>1. s \in State /\ ~ s.bad
  BY DEF Fresh
<1>2. PICK f \in [0 .. MaxLen + 2 -> State] :
          /\ f[0] = s
          /\ \A n \in 1 .. MaxLen + 2 :
                f[n] = CheckKey(f[n - 1], <<g, n - 1 + OtherIndex>>, d[<<g, n - 1 + OtherIndex>>])
          /\ t = f[MaxLen + 2]
  BY <1>1, GroupPass
<1> DEFINE T == {n \in 0 .. N : AfterKeys(g, s, f[n], n)}
<1>3. 0 \in T
  <2>1. AfterKeys(g, s, f[0], 0)
    BY <1>1, <1>2 DEF AfterKeys
  <2> QED  BY <2>1
<1>4. ASSUME NEW n \in 0 .. N - 1, n \in T
      PROVE  n + 1 \in T
  <2>1. n + 1 \in 0 .. N /\ n + 1 \in 1 .. N /\ n + 1 - 1 = n /\ n \in 0 .. N /\ n \in Int
    OBVIOUS
  <2>2. f[n + 1] = CheckKey(f[n], <<g, n + OtherIndex>>, d[<<g, n + OtherIndex>>])
    BY <1>2, <2>1
  <2>3. AfterKeys(g, s, f[n], n)
    BY <1>4
  <2>4. CASE n = 0
    <3>1. f[1] = CheckKey(s, <<g, OtherIndex>>, d[<<g, OtherIndex>>])
      BY <1>2, <2>2, <2>4 DEF OtherIndex
    <3>2. CASE d[<<g, OtherIndex>>] = NoKey
      <4>1. f[1] = s
        BY <3>1, <3>2 DEF CheckKey
      <4>2. AfterKeys(g, s, f[1], 1)
        BY <1>1, <3>2, <4>1 DEF AfterKeys
      <4> QED  BY <2>1, <2>4, <4>2
    <3>3. CASE d[<<g, OtherIndex>>] # NoKey
      <4>1. f[1] = Bad(Entering(s, g))
        BY <1>1, <3>1, <3>3 DEF CheckKey, Entering, OtherIndex, LockIndex
      <4>2. Entering(s, g) \in State
        BY NextGroupType DEF Fresh
      <4>3. f[1].bad
        BY <4>1, <4>2, BadState
      <4>4. AfterKeys(g, s, f[1], 1)
        BY <3>3, <4>3 DEF AfterKeys, ToleratedGroup, LegalGroup
      <4> QED  BY <2>1, <2>4, <4>4
    <3> QED  BY <3>2, <3>3
  <2>5. CASE n = 1
    <3>1. f[2] = CheckKey(f[1], <<g, LockIndex>>, d[<<g, LockIndex>>])
      BY <2>2, <2>5 DEF OtherIndex, LockIndex
    <3>2. CASE f[1].bad
      <4>1. f[2] = f[1]
        BY <3>1, <3>2 DEF CheckKey
      <4>2. AfterKeys(g, s, f[2], 2)
        BY <2>3, <2>5, <3>2, <4>1 DEF AfterKeys
      <4> QED  BY <2>1, <2>5, <4>2
    <3>3. CASE ~ f[1].bad
      <4>1. f[1] = s /\ d[<<g, OtherIndex>>] = NoKey
        BY <2>3, <2>5, <3>3 DEF AfterKeys
      <4>2. AfterKeys(g, s, f[2], 2)
        BY <3>1, <4>1, AfterLock
      <4> QED  BY <2>1, <2>5, <4>2
    <3> QED  BY <3>2, <3>3
  <2>6. CASE n > 1
    <3> DEFINE m == n - 2
    <3>1. m \in 0 .. MaxLen - 1 /\ m + 2 = n /\ m + 3 = n + 1 /\ n + OtherIndex = m
      BY <2>6 DEF OtherIndex
    <3>2. AfterKeys(g, s, f[n], m + 2) /\ f[n + 1] = CheckKey(f[n], <<g, m>>, d[<<g, m>>])
      BY <2>2, <2>3, <3>1
    <3> HIDE DEF m
    <3>3. AfterKeys(g, s, f[n + 1], m + 3)
      BY <3>1, <3>2, AfterCell
    <3> QED  BY <2>1, <3>1, <3>3
  <2> QED  BY <2>4, <2>5, <2>6
<1>5. AfterKeys(g, s, t, MaxLen + 2)
  <2> HIDE DEF T
  <2>1. N \in Nat
    OBVIOUS
  <2> HIDE DEF N
  <2>2. \A n \in 0 .. N : n \in T
    BY <1>3, <1>4, <2>1, CountingUp
  <2>3. N \in 0 .. N
    BY <2>1
  <2> QED  BY <1>2, <2>2, <2>3 DEF N, T
<1>6. t \in State
  BY <1>2
<1>7. CASE t.bad
  BY <1>5, <1>6, <1>7 DEF AfterKeys
<1>8. CASE ~ t.bad
  <2>1. /\ t # s => t.last_group = g
        /\ Seen(g, Entering(t, g), MaxLen)
    BY <1>5, <1>8 DEF AfterKeys
  <2>2. ToleratedGroup(g)
    BY <2>1, SeenIsLegal
  <2> QED  BY <1>6, <1>8, <2>1, <2>2
<1> QED  BY <1>7, <1>8

\* The pass over all groups as the sequence of its states.
LEMMA AllPass ==
    ASSUME d \in Database, NEW groups \in Seq(Group),
           \A s \in State, g \in Group : CheckGroup(d, s, g, MaxLen) \in State
    PROVE  \E f \in [0 .. Len(groups) -> State] :
              /\ f[0] = NextGroup(NoKey)
              /\ \A n \in 1 .. Len(groups) :
                    f[n] = CheckGroup(d, f[n - 1], groups[n], MaxLen)
              /\ CheckGroups(d, groups, MaxLen) = f[Len(groups)]
<1> DEFINE N == Len(groups)
           s0 == NextGroup(NoKey)
           next(x, n) == CheckGroup(d, x, groups[n], MaxLen)
           step == [x \in State \X (1 .. N) |-> next(x[1], x[2])]
           Pass(h) == h = [n \in 0 .. N |-> IF n = 0 THEN s0 ELSE next(h[n - 1], n)]
           scan == CHOOSE h : Pass(h)
<1>1. N \in Nat
  OBVIOUS
<1>2. ASSUME NEW x \in State, NEW n \in 1 .. N
      PROVE  next(x, n) \in State
  <2>1. groups[n] \in Group
    OBVIOUS
  <2> QED  BY <2>1
<1>3. CheckGroups(d, groups, MaxLen) = scan[N]
  BY DEF CheckGroups
<1>4. s0 \in State
  BY NextGroupType
<1> HIDE DEF N, next, s0
<1>5. step \in Steps(N, State)
  BY <1>2 DEF Steps
<1>6. PICK f : IsLoop(f, N, State, s0, step)
  <2> HIDE DEF step
  <2> QED  BY <1>1, <1>4, <1>5, LoopExists
<1>7. \A n \in 1 .. N : step[<<f[n - 1], n>>] = next(f[n - 1], n)
  <2> SUFFICES ASSUME NEW n \in 1 .. N
               PROVE  step[<<f[n - 1], n>>] = next(f[n - 1], n)
    OBVIOUS
  <2>1. n - 1 \in 0 .. N
    BY <1>1
  <2>2. f[n - 1] \in State
    BY <1>6, <2>1 DEF IsLoop
  <2>3. <<f[n - 1], n>> \in State \X (1 .. N)
    BY <2>2
  <2> QED  BY <2>3
<1>8. Pass(f)
  <2> HIDE DEF step
  <2>1. \A n \in 0 .. N : n # 0 => n \in 1 .. N
    BY <1>1
  <2>2. \A n \in 0 .. N : f[n] = IF n = 0 THEN s0 ELSE next(f[n - 1], n)
    BY <1>6, <1>7, <2>1 DEF IsLoop
  <2>3. f \in [0 .. N -> State]
    BY <1>6 DEF IsLoop
  <2> QED  BY <2>2, <2>3
<1>9. Pass(scan)
  <2> HIDE DEF Pass
  <2> QED  BY <1>8
<1> HIDE DEF scan
<1>10. /\ scan[0] = s0
       /\ \A n \in 1 .. N : scan[n] = next(scan[n - 1], n)
  <2>1. 0 \in 0 .. N /\ \A n \in 1 .. N : n \in 0 .. N /\ n # 0
    BY <1>1
  <2> QED  BY <1>9, <2>1
<1>11. scan \in [0 .. N -> State]
  <2> DEFINE T == {n \in 0 .. N : scan[n] \in State}
  <2>1. 0 \in T
    BY <1>1, <1>4, <1>10
  <2>2. ASSUME NEW n \in 0 .. N - 1, n \in T
        PROVE  n + 1 \in T
    <3>1. n + 1 \in 1 .. N /\ n + 1 \in 0 .. N /\ n + 1 - 1 = n
      BY <1>1
    <3>2. scan[n + 1] = next(scan[n], n + 1)
      BY <1>10, <3>1
    <3>3. next(scan[n], n + 1) \in State
      BY <1>2, <2>2, <3>1
    <3> QED  BY <3>1, <3>2, <3>3
  <2> HIDE DEF T
  <2>3. \A n \in 0 .. N : n \in T
    BY <1>1, <2>1, <2>2, CountingUp
  <2> USE DEF T
  <2>4. \A n \in 0 .. N : scan[n] \in State
    BY <2>3
  <2> QED  BY <1>9, <2>4
<1>12. PICK h \in [0 .. N -> State] : h = scan
  BY <1>11
<1> QED  BY <1>3, <1>10, <1>12 DEF N, next, s0

\* The first bad key ends the pass.
LEMMA BadForEver ==
    ASSUME d \in Database, NEW g \in Group, NEW s \in State, s.bad
    PROVE  CheckGroup(d, s, g, MaxLen).bad
<1> DEFINE N == MaxLen + 2
<1>1. PICK f \in [0 .. MaxLen + 2 -> State] :
          /\ f[0] = s
          /\ \A n \in 1 .. MaxLen + 2 :
                f[n] = CheckKey(f[n - 1], <<g, n - 1 + OtherIndex>>, d[<<g, n - 1 + OtherIndex>>])
          /\ CheckGroup(d, s, g, MaxLen) = f[MaxLen + 2]
  BY GroupPass
<1> DEFINE T == {n \in 0 .. N : f[n].bad}
<1>2. N \in Nat /\ 0 \in T
  BY <1>1, GroupLocksAssumption
<1>3. ASSUME NEW n \in 0 .. N - 1, n \in T
      PROVE  n + 1 \in T
  <2>1. n + 1 \in 0 .. N /\ n + 1 \in 1 .. N /\ n + 1 - 1 = n /\ f[n].bad
    BY <1>2, <1>3
  <2>2. f[n + 1] = CheckKey(f[n], <<g, n + OtherIndex>>, d[<<g, n + OtherIndex>>])
    BY <1>1, <2>1
  <2>3. f[n + 1] = f[n]
    BY <2>1, <2>2 DEF CheckKey
  <2> QED  BY <2>1, <2>3
<1> HIDE DEF T, N
<1>4. \A n \in 0 .. N : n \in T
  BY <1>2, <1>3, CountingUp
<1>5. N \in 0 .. N
  BY <1>2
<1> QED  BY <1>1, <1>4, <1>5 DEF T, N

\* What the pass knows after n groups.
AfterGroups(groups, t, n) ==
    IF t.bad THEN \E i \in 1 .. n : ~ ToleratedGroup(groups[i])
    ELSE /\ t \in State
         /\ t = NextGroup(NoKey) \/ \E i \in 1 .. n : t.last_group = groups[i]
         /\ \A i \in 1 .. n : ToleratedGroup(groups[i])

\* check accepts a database whose groups come in some order, each once,
\* exactly if all of them are legal.
LEMMA AcceptsLegal ==
    ASSUME d \in Database, NEW groups \in Seq(Group),
           \A i, j \in 1 .. Len(groups) : groups[i] = groups[j] => i = j
    PROVE  Accepts(d, groups, MaxLen) <=> \A i \in 1 .. Len(groups) : ToleratedGroup(groups[i])
<1> DEFINE N == Len(groups)
<1>1. \A s \in State, g \in Group : CheckGroup(d, s, g, MaxLen) \in State
  <2> SUFFICES ASSUME NEW s \in State, NEW g \in Group
               PROVE  CheckGroup(d, s, g, MaxLen) \in State
    OBVIOUS
  <2>1. PICK f \in [0 .. MaxLen + 2 -> State] : CheckGroup(d, s, g, MaxLen) = f[MaxLen + 2]
    BY GroupPass
  <2>2. MaxLen + 2 \in 0 .. MaxLen + 2
    BY GroupLocksAssumption
  <2> QED  BY <2>1, <2>2
<1>2. PICK f \in [0 .. Len(groups) -> State] :
          /\ f[0] = NextGroup(NoKey)
          /\ \A n \in 1 .. Len(groups) :
                f[n] = CheckGroup(d, f[n - 1], groups[n], MaxLen)
          /\ CheckGroups(d, groups, MaxLen) = f[Len(groups)]
  BY <1>1, AllPass
<1> DEFINE T == {n \in 0 .. N : AfterGroups(groups, f[n], n)}
<1>3. N \in Nat /\ \A n \in 1 .. N : groups[n] \in Group
  OBVIOUS
<1>4. 0 \in T
  <2>1. f[0] \in State /\ ~ f[0].bad
    BY <1>2, NextGroupType DEF NextGroup
  <2>2. AfterGroups(groups, f[0], 0)
    BY <1>2, <2>1 DEF AfterGroups
  <2> QED  BY <1>3, <2>2
<1>5. ASSUME NEW n \in 0 .. N - 1, n \in T
      PROVE  n + 1 \in T
  <2> DEFINE s == f[n]
             t == f[n + 1]
             g == groups[n + 1]
  <2>1. n + 1 \in 0 .. N /\ n + 1 \in 1 .. N /\ n + 1 - 1 = n /\ n \in 0 .. N /\ n \in Nat
    BY <1>3
  <2>2. t = CheckGroup(d, s, g, MaxLen) /\ g \in Group /\ s \in State /\ t \in State
    BY <1>2, <1>3, <2>1
  <2>3. AfterGroups(groups, s, n)
    BY <1>5
  <2>4. \A i \in 1 .. n : i \in 1 .. N /\ i \in 1 .. n + 1 /\ groups[i] # g
    BY <1>3, <2>1
  <2>5. \A i \in 1 .. n + 1 : i \in 1 .. n \/ i = n + 1
    BY <2>1
  <2> HIDE DEF s, t, g
  <2>6. CASE s.bad
    <3>1. t.bad
      BY <2>2, <2>6, BadForEver
    <3> QED  BY <2>1, <2>3, <2>4, <2>6, <3>1 DEF AfterGroups, t
  <2>7. CASE ~ s.bad
    <3>1. /\ s = NextGroup(NoKey) \/ \E i \in 1 .. n : s.last_group = groups[i]
          /\ \A i \in 1 .. n : ToleratedGroup(groups[i])
      BY <2>3, <2>7 DEF AfterGroups
    <3>2. Entering(s, g) = NextGroup(g)
      <4>1. CASE s = NextGroup(NoKey)
        BY <4>1 DEF Entering, NextGroup
      <4>2. CASE \E i \in 1 .. n : s.last_group = groups[i]
        BY <2>4, <4>2 DEF Entering
      <4> QED  BY <3>1, <4>1, <4>2
    <3>3. /\ t.bad <=> ~ ToleratedGroup(g)
          /\ ~ t.bad /\ t # s => t.last_group = g
      BY <2>2, <2>7, <3>2, GroupChecked DEF Fresh
    <3>4. CASE t.bad
      BY <2>1, <3>3, <3>4 DEF AfterGroups, t, g
    <3>5. CASE ~ t.bad
      <4>1. \A i \in 1 .. n + 1 : ToleratedGroup(groups[i])
        BY <2>5, <3>1, <3>3, <3>5 DEF g
      <4>2. t = NextGroup(NoKey) \/ \E i \in 1 .. n + 1 : t.last_group = groups[i]
        BY <2>1, <2>4, <3>1, <3>3, <3>5 DEF g
      <4> QED  BY <2>1, <2>2, <3>5, <4>1, <4>2 DEF AfterGroups, t
    <3> QED  BY <3>4, <3>5
  <2> QED  BY <2>6, <2>7
<1>6. AfterGroups(groups, f[N], N)
  <2> HIDE DEF T, N
  <2>1. \A n \in 0 .. N : n \in T
    BY <1>3, <1>4, <1>5, CountingUp
  <2>2. N \in 0 .. N
    BY <1>3
  <2> QED  BY <2>1, <2>2 DEF T
<1> QED  BY <1>2, <1>6 DEF Accepts, AfterGroups

\* The groups of a finite set in some order, each once.
LEMMA GroupsInOrder ==
    /\ Groups \in Seq(Group)
    /\ \A i, j \in 1 .. Len(Groups) : Groups[i] = Groups[j] => i = j
    /\ \A g \in Group : \E i \in 1 .. Len(Groups) : g = Groups[i]
<1> DEFINE n == Cardinality(Group)
           Order(f) == f \in [1 .. n -> Group] /\ IsInjective(f)
<1>1. IsFiniteSet(Group)
  BY ValueAssumption
<1>2. n \in Nat /\ ExistsBijection(1 .. n, Group)
  BY <1>1, FS_CardinalityType
<1>3. Groups = CHOOSE f \in [1 .. n -> Group] : IsInjective(f)
  BY DEF Groups, SetToSeq
<1> HIDE DEF n
<1>4. \E f \in [1 .. n -> Group] : IsInjective(f)
  BY <1>2 DEF ExistsBijection, Bijection, Injection
<1>5. Groups \in [1 .. n -> Group] /\ IsInjective(Groups)
  BY <1>3, <1>4
<1>6. Groups \in Seq(Group) /\ Len(Groups) = n /\ DOMAIN Groups = 1 .. n
  BY <1>2, <1>5
<1>7. \A i, j \in 1 .. n : Groups[i] = Groups[j] => i = j
  BY <1>5 DEF IsInjective
<1>8. Groups \in Surjection(1 .. n, Group)
  <2>1. Groups \in Injection(1 .. n, Group)
    BY <1>5 DEF Injection
  <2>2. Cardinality(1 .. n) = n
    <3>1. 1 \in Int /\ n \in Int /\ (1 > n => n = 0) /\ n - 1 + 1 = n
      BY <1>2
    <3> QED  BY <3>1, FS_Interval
  <2> QED  BY <1>1, <2>1, <2>2, FS_Injection DEF n
<1> QED  BY <1>6, <1>7, <1>8 DEF Surjection

\* check decides the grammar of its comment, loosened for the lock.
LEMMA CheckDecides ==
    ASSUME d \in Database PROVE CheckIsLooseGrammar
<1>1. Accepts(d, Groups, MaxLen) <=> \A i \in 1 .. Len(Groups) : ToleratedGroup(Groups[i])
  BY GroupsInOrder, AcceptsLegal
<1>2. \A i \in 1 .. Len(Groups) : Groups[i] \in Group
  BY GroupsInOrder
<1>3. Accepts(d, Groups, MaxLen) <=> Tolerated
  BY <1>1, <1>2, GroupsInOrder DEF Tolerated
<1>4. ASSUME NEW g \in Group, DocumentedGroup(g)
      PROVE  ToleratedGroup(g)
  BY <1>4, ValueAssumption
     DEF DocumentedGroup, ToleratedGroup, LegalGroup, UnlockedGroup, LockedGroup
<1>5. Documented => Tolerated
  BY <1>4 DEF Documented, Tolerated
<1> QED  BY <1>3, <1>5 DEF CheckIsLooseGrammar

MInv == TypeOK /\ d \in Database

LEMMA PictureType ==
    ASSUME NEW l \in [Group -> AnyValue], NEW r \in [Group -> [Index -> AnyValue]]
    PROVE  Picture(l, r) \in Database
<1> DEFINE v(k) == CASE k[2] = OtherIndex -> EmptyValue
                      [] k[2] = LockIndex  -> l[k[1]]
                      [] k[2] >= 0         -> r[k[1]][k[2]]
<1>1. AnyValue \subseteq Contents /\ NoKey \in Contents /\ EmptyValue \in AnyValue
  BY ValueAssumption DEF AnyValue, Contents, Content
<1>2. ASSUME NEW k \in Key
      PROVE  v(k) \in AnyValue
  <2>1. k[1] \in Group /\ k[2] \in OtherIndex .. MaxLen - 1
    BY DEF Key
  <2>2. \/ k[2] = OtherIndex /\ k[2] # LockIndex /\ ~ (k[2] >= 0)
        \/ k[2] = LockIndex /\ k[2] # OtherIndex /\ ~ (k[2] >= 0) /\ l[k[1]] \in AnyValue
        \/ k[2] >= 0 /\ k[2] # LockIndex /\ k[2] # OtherIndex /\ r[k[1]][k[2]] \in AnyValue
    BY <2>1, GroupLocksAssumption DEF OtherIndex, LockIndex, Index
  <2> QED  BY <1>1, <2>2
<1>3. Picture(l, r) = [k \in Key |-> IF v(k) = EmptyValue THEN NoKey ELSE v(k)]
  BY DEF Picture
<1> HIDE DEF v
<1> QED  BY <1>1, <1>2, <1>3 DEF Database

\* A step of the protocol leaves locks locks and rows rows.
LEMMA NextType ==
    ASSUME TypeOK, Next PROVE TypeOK'
<1>1. PICK g \in Group :
          \/ Acquire(g) \/ Release(g)
          \/ \E i \in Index : Write(g, i) \/ Clear(g, i)
  BY DEF Next
<1>2. lock[g] \in AnyValue
  BY DEF TypeOK
<1>3. CASE Acquire(g)
  BY <1>3 DEF Acquire, TypeOK, AnyValue
<1>4. CASE Release(g)
  BY <1>4 DEF Release, TypeOK, AnyValue
<1>5. ASSUME NEW i \in Index, NEW v \in AnyValue,
             row' = [row EXCEPT ![g][i] = v], UNCHANGED lock
      PROVE  TypeOK'
  BY <1>5 DEF TypeOK
<1>6. CASE \E i \in Index : Write(g, i)
  BY <1>2, <1>5, <1>6 DEF Write
<1>7. CASE \E i \in Index : Clear(g, i)
  <2>1. EmptyValue \in AnyValue
    BY DEF AnyValue
  <2> QED  BY <1>5, <1>7, <2>1 DEF Clear
<1> QED  BY <1>1, <1>3, <1>4, <1>6, <1>7

LEMMA MCType == MCSpec => []MInv
<1>1. MCInit => MInv
  <2> SUFFICES ASSUME MCInit PROVE MInv
    OBVIOUS
  <2>1. TypeOK
    BY InitIInv DEF MCInit, IInv
  <2> QED  BY <2>1, PictureType DEF MCInit, MInv, TypeOK
<1>2. MInv /\ [Honest \/ Faulty]_<<vars, d>> => MInv'
  <2> SUFFICES ASSUME MInv, [Honest \/ Faulty]_<<vars, d>> PROVE MInv'
    OBVIOUS
  <2>1. CASE Honest
    <3>1. TypeOK'
      BY <2>1, NextType DEF Honest, MInv
    <3> QED  BY <2>1, <3>1, PictureType DEF Honest, MInv, TypeOK
  <2>2. CASE Faulty
    <3>1. TypeOK'
      BY <2>2 DEF Faulty, TypeOK, AnyValue
    <3>2. PICK k \in Key, v \in Contents : d' = [d EXCEPT ![k] = v]
      BY <2>2 DEF Faulty, Kept, Contents
    <3> QED  BY <3>1, <3>2 DEF MInv, Database
  <2>3. CASE UNCHANGED <<vars, d>>
    BY <2>3 DEF MInv, TypeOK, Database, vars
  <2> QED  BY <2>1, <2>2, <2>3
<1> QED  BY <1>1, <1>2, PTL DEF MCSpec

\* Whatever keys a service, honest or faulty, has in its database,
\* lockseq_model::check returns nullopt if every group is within the grammar
\* of its comment (lockseq_model.cc:226-242), and beyond that only if an
\* empty lock or one that only looks like a client's (282-286) is what puts
\* a group outside it.
THEOREM CheckDecidesLooseGrammar == MCSpec => []CheckIsLooseGrammar
<1>1. MInv => CheckIsLooseGrammar
  BY CheckDecides DEF MInv
<1> QED  BY <1>1, MCType, PTL

=============================================================================
