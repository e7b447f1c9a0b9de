----------------------------- MODULE GroupLocks -----------------------------
(***************************************************************************)
(* What the lockseq protocol promises about the database, without clients, *)
(* messages or versions.  A group is a lock and a row of value cells.      *)
(* Whoever takes the lock writes its own value over the row from the       *)
(* front, removes the run of an earlier holder that its own did not cover, *)
(* and lets go only when the row is one unbroken run of its value.         *)
(***************************************************************************)
EXTENDS Integers

CONSTANTS Group, Value, EmptyValue, MaxLen

ASSUME GroupLocksAssumption ==
    /\ MaxLen \in Nat
    /\ EmptyValue \notin Value

VARIABLES
    lock,   \* lock[g]: the lock value, EmptyValue when the group is unlocked
    row     \* row[g][i]: the value at `g{G}/v{I}', EmptyValue when absent

vars == <<lock, row>>

AnyValue == Value \union {EmptyValue}
Index == 0 .. MaxLen - 1

\* Cells from..to-1 of a row all hold v.
Filled(r, from, to, v) == \A i \in from .. to - 1 : r[i] = v

\* From cell i on there is one run of a single value, maybe empty, and
\* nothing behind it.
RunFrom(r, i) ==
    \E e \in i .. MaxLen :
        /\ Filled(r, e, MaxLen, EmptyValue)
        /\ e = i \/ \E v \in Value : Filled(r, i, e, v)

Init ==
    /\ lock = [g \in Group |-> EmptyValue]
    /\ row = [g \in Group |-> [i \in Index |-> EmptyValue]]

Acquire(g) ==
    /\ lock[g] = EmptyValue
    /\ \E v \in Value : lock' = [lock EXCEPT ![g] = v]
    /\ UNCHANGED row

\* Write the next cell, or rewrite one written before.
Write(g, i) ==
    /\ lock[g] # EmptyValue
    /\ Filled(row[g], 0, i, lock[g])
    /\ row' = [row EXCEPT ![g][i] = lock[g]]
    /\ UNCHANGED lock

\* Remove the first cell of the old run: in front of it there are only the
\* holder's values and then the gap of the cells removed so far.
Clear(g, i) ==
    /\ lock[g] # EmptyValue
    /\ RunFrom(row[g], i)
    /\ \E k \in 1 .. i :
          Filled(row[g], 0, k, lock[g]) /\ Filled(row[g], k, i, EmptyValue)
    /\ row' = [row EXCEPT ![g][i] = EmptyValue]
    /\ UNCHANGED lock

\* A holder that lets go whatever the row looks like.
ReleaseEarly(g) ==
    /\ lock[g] # EmptyValue
    /\ lock' = [lock EXCEPT ![g] = EmptyValue]
    /\ UNCHANGED row

Release(g) ==
    /\ lock[g] # EmptyValue
    /\ \E k \in 1 .. MaxLen :
          /\ Filled(row[g], 0, k, lock[g])
          /\ Filled(row[g], k, MaxLen, EmptyValue)
    /\ lock' = [lock EXCEPT ![g] = EmptyValue]
    /\ UNCHANGED row

Next ==
    \E g \in Group :
        \/ Acquire(g) \/ Release(g)
        \/ \E i \in Index : Write(g, i) \/ Clear(g, i)

Spec == Init /\ [][Next]_vars

-----------------------------------------------------------------------------
TypeOK ==
    /\ lock \in [Group -> AnyValue]
    /\ row \in [Group -> [Index -> AnyValue]]

\* The grammar of lockseq_model.cc:231-242 for one group: an unlocked group
\* is one run; a locked one is the holder's values, missing cells, and one
\* run of somebody's values.
GroupWellFormed(g) ==
    IF lock[g] = EmptyValue
    THEN RunFrom(row[g], 0)
    ELSE \E k \in 0 .. MaxLen : \E m \in k .. MaxLen :
            /\ Filled(row[g], 0, k, lock[g])
            /\ Filled(row[g], k, m, EmptyValue)
            /\ RunFrom(row[g], m)

\* Every state of the database is one that lockseq_model::check accepts.
WellFormed == \A g \in Group : GroupWellFormed(g)

=============================================================================
