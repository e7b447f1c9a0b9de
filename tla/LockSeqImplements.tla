-------------------------- MODULE LockSeqImplements --------------------------
(***************************************************************************)
(* LockSeq implements GroupLocks: the primary's database, read group by    *)
(* group, moves only as GroupLocks allows, whatever the clients and the    *)
(* network do.                                                             *)
(***************************************************************************)
EXTENDS LockSeq

lockOf == [g \in Group |-> LockValue(g)]
rowOf == [g \in Group |-> [i \in 0 .. MaxLen - 1 |-> ValueAt(g, i)]]

GL == INSTANCE GroupLocks WITH lock <- lockOf, row <- rowOf

\* Each step of clients and replicas is a step of GroupLocks or leaves every
\* group as it was.
ImplementsGroupLocks == GL!Spec

\* Every database the primary ever has obeys the grammar.
DatabaseWellFormed == GL!WellFormed

=============================================================================
