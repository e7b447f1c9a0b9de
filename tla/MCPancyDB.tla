----------------------------- MODULE MCPancyDB ------------------------------
(***************************************************************************)
(* pancydb for TLC.  A run either drives one database through its whole    *)
(* interface (PancyDB) or compares two (PancyDiff); what belongs to the    *)
(* other of these stays as it was at the start.  Two databases need a      *)
(* shorter log and fewer versions to show every way they can differ.       *)
(***************************************************************************)
EXTENDS PancyDB, TLC

VARIABLES this, other, changed, behind

compared == <<this, other, changed, behind>>

PD == INSTANCE PancyDiff
          WITH MaxRecentRemoves <- MaxRecentRemoves - 1, MaxVersion <- MaxVersion - 1

Symmetry == Permutations(Key)

Alone == \A d \in {this, other} : d = EmptyDB(Key)

Untouched == db = EmptyDB(Key) /\ \E k \in Key : last = NoExchange(k)

MCInit == Init /\ PD!Init

MCNext ==
    \/ Alone /\ Next /\ UNCHANGED compared
    \/ Untouched /\ PD!Next /\ UNCHANGED vars

MCSpec == MCInit /\ [][MCNext]_<<vars, compared>>

\* The properties of PancyDiff, stated there; two empty databases are equal.
NoFalseAlarm == Alone \/ PD!NoFalseAlarm
ZeroSkewIsEquality == Alone \/ PD!ZeroSkewIsEquality
ReportedKeysDiffer == Alone \/ PD!ReportedKeysDiffer
OldDivergenceReported == Alone \/ PD!OldDivergenceReported

=============================================================================
