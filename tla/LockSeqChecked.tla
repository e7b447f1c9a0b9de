--------------------------- MODULE LockSeqChecked ---------------------------
(***************************************************************************)
(* The test of pt-paxos.cc: the clients of LockSeq run against the service *)
(* until the clock stops them, at any moment of their rounds and with      *)
(* messages still on their way, and lockseq_model::check then inspects the *)
(* primary's database (try_one_seed).                                      *)
(***************************************************************************)
EXTENDS LockSeqImplements, SequencesExt

CONSTANT NoKey      \* content of an absent key

ASSUME CheckedAssumption == NoKey \notin AnyValue /\ IsFiniteSet(Group)

\* Of all that passes for a lock (lockseq_model.cc:285-286) only the clients'
\* values are let pass here: what the strictest check accepts, check accepts.
LC == INSTANCE LockCheck WITH NoValue <- EmptyValue, LockLike <- Value

\* The database as check iterates over it.
Contents ==
    [k \in Group \X (LC!OtherIndex .. MaxLen - 1) |->
        IF k \in Key /\ Exists(db, k) THEN db.vv[k].value ELSE NoKey]

\* Whenever the run is stopped, check accepts what it finds: a correct
\* service is never blamed.
CheckAccepts == LC!Accepts(Contents, SetToSeq(Group), MaxLen)

=============================================================================
