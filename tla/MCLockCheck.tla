---------------------------- MODULE MCLockCheck -----------------------------
(***************************************************************************)
(* LockCheck on databases of two kinds.  An honest service has one that    *)
(* moves as GroupLocks does.  A service that may do anything inserts,      *)
(* overwrites and erases keys one at a time, starting from any small one   *)
(* of those, and so reaches every small database; its locks and rows are   *)
(* forgotten, for they say nothing any more.  check has to tell the legal  *)
(* databases from the others.                                              *)
(***************************************************************************)
EXTENDS GroupLocks, LockCheck, SequencesExt

CONSTANTS
    Other,      \* values that do not pass for a lock's
    MaxKeys     \* bound: keys that a faulty service keeps at a time

\* What clients write for a lock passes for one, and so may more; an absent
\* key is told from any content.
ASSUME ValueAssumption ==
    /\ Value \subseteq LockLike
    /\ NoValue = EmptyValue
    /\ EmptyValue \notin LockLike
    /\ NoKey \notin LockLike \union Other \union {EmptyValue}
    /\ IsFiniteSet(Group)

VARIABLE d

Symmetry == Permutations(Value)

Key == Group \X (OtherIndex .. MaxLen - 1)
Groups == SetToSeq(Group)
Content == LockLike \union Other \union {EmptyValue}

\* The database of a lock and a row, which have EmptyValue for an absent key.
Picture(locks, rows) ==
    [k \in Key |->
        LET v == CASE k[2] = OtherIndex -> EmptyValue
                   [] k[2] = LockIndex  -> locks[k[1]]
                   [] k[2] >= 0         -> rows[k[1]][k[2]]
        IN  IF v = EmptyValue THEN NoKey ELSE v]

MCInit == Init /\ d = Picture(lock, row)

Honest ==
    /\ d = Picture(lock, row)
    /\ Next
    /\ d' = Picture(lock', row')

Kept == {k \in Key : d[k] # NoKey}

Faulty ==
    /\ Cardinality(Kept) <= MaxKeys
    /\ \E k \in IF Cardinality(Kept) < MaxKeys THEN Key ELSE Kept :
          \E v \in (Content \union {NoKey}) \ {d[k]} : d' = [d EXCEPT ![k] = v]
    /\ lock' = [g \in Group |-> EmptyValue]
    /\ row' = [g \in Group |-> [i \in Index |-> EmptyValue]]

MCSpec == MCInit /\ [][Honest \/ Faulty]_<<vars, d>>

-----------------------------------------------------------------------------
(* The grammar of lockseq_model.cc:226-242, stated without a scan.  What a  *)
(* group may have for a lock is a parameter, for there the code takes more *)
(* than the comment says.                                                  *)

Cells(g, from, to) == {d[<<g, i>>] : i \in from .. to - 1}

\* Keys from..to-1 are one run of a single value.
Run(g, from, to) ==
    NoKey \notin Cells(g, from, to) /\ \A v, w \in Cells(g, from, to) : v = w

Missing(g, from, to) == Cells(g, from, to) \subseteq {NoKey}

RunThenMissing(g, from) ==
    \E e \in from .. MaxLen : Run(g, from, e) /\ Missing(g, e, MaxLen)

\* `free': what an unlocked group may have for a lock.
UnlockedGroup(g, free) == d[<<g, LockIndex>>] \in free /\ RunThenMissing(g, 0)

\* `held': what a locked group may have.
LockedGroup(g, held) ==
    /\ d[<<g, LockIndex>>] \in held
    /\ \E k \in 0 .. MaxLen : \E m \in k .. MaxLen :
          /\ Cells(g, 0, k) \subseteq {d[<<g, LockIndex>>]}
          /\ Missing(g, k, m)
          /\ RunThenMissing(g, m)

\* No key is of another form, and no value is empty (on which the comment is
\* silent: no client writes an empty value).
LegalGroup(g, free, held) ==
    /\ d[<<g, OtherIndex>>] = NoKey
    /\ EmptyValue \notin Cells(g, 0, MaxLen)
    /\ UnlockedGroup(g, free) \/ LockedGroup(g, held)

\* The comment: only value keys, or a lock that names a client and a random
\* string, `c{N} {HEXDIGITS}'.
DocumentedGroup(g) == LegalGroup(g, {NoKey}, Value)

\* The code: an empty lock is no lock (lines 282-284), and four characters
\* of which the first is a `c' are a client's (lines 285-286).
ToleratedGroup(g) == LegalGroup(g, {NoKey, EmptyValue}, LockLike)

Documented == \A g \in Group : DocumentedGroup(g)
Tolerated == \A g \in Group : ToleratedGroup(g)

\* Whatever an honest or a faulty service has in its database, check never
\* blames one of the grammar, and misses none that is outside it but for
\* the form of its locks: an empty lock, and a lock that only looks like a
\* client's, are the two things it lets pass.
CheckIsLooseGrammar ==
    /\ Documented => Accepts(d, Groups, MaxLen)
    /\ Accepts(d, Groups, MaxLen) <=> Tolerated

=============================================================================
