----------------------------- MODULE LockCheck ------------------------------
(***************************************************************************)
(* lockseq_model::check: one pass over the keys of a database, in order,   *)
(* that decides whether lockseq clients could have left it behind.         *)
(*                                                                         *)
(* A key is <<g, i>>: i = LockIndex for `g{G}/lock', i >= 0 for the value  *)
(* key `g{G}/v{I}', and i = OtherIndex for any other key under `g{G}/'.    *)
(* All keys of a group are neighbours in key order, because `/' sorts      *)
(* before the digits; the lock comes before the values.                    *)
(***************************************************************************)
EXTENDS Integers, Sequences

CONSTANTS
    NoKey,          \* content of a key that the database does not have
    NoValue,        \* the empty string
    LockLike        \* the values that pass for a lock's (lines 285-286)

OtherIndex == -2
LockIndex == -1

\* The variables of the pass at the first key of group g.
NextGroup(g) ==
    [last_group |-> g, expected_value |-> NoValue, expected_index |-> 0,
     lock_state |-> "unlocked", bad |-> FALSE]

Bad(s) == [s EXCEPT !.bad = TRUE]

CheckLock(s, v) ==
    IF s.expected_index # 0 \/ s.lock_state # "unlocked" THEN Bad(s)
    ELSE CASE v = NoValue -> s
           [] v \in LockLike -> [s EXCEPT !.lock_state = "locked_start",
                                         !.expected_value = v]
           [] OTHER -> Bad(s)

\* A gap that is forgiven in the last run of a group as well.
CheckIndexLoose(s, i) ==
    CASE i = s.expected_index -> s
      [] i > s.expected_index /\ s.lock_state # "unlocked" ->
            [s EXCEPT !.lock_state = "locked_rest", !.expected_index = i,
                      !.expected_value = NoValue]
      [] OTHER -> Bad(s)

\* A gap is legal once, in a locked group; the rest starts behind it.
CheckIndex(s, i) ==
    CASE i = s.expected_index -> s
      [] i > s.expected_index /\ s.lock_state = "locked_start" ->
            [s EXCEPT !.lock_state = "locked_rest", !.expected_index = i,
                      !.expected_value = NoValue]
      [] OTHER -> Bad(s)

\* A change of value is legal once, where the lock holder's values end.
CheckValue(s, v) ==
    IF s.expected_value \in {NoValue, v} THEN s
    ELSE IF s.lock_state = "locked_start" THEN [s EXCEPT !.lock_state = "locked_rest"]
    ELSE Bad(s)

CheckCell(s, i, v) ==
    LET t == CheckValue(CheckIndex(s, i), v) IN
    IF v = NoValue THEN Bad(s)
    ELSE [t EXCEPT !.expected_value = v, !.expected_index = @ + 1]

\* One key of the database; the first bad key ends the pass.
CheckKey(s, key, v) ==
    LET t == IF key[1] = s.last_group THEN s ELSE NextGroup(key[1]) IN
    CASE s.bad \/ v = NoKey -> s
      [] ~ s.bad /\ v # NoKey /\ key[2] = OtherIndex -> Bad(t)
      [] ~ s.bad /\ v # NoKey /\ key[2] = LockIndex  -> CheckLock(t, v)
      [] ~ s.bad /\ v # NoKey /\ key[2] >= 0         -> CheckCell(t, key[2], v)

\* The pass over the keys of group g, up to value index len - 1.  The
\* database d is a function from keys to their content.
CheckGroup(d, s, g, len) ==
    LET scan[n \in 0 .. len + 2] ==
            IF n = 0 THEN s
            ELSE LET key == <<g, n - 1 + OtherIndex>> IN CheckKey(scan[n - 1], key, d[key])
    IN  scan[len + 2]

\* The pass over all groups, a sequence in the order of their keys.
CheckGroups(d, groups, len) ==
    LET scan[n \in 0 .. Len(groups)] ==
            IF n = 0 THEN NextGroup(NoKey)
            ELSE CheckGroup(d, scan[n - 1], groups[n], len)
    IN  scan[Len(groups)]

\* Does check return nullopt on d?
Accepts(d, groups, len) == ~ CheckGroups(d, groups, len).bad

=============================================================================
