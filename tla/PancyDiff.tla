----------------------------- MODULE PancyDiff ------------------------------
(***************************************************************************)
(* pancydb::diff and find_recent_remove (pancydb.cc:83-155), which compare *)
(* two databases by what each remembers of its last modifications.         *)
(*                                                                         *)
(* `this' and `other' are two databases under the whole modifying API.     *)
(* Snapshot makes `other' an exact copy of `this'; from then on, until it  *)
(* is modified on its own, it is an earlier state of `this': what a        *)
(* replica is that executes the same requests in the same order and has    *)
(* not yet executed the last few.  `behind' says whether it still is.      *)
(*                                                                         *)
(* The code walks both maps in key order and returns the first key at      *)
(* which they differ; here diff is the set of all those keys, and nullopt  *)
(* is the empty set.                                                       *)
(***************************************************************************)
EXTENDS PancyOps, FiniteSetsExt

CONSTANTS
    Key,
    Value,
    MaxVersion      \* bound: modifications stop when next_version_ gets here

VARIABLES
    this,       \* two pancydb objects
    other,
    changed,    \* history: for each of them, the version of the last
                \* modification or removal of each key
    behind      \* history: is `other' an earlier state of `this'?

vars == <<this, other, changed, behind>>

-----------------------------------------------------------------------------
(* The comparison.                                                         *)

\* A search of the log that does not look at the age of the removal.
FindAnyRemove(d, key, min_version) ==
    LET found == {i \in DOMAIN d.removes : d.removes[i].key = key} IN
    IF found = {} THEN NonexistentVV
    ELSE [value |-> d.removes[Min(found)].value,
          version |-> d.removes[Min(found)].version]

\* find_recent_remove: the entry that the newest logged removal of the key
\* removed, if that was at or after min_version; NonexistentVV is nullptr.
FindRecentRemove(d, key, min_version) ==
    LET found == {i \in DOMAIN d.removes :
                      /\ d.removes[i].key = key
                      /\ d.removes[i].remove_version >= min_version} IN
    IF found = {} THEN NonexistentVV
    ELSE [value |-> d.removes[Min(found)].value,
          version |-> d.removes[Min(found)].version]

\* A log trusted whatever was evicted.
RemovesCompleteAlways(d, min_version) == TRUE

\* a_removes_complete: nothing of the skew window was evicted.  A log of
\* capacity 0 would have no back().
RemovesComplete(d, min_version) ==
    \/ Len(d.removes) < MaxRecentRemoves
    \/ d.removes[Len(d.removes)].remove_version <= min_version

\* avvp, bvvp: the live entry, or what the log remembers of it.
Remembered(d, key, min_version) ==
    IF Exists(d, key) THEN d.vv[key] ELSE FindRecentRemove(d, key, min_version)

IsNull(vv) == vv.version = NonexistentVersion

\* A comparison that takes an entry newer in the older database for skew.
MismatchNewerOnly(avv, bvv, min_version) ==
    \/ avv.version > bvv.version /\ avv.version < min_version
    \/ avv.version = bvv.version /\ avv.value # bvv.value

\* A comparison that reports every entry older than the window.
MismatchAllOld(avv, bvv, min_version) ==
    \/ avv.version < bvv.version
    \/ avv.version >= bvv.version /\ avv.version < min_version
    \/ avv.version = bvv.version /\ avv.value # bvv.value

\* Both sides have an entry, and skew does not explain that they differ.
Mismatch(avv, bvv, min_version) ==
    \/ avv.version < bvv.version
    \/ avv.version > bvv.version /\ avv.version < min_version
    \/ avv.version = bvv.version /\ avv.value # bvv.value

\* The body of the loop for one key; a is the newer database.
DiffersAt(a, b, key, min_version) ==
    LET avv == Remembered(a, key, min_version)
        bvv == Remembered(b, key, min_version) IN
    /\ Exists(a, key) \/ Exists(b, key)
    \* maybe added to a within the skew: OK
    /\ ~ (~ IsNull(avv) /\ IsNull(bvv) /\ avv.version >= min_version)
    \* maybe a removal that a's log has evicted: OK
    /\ ~ (IsNull(avv) /\ ~ RemovesComplete(a, min_version))
    /\ IsNull(avv) \/ IsNull(bvv) \/ Mismatch(avv, bvv, min_version)

\* The loop, once `*this' is at least as new as `db'.
DiffNewer(a, b, version_skew) ==
    {k \in Key : DiffersAt(a, b, k, a.next - version_skew)}

\* a.diff(b, version_skew), with the call that swaps the two.
Diff(a, b, version_skew) ==
    IF a.next < b.next THEN DiffNewer(b, a, version_skew)
                       ELSE DiffNewer(a, b, version_skew)

-----------------------------------------------------------------------------
(* The two databases.                                                      *)

AnyValue == Value \union {EmptyValue}

\* The effects a request or a direct call can have: pancydb::put,
\* pancydb::remove, and process_req, change a database in no other way.
Modified(d, k) ==
    {Store(d, k, v) : v \in AnyValue} \union
    (IF Exists(d, k) THEN {Erase(d, k)} ELSE {})

Init ==
    /\ this = EmptyDB(Key)
    /\ other = EmptyDB(Key)
    /\ changed = [this |-> [k \in Key |-> 0], other |-> [k \in Key |-> 0]]
    /\ behind = TRUE

ModifyThis(k) ==
    /\ this.next < MaxVersion
    /\ this' \in Modified(this, k)
    /\ changed' = [changed EXCEPT !.this[k] = this.next]
    /\ UNCHANGED <<other, behind>>

ModifyOther(k) ==
    /\ other.next < MaxVersion
    /\ other' \in Modified(other, k)
    /\ changed' = [changed EXCEPT !.other[k] = other.next]
    /\ behind' = FALSE
    /\ UNCHANGED this

Snapshot ==
    /\ other' = this
    /\ changed' = [changed EXCEPT !.other = changed.this]
    /\ behind' = TRUE
    /\ UNCHANGED this

Next ==
    \/ \E k \in Key : ModifyThis(k) \/ ModifyOther(k)
    \/ Snapshot

Spec == Init /\ [][Next]_vars

-----------------------------------------------------------------------------
(* Properties.                                                             *)

Skews == 0 .. MaxVersion

\* No false alarm: a database that lags by no more than version_skew
\* modifications is not reported, in whichever order the two are passed,
\* whatever was written, removed, written again or evicted from the log in
\* between ("the older database may be up to version_skew versions behind").
NoFalseAlarm ==
    behind => \A skew \in Skews :
        skew >= this.next - other.next =>
            Diff(this, other, skew) = {} /\ Diff(other, this, skew) = {}

\* Without skew diff is equality of contents, also of databases whose
\* histories differ: "If version_skew == 0, the databases must exactly equal".
ZeroSkewIsEquality ==
    /\ (Diff(this, other, 0) = {}) <=> (this.vv = other.vv)
    /\ Diff(other, this, 0) = Diff(this, other, 0)

\* A key that diff reports is "a key at which the two databases differ".
ReportedKeysDiffer ==
    \A skew \in Skews : \A k \in Diff(this, other, skew) : this.vv[k] # other.vv[k]

\* No missed divergence: what neither database has touched within the window
\* is the same in both, or diff reports it, unless the newer one's log no
\* longer reaches back over the window.
OldDivergenceReported ==
    \A skew \in Skews :
        LET newest == IF this.next < other.next THEN other ELSE this
            min_version == newest.next - skew IN
        RemovesComplete(newest, min_version) =>
            \A k \in Key :
                /\ changed.this[k] < min_version
                /\ changed.other[k] < min_version
                /\ this.vv[k] # other.vv[k]
                => k \in Diff(this, other, skew)

=============================================================================
