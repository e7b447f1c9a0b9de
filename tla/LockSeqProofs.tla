---------------------------- MODULE LockSeqProofs ----------------------------
(***************************************************************************)
(* The lock protocol keeps its types and its locks are exclusive; what its *)
(* clients believe about the values of a group is true, only contention    *)
(* throws a client out, no lock leaks, the primary's database moves only   *)
(* as GroupLocks allows, and check accepts it: for any clients, groups and *)
(* replicas, any row length, any number of rounds and time-outs, with and  *)
(* without loss.                                                           *)
(*                                                                         *)
(* The argument for exclusion, which is the first part, speaks of one      *)
(* client and one message at a time and needs no order of the messages.  A *)
(* message of the client's serial is its current request, or an answer     *)
(* that is right about the lock.  A message of an older serial cannot end  *)
(* a lock: a swap never replaces one, a put or a clear is not about locks, *)
(* and a removal of a lock names a version that is spent, which no lock    *)
(* will ever have again.                                                   *)
(***************************************************************************)
EXTENDS LockSeqChecked, PancyOpsProofs

ClientSet ==
    [pc : {"idle", "send", "wait", "failed"}, phase : Phase, gid : Group,
     value : AnyValue, nvalues : 1 .. MaxLen, n : 0 .. MaxLen,
     lock_version : Nat, serial : Nat, tries : Nat, leader : Replica]

Message == ResponseSet(AnyValue) \union RedirectionSet(Replica)

\* A client with a request to send or an answer to wait for.
Active(s) == s.pc \in {"send", "wait"}

\* The loops over n stop in time.
InLoop(s) ==
    /\ s.phase = "write" => s.n < s.nvalues
    /\ s.phase = "clear" => s.n < MaxLen

\* A client between rounds.
LEMMA IdleType ==
    ASSUME NEW serial \in Nat, NEW leader \in Replica
    PROVE  /\ Idle(serial, leader) \in ClientSet /\ InLoop(Idle(serial, leader))
           /\ Idle(serial, leader).pc = "idle" /\ Idle(serial, leader).phase = "lock"
<1>1. (CHOOSE g \in Group : TRUE) \in Group
  BY LockSeqAssumption
<1> QED  BY <1>1, LockSeqAssumption DEF Idle, ClientSet, Phase, AnyValue, InLoop

\* A new request leaves all of a client but four fields alone.
LEMMA BeginType ==
    ASSUME NEW s \in ClientSet, NEW phase \in Phase
    PROVE  /\ Begin(s, phase) \in ClientSet
           /\ Begin(s, phase).pc = "send"
           /\ Begin(s, phase).phase = phase
           /\ Begin(s, phase).serial = s.serial + 1
           /\ Begin(s, phase).gid = s.gid
           /\ Begin(s, phase).value = s.value
           /\ Begin(s, phase).nvalues = s.nvalues
           /\ Begin(s, phase).n = s.n
           /\ Begin(s, phase).lock_version = s.lock_version
<1> DEFINE a == [s EXCEPT !.pc = "send"]
           b == [a EXCEPT !.phase = phase]
           d == [b EXCEPT !.serial = s.serial + 1]
           e == [d EXCEPT !.tries = 0]
<1>1. Begin(s, phase) = e
  BY DEF Begin
<1>2. a \in ClientSet /\ a.pc = "send" /\ a.gid = s.gid /\ a.value = s.value
      /\ a.nvalues = s.nvalues /\ a.n = s.n /\ a.lock_version = s.lock_version
      /\ a.serial = s.serial
  BY DEF ClientSet
<1> HIDE DEF a
<1>3. b \in ClientSet /\ b.pc = "send" /\ b.gid = s.gid /\ b.value = s.value
      /\ b.nvalues = s.nvalues /\ b.n = s.n /\ b.lock_version = s.lock_version
      /\ b.phase = phase /\ b.serial = s.serial
  BY <1>2 DEF ClientSet
<1> HIDE DEF b
<1>4. d \in ClientSet /\ d.pc = "send" /\ d.gid = s.gid /\ d.value = s.value
      /\ d.nvalues = s.nvalues /\ d.n = s.n /\ d.lock_version = s.lock_version
      /\ d.phase = phase /\ d.serial = s.serial + 1
  BY <1>3 DEF ClientSet
<1> HIDE DEF d
<1>5. e \in ClientSet /\ e.pc = "send" /\ e.gid = s.gid /\ e.value = s.value
      /\ e.nvalues = s.nvalues /\ e.n = s.n /\ e.lock_version = s.lock_version
      /\ e.phase = phase /\ e.serial = s.serial + 1
  BY <1>4 DEF ClientSet
<1> HIDE DEF e
<1> QED  BY <1>1, <1>5

\* The next iteration of a loop over n, or the next phase, is in bounds.
LEMMA AdvanceType ==
    ASSUME NEW s \in ClientSet, s.phase \in {"write", "clear"}, InLoop(s)
    PROVE  /\ Advance(s) \in ClientSet /\ InLoop(Advance(s))
           /\ Advance(s).pc = "send"
           /\ Advance(s).phase \in {"write", "clear", "unlock"}
           /\ Advance(s).serial = s.serial + 1
           /\ Advance(s).gid = s.gid
           /\ Advance(s).value = s.value
           /\ Advance(s).lock_version = s.lock_version
<1> DEFINE t == [s EXCEPT !.n = @ + 1]
<1>1. s.n < MaxLen
  BY LockSeqAssumption DEF ClientSet, InLoop
<1>2. t \in ClientSet /\ t.n = s.n + 1 /\ t.nvalues = s.nvalues
      /\ t.gid = s.gid /\ t.value = s.value /\ t.lock_version = s.lock_version
      /\ t.serial = s.serial
  BY <1>1, LockSeqAssumption DEF ClientSet
<1>3. PhaseAt(t) \in {"write", "clear", "unlock"}
      /\ (PhaseAt(t) = "write" => t.n < t.nvalues)
      /\ (PhaseAt(t) = "clear" => t.n < MaxLen)
  BY DEF PhaseAt
<1>4. Advance(s) = Begin(t, PhaseAt(t))
  BY DEF Advance
<1> HIDE DEF t
<1>5. PhaseAt(t) \in Phase
  BY <1>3 DEF Phase
<1> QED  BY <1>2, <1>3, <1>4, <1>5, BeginType DEF InLoop

\* The request of a phase, field by field.
LEMMA RequestType ==
    ASSUME NEW s \in ClientSet, InLoop(s)
    PROVE  /\ CurrentRequest(s) \in RequestSet(Key, AnyValue)
           /\ CurrentRequest(s).serial = s.serial
           /\ CurrentRequest(s).op \in {"cas", "put", "remove"}
           /\ s.phase = "lock" =>
                 /\ CurrentRequest(s).op = "cas"
                 /\ CurrentRequest(s).key = LockKey(s.gid)
                 /\ CurrentRequest(s).expected = EmptyValue
                 /\ CurrentRequest(s).value = s.value
           /\ s.phase \in {"write", "clear"} =>
                 /\ CurrentRequest(s).key = ValueKey(s.gid, s.n)
                 /\ CurrentRequest(s).op \in {"put", "remove"}
           /\ s.phase = "unlock" =>
                 /\ CurrentRequest(s).op = "remove"
                 /\ CurrentRequest(s).key = LockKey(s.gid)
                 /\ CurrentRequest(s).version_match = s.lock_version
<1> USE LockSeqAssumption DEF ClientSet, Key, LockKey, ValueKey, LockIndex,
        RequestSet, Op, AnyVersion, AnyValue
<1>1. CASE s.phase = "lock"
  BY <1>1 DEF CurrentRequest, CasRequest
<1>2. CASE s.phase = "write"
  BY <1>2 DEF CurrentRequest, PutRequest, InLoop
<1>3. CASE s.phase = "clear"
  BY <1>3 DEF CurrentRequest, RemoveRequest, InLoop
<1>4. CASE s.phase = "unlock"
  BY <1>4 DEF CurrentRequest, RemoveRequest
<1> QED  BY <1>1, <1>2, <1>3, <1>4 DEF Phase

-----------------------------------------------------------------------------
(* The ways a client moves on.                                             *)

\* s and t are about the same request.
SameRequest(s, t) ==
    /\ t.phase = s.phase /\ t.gid = s.gid /\ t.value = s.value
    /\ t.nvalues = s.nvalues /\ t.n = s.n /\ t.lock_version = s.lock_version
    /\ t.serial = s.serial

\* A request that is sent again is the same message.
LEMMA SameCurrentRequest ==
    ASSUME NEW s \in ClientSet, NEW t \in ClientSet, SameRequest(s, t)
    PROVE  CurrentRequest(t) = CurrentRequest(s) /\ (InLoop(s) => InLoop(t))
BY DEF SameRequest, CurrentRequest, InLoop, CasRequest, PutRequest, RemoveRequest

\* A throw changes the program counter only.
LEMMA ThrowType ==
    ASSUME NEW s \in ClientSet
    PROVE  Throw(s) \in ClientSet /\ SameRequest(s, Throw(s)) /\ Throw(s).pc = "failed"
BY DEF Throw, ClientSet, SameRequest

\* Trying again changes the program counter, the tries and the hint only.
LEMMA RetriesType ==
    ASSUME NEW s \in ClientSet, NEW hint \in Replica, NEW t \in Retries(s, hint)
    PROVE  t \in ClientSet /\ SameRequest(s, t) /\ t.pc = "send"
<1>1. PICK r \in Replica : t = [s EXCEPT !.pc = "send", !.tries = @ + 1, !.leader = r]
  BY DEF Retries
<1> DEFINE a == [s EXCEPT !.pc = "send"]
           b == [a EXCEPT !.tries = s.tries + 1]
<1>2. a \in ClientSet /\ SameRequest(s, a) /\ a.pc = "send" /\ a.tries = s.tries
  BY DEF ClientSet, SameRequest
<1>3. t = [b EXCEPT !.leader = r]
  BY <1>1
<1> HIDE DEF a
<1>4. b \in ClientSet /\ SameRequest(s, b) /\ b.pc = "send"
  BY <1>2 DEF ClientSet, SameRequest
<1> HIDE DEF b
<1> QED  BY <1>3, <1>4 DEF ClientSet, SameRequest

\* After an answer to the lock request: the lock is taken over with the
\* version in the answer, or the client is still about the same request.
LEMMA AfterLockType ==
    ASSUME NEW c \in Client, NEW s \in ClientSet, s.phase = "lock",
           NEW m \in ResponseSet(AnyValue), NEW t, t = AfterLock(c, s, m)
    PROVE  /\ t \in ClientSet
           /\ \/ /\ Granted(s, m)
                 /\ t.pc = "send" /\ t.phase = "write" /\ InLoop(t)
                 /\ t.serial = s.serial + 1 /\ t.gid = s.gid /\ t.value = s.value
                 /\ t.lock_version = m.version
              \/ SameRequest(s, t) /\ t.pc \in {"send", "failed"}
<1>1. CASE Granted(s, m)
  <2> DEFINE a == [s EXCEPT !.lock_version = m.version]
             b == [a EXCEPT !.n = 0]
  <2>1. m.version \in Nat
    BY DEF ResponseSet
  <2>2. a \in ClientSet /\ a.gid = s.gid /\ a.value = s.value /\ a.serial = s.serial
        /\ a.lock_version = m.version
    BY <2>1 DEF ClientSet
  <2>3. t = Begin(b, "write")
    BY <1>1 DEF AfterLock
  <2> HIDE DEF a
  <2>4. b \in ClientSet /\ b.gid = s.gid /\ b.value = s.value /\ b.serial = s.serial
        /\ b.lock_version = m.version /\ b.n = 0 /\ b.nvalues > 0
    BY <2>2, LockSeqAssumption DEF ClientSet
  <2> HIDE DEF b
  <2>5. "write" \in Phase
    BY DEF Phase
  <2> QED  BY <1>1, <2>3, <2>4, <2>5, BeginType DEF InLoop
<1>2. CASE ~ Granted(s, m) /\ m.errc = "no_match" /\ OwnedBy(m.actual, c)
  <2> DEFINE a == [s EXCEPT !.pc = "send"]
             b == [a EXCEPT !.tries = s.tries + 1]
  <2>1. a \in ClientSet /\ SameRequest(s, a) /\ a.pc = "send" /\ a.tries = s.tries
    BY DEF ClientSet, SameRequest
  <2>2. t = b
    BY <1>2 DEF AfterLock
  <2> HIDE DEF a
  <2>3. b \in ClientSet /\ SameRequest(s, b) /\ b.pc = "send"
    BY <2>1 DEF ClientSet, SameRequest
  <2> HIDE DEF b
  <2> QED  BY <2>2, <2>3
<1>3. CASE ~ Granted(s, m) /\ ~ (m.errc = "no_match" /\ OwnedBy(m.actual, c))
  <2>1. t = Throw(s)
    BY <1>3 DEF AfterLock
  <2> QED  BY <2>1, ThrowType
<1> QED  BY <1>1, <1>2, <1>3

\* After an answer to a write or clear request: the next request of the
\* round, for the same group and lock, or a throw.
LEMMA AfterValueType ==
    ASSUME NEW s \in ClientSet, s.phase \in {"write", "clear"}, InLoop(s),
           NEW m, NEW t, t \in {AfterWrite(s, m), AfterClear(s, m)}
    PROVE  /\ t \in ClientSet
           /\ \/ /\ t.pc = "send" /\ t.phase \in {"write", "clear", "unlock"}
                 /\ InLoop(t)
                 /\ t.serial = s.serial + 1 /\ t.gid = s.gid /\ t.value = s.value
                 /\ t.lock_version = s.lock_version
              \/ SameRequest(s, t) /\ t.pc = "failed"
<1>1. t \in {Advance(s), Throw(s), Begin(s, "unlock")}
  BY SMT DEF AfterWrite, AfterClear
<1>2. CASE t = Advance(s)
  BY <1>2, AdvanceType
<1>3. CASE t = Throw(s)
  BY <1>3, ThrowType
<1>4. CASE t = Begin(s, "unlock")
  <2>1. "unlock" \in Phase
    BY DEF Phase
  <2> QED  BY <1>4, <2>1, BeginType DEF InLoop
<1> QED  BY <1>1, <1>2, <1>3, <1>4

\* After an answer to an unlock request the round is over or the client has
\* thrown.
LEMMA AfterUnlockType ==
    ASSUME NEW s \in ClientSet, NEW m
    PROVE  \/ AfterUnlock(s, m) = Throw(s)
           \/ AfterUnlock(s, m) = Idle(s.serial, s.leader)
BY DEF AfterUnlock

-----------------------------------------------------------------------------
(* The inductive invariant, one client, one message at a time.  s is a     *)
(* client's state, d the primary's database.                               *)

\* Versions are below next; a key that was erased has lost its value too.
VersionsBelow(d) ==
    /\ d.next > 0
    /\ \A k \in Key :
          /\ d.vv[k].version < d.next
          /\ d.vv[k].version = 0 => d.vv[k].value = EmptyValue

HoldsLock(s, d) ==
    d.vv[LockKey(s.gid)] = [value |-> s.value, version |-> s.lock_version]

\* A client owns its value, and from the lock phase on a version that is
\* spent; inside the critical section it holds its lock, and a client that
\* unlocks never sees its version on somebody else's lock.
ClientOK(c, s, d) ==
    /\ InLoop(s)
    /\ s.pc # "idle" => OwnedBy(s.value, c)
    /\ s.pc = "idle" => s.phase = "lock"
    /\ s.phase # "lock" => 0 < s.lock_version /\ s.lock_version < d.next
    /\ s.phase \in {"write", "clear"} => HoldsLock(s, d)
    /\ s.phase = "unlock" /\ d.vv[LockKey(s.gid)].version = s.lock_version
          => HoldsLock(s, d)

\* A removal of a lock names a spent version; if the lock still has that
\* version, the removal belongs to the unlock its client is busy with.
UnlockOK(s, d, m) ==
    m.op = "remove" /\ m.key[2] = LockIndex =>
        /\ 0 < m.version_match /\ m.version_match < d.next
        /\ d.vv[m.key].version = m.version_match =>
              Active(s) /\ s.phase = "unlock" /\ m.serial = s.serial

\* A request of the current serial is the current request.
RequestOK(s, d, m) ==
    /\ m.serial <= s.serial
    /\ Active(s) /\ m.serial = s.serial => m = CurrentRequest(s)
    /\ m.op \in {"cas", "put", "remove"}
    /\ m.op = "put" => m.key[2] # LockIndex
    /\ m.op = "cas" => m.expected = EmptyValue
    /\ UnlockOK(s, d, m)

\* What an answer of the current serial says of the lock still holds.
AnswerOK(s, d, m) ==
    /\ m.serial <= s.serial
    /\ Active(s) /\ m.serial = s.serial /\ m.op # "redirect" =>
          /\ s.phase = "lock" /\ (m.errc = "ok" \/ (m.errc = "no_match" /\ m.actual = s.value))
                => d.vv[LockKey(s.gid)] = [value |-> s.value, version |-> m.version]
          /\ s.phase = "unlock" =>
                d.vv[LockKey(s.gid)].version # s.lock_version

\* The types of a request's, a client's and a database's parts.
LEMMA RequestFields ==
    ASSUME NEW m \in RequestSet(Key, AnyValue)
    PROVE  m.serial \in Nat /\ m.op \in Op /\ m.key \in Key /\ m.value \in AnyValue
           /\ m.expected \in AnyValue /\ m.version_match \in Int
BY DEF RequestSet

\* A client's fields, and the key of its lock.
LEMMA ClientFields ==
    ASSUME NEW s \in ClientSet
    PROVE  s.gid \in Group /\ s.serial \in Nat /\ s.lock_version \in Nat
           /\ s.value \in AnyValue /\ s.phase \in Phase /\ LockKey(s.gid) \in Key
           /\ LockKey(s.gid)[2] = LockIndex
BY LockSeqAssumption DEF ClientSet, Key, LockKey, LockIndex

\* A database's fields; a versioned value is its two parts.
LEMMA DBFields ==
    ASSUME NEW d \in DBSet(Key, AnyValue), NEW k \in Key
    PROVE  d.next \in Nat /\ d.vv[k].version \in Nat /\ d.vv[k].value \in AnyValue
           /\ d.vv[k] = [value |-> d.vv[k].value, version |-> d.vv[k].version]
BY DEF DBSet, VVSet

-----------------------------------------------------------------------------
(* The same client, further on.                                            *)

\* A client that tries again, waits or throws keeps what is known of it and
\* of its messages, unless it throws while its unlock may still succeed.
LEMMA SameKeeps ==
    ASSUME NEW c \in Client, NEW s \in ClientSet, NEW t \in ClientSet,
           NEW d \in DBSet(Key, AnyValue),
           SameRequest(s, t), ClientOK(c, s, d), Active(s),
           t.pc # "idle",
           Active(t) \/ (s.phase = "unlock" =>
                             d.vv[LockKey(s.gid)].version # s.lock_version)
    PROVE  /\ ClientOK(c, t, d)
           /\ \A m \in RequestSet(Key, AnyValue) : RequestOK(s, d, m) => RequestOK(t, d, m)
           /\ \A m : AnswerOK(s, d, m) => AnswerOK(t, d, m)
<1>1. CurrentRequest(t) = CurrentRequest(s) /\ InLoop(t)
  BY SameCurrentRequest DEF ClientOK
<1>2. s.pc # "idle"
  BY DEF Active
<1>3. ClientOK(c, t, d)
  BY <1>1, <1>2 DEF ClientOK, SameRequest, HoldsLock
<1>4. ASSUME NEW m \in RequestSet(Key, AnyValue), RequestOK(s, d, m)
      PROVE  RequestOK(t, d, m)
  <2>1. m.serial <= t.serial
    BY <1>4 DEF RequestOK, SameRequest
  <2>2. Active(t) /\ m.serial = t.serial => m = CurrentRequest(t)
    BY <1>1, <1>4 DEF RequestOK, SameRequest
  <2>3. UnlockOK(t, d, m)
    <3> SUFFICES ASSUME m.op = "remove", m.key[2] = LockIndex,
                        d.vv[m.key].version = m.version_match
                 PROVE  Active(t) /\ t.phase = "unlock" /\ m.serial = t.serial
      BY <1>4 DEF RequestOK, UnlockOK
    <3>1. s.phase = "unlock" /\ m.serial = s.serial
      BY <1>4 DEF RequestOK, UnlockOK
    <3>2. m = CurrentRequest(s)
      BY <1>4, <3>1 DEF RequestOK
    <3>3. m.key = LockKey(s.gid) /\ m.version_match = s.lock_version
      BY <3>1, <3>2, RequestType DEF ClientOK
    <3> QED  BY <3>1, <3>3 DEF SameRequest
  <2> QED  BY <1>4, <2>1, <2>2, <2>3 DEF RequestOK
<1>5. ASSUME NEW m, AnswerOK(s, d, m)
      PROVE  AnswerOK(t, d, m)
  BY <1>5 DEF AnswerOK, SameRequest
<1> QED  BY <1>3, <1>4, <1>5

\* For a client that begins a new request, every message it has is old.
LEMMA NewKeeps ==
    ASSUME NEW s \in ClientSet, NEW t \in ClientSet,
           NEW d \in DBSet(Key, AnyValue),
           t.serial = s.serial + 1, s.phase # "unlock"
    PROVE  /\ \A m \in RequestSet(Key, AnyValue) : RequestOK(s, d, m) => RequestOK(t, d, m)
           /\ \A m \in Message : AnswerOK(s, d, m) => AnswerOK(t, d, m)
<1>1. \A m \in Message : m.serial \in Nat
  BY DEF Message, ResponseSet, RedirectionSet
<1>2. s.serial \in Nat
  BY ClientFields
<1>3. ASSUME NEW m \in RequestSet(Key, AnyValue), RequestOK(s, d, m)
      PROVE  RequestOK(t, d, m)
  <2>1. m.serial \in Nat /\ m.serial <= s.serial
    BY <1>3, RequestFields DEF RequestOK
  <2>2. m.serial < t.serial
    BY <1>2, <2>1
  <2>3. UnlockOK(t, d, m)
    BY <1>3 DEF RequestOK, UnlockOK
  <2> QED  BY <1>2, <1>3, <2>1, <2>2, <2>3 DEF RequestOK
<1>4. ASSUME NEW m \in Message, AnswerOK(s, d, m)
      PROVE  AnswerOK(t, d, m)
  BY <1>1, <1>2, <1>4 DEF AnswerOK
<1> QED  BY <1>3, <1>4

\* When a round ends, no message of the client can remove a lock any more.
LEMMA IdleKeeps ==
    ASSUME NEW c \in Client, NEW s \in ClientSet, NEW d \in DBSet(Key, AnyValue),
           ClientOK(c, s, d), Active(s), s.phase = "unlock",
           d.vv[LockKey(s.gid)].version # s.lock_version
    PROVE  LET t == Idle(s.serial, s.leader) IN
           /\ t \in ClientSet /\ ClientOK(c, t, d)
           /\ \A m \in RequestSet(Key, AnyValue) : RequestOK(s, d, m) => RequestOK(t, d, m)
           /\ \A m : AnswerOK(s, d, m) => AnswerOK(t, d, m)
<1> DEFINE t == Idle(s.serial, s.leader)
<1>1. s.serial \in Nat /\ s.leader \in Replica
  BY DEF ClientSet
<1>2. t \in ClientSet /\ InLoop(t)
  BY <1>1, IdleType
<1>3. t.pc = "idle" /\ t.phase = "lock" /\ t.serial = s.serial
  BY DEF Idle
<1> HIDE DEF t
<1>4. ~ Active(t)
  BY <1>3 DEF Active
<1>5. ClientOK(c, t, d)
  BY <1>2, <1>3 DEF ClientOK
<1>6. ASSUME NEW m \in RequestSet(Key, AnyValue), RequestOK(s, d, m)
      PROVE  RequestOK(t, d, m)
  <2>1. ~ (m.op = "remove" /\ m.key[2] = LockIndex /\ d.vv[m.key].version = m.version_match)
    <3> SUFFICES ASSUME m.op = "remove", m.key[2] = LockIndex,
                        d.vv[m.key].version = m.version_match
                 PROVE  FALSE
      OBVIOUS
    <3>1. m = CurrentRequest(s)
      BY <1>6 DEF RequestOK, UnlockOK
    <3>2. m.key = LockKey(s.gid) /\ m.version_match = s.lock_version
      BY <3>1, RequestType DEF ClientOK
    <3> QED  BY <3>2
  <2>2. UnlockOK(t, d, m)
    BY <1>6, <2>1 DEF RequestOK, UnlockOK
  <2> QED  BY <1>3, <1>4, <1>6, <2>2 DEF RequestOK
<1>7. ASSUME NEW m, AnswerOK(s, d, m)
      PROVE  AnswerOK(t, d, m)
  BY <1>3, <1>4, <1>7 DEF AnswerOK
<1>8. /\ t \in ClientSet /\ ClientOK(c, t, d)
      /\ \A m \in RequestSet(Key, AnyValue) : RequestOK(s, d, m) => RequestOK(t, d, m)
      /\ \A m : AnswerOK(s, d, m) => AnswerOK(t, d, m)
  BY <1>2, <1>5, <1>6, <1>7
<1> QED  BY <1>8 DEF t

-----------------------------------------------------------------------------
(* What executing a request does to a lock.                                *)

\* EraseType, for the keys and values of this protocol.
LEMMA EraseHere ==
    ASSUME NEW d \in DBSet(Key, AnyValue), NEW k \in Key
    PROVE  /\ Erase(d, k) \in DBSet(Key, AnyValue)
           /\ Erase(d, k).next = d.next + 1
           /\ \A j \in Key : Erase(d, k).vv[j] = IF j = k THEN NonexistentVV ELSE d.vv[j]
<1>1. EmptyValue \in AnyValue
  BY DEF AnyValue
<1>2. Erase(d, k) \in DBSet(Key, AnyValue)
  BY <1>1, EraseType
<1>3. Erase(d, k).next = d.next + 1
  BY DEF Erase
<1>4. \A j \in Key : Erase(d, k).vv[j] = IF j = k THEN NonexistentVV ELSE d.vv[j]
  BY DEF Erase, DBSet
<1> QED  BY <1>2, <1>3, <1>4

\* A lock stays as it is, is taken while it is free, or is removed at the
\* version it has.
LEMMA ExecuteLock ==
    ASSUME NEW s \in ClientSet, NEW d \in DBSet(Key, AnyValue), VersionsBelow(d),
           NEW m \in RequestSet(Key, AnyValue), RequestOK(s, d, m),
           NEW k \in Key, k[2] = LockIndex,
           NEW e, e = Process(d, m).db
    PROVE  \/ e.vv[k] = d.vv[k]
           \/ /\ m.op = "cas" /\ m.key = k /\ d.vv[k].value = EmptyValue
              /\ e.vv[k] = [value |-> m.value, version |-> d.next]
           \/ /\ m.op = "remove" /\ m.key = k /\ d.vv[k].version = m.version_match
              /\ e.vv[k] = NonexistentVV
<1>1. m.op \in {"cas", "put", "remove"} /\ m.key \in Key /\ m.value \in AnyValue
  BY RequestFields DEF RequestOK
<1>2. EmptyValue \in AnyValue
  BY DEF AnyValue
<1>3. CASE m.op = "put"
  <2>1. m.key # k
    BY <1>3 DEF RequestOK
  <2>2. e = d \/ e = Store(d, m.key, m.value)
    BY <1>3 DEF Process, ProcessPut
  <2> QED  BY <1>1, <2>1, <2>2, StoreType
<1>4. CASE m.op = "cas"
  <2>1. e = d \/ (e = Store(d, m.key, m.value) /\ d.vv[m.key].value = EmptyValue)
    BY <1>4 DEF Process, ProcessCas, RequestOK
  <2> QED  BY <1>1, <1>4, <2>1, StoreType
<1>5. CASE m.op = "remove"
  <2>1. e = d \/ (e = Erase(d, m.key) /\ VersionAdmits(m, d.vv[m.key]))
    BY <1>5 DEF Process, ProcessRemove
  <2>2. CASE e = Erase(d, m.key) /\ m.key = k /\ VersionAdmits(m, d.vv[k])
    <3>1. 0 < m.version_match
      BY <1>5, <2>2 DEF RequestOK, UnlockOK
    <3>2. m.version_match \in Int
      BY RequestFields
    <3>3. d.vv[k].version = m.version_match
      BY <2>2, <3>1, <3>2 DEF VersionAdmits
    <3>4. e.vv[k] = NonexistentVV
      BY <1>2, <2>2, EraseHere
    <3> QED  BY <1>5, <2>2, <3>3, <3>4
  <2>3. CASE e = Erase(d, m.key) /\ m.key # k
    BY <1>1, <1>2, <2>3, EraseHere
  <2> QED  BY <2>1, <2>2, <2>3
<1> QED  BY <1>1, <1>3, <1>4, <1>5

\* Versions stay below next, and next never goes down.
LEMMA ExecuteVersions ==
    ASSUME NEW d \in DBSet(Key, AnyValue), VersionsBelow(d),
           NEW m \in RequestSet(Key, AnyValue), NEW e, e = Process(d, m).db
    PROVE  e \in DBSet(Key, AnyValue) /\ VersionsBelow(e) /\ d.next <= e.next
<1>1. m.key \in Key /\ m.value \in AnyValue
  BY RequestFields
<1>2. EmptyValue \in AnyValue
  BY DEF AnyValue
<1>3. e \in DBSet(Key, AnyValue)
  BY <1>2, ProcessType
<1>4. d.next \in Nat /\ \A k \in Key : d.vv[k].version \in Nat
  BY <1>1, DBFields
<1>5. CASE e = d
  BY <1>3, <1>4, <1>5
<1>6. CASE e = Store(d, m.key, m.value)
  <2>1. /\ e.next = d.next + 1
        /\ \A k \in Key : e.vv[k] = IF k = m.key
                                      THEN [value |-> m.value, version |-> d.next]
                                      ELSE d.vv[k]
    BY <1>1, <1>6, StoreType
  <2> QED  BY <1>3, <1>4, <2>1 DEF VersionsBelow
<1>7. CASE e = Erase(d, m.key)
  <2>1. /\ e.next = d.next + 1
        /\ \A k \in Key : e.vv[k] = IF k = m.key THEN NonexistentVV ELSE d.vv[k]
    BY <1>1, <1>2, <1>7, EraseHere
  <2> QED  BY <1>3, <1>4, <2>1 DEF VersionsBelow, NonexistentVV, NonexistentVersion
<1> QED  BY <1>5, <1>6, <1>7, ProcessCases

\* A lock that a client owns survives every request but an unlock of its
\* own.
LEMMA OwnedLockStays ==
    ASSUME NEW c \in Client, NEW x \in Client, NEW s \in ClientSet,
           NEW d \in DBSet(Key, AnyValue), VersionsBelow(d),
           ClientOK(x, s, d), NEW m \in RequestSet(Key, AnyValue), RequestOK(s, d, m),
           NEW g \in Group, OwnedBy(d.vv[LockKey(g)].value, c),
           x = c => s.phase # "unlock"
    PROVE  Process(d, m).db.vv[LockKey(g)] = d.vv[LockKey(g)]
<1> DEFINE k == LockKey(g)
           e == Process(d, m).db
<1>1. k \in Key /\ k[2] = LockIndex
  BY LockSeqAssumption DEF Key, LockKey, LockIndex
<1>2. d.vv[k].value # EmptyValue
  BY LockSeqAssumption DEF OwnedBy, Value
<1>3. ASSUME m.op = "remove", m.key = k, d.vv[k].version = m.version_match
      PROVE  FALSE
  <2>1. Active(s) /\ s.phase = "unlock" /\ m.serial = s.serial
    BY <1>1, <1>3 DEF RequestOK, UnlockOK
  <2>2. m = CurrentRequest(s)
    BY <2>1 DEF RequestOK
  <2>3. k = LockKey(s.gid) /\ m.version_match = s.lock_version
    BY <1>3, <2>1, <2>2, RequestType DEF ClientOK
  <2>4. HoldsLock(s, d) /\ OwnedBy(s.value, x)
    BY <1>3, <2>1, <2>3 DEF ClientOK, Active
  <2>5. d.vv[k].value = s.value
    BY <2>3, <2>4 DEF HoldsLock
  <2>6. x = c
    BY <2>4, <2>5 DEF OwnedBy
  <2> QED  BY <2>1, <2>6
<1> HIDE DEF k, e
<1>4. \/ e.vv[k] = d.vv[k]
      \/ d.vv[k].value = EmptyValue
      \/ m.op = "remove" /\ m.key = k /\ d.vv[k].version = m.version_match
  <2>1. ASSUME NEW j \in Key, j[2] = LockIndex
        PROVE  \/ e.vv[j] = d.vv[j]
               \/ /\ m.op = "cas" /\ m.key = j /\ d.vv[j].value = EmptyValue
                  /\ e.vv[j] = [value |-> m.value, version |-> d.next]
               \/ /\ m.op = "remove" /\ m.key = j /\ d.vv[j].version = m.version_match
                  /\ e.vv[j] = NonexistentVV
    BY <2>1, ExecuteLock DEF e
  <2> QED  BY <1>1, <2>1
<1>5. e.vv[k] = d.vv[k]
  BY <1>2, <1>3, <1>4
<1> QED  BY <1>5 DEF k, e

\* A version that is spent is never put on a lock again.
LEMMA SpentVersion ==
    ASSUME NEW s \in ClientSet, NEW d \in DBSet(Key, AnyValue), VersionsBelow(d),
           NEW m \in RequestSet(Key, AnyValue), RequestOK(s, d, m),
           NEW k \in Key, k[2] = LockIndex, NEW v \in Int, 0 < v, v < d.next,
           Process(d, m).db.vv[k].version = v
    PROVE  Process(d, m).db.vv[k] = d.vv[k]
<1> DEFINE e == Process(d, m).db
<1>1. d.next \in Nat
  BY DBFields
<1> HIDE DEF e
<1>2. e.vv[k].version = v
  BY DEF e
<1>3. \/ e.vv[k] = d.vv[k]
      \/ e.vv[k] = [value |-> m.value, version |-> d.next]
      \/ e.vv[k] = NonexistentVV
  BY ExecuteLock DEF e
<1>4. e.vv[k] = d.vv[k]
  BY <1>1, <1>2, <1>3 DEF NonexistentVV, NonexistentVersion
<1> QED  BY <1>4 DEF e

-----------------------------------------------------------------------------
(* Queues.                                                                 *)

Elems(q) == {q[i] : i \in DOMAIN q}

\* An appended queue has one element more.
LEMMA AppendElems ==
    ASSUME NEW S, NEW q \in Seq(S), NEW m \in S
    PROVE  /\ Append(q, m) \in Seq(S)
           /\ \A x \in Elems(Append(q, m)) : x \in Elems(q) \/ x = m
BY DEF Elems

\* The head of a queue is in it, and so is what is left behind the head.
LEMMA TailElems ==
    ASSUME NEW S, NEW q \in Seq(S), q # << >>
    PROVE  /\ Head(q) \in S /\ Head(q) \in Elems(q)
           /\ Tail(q) \in Seq(S)
           /\ \A x \in Elems(Tail(q)) : x \in Elems(q)
<1>1. Len(q) \in Nat /\ Len(q) > 0 /\ DOMAIN q = 1 .. Len(q)
  BY EmptySeq, LenProperties
<1>2. Head(q) = q[1] /\ q[1] \in S /\ 1 \in DOMAIN q
  BY <1>1, ElementOfSeq, HeadTailProperties
<1>3. /\ Tail(q) \in Seq(S) /\ Len(Tail(q)) = Len(q) - 1
      /\ \A i \in 1 .. Len(Tail(q)) : Tail(q)[i] = q[i + 1]
  BY HeadTailProperties
<1>4. ASSUME NEW i \in DOMAIN Tail(q)
      PROVE  Tail(q)[i] \in Elems(q)
  <2>1. i \in 1 .. Len(Tail(q))
    BY <1>3, LenProperties
  <2>2. i + 1 \in DOMAIN q /\ Tail(q)[i] = q[i + 1]
    BY <1>1, <1>3, <2>1
  <2> QED  BY <2>2 DEF Elems
<1> QED  BY <1>2, <1>3, <1>4 DEF Elems

\* One queue of one client changes.
LEMMA OneQueue ==
    ASSUME NEW C, NEW R, NEW T, NEW f \in [C -> [R -> T]],
           NEW c \in C, NEW r \in R, NEW q \in T,
           NEW g, g = [f EXCEPT ![c][r] = q]
    PROVE  /\ g \in [C -> [R -> T]]
           /\ \A x \in C \ {c} : g[x] = f[x]
           /\ \A y \in R : g[c][y] = IF y = r THEN q ELSE f[c][y]
<1> DEFINE h == [f[c] EXCEPT ![r] = q]
<1>1. h \in [R -> T] /\ \A y \in R : h[y] = IF y = r THEN q ELSE f[c][y]
  OBVIOUS
<1>2. g = [f EXCEPT ![c] = h]
  OBVIOUS
<1> HIDE DEF h
<1> QED  BY <1>1, <1>2

-----------------------------------------------------------------------------
(* The invariant.                                                          *)

RequestsOK ==
    \A c \in Client, r \in Replica :
        \A m \in Elems(requests[c][r]) : RequestOK(cl[c], db, m)

AnswersOK ==
    \A c \in Client : \A m \in Elems(inbox[c]) : AnswerOK(cl[c], db, m)

IInv ==
    /\ TypeOK
    /\ VersionsBelow(db)
    /\ \A c \in Client : ClientOK(c, cl[c], db)
    /\ RequestsOK
    /\ AnswersOK

\* TypeOK with the sets of this module.
LEMMA Types ==
    TypeOK <=>
        /\ cl \in [Client -> ClientSet]
        /\ requests \in [Client -> [Replica -> Seq(RequestSet(Key, AnyValue))]]
        /\ inbox \in [Client -> Seq(Message)]
        /\ db \in DBSet(Key, AnyValue)
BY DEF TypeOK, ClientSet, Message

\* At the start there is no message, and every client is between rounds.
LEMMA InitIInv == Init => IInv
<1> SUFFICES ASSUME Init PROVE IInv
  OBVIOUS
<1>1. PICK hint \in [Client -> Replica] : cl = [c \in Client |-> Idle(0, hint[c])]
  BY DEF Init
<1>2. \A c \in Client : cl[c] = Idle(0, hint[c]) /\ cl[c] \in ClientSet /\ InLoop(cl[c])
  BY <1>1, IdleType
<1>3. /\ requests \in [Client -> [Replica -> Seq(RequestSet(Key, AnyValue))]]
      /\ \A c \in Client, r \in Replica : requests[c][r] = << >>
      /\ inbox \in [Client -> Seq(Message)]
      /\ \A c \in Client : inbox[c] = << >>
  BY DEF Init
<1>4. db \in DBSet(Key, AnyValue)
  BY DEF Init, EmptyDB, DBSet, VVSet, NonexistentVV, NonexistentVersion, AnyValue
<1>5. VersionsBelow(db)
  BY DEF Init, EmptyDB, VersionsBelow, NonexistentVV, NonexistentVersion
<1>6. TypeOK
  BY <1>1, <1>2, <1>3, <1>4, Types
<1>7. \A c \in Client : ClientOK(c, cl[c], db)
  <2>1. \A c \in Client : cl[c].pc = "idle" /\ cl[c].phase = "lock"
    BY <1>1, IdleType
  <2> QED  BY <1>2, <2>1 DEF ClientOK
<1>8. RequestsOK /\ AnswersOK
  BY <1>3 DEF RequestsOK, AnswersOK, Elems
<1> QED  BY <1>5, <1>6, <1>7, <1>8 DEF IInv

-----------------------------------------------------------------------------
(* Client steps.                                                           *)

\* One client moves, the database stays: it is enough to look at that
\* client and its messages.
LEMMA ClientMove ==
    ASSUME IInv, NEW c \in Client, NEW t \in ClientSet, Become(c, t), db' = db,
           requests' \in [Client -> [Replica -> Seq(RequestSet(Key, AnyValue))]],
           inbox' \in [Client -> Seq(Message)],
           \A x \in Client \ {c} : requests'[x] = requests[x] /\ inbox'[x] = inbox[x],
           ClientOK(c, t, db),
           \A r \in Replica : \A m \in Elems(requests'[c][r]) : RequestOK(t, db, m),
           \A m \in Elems(inbox'[c]) : AnswerOK(t, db, m)
    PROVE  IInv'
<1>1. /\ cl' \in [Client -> ClientSet]
      /\ cl'[c] = t
      /\ \A x \in Client \ {c} : cl'[x] = cl[x]
  BY Types DEF IInv, Become
<1>2. TypeOK'
  <2>1. db' \in DBSet(Key, AnyValue)
    BY Types DEF IInv
  <2> QED  BY <1>1, <2>1 DEF TypeOK, ClientSet, Message
<1>3. VersionsBelow(db')
  BY DEF IInv
<1>4. ASSUME NEW x \in Client
      PROVE  ClientOK(x, cl'[x], db')
  <2>1. CASE x = c
    BY <1>1, <2>1
  <2>2. CASE x # c
    BY <1>1, <2>2 DEF IInv
  <2> QED  BY <2>1, <2>2
<1>5. ASSUME NEW x \in Client, NEW r \in Replica, NEW m \in Elems(requests'[x][r])
      PROVE  RequestOK(cl'[x], db', m)
  <2>1. CASE x = c
    BY <1>1, <2>1
  <2>2. CASE x # c
    BY <1>1, <2>2 DEF IInv, RequestsOK
  <2> QED  BY <2>1, <2>2
<1>6. ASSUME NEW x \in Client, NEW m \in Elems(inbox'[x])
      PROVE  AnswerOK(cl'[x], db', m)
  <2>1. CASE x = c
    BY <1>1, <2>1
  <2>2. CASE x # c
    BY <1>1, <2>2 DEF IInv, AnswersOK
  <2> QED  BY <2>1, <2>2
<1> QED  BY <1>2, <1>3, <1>4, <1>5, <1>6 DEF IInv, RequestsOK, AnswersOK

\* What the invariant says of one client.
LEMMA OneClient ==
    ASSUME IInv, NEW c \in Client
    PROVE  /\ cl[c] \in ClientSet /\ db \in DBSet(Key, AnyValue)
           /\ VersionsBelow(db) /\ ClientOK(c, cl[c], db)
           /\ \A r \in Replica : /\ requests[c][r] \in Seq(RequestSet(Key, AnyValue))
                                 /\ \A m \in Elems(requests[c][r]) : RequestOK(cl[c], db, m)
           /\ inbox[c] \in Seq(Message)
           /\ \A m \in Elems(inbox[c]) : AnswerOK(cl[c], db, m)
BY Types DEF IInv, RequestsOK, AnswersOK

\* What is in a queue has the type of its members.
LEMMA ElemsType ==
    ASSUME NEW S, NEW q \in Seq(S), NEW m \in Elems(q)
    PROVE  m \in S
BY ElementOfSeq, LenProperties DEF Elems

\* A step of one client that leaves its requests on their way and takes
\* at most one message from its inbox.
LEMMA ClientStaysOrTakes ==
    ASSUME IInv, NEW c \in Client, NEW t \in ClientSet, Become(c, t),
           UNCHANGED <<requests, db>>,
           \/ inbox' = inbox
           \/ inbox[c] # << >> /\ inbox' = [inbox EXCEPT ![c] = Tail(@)],
           ClientOK(c, t, db),
           \A m \in RequestSet(Key, AnyValue) : RequestOK(cl[c], db, m) => RequestOK(t, db, m),
           \A m \in Message : AnswerOK(cl[c], db, m) => AnswerOK(t, db, m)
    PROVE  IInv'
<1>1. /\ requests \in [Client -> [Replica -> Seq(RequestSet(Key, AnyValue))]]
      /\ inbox \in [Client -> Seq(Message)]
  BY Types DEF IInv
<1>2. /\ Tail(inbox[c]) \in Seq(Message) \/ inbox' = inbox
      /\ \A m \in Elems(inbox'[c]) : m \in Elems(inbox[c])
  BY <1>1, TailElems
<1>3. /\ inbox' \in [Client -> Seq(Message)]
      /\ \A x \in Client \ {c} : inbox'[x] = inbox[x]
  BY <1>1, <1>2
<1>4. ASSUME NEW r \in Replica, NEW m \in Elems(requests'[c][r])
      PROVE  RequestOK(t, db, m)
  <2>1. m \in Elems(requests[c][r]) /\ RequestOK(cl[c], db, m)
    BY OneClient
  <2>2. m \in RequestSet(Key, AnyValue)
    BY <1>1, <2>1, ElemsType
  <2> QED  BY <2>1, <2>2
<1>5. ASSUME NEW m \in Elems(inbox'[c])
      PROVE  AnswerOK(t, db, m)
  <2>1. m \in Elems(inbox[c]) /\ AnswerOK(cl[c], db, m)
    BY <1>2, OneClient
  <2>2. m \in Message
    BY <1>1, <2>1, ElemsType
  <2> QED  BY <2>1, <2>2
<1> QED  BY <1>1, <1>3, <1>4, <1>5, ClientMove

\* A new round has a new serial, so that all of its client's messages are
\* old, and a value its client owns.
LEMMA StartRoundIInv ==
    ASSUME IInv, NEW c \in Client, StartRound(c)
    PROVE  IInv'
<1> USE LockSeqAssumption
<1>1. PICK g \in Group, x \in Nonce, len \in 1 .. MaxLen :
          Become(c, Begin([cl[c] EXCEPT !.gid = g, !.value = <<c, x>>,
                                        !.nvalues = len], "lock"))
  BY DEF StartRound
<1>2. /\ cl[c] \in ClientSet /\ cl[c].pc = "idle" /\ ClientOK(c, cl[c], db)
      /\ db \in DBSet(Key, AnyValue)
  BY OneClient DEF StartRound
<1> DEFINE a == [cl[c] EXCEPT !.gid = g]
           b == [a EXCEPT !.value = <<c, x>>]
           s == [b EXCEPT !.nvalues = len]
           t == Begin(s, "lock")
<1>3. a \in ClientSet /\ a.serial = cl[c].serial
  BY <1>2 DEF ClientSet
<1>4. t = Begin([cl[c] EXCEPT !.gid = g, !.value = <<c, x>>, !.nvalues = len], "lock")
  OBVIOUS
<1> HIDE DEF a
<1>5. b \in ClientSet /\ b.serial = cl[c].serial /\ b.value = <<c, x>>
  BY <1>3 DEF ClientSet, AnyValue, Value
<1> HIDE DEF b
<1>6. s \in ClientSet /\ s.serial = cl[c].serial /\ s.value = <<c, x>>
  BY <1>5 DEF ClientSet
<1> HIDE DEF s
<1>7. /\ t \in ClientSet /\ t.serial = cl[c].serial + 1 /\ t.value = <<c, x>>
      /\ t.pc = "send" /\ t.phase = "lock"
  <2>1. "lock" \in Phase
    BY DEF Phase
  <2> QED  BY <1>6, <2>1, BeginType
<1> HIDE DEF t
<1>8. ClientOK(c, t, db)
  BY <1>7 DEF ClientOK, InLoop, OwnedBy
<1>9. cl[c].phase # "unlock"
  BY <1>2 DEF ClientOK
<1> QED  BY <1>1, <1>2, <1>4, <1>7, <1>8, <1>9, NewKeeps, ClientStaysOrTakes
         DEF StartRound

\* The current request may be sent.
LEMMA CurrentRequestOK ==
    ASSUME NEW c \in Client, NEW s \in ClientSet, NEW d \in DBSet(Key, AnyValue),
           ClientOK(c, s, d), Active(s)
    PROVE  RequestOK(s, d, CurrentRequest(s))
<1> DEFINE m == CurrentRequest(s)
<1>1. s.serial \in Nat /\ s.phase \in Phase
  BY ClientFields
<1>2. InLoop(s)
  BY DEF ClientOK
<1>3. m.serial = s.serial /\ m.op \in {"cas", "put", "remove"}
  BY <1>2, RequestType
<1>4. CASE s.phase = "lock"
  <2>1. m.op = "cas" /\ m.expected = EmptyValue
    BY <1>2, <1>4, RequestType
  <2> HIDE DEF m
  <2>2. RequestOK(s, d, m) <=> m = CurrentRequest(s)
    BY <1>1, <1>3, <2>1 DEF RequestOK, UnlockOK
  <2> QED  BY <2>2 DEF m
<1>5. CASE s.phase \in {"write", "clear"}
  <2>1. m.key = ValueKey(s.gid, s.n) /\ m.op \in {"put", "remove"}
    BY <1>2, <1>5, RequestType
  <2>2. s.n \in Nat
    BY LockSeqAssumption DEF ClientSet
  <2>3. m.key[2] # LockIndex
    BY <2>1, <2>2 DEF ValueKey, LockIndex
  <2> HIDE DEF m
  <2>4. RequestOK(s, d, m) <=> m = CurrentRequest(s)
    BY <1>1, <1>3, <2>1, <2>3 DEF RequestOK, UnlockOK
  <2> QED  BY <2>4 DEF m
<1>6. CASE s.phase = "unlock"
  <2>1. m.op = "remove" /\ m.version_match = s.lock_version
    BY <1>2, <1>6, RequestType
  <2>2. 0 < m.version_match /\ m.version_match < d.next
    BY <1>6, <2>1 DEF ClientOK
  <2> HIDE DEF m
  <2>3. RequestOK(s, d, m) <=> m = CurrentRequest(s)
    BY <1>1, <1>3, <1>6, <2>1, <2>2 DEF RequestOK, UnlockOK
  <2> QED  BY <2>3 DEF m
<1> QED  BY <1>1, <1>4, <1>5, <1>6 DEF Phase

\* What is sent is the current request.
LEMMA SendIInv ==
    ASSUME IInv, NEW c \in Client, Send(c)
    PROVE  IInv'
<1> DEFINE s == cl[c]
           t == [s EXCEPT !.pc = "wait"]
           q == requests[c][s.leader]
<1>1. /\ s \in ClientSet /\ s.pc = "send" /\ ClientOK(c, s, db)
      /\ db \in DBSet(Key, AnyValue) /\ s.leader \in Replica
      /\ q \in Seq(RequestSet(Key, AnyValue))
  BY OneClient DEF Send, ClientSet
<1>2. t \in ClientSet /\ SameRequest(s, t) /\ t.pc = "wait"
  BY <1>1 DEF ClientSet, SameRequest
<1>3. Become(c, t) /\ db' = db /\ inbox' = inbox
  BY DEF Send
<1>4. \/ requests' = requests
      \/ requests' = [requests EXCEPT ![c][s.leader] = Append(@, CurrentRequest(s))]
  BY DEF Send
<1>5. /\ CurrentRequest(s) \in RequestSet(Key, AnyValue)
      /\ RequestOK(s, db, CurrentRequest(s))
  BY <1>1, RequestType, CurrentRequestOK DEF ClientOK, Active
<1>6. /\ requests \in [Client -> [Replica -> Seq(RequestSet(Key, AnyValue))]]
      /\ inbox \in [Client -> Seq(Message)]
  BY Types DEF IInv
<1> HIDE DEF t, s
<1>7. Active(s) /\ Active(t) /\ t.pc # "idle"
  BY <1>1, <1>2 DEF Active
<1>8. /\ ClientOK(c, t, db)
      /\ \A m \in RequestSet(Key, AnyValue) : RequestOK(s, db, m) => RequestOK(t, db, m)
      /\ \A m : AnswerOK(s, db, m) => AnswerOK(t, db, m)
  BY <1>1, <1>2, <1>7, SameKeeps
<1>9. /\ Append(q, CurrentRequest(s)) \in Seq(RequestSet(Key, AnyValue))
      /\ \A m \in Elems(Append(q, CurrentRequest(s))) :
            m \in Elems(q) \/ m = CurrentRequest(s)
  BY <1>1, <1>5, AppendElems
<1>10. /\ requests' \in [Client -> [Replica -> Seq(RequestSet(Key, AnyValue))]]
       /\ \A x \in Client \ {c} : requests'[x] = requests[x]
       /\ \A r \in Replica : \/ requests'[c][r] = requests[c][r]
                              \/ /\ requests'[c][r] = Append(q, CurrentRequest(s))
                                 /\ q = requests[c][r]
  <2>1. CASE requests' = requests
    BY <1>6, <2>1
  <2>2. CASE requests' = [requests EXCEPT ![c][s.leader] = Append(@, CurrentRequest(s))]
    <3> DEFINE p == Append(q, CurrentRequest(s))
    <3>1. requests' = [requests EXCEPT ![c][s.leader] = p]
      BY <2>2
    <3>2. p \in Seq(RequestSet(Key, AnyValue))
      BY <1>9
    <3> HIDE DEF p
    <3>3. /\ requests' \in [Client -> [Replica -> Seq(RequestSet(Key, AnyValue))]]
          /\ \A x \in Client \ {c} : requests'[x] = requests[x]
          /\ \A r \in Replica :
                requests'[c][r] = IF r = s.leader THEN p ELSE requests[c][r]
      BY <1>1, <1>6, <3>1, <3>2, OneQueue
    <3> QED  BY <3>3 DEF p
  <2> QED  BY <1>4, <2>1, <2>2
<1> HIDE DEF q
<1>11. ASSUME NEW r \in Replica, NEW m \in Elems(requests'[c][r])
       PROVE  RequestOK(t, db, m)
  <2>1. m \in Elems(requests[c][r]) \/ m = CurrentRequest(s)
    <3>1. CASE requests'[c][r] = requests[c][r]
      BY <1>11, <3>1
    <3>2. CASE /\ requests'[c][r] = Append(q, CurrentRequest(s))
               /\ q = requests[c][r]
      BY <1>9, <1>11, <3>2
    <3> QED  BY <1>10, <3>1, <3>2
  <2>2. CASE m \in Elems(requests[c][r])
    <3>1. RequestOK(s, db, m) /\ m \in RequestSet(Key, AnyValue)
      BY <1>6, <2>2, OneClient, ElemsType DEF s
    <3> QED  BY <1>8, <3>1
  <2>3. CASE m = CurrentRequest(s)
    BY <1>5, <1>8, <2>3
  <2> QED  BY <2>1, <2>2, <2>3
<1>12. ASSUME NEW m \in Elems(inbox'[c])
       PROVE  AnswerOK(t, db, m)
  <2>1. AnswerOK(s, db, m)
    BY <1>3, OneClient DEF s
  <2> QED  BY <1>8, <2>1
<1> QED  BY <1>2, <1>3, <1>6, <1>8, <1>10, <1>11, <1>12, ClientMove

\* A time-out leaves the client about the same request.
LEMMA TimeoutIInv ==
    ASSUME IInv, NEW c \in Client, Timeout(c)
    PROVE  IInv'
<1>1. PICK t \in Retries(cl[c], cl[c].leader) : Become(c, t)
  BY DEF Timeout
<1>2. /\ cl[c] \in ClientSet /\ cl[c].leader \in Replica /\ Active(cl[c])
      /\ ClientOK(c, cl[c], db) /\ db \in DBSet(Key, AnyValue)
  BY OneClient DEF Timeout, ClientSet, Active
<1>3. t \in ClientSet /\ SameRequest(cl[c], t) /\ t.pc = "send"
  BY <1>2, RetriesType
<1>4. Active(t) /\ t.pc # "idle"
  BY <1>3 DEF Active
<1>5. UNCHANGED <<requests, db>> /\ inbox' = inbox
  BY DEF Timeout
<1> QED  BY <1>1, <1>2, <1>3, <1>4, <1>5, SameKeeps, ClientStaysOrTakes

\* A stale answer is dropped and nothing else changes.
LEMMA DropStaleIInv ==
    ASSUME IInv, NEW c \in Client, DropStale(c)
    PROVE  IInv'
<1>1. cl[c] \in ClientSet /\ ClientOK(c, cl[c], db)
  BY OneClient
<1>2. Become(c, cl[c])
  BY Types DEF IInv, DropStale, Become
<1> QED  BY <1>1, <1>2, ClientStaysOrTakes DEF DropStale, Receiving

\* The message at the head of the port, when it is of the current serial.
LEMMA HeadOK ==
    ASSUME IInv, NEW c \in Client, Current(c)
    PROVE  LET m == Head(inbox[c]) IN
           /\ m \in Message /\ m.serial = cl[c].serial /\ AnswerOK(cl[c], db, m)
           /\ Active(cl[c])
           /\ m.op # "redirect" => m \in ResponseSet(AnyValue)
           /\ m.op = "redirect" => m.redirection \in Replica
<1> DEFINE m == Head(inbox[c])
<1>1. cl[c].pc = "wait" /\ inbox[c] # << >> /\ m.serial = cl[c].serial
  BY DEF Current, Receiving
<1>2. m \in Message /\ m \in Elems(inbox[c])
  BY <1>1, OneClient, TailElems
<1>3. AnswerOK(cl[c], db, m)
  BY <1>2, OneClient
<1> HIDE DEF m
<1>4. /\ m.op # "redirect" => m \in ResponseSet(AnyValue)
      /\ m.op = "redirect" => m.redirection \in Replica
  BY <1>2 DEF Message, ResponseSet, RedirectionSet, Op
<1> QED  BY <1>1, <1>2, <1>3, <1>4 DEF m, Active

\* A redirection leaves the client about the same request.
LEMMA RedirectedIInv ==
    ASSUME IInv, NEW c \in Client, Redirected(c)
    PROVE  IInv'
<1> DEFINE m == Head(inbox[c])
           hint == IF m.op = "redirect" THEN m.redirection ELSE cl[c].leader
<1>1. PICK t \in Retries(cl[c], hint) : Become(c, t)
  BY DEF Redirected
<1>2. Current(c) /\ inbox[c] # << >>
  BY DEF Redirected, Current, Receiving
<1>3. /\ cl[c] \in ClientSet /\ cl[c].leader \in Replica /\ Active(cl[c])
      /\ ClientOK(c, cl[c], db) /\ db \in DBSet(Key, AnyValue)
  BY <1>2, OneClient, HeadOK DEF ClientSet
<1>4. hint \in Replica
  BY <1>2, <1>3, HeadOK
<1> HIDE DEF hint
<1>5. t \in ClientSet /\ SameRequest(cl[c], t) /\ t.pc = "send"
  BY <1>1, <1>3, <1>4, RetriesType
<1>6. Active(t) /\ t.pc # "idle"
  BY <1>5 DEF Active
<1>7. UNCHANGED <<requests, db>> /\ inbox' = [inbox EXCEPT ![c] = Tail(@)]
  BY DEF Redirected
<1> QED  BY <1>1, <1>2, <1>3, <1>5, <1>6, <1>7, SameKeeps, ClientStaysOrTakes

\* What every answered request has in common.
LEMMA AnsweredFacts ==
    ASSUME IInv, NEW c \in Client, NEW phase, NEW t, Answered(c, phase, t)
    PROVE  /\ Current(c) /\ inbox[c] # << >> /\ cl[c].phase = phase
           /\ cl[c] \in ClientSet /\ Active(cl[c]) /\ ClientOK(c, cl[c], db)
           /\ VersionsBelow(db) /\ db \in DBSet(Key, AnyValue)
           /\ Head(inbox[c]) \in ResponseSet(AnyValue)
           /\ Head(inbox[c]).op # "redirect"
           /\ Head(inbox[c]).serial = cl[c].serial
           /\ AnswerOK(cl[c], db, Head(inbox[c]))
           /\ Become(c, t) /\ UNCHANGED <<requests, db>>
           /\ inbox' = [inbox EXCEPT ![c] = Tail(@)]
<1>1. Current(c) /\ inbox[c] # << >>
  BY DEF Answered, Current, Receiving
<1>2. CurrentRequest(cl[c]).op \in {"cas", "put", "remove"}
  BY OneClient, RequestType DEF ClientOK
<1>3. Head(inbox[c]).op # "redirect"
  BY <1>2 DEF Answered
<1> QED  BY <1>1, <1>3, OneClient, HeadOK DEF Answered

\* An answer that grants the lock is right about the lock's version; with
\* any other the client is about the same request, or throws.
LEMMA LockAnsweredIInv ==
    ASSUME IInv, NEW c \in Client, LockAnswered(c)
    PROVE  IInv'
<1> DEFINE m == Head(inbox[c])
           s == cl[c]
           t == AfterLock(c, s, m)
<1>1. Answered(c, "lock", t)
  BY DEF LockAnswered
<1>2. /\ inbox[c] # << >> /\ s.phase = "lock"
      /\ s \in ClientSet /\ Active(s) /\ ClientOK(c, s, db)
      /\ VersionsBelow(db) /\ db \in DBSet(Key, AnyValue)
      /\ m \in ResponseSet(AnyValue) /\ m.op # "redirect" /\ m.serial = s.serial
      /\ AnswerOK(s, db, m)
      /\ Become(c, t) /\ UNCHANGED <<requests, db>>
      /\ inbox' = [inbox EXCEPT ![c] = Tail(@)]
  BY <1>1, AnsweredFacts
<1>3. /\ t \in ClientSet
      /\ \/ /\ Granted(s, m)
            /\ t.pc = "send" /\ t.phase = "write" /\ InLoop(t)
            /\ t.serial = s.serial + 1 /\ t.gid = s.gid /\ t.value = s.value
            /\ t.lock_version = m.version
         \/ SameRequest(s, t) /\ t.pc \in {"send", "failed"}
  BY <1>2, AfterLockType
<1> HIDE DEF t, m
<1>4. CASE SameRequest(s, t) /\ t.pc \in {"send", "failed"}
  <2>1. t.pc # "idle" /\ s.phase # "unlock"
    BY <1>2, <1>4
  <2>2. /\ ClientOK(c, t, db)
        /\ \A r \in RequestSet(Key, AnyValue) : RequestOK(s, db, r) => RequestOK(t, db, r)
        /\ \A r : AnswerOK(s, db, r) => AnswerOK(t, db, r)
    BY <1>2, <1>3, <1>4, <2>1, SameKeeps
  <2> QED  BY <1>2, <1>3, <2>2, ClientStaysOrTakes
<1>5. CASE /\ Granted(s, m)
           /\ t.pc = "send" /\ t.phase = "write" /\ InLoop(t)
           /\ t.serial = s.serial + 1 /\ t.gid = s.gid /\ t.value = s.value
           /\ t.lock_version = m.version
  <2>1. db.vv[LockKey(s.gid)] = [value |-> s.value, version |-> m.version]
    BY <1>2, <1>5 DEF AnswerOK, Granted
  <2>2. HoldsLock(t, db)
    BY <1>5, <2>1 DEF HoldsLock
  <2>3. OwnedBy(s.value, c) /\ s.value # EmptyValue
    BY <1>2, LockSeqAssumption DEF ClientOK, Active, OwnedBy, Value
  <2>4. LockKey(s.gid) \in Key
    BY <1>2, ClientFields
  <2>5. m.version < db.next /\ m.version # 0 /\ m.version \in Nat
    <3>1. m.version \in Nat
      BY <1>2 DEF ResponseSet
    <3>2. /\ db.vv[LockKey(s.gid)].version = m.version
          /\ db.vv[LockKey(s.gid)].value = s.value
      BY <2>1
    <3> QED  BY <1>2, <2>3, <2>4, <3>1, <3>2 DEF VersionsBelow
  <2>6. ClientOK(c, t, db)
    BY <1>5, <2>2, <2>3, <2>5 DEF ClientOK
  <2>7. s.phase # "unlock"
    BY <1>2
  <2>8. /\ \A r \in RequestSet(Key, AnyValue) : RequestOK(s, db, r) => RequestOK(t, db, r)
        /\ \A r \in Message : AnswerOK(s, db, r) => AnswerOK(t, db, r)
    BY <1>2, <1>3, <1>5, <2>7, NewKeeps
  <2> QED  BY <1>2, <1>3, <2>6, <2>8, ClientStaysOrTakes
<1> QED  BY <1>3, <1>4, <1>5

\* The answers to writes and clears move n and the phase, never the lock.
LEMMA ValueAnsweredIInv ==
    ASSUME IInv, NEW c \in Client, WriteAnswered(c) \/ ClearAnswered(c)
    PROVE  IInv'
<1> DEFINE m == Head(inbox[c])
           s == cl[c]
<1>1. PICK t \in {AfterWrite(s, m), AfterClear(s, m)}, phase \in {"write", "clear"} :
          Answered(c, phase, t)
  BY DEF WriteAnswered, ClearAnswered
<1>2. /\ inbox[c] # << >> /\ s.phase \in {"write", "clear"}
      /\ s \in ClientSet /\ Active(s) /\ ClientOK(c, s, db)
      /\ db \in DBSet(Key, AnyValue)
      /\ Become(c, t) /\ UNCHANGED <<requests, db>>
      /\ inbox' = [inbox EXCEPT ![c] = Tail(@)]
  BY <1>1, AnsweredFacts
<1>3. /\ t \in ClientSet
      /\ \/ /\ t.pc = "send" /\ t.phase \in {"write", "clear", "unlock"}
            /\ InLoop(t)
            /\ t.serial = s.serial + 1 /\ t.gid = s.gid /\ t.value = s.value
            /\ t.lock_version = s.lock_version
         \/ SameRequest(s, t) /\ t.pc = "failed"
  BY <1>1, <1>2, AfterValueType DEF ClientOK
<1>4. s.phase # "unlock"
  BY <1>2
<1>5. CASE SameRequest(s, t) /\ t.pc = "failed"
  <2>1. /\ ClientOK(c, t, db)
        /\ \A r \in RequestSet(Key, AnyValue) : RequestOK(s, db, r) => RequestOK(t, db, r)
        /\ \A r : AnswerOK(s, db, r) => AnswerOK(t, db, r)
    BY <1>2, <1>3, <1>4, <1>5, SameKeeps
  <2> QED  BY <1>2, <1>3, <2>1, ClientStaysOrTakes
<1>6. CASE /\ t.pc = "send" /\ t.phase \in {"write", "clear", "unlock"}
           /\ InLoop(t)
           /\ t.serial = s.serial + 1 /\ t.gid = s.gid /\ t.value = s.value
           /\ t.lock_version = s.lock_version
  <2>1. HoldsLock(t, db) /\ OwnedBy(t.value, c)
        /\ 0 < t.lock_version /\ t.lock_version < db.next
    BY <1>2, <1>6 DEF ClientOK, HoldsLock, Active
  <2>2. ClientOK(c, t, db)
    BY <1>6, <2>1 DEF ClientOK
  <2>3. /\ \A r \in RequestSet(Key, AnyValue) : RequestOK(s, db, r) => RequestOK(t, db, r)
        /\ \A r \in Message : AnswerOK(s, db, r) => AnswerOK(t, db, r)
    BY <1>2, <1>3, <1>4, <1>6, NewKeeps
  <2> QED  BY <1>2, <1>3, <2>2, <2>3, ClientStaysOrTakes
<1> QED  BY <1>3, <1>5, <1>6

\* An answer to an unlock means that the version is gone, so that no late
\* copy of the unlock can remove anything.
LEMMA UnlockAnsweredIInv ==
    ASSUME IInv, NEW c \in Client, UnlockAnswered(c)
    PROVE  IInv'
<1> DEFINE m == Head(inbox[c])
           s == cl[c]
           t == AfterUnlock(s, m)
<1>1. Answered(c, "unlock", t)
  BY DEF UnlockAnswered
<1>2. /\ inbox[c] # << >> /\ s.phase = "unlock"
      /\ s \in ClientSet /\ Active(s) /\ ClientOK(c, s, db)
      /\ db \in DBSet(Key, AnyValue)
      /\ m.op # "redirect" /\ m.serial = s.serial /\ AnswerOK(s, db, m)
      /\ Become(c, t) /\ UNCHANGED <<requests, db>>
      /\ inbox' = [inbox EXCEPT ![c] = Tail(@)]
  BY <1>1, AnsweredFacts
<1>3. db.vv[LockKey(s.gid)].version # s.lock_version
  BY <1>2 DEF AnswerOK
<1>4. t = Throw(s) \/ t = Idle(s.serial, s.leader)
  BY <1>2, AfterUnlockType
<1> HIDE DEF t, m
<1>5. /\ t \in ClientSet /\ ClientOK(c, t, db)
      /\ \A r \in RequestSet(Key, AnyValue) : RequestOK(s, db, r) => RequestOK(t, db, r)
      /\ \A r : AnswerOK(s, db, r) => AnswerOK(t, db, r)
  <2>1. CASE t = Throw(s)
    <3>1. t \in ClientSet /\ SameRequest(s, t) /\ t.pc # "idle"
      BY <1>2, <2>1, ThrowType
    <3> QED  BY <1>2, <1>3, <3>1, SameKeeps
  <2>2. CASE t = Idle(s.serial, s.leader)
    BY <1>2, <1>3, <2>2, IdleKeeps
  <2> QED  BY <1>4, <2>1, <2>2
<1> QED  BY <1>2, <1>5, ClientStaysOrTakes

-----------------------------------------------------------------------------
(* Replica steps.                                                          *)

\* A replica takes one request of c and may answer it.
LEMMA ReplicaQueues ==
    ASSUME IInv, NEW c \in Client, NEW r \in Replica, requests[c][r] # << >>,
           NEW q, q = Tail(requests[c][r]), requests' = [requests EXCEPT ![c][r] = q],
           NEW a \in Message, Reply(c, a)
    PROVE  /\ requests' \in [Client -> [Replica -> Seq(RequestSet(Key, AnyValue))]]
           /\ inbox' \in [Client -> Seq(Message)]
           /\ \A x \in Client, y \in Replica :
                 \A m \in Elems(requests'[x][y]) : m \in Elems(requests[x][y])
           /\ \A x \in Client : \A m \in Elems(inbox'[x]) :
                 m \in Elems(inbox[x]) \/ (x = c /\ m = a)
<1>1. /\ requests \in [Client -> [Replica -> Seq(RequestSet(Key, AnyValue))]]
      /\ inbox \in [Client -> Seq(Message)]
  BY Types DEF IInv
<1> DEFINE b == Append(inbox[c], a)
<1>2. q \in Seq(RequestSet(Key, AnyValue)) /\ \A m \in Elems(q) : m \in Elems(requests[c][r])
  BY <1>1, TailElems
<1>3. b \in Seq(Message) /\ \A m \in Elems(b) : m \in Elems(inbox[c]) \/ m = a
  BY <1>1, AppendElems
<1>5. inbox' = inbox \/ inbox' = [inbox EXCEPT ![c] = b]
  BY DEF Reply
<1> HIDE DEF b
<1>6. /\ requests' \in [Client -> [Replica -> Seq(RequestSet(Key, AnyValue))]]
      /\ \A x \in Client \ {c} : requests'[x] = requests[x]
      /\ \A y \in Replica : requests'[c][y] = IF y = r THEN q ELSE requests[c][y]
  BY <1>1, <1>2, OneQueue
<1>7. ASSUME NEW x \in Client, NEW y \in Replica, NEW m \in Elems(requests'[x][y])
      PROVE  m \in Elems(requests[x][y])
  <2>1. CASE requests'[x][y] = requests[x][y]
    BY <1>7, <2>1
  <2>2. CASE x = c /\ y = r /\ requests'[x][y] = q
    BY <1>2, <1>7, <2>2
  <2> QED  BY <1>6, <2>1, <2>2
<1>8. /\ inbox' \in [Client -> Seq(Message)]
      /\ \A x \in Client \ {c} : inbox'[x] = inbox[x]
      /\ inbox'[c] = inbox[c] \/ inbox'[c] = b
  BY <1>1, <1>3, <1>5
<1>9. ASSUME NEW x \in Client, NEW m \in Elems(inbox'[x])
      PROVE  m \in Elems(inbox[x]) \/ (x = c /\ m = a)
  <2>1. CASE inbox'[x] = inbox[x]
    BY <1>9, <2>1
  <2>2. CASE x = c /\ inbox'[x] = b
    BY <1>3, <1>9, <2>2
  <2> QED  BY <1>8, <2>1, <2>2
<1> QED  BY <1>6, <1>7, <1>8, <1>9

\* A redirection changes no belief about the database.
LEMMA RedirectIInv ==
    ASSUME IInv, NEW c \in Client, NEW r \in Replica, Redirect(c, r)
    PROVE  IInv'
<1> DEFINE n == Head(requests[c][r])
           q == Tail(requests[c][r])
           a == Redirection(n, Leader)
<1>1. requests[c][r] # << >> /\ Reply(c, a) /\ cl' = cl /\ db' = db
      /\ q = Tail(requests[c][r]) /\ requests' = [requests EXCEPT ![c][r] = q]
  BY DEF Redirect
<1>2. n \in RequestSet(Key, AnyValue) /\ RequestOK(cl[c], db, n)
  BY <1>1, OneClient, TailElems
<1> HIDE DEF n, q
<1>3. n.serial \in Nat /\ n.serial <= cl[c].serial
  BY <1>2, RequestFields DEF RequestOK
<1>4. a \in Message /\ a.serial = n.serial /\ a.op = "redirect"
  BY <1>3, LockSeqAssumption DEF Redirection, Message, RedirectionSet
<1> HIDE DEF a
<1>5. AnswerOK(cl[c], db, a)
  BY <1>3, <1>4 DEF AnswerOK
<1>6. /\ requests' \in [Client -> [Replica -> Seq(RequestSet(Key, AnyValue))]]
      /\ inbox' \in [Client -> Seq(Message)]
      /\ \A x \in Client, y \in Replica :
            \A m \in Elems(requests'[x][y]) : m \in Elems(requests[x][y])
      /\ \A x \in Client : \A m \in Elems(inbox'[x]) :
            m \in Elems(inbox[x]) \/ (x = c /\ m = a)
  BY <1>1, <1>4, ReplicaQueues
<1>7. TypeOK'
  <2>1. cl' \in [Client -> ClientSet] /\ db' \in DBSet(Key, AnyValue)
    BY <1>1, Types DEF IInv
  <2> QED  BY <1>6, <2>1 DEF TypeOK, ClientSet, Message
<1>8. VersionsBelow(db') /\ \A x \in Client : ClientOK(x, cl'[x], db')
  BY <1>1 DEF IInv
<1>9. \A x \in Client, y \in Replica :
          \A m \in Elems(requests'[x][y]) : RequestOK(cl'[x], db', m)
  BY <1>1, <1>6 DEF IInv, RequestsOK
<1>10. \A x \in Client : \A m \in Elems(inbox'[x]) : AnswerOK(cl'[x], db', m)
  BY <1>1, <1>5, <1>6 DEF IInv, AnswersOK
<1> QED  BY <1>7, <1>8, <1>9, <1>10 DEF IInv, RequestsOK, AnswersOK

\* What the invariant says of client x survives the execution of a request
\* of client c.
LEMMA ClientKept ==
    ASSUME NEW c \in Client, NEW s \in ClientSet, NEW x \in Client, NEW u \in ClientSet,
           x = c => u = s,
           NEW d \in DBSet(Key, AnyValue), VersionsBelow(d),
           ClientOK(c, s, d), ClientOK(x, u, d),
           NEW m \in RequestSet(Key, AnyValue), RequestOK(s, d, m),
           NEW e, e = Process(d, m).db
    PROVE  ClientOK(x, u, e)
<1> DEFINE k == LockKey(u.gid)
<1>1. u.gid \in Group /\ k \in Key /\ k[2] = LockIndex /\ u.lock_version \in Nat
      /\ u.phase \in Phase
  BY ClientFields
<1>2. d.next \in Nat /\ e.next \in Nat /\ d.next <= e.next
  <2>1. e \in DBSet(Key, AnyValue) /\ d.next <= e.next
    BY ExecuteVersions
  <2> QED  BY <1>1, <2>1, DBFields
<1>3. u.phase \in {"write", "clear"} => HoldsLock(u, e)
  <2> SUFFICES ASSUME u.phase \in {"write", "clear"} PROVE HoldsLock(u, e)
    OBVIOUS
  <2>1. HoldsLock(u, d) /\ OwnedBy(u.value, x)
    BY DEF ClientOK
  <2>2. OwnedBy(d.vv[LockKey(u.gid)].value, x)
    BY <2>1 DEF HoldsLock
  <2>3. c = x => s.phase # "unlock"
    OBVIOUS
  <2>4. Process(d, m).db.vv[LockKey(u.gid)] = d.vv[LockKey(u.gid)]
    BY <1>1, <2>2, <2>3, OwnedLockStays
  <2> QED  BY <2>1, <2>4 DEF HoldsLock
<1>4. u.phase = "unlock" /\ e.vv[k].version = u.lock_version => HoldsLock(u, e)
  <2> SUFFICES ASSUME u.phase = "unlock", e.vv[k].version = u.lock_version
               PROVE  HoldsLock(u, e)
    OBVIOUS
  <2>1. 0 < u.lock_version /\ u.lock_version < d.next
    BY DEF ClientOK
  <2>2. u.lock_version \in Int /\ Process(d, m).db.vv[k].version = u.lock_version
    BY <1>1
  <2> HIDE DEF k
  <2>3. Process(d, m).db.vv[k] = d.vv[k]
    BY <1>1, <2>1, <2>2, SpentVersion
  <2> QED  BY <2>3 DEF k, HoldsLock, ClientOK
<1>5. u.phase # "lock" => 0 < u.lock_version /\ u.lock_version < e.next
  BY <1>1, <1>2 DEF ClientOK
<1> QED  BY <1>3, <1>4, <1>5 DEF ClientOK

\* A request on its way stays harmless: a removal's version is spent.
LEMMA RequestKept ==
    ASSUME NEW s \in ClientSet, NEW u \in ClientSet,
           NEW d \in DBSet(Key, AnyValue), VersionsBelow(d),
           NEW m \in RequestSet(Key, AnyValue), RequestOK(s, d, m),
           NEW n \in RequestSet(Key, AnyValue), RequestOK(u, d, n),
           NEW e, e = Process(d, m).db
    PROVE  RequestOK(u, e, n)
<1>1. n.key \in Key /\ n.version_match \in Int
  BY RequestFields
<1>2. d.next \in Nat /\ e.next \in Nat /\ d.next <= e.next
  <2>1. e \in DBSet(Key, AnyValue) /\ d.next <= e.next
    BY ExecuteVersions
  <2> QED  BY <1>1, <2>1, DBFields
<1>3. UnlockOK(u, e, n)
  <2> SUFFICES ASSUME n.op = "remove", n.key[2] = LockIndex
               PROVE  /\ 0 < n.version_match /\ n.version_match < e.next
                      /\ e.vv[n.key].version = n.version_match =>
                            Active(u) /\ u.phase = "unlock" /\ n.serial = u.serial
    BY DEF UnlockOK
  <2>1. 0 < n.version_match /\ n.version_match < d.next
    BY DEF RequestOK, UnlockOK
  <2>2. ASSUME e.vv[n.key].version = n.version_match
        PROVE  d.vv[n.key].version = n.version_match
    <3>1. Process(d, m).db.vv[n.key] = d.vv[n.key]
      BY <1>1, <2>1, <2>2, SpentVersion
    <3> QED  BY <2>2, <3>1
  <2> QED  BY <1>1, <1>2, <2>1, <2>2 DEF RequestOK, UnlockOK
<1> QED  BY <1>3 DEF RequestOK

\* An answer on its way stays right: the lock it speaks of is owned, or
\* the version it speaks of is spent.
LEMMA AnswerKept ==
    ASSUME NEW c \in Client, NEW s \in ClientSet, NEW x \in Client, NEW u \in ClientSet,
           x = c => u = s,
           NEW d \in DBSet(Key, AnyValue), VersionsBelow(d),
           ClientOK(c, s, d), ClientOK(x, u, d),
           NEW m \in RequestSet(Key, AnyValue), RequestOK(s, d, m),
           NEW e, e = Process(d, m).db,
           NEW a, AnswerOK(u, d, a)
    PROVE  AnswerOK(u, e, a)
<1> DEFINE k == LockKey(u.gid)
<1>1. u.gid \in Group /\ k \in Key /\ k[2] = LockIndex /\ u.lock_version \in Nat
  BY ClientFields
<1> SUFFICES ASSUME Active(u), a.serial = u.serial, a.op # "redirect"
             PROVE  /\ u.phase = "lock" /\ (a.errc = "ok" \/ (a.errc = "no_match" /\ a.actual = u.value))
                          => e.vv[k] = [value |-> u.value, version |-> a.version]
                    /\ u.phase = "unlock" => e.vv[k].version # u.lock_version
  BY DEF AnswerOK
<1>2. ASSUME u.phase = "lock",
             a.errc = "ok" \/ (a.errc = "no_match" /\ a.actual = u.value)
      PROVE  e.vv[k] = [value |-> u.value, version |-> a.version]
  <2>1. d.vv[LockKey(u.gid)] = [value |-> u.value, version |-> a.version]
    BY <1>2 DEF AnswerOK
  <2>2. OwnedBy(d.vv[LockKey(u.gid)].value, x)
    BY <2>1 DEF ClientOK, Active
  <2>3. c = x => s.phase # "unlock"
    BY <1>2
  <2>4. Process(d, m).db.vv[LockKey(u.gid)] = d.vv[LockKey(u.gid)]
    BY <1>1, <2>2, <2>3, OwnedLockStays
  <2> QED  BY <2>1, <2>4
<1>3. ASSUME u.phase = "unlock", e.vv[k].version = u.lock_version
      PROVE  FALSE
  <2>1. 0 < u.lock_version /\ u.lock_version < d.next
    BY <1>3 DEF ClientOK
  <2>2. d.vv[k].version # u.lock_version
    BY <1>3 DEF AnswerOK
  <2>3. u.lock_version \in Int /\ Process(d, m).db.vv[k].version = u.lock_version
    BY <1>1, <1>3
  <2> HIDE DEF k
  <2>4. Process(d, m).db.vv[k] = d.vv[k]
    BY <1>1, <2>1, <2>3, SpentVersion
  <2> QED  BY <2>2, <2>3, <2>4
<1> QED  BY <1>2, <1>3

\* A new answer is right about the database it comes from.
LEMMA AnswerNew ==
    ASSUME NEW c \in Client, NEW s \in ClientSet,
           NEW d \in DBSet(Key, AnyValue), VersionsBelow(d), ClientOK(c, s, d),
           NEW m \in RequestSet(Key, AnyValue), RequestOK(s, d, m),
           NEW e, e = Process(d, m).db, NEW a, a = Process(d, m).resp
    PROVE  AnswerOK(s, e, a)
<1> DEFINE k == LockKey(s.gid)
<1>1. k \in Key /\ s.lock_version \in Nat /\ s.value \in AnyValue /\ EmptyValue \in AnyValue
  BY ClientFields DEF AnyValue
<1>2. m.serial <= s.serial /\ m.op \in {"cas", "put", "remove"}
  BY DEF RequestOK
<1>3. a.serial = m.serial
  BY <1>2 DEF Process, ProcessPut, ProcessCas, ProcessRemove, ModNoMatch, ModOk, Response
<1>4. /\ d.vv[k].version \in Nat /\ d.next \in Nat
      /\ d.vv[k] = [value |-> d.vv[k].value, version |-> d.vv[k].version]
  <2> HIDE DEF k
  <2> QED  BY <1>1, DBFields
<1> SUFFICES ASSUME Active(s), a.serial = s.serial
             PROVE  /\ s.phase = "lock" /\ (a.errc = "ok" \/ (a.errc = "no_match" /\ a.actual = s.value))
                          => e.vv[k] = [value |-> s.value, version |-> a.version]
                    /\ s.phase = "unlock" => e.vv[k].version # s.lock_version
  BY <1>2, <1>3 DEF AnswerOK
<1>5. m = CurrentRequest(s) /\ InLoop(s)
  BY <1>3 DEF RequestOK, ClientOK
<1>6. ASSUME s.phase = "lock",
             a.errc = "ok" \/ (a.errc = "no_match" /\ a.actual = s.value)
      PROVE  e.vv[k] = [value |-> s.value, version |-> a.version]
  <2>1. m.op = "cas" /\ m.key = k /\ m.value = s.value
    BY <1>5, <1>6, RequestType
  <2> HIDE DEF k
  <2>2. CASE e = d /\ a = ModNoMatch(m, d.vv[k])
    <3>1. a.errc = "no_match" /\ a.actual = d.vv[k].value /\ a.version = d.vv[k].version
      BY <2>2 DEF ModNoMatch, Response
    <3> QED  BY <1>4, <1>6, <2>2, <3>1
  <2>3. CASE e = Store(d, k, m.value) /\ a = ModOk(m, d.vv[k].version, d.next)
    <3>1. a.version = d.next
      BY <2>3 DEF ModOk, Response
    <3>2. e.vv[k] = [value |-> s.value, version |-> d.next]
      BY <1>1, <2>1, <2>3, StoreType
    <3> QED  BY <3>1, <3>2
  <2> QED  BY <2>1, <2>2, <2>3 DEF Process, ProcessCas
<1>7. ASSUME s.phase = "unlock"
      PROVE  e.vv[k].version # s.lock_version
  <2>1. m.op = "remove" /\ m.key = k /\ m.version_match = s.lock_version
    BY <1>5, <1>7, RequestType
  <2>2. 0 < s.lock_version
    BY <1>7 DEF ClientOK
  <2> HIDE DEF k
  <2>3. CASE e = d /\ ~ Exists(d, k)
    BY <2>2, <2>3, <1>1 DEF Exists, NonexistentVersion
  <2>4. CASE e = d /\ ~ VersionAdmits(m, d.vv[k])
    BY <2>1, <2>4 DEF VersionAdmits
  <2>5. CASE e = Erase(d, k)
    <3>1. e.vv[k] = NonexistentVV
      BY <1>1, <2>5, EraseHere
    <3> QED  BY <1>1, <2>2, <3>1 DEF NonexistentVV, NonexistentVersion
  <2> QED  BY <2>1, <2>3, <2>4, <2>5 DEF Process, ProcessRemove
<1> QED  BY <1>6, <1>7

\* Executing a request, whoever sent it and whenever, keeps the invariant.
LEMMA ExecuteIInv ==
    ASSUME IInv, NEW c \in Client, Execute(c)
    PROVE  IInv'
<1> DEFINE s == cl[c]
           m == Head(requests[c][Leader])
           q == Tail(requests[c][Leader])
           e == Process(db, m).db
           a == Process(db, m).resp
<1>1. requests[c][Leader] # << >> /\ Reply(c, a) /\ cl' = cl /\ db' = e
      /\ q = Tail(requests[c][Leader]) /\ requests' = [requests EXCEPT ![c][Leader] = q]
  BY DEF Execute
<1>2. Leader \in Replica
  BY LockSeqAssumption
<1>3. m \in RequestSet(Key, AnyValue) /\ m \in Elems(requests[c][Leader])
  BY <1>1, <1>2, OneClient, TailElems
<1>4. RequestOK(s, db, m)
  BY <1>2, <1>3, OneClient
<1>5. s \in ClientSet /\ ClientOK(c, s, db) /\ db \in DBSet(Key, AnyValue)
      /\ VersionsBelow(db)
  BY OneClient
<1> HIDE DEF m, s, q
<1>6. a \in Message
  <2>1. EmptyValue \in AnyValue
    BY DEF AnyValue
  <2> QED  BY <1>3, <1>5, <2>1, ProcessType DEF Message
<1>7. e \in DBSet(Key, AnyValue) /\ VersionsBelow(e)
  BY <1>3, <1>5, ExecuteVersions
<1>8. AnswerOK(s, e, a)
  BY <1>3, <1>4, <1>5, AnswerNew
<1>9. ASSUME NEW x \in Client
      PROVE  /\ ClientOK(x, cl[x], e)
             /\ \A n \in RequestSet(Key, AnyValue) :
                   RequestOK(cl[x], db, n) => RequestOK(cl[x], e, n)
             /\ \A n : AnswerOK(cl[x], db, n) => AnswerOK(cl[x], e, n)
  <2>1. cl[x] \in ClientSet /\ ClientOK(x, cl[x], db) /\ (x = c => cl[x] = s)
    BY OneClient DEF s
  <2>2. ClientOK(x, cl[x], e)
    BY <1>3, <1>4, <1>5, <2>1, ClientKept
  <2>3. \A n \in RequestSet(Key, AnyValue) :
            RequestOK(cl[x], db, n) => RequestOK(cl[x], e, n)
    BY <1>3, <1>4, <1>5, <2>1, RequestKept
  <2>4. \A n : AnswerOK(cl[x], db, n) => AnswerOK(cl[x], e, n)
    BY <1>3, <1>4, <1>5, <2>1, AnswerKept
  <2> QED  BY <2>2, <2>3, <2>4
<1> HIDE DEF e, a
<1>10. /\ requests' \in [Client -> [Replica -> Seq(RequestSet(Key, AnyValue))]]
       /\ inbox' \in [Client -> Seq(Message)]
       /\ \A x \in Client, y \in Replica :
             \A n \in Elems(requests'[x][y]) : n \in Elems(requests[x][y])
       /\ \A x \in Client : \A n \in Elems(inbox'[x]) :
             n \in Elems(inbox[x]) \/ (x = c /\ n = a)
  BY <1>1, <1>2, <1>6, ReplicaQueues
<1>11. TypeOK'
  <2>1. cl' \in [Client -> ClientSet] /\ db' \in DBSet(Key, AnyValue)
    BY <1>1, <1>7, Types DEF IInv
  <2> QED  BY <1>10, <2>1 DEF TypeOK, ClientSet, Message
<1>12. VersionsBelow(db') /\ \A x \in Client : ClientOK(x, cl'[x], db')
  BY <1>1, <1>7, <1>9
<1>13. ASSUME NEW x \in Client, NEW y \in Replica, NEW n \in Elems(requests'[x][y])
       PROVE  RequestOK(cl'[x], db', n)
  <2>1. n \in Elems(requests[x][y])
    BY <1>10, <1>13
  <2>2. RequestOK(cl[x], db, n) /\ n \in RequestSet(Key, AnyValue)
    BY <2>1, OneClient, ElemsType
  <2> QED  BY <1>1, <1>9, <2>2
<1>14. ASSUME NEW x \in Client, NEW n \in Elems(inbox'[x])
       PROVE  AnswerOK(cl'[x], db', n)
  <2>1. CASE n \in Elems(inbox[x])
    <3>1. AnswerOK(cl[x], db, n)
      BY <2>1, OneClient
    <3> QED  BY <1>1, <1>9, <3>1
  <2>2. CASE x = c /\ n = a
    BY <1>1, <1>8, <2>2 DEF s
  <2> QED  BY <1>10, <1>14, <2>1, <2>2
<1> QED  BY <1>11, <1>12, <1>13, <1>14 DEF IInv, RequestsOK, AnswersOK

-----------------------------------------------------------------------------
(* The theorems.                                                           *)

\* Every step keeps the invariant.
LEMMA NextIInv == IInv /\ [Next]_vars => IInv'
<1> SUFFICES ASSUME IInv, [Next]_vars PROVE IInv'
  OBVIOUS
<1>1. ASSUME NEW c \in Client, ClientStep(c) PROVE IInv'
  BY <1>1, StartRoundIInv, SendIInv, TimeoutIInv, DropStaleIInv, RedirectedIInv,
     LockAnsweredIInv, ValueAnsweredIInv, UnlockAnsweredIInv DEF ClientStep
<1>2. ASSUME NEW c \in Client, ReplicaStep(c) PROVE IInv'
  BY <1>2, ExecuteIInv, RedirectIInv DEF ReplicaStep
<1>3. CASE UNCHANGED vars
  <2>1. IInv <=> IInv'
    BY <1>3 DEF vars, IInv, TypeOK, RequestsOK, AnswersOK
  <2> QED  BY <2>1
<1> QED  BY <1>1, <1>2, <1>3 DEF Next, Stopped

\* The invariant holds of the lock protocol.
THEOREM IInvHolds == Spec => []IInv
BY InitIInv, NextIInv, PTL DEF Spec

\* The coroutines' locals, the messages and the primary's database keep
\* their types.
THEOREM TypeCorrect == Spec => []TypeOK
<1>1. IInv => TypeOK
  BY DEF IInv
<1> QED  BY <1>1, IInvHolds, PTL

\* A client that writes or clears a group holds the group's lock in the
\* database, with its own value, at the version it will unlock
\* (lockseq_model.cc:65-195 against pancydb.cc): no late duplicate of an
\* earlier unlock or lock, of its own or of another client, takes it away.
THEOREM LocksAreHeld == Spec => []HolderHasLock
<1>1. IInv => HolderHasLock
  BY DEF IInv, ClientOK, HoldsLock, HolderHasLock, InCriticalSection
<1> QED  BY <1>1, IInvHolds, PTL

\* Two clients are never between lock and unlock of the same group.
THEOREM MutuallyExclusive == Spec => []MutualExclusion
<1>1. ASSUME IInv PROVE MutualExclusion
  <2> SUFFICES ASSUME NEW c \in Client, NEW d \in Client,
                      InCriticalSection(c), InCriticalSection(d), cl[c].gid = cl[d].gid
               PROVE  c = d
    BY DEF MutualExclusion
  <2>1. /\ OwnedBy(cl[c].value, c) /\ HoldsLock(cl[c], db)
        /\ OwnedBy(cl[d].value, d) /\ HoldsLock(cl[d], db)
    BY <1>1 DEF IInv, ClientOK, InCriticalSection
  <2>2. cl[c].value = cl[d].value
    BY <2>1 DEF HoldsLock
  <2> QED  BY <2>1, <2>2 DEF OwnedBy
<1> QED  BY <1>1, IInvHolds, PTL

-----------------------------------------------------------------------------
(***************************************************************************)
(* The rows.  Now the order of the messages counts.                        *)
(*                                                                         *)
(* The requests of a client reach the primary in the order of their        *)
(* serials, and an answer is never older than a request behind it.  So     *)
(* when the answer to the current request is here, what is left in the     *)
(* queue is copies of that request; they become the past of the next one,  *)
(* and the past of a client that holds its lock only repeats what the row  *)
(* already shows.                                                          *)
(***************************************************************************)

Cell == 0 .. MaxLen - 1

\* The values of group g in database d.
Row(d, g) == [i \in Cell |-> d.vv[ValueKey(g, i)].value]

\* The requests of c on their way to the primary.
Queue(c) == requests[c][Leader]

-----------------------------------------------------------------------------
(* Runs of a row.                                                          *)

\* The first n cells are as client s wants them.
WrittenTo(r, s, n) ==
    \A i \in 0 .. n - 1 : r[i] = IF i < s.nvalues THEN s.value ELSE EmptyValue

\* Behind the last cell there is nothing.
LEMMA RunAtEnd ==
    ASSUME NEW r PROVE GL!RunFrom(r, MaxLen)
<1>1. MaxLen \in MaxLen .. MaxLen
  BY LockSeqAssumption
<1>2. GL!Filled(r, MaxLen, MaxLen, EmptyValue)
  BY LockSeqAssumption DEF GL!Filled
<1> QED  BY <1>1, <1>2 DEF GL!RunFrom

\* A run without its first cell is a run.
LEMMA RunStep ==
    ASSUME NEW r, NEW n \in Cell, GL!RunFrom(r, n)
    PROVE  GL!RunFrom(r, n + 1)
<1> USE LockSeqAssumption DEF Cell
<1>1. PICK e \in n .. MaxLen :
          /\ GL!Filled(r, e, MaxLen, EmptyValue)
          /\ e = n \/ \E v \in Value : GL!Filled(r, n, e, v)
  BY DEF GL!RunFrom
<1>2. CASE e = n
  <2>1. GL!Filled(r, n + 1, MaxLen, EmptyValue) /\ n + 1 \in n + 1 .. MaxLen
    BY <1>1, <1>2 DEF GL!Filled
  <2> QED  BY <2>1 DEF GL!RunFrom
<1>3. CASE e # n
  <2>1. PICK v \in Value : GL!Filled(r, n, e, v)
    BY <1>1, <1>3
  <2>2. GL!Filled(r, n + 1, e, v) /\ e \in n + 1 .. MaxLen
    BY <1>3, <2>1 DEF GL!Filled
  <2> QED  BY <1>1, <2>2 DEF GL!RunFrom
<1> QED  BY <1>2, <1>3

\* A run depends on its own cells only.
LEMMA RunLocal ==
    ASSUME NEW r, NEW t, NEW n \in 0 .. MaxLen, GL!RunFrom(r, n),
           \A i \in n .. MaxLen - 1 : t[i] = r[i]
    PROVE  GL!RunFrom(t, n)
<1> USE LockSeqAssumption
<1>1. PICK e \in n .. MaxLen :
          /\ GL!Filled(r, e, MaxLen, EmptyValue)
          /\ e = n \/ \E v \in Value : GL!Filled(r, n, e, v)
  BY DEF GL!RunFrom
<1>2. GL!Filled(t, e, MaxLen, EmptyValue)
  BY <1>1 DEF GL!Filled
<1>3. ASSUME NEW v \in Value, GL!Filled(r, n, e, v)
      PROVE  GL!Filled(t, n, e, v)
  BY <1>3 DEF GL!Filled
<1> QED  BY <1>1, <1>2, <1>3 DEF GL!RunFrom

\* A run whose first cell is empty is empty.
LEMMA RunOfNothing ==
    ASSUME NEW r, NEW n \in Cell, GL!RunFrom(r, n), r[n] = EmptyValue
    PROVE  \A i \in n .. MaxLen - 1 : r[i] = EmptyValue
<1> USE LockSeqAssumption DEF Cell
<1>1. PICK e \in n .. MaxLen :
          /\ GL!Filled(r, e, MaxLen, EmptyValue)
          /\ e = n \/ \E v \in Value : GL!Filled(r, n, e, v)
  BY DEF GL!RunFrom
<1>2. e = n
  <2> SUFFICES ASSUME e # n PROVE FALSE
    OBVIOUS
  <2>1. PICK v \in Value : GL!Filled(r, n, e, v)
    BY <1>1
  <2>2. n \in n .. e - 1
    OBVIOUS
  <2>3. r[n] = v
    BY <2>1, <2>2 DEF GL!Filled
  <2> QED  BY <2>3
<1> QED  BY <1>1, <1>2 DEF GL!Filled

\* A row that its writer has finished is one run.
LEMMA RunWhenWritten ==
    ASSUME NEW r, NEW s \in ClientSet, s.value \in Value, WrittenTo(r, s, MaxLen)
    PROVE  /\ GL!RunFrom(r, 0)
           /\ s.nvalues \in 1 .. MaxLen
           /\ GL!Filled(r, 0, s.nvalues, s.value)
           /\ GL!Filled(r, s.nvalues, MaxLen, EmptyValue)
<1> USE LockSeqAssumption
<1>1. s.nvalues \in 1 .. MaxLen
  BY DEF ClientSet
<1>2. GL!Filled(r, 0, s.nvalues, s.value) /\ GL!Filled(r, s.nvalues, MaxLen, EmptyValue)
  BY <1>1 DEF WrittenTo, GL!Filled
<1>3. GL!RunFrom(r, 0)
  BY <1>1, <1>2 DEF GL!RunFrom
<1> QED  BY <1>1, <1>2, <1>3

-----------------------------------------------------------------------------
(* What of a database the protocol can see: the lock entry and the values  *)
(* of a group.                                                             *)

\* Row r with v in cell i.
Put(r, i, v) == [r EXCEPT ![i] = v]

\* d and e show the same of group g.
SameView(d, e, g) ==
    e.vv[LockKey(g)] = d.vv[LockKey(g)] /\ Row(e, g) = Row(d, g)

\* Keys of different groups, and a lock's and a value's key, differ.
LEMMA KeyFacts ==
    /\ \A g \in Group : LockKey(g) \in Key /\ LockKey(g)[2] = LockIndex
    /\ \A g \in Group, i \in Cell : ValueKey(g, i) \in Key /\ ValueKey(g, i)[2] # LockIndex
    /\ \A g, h \in Group : LockKey(g) = LockKey(h) => g = h
    /\ \A g, h \in Group, i \in Cell : LockKey(g) # ValueKey(h, i)
    /\ \A g, h \in Group, i, j \in Cell :
          ValueKey(g, i) = ValueKey(h, j) => g = h /\ i = j
BY LockSeqAssumption DEF Key, LockKey, ValueKey, LockIndex, Cell

\* A row is a row.
LEMMA RowType ==
    ASSUME NEW d \in DBSet(Key, AnyValue), NEW g \in Group
    PROVE  /\ Row(d, g) \in [Cell -> AnyValue]
           /\ \A i \in Cell : Row(d, g)[i] = d.vv[ValueKey(g, i)].value
BY KeyFacts, DBFields DEF Row

\* d and e are the same but for what they hold under key k.
OnlyAt(d, e, k) == \A j \in Key \ {k} : e.vv[j] = d.vv[j]

\* A change of one lock entry shows in one group and not in its row.
LEMMA LockChange ==
    ASSUME NEW d, NEW e, NEW g \in Group,
           OnlyAt(d, e, LockKey(g))
    PROVE  /\ \A h \in Group \ {g} : SameView(d, e, h)
           /\ Row(e, g) = Row(d, g)
<1>1. \A h \in Group : \A i \in Cell : e.vv[ValueKey(h, i)] = d.vv[ValueKey(h, i)]
  BY KeyFacts DEF OnlyAt
<1>2. \A h \in Group : Row(e, h) = Row(d, h)
  BY <1>1 DEF Row
<1>3. \A h \in Group \ {g} : e.vv[LockKey(h)] = d.vv[LockKey(h)]
  BY KeyFacts DEF OnlyAt
<1> QED  BY <1>2, <1>3 DEF SameView

\* A change of one value shows in one cell.
LEMMA CellChange ==
    ASSUME NEW d, NEW e, NEW g \in Group, NEW i \in Cell,
           OnlyAt(d, e, ValueKey(g, i))
    PROVE  /\ \A h \in Group \ {g} : SameView(d, e, h)
           /\ e.vv[LockKey(g)] = d.vv[LockKey(g)]
           /\ Row(e, g) = Put(Row(d, g), i, e.vv[ValueKey(g, i)].value)
<1>1. \A h \in Group : e.vv[LockKey(h)] = d.vv[LockKey(h)]
  BY KeyFacts DEF OnlyAt
<1>2. ASSUME NEW h \in Group \ {g}
      PROVE  Row(e, h) = Row(d, h)
  <2>1. \A j \in Cell : e.vv[ValueKey(h, j)] = d.vv[ValueKey(h, j)]
    BY KeyFacts DEF OnlyAt
  <2> QED  BY <2>1 DEF Row
<1>3. \A j \in Cell : j # i => e.vv[ValueKey(g, j)] = d.vv[ValueKey(g, j)]
  BY KeyFacts DEF OnlyAt
<1>4. Row(e, g) = Put(Row(d, g), i, e.vv[ValueKey(g, i)].value)
  BY <1>3 DEF Row, Put
<1> QED  BY <1>1, <1>2, <1>4 DEF SameView

\* A value that is written where it already stands shows nowhere.
LEMMA CellRepeated ==
    ASSUME NEW d \in DBSet(Key, AnyValue), NEW e, NEW g \in Group, NEW i \in Cell,
           OnlyAt(d, e, ValueKey(g, i)),
           e.vv[ValueKey(g, i)].value = Row(d, g)[i]
    PROVE  \A h \in Group : SameView(d, e, h)
<1>1. Row(e, g) = Put(Row(d, g), i, Row(d, g)[i])
  BY CellChange
<1>2. Row(e, g) = Row(d, g)
  BY <1>1, RowType DEF Put
<1> QED  BY <1>2, CellChange DEF SameView

-----------------------------------------------------------------------------
(* The inductive invariant, one client, one message at a time.  s is a     *)
(* client's state, d the primary's database, q the client's requests on    *)
(* their way to the primary.                                               *)

\* What the client has written is there, and behind it there is at most
\* one run.  The cell it is busy with may already be done.
RowOK(s, d) ==
    LET r == Row(d, s.gid) IN
    /\ s.pc = "failed" => s.phase = "lock"
    /\ s.phase = "lock" /\ s.pc # "idle" /\ d.vv[LockKey(s.gid)].value = s.value
          => GL!RunFrom(r, 0)
    /\ s.phase = "write" =>
          /\ WrittenTo(r, s, s.n)
          /\ GL!RunFrom(r, s.n) \/ (r[s.n] = s.value /\ GL!RunFrom(r, s.n + 1))
    /\ s.phase = "clear" =>
          /\ s.nvalues <= s.n
          /\ WrittenTo(r, s, s.n)
          /\ GL!RunFrom(r, s.n) \/ (r[s.n] = EmptyValue /\ GL!RunFrom(r, s.n + 1))
    /\ s.phase = "unlock" /\ HoldsLock(s, d) => WrittenTo(r, s, MaxLen)

\* A request about a cell that repeats what a holder has done before.
Repeats(s, m) ==
    \E i \in Cell :
        /\ s.phase \in {"write", "clear"} => i < s.n
        /\ m.key = ValueKey(s.gid, i)
        /\ \/ m.op = "put" /\ i < s.nvalues /\ m.value = s.value
           \/ m.op = "remove" /\ s.nvalues <= i

\* A copy of an earlier request: an unlock before a round or a lock, a
\* lock before the first write, and then the writes and clears of this
\* round, as long as the client holds its lock.
Past(s, d, m) ==
    \/ s.phase = "lock" /\ m.op = "remove" /\ m.key[2] = LockIndex
    \/ s.phase = "write" /\ m.op = "cas" /\ m.key = LockKey(s.gid)
    \/ s.phase # "lock" /\ HoldsLock(s, d) /\ Repeats(s, m)

QueuedOK(s, d, m) ==
    /\ s.pc # "idle" /\ m.serial = s.serial => m = CurrentRequest(s)
    /\ s.pc = "idle" \/ m.serial < s.serial => Past(s, d, m)

InOrder(q) == \A i, j \in DOMAIN q : i < j => q[i].serial <= q[j].serial

\* At most one message of q has serial n.
Once(q, n) ==
    \A i, j \in DOMAIN q : q[i].serial = n /\ q[j].serial = n => i = j

\* The current request has not been executed yet.
Fresh(s, d) ==
    /\ s.phase = "clear" => GL!RunFrom(Row(d, s.gid), s.n)
    /\ s.phase = "unlock" => HoldsLock(s, d)

\* The first try of a request is sent once, and until it is executed
\* nobody has executed it.
FirstTry(s, d, q) == Active(s) /\ s.tries = 0 =>
    /\ s.pc = "send" => (\A m \in Elems(q) : m.serial # s.serial) /\ Fresh(s, d)
    /\ Once(q, s.serial)
    /\ \A m \in Elems(q) : m.serial = s.serial => Fresh(s, d)

\* What an answer of the current serial says of the row is true.
Answers(s, d, m) ==
    LET r == Row(d, s.gid) IN
    /\ s.phase = "write" => m.errc = "ok" /\ r[s.n] = s.value
    /\ s.phase = "clear" =>
          /\ m.errc \in {"ok", "not_found"}
          /\ r[s.n] = EmptyValue
          /\ m.errc = "not_found" /\ s.tries = 0 => GL!RunFrom(r, s.n)
    /\ s.phase = "unlock" => m.errc = "ok" \/ s.tries > 0

\* An answer is not older than any request still on its way.
ReplyOK(s, d, q, m) == m.op # "redirect" =>
    /\ \A x \in Elems(q) : m.serial <= x.serial
    /\ Active(s) /\ m.serial = s.serial => Answers(s, d, m)

\* The round in which s took the lock of group g is not over.
Owns(s, g, d) ==
    /\ s.gid = g /\ s.value = d.vv[LockKey(g)].value /\ s.pc # "idle"
    /\ s.phase # "lock" => s.lock_version = d.vv[LockKey(g)].version

-----------------------------------------------------------------------------
(* The effect of one request on what the protocol can see.                 *)

\* The lock is free and becomes the client's.
Takes(s, d, e) ==
    /\ s.phase = "lock" /\ d.vv[LockKey(s.gid)].value = EmptyValue
    /\ e.vv[LockKey(s.gid)] = [value |-> s.value, version |-> d.next]
    /\ Row(e, s.gid) = Row(d, s.gid)

\* The client's lock becomes free.
Frees(s, d, e) ==
    /\ s.phase = "unlock" /\ HoldsLock(s, d)
    /\ e.vv[LockKey(s.gid)] = NonexistentVV
    /\ Row(e, s.gid) = Row(d, s.gid)

\* The current cell gets the client's value.
Sets(s, d, e) ==
    /\ s.phase = "write"
    /\ e.vv[LockKey(s.gid)] = d.vv[LockKey(s.gid)]
    /\ Row(e, s.gid) = Put(Row(d, s.gid), s.n, s.value)

\* The current cell is removed.
Clears(s, d, e) ==
    /\ s.phase = "clear"
    /\ e.vv[LockKey(s.gid)] = d.vv[LockKey(s.gid)]
    /\ Row(e, s.gid) = Put(Row(d, s.gid), s.n, EmptyValue)

Quiet(d, e) == \A g \in Group : SameView(d, e, g)

\* Only the current request of a client shows, and only in its group.
Shows(s, d, m, e) ==
    /\ m = CurrentRequest(s) /\ s.pc # "idle"
    /\ \A g \in Group \ {s.gid} : SameView(d, e, g)
    /\ Takes(s, d, e) \/ Frees(s, d, e) \/ Sets(s, d, e) \/ Clears(s, d, e)

\* A database that does not change shows no change.
LEMMA SameQuiet == \A d : Quiet(d, d)
BY DEF Quiet, SameView

\* StoreType, for the keys and values of this protocol.
LEMMA StoreHere ==
    ASSUME NEW d \in DBSet(Key, AnyValue), NEW k \in Key, NEW v \in AnyValue
    PROVE  /\ OnlyAt(d, Store(d, k, v), k)
           /\ Store(d, k, v).vv[k] = [value |-> v, version |-> d.next]
BY StoreType DEF OnlyAt

\* EraseType, in the same words.
LEMMA EraseOnly ==
    ASSUME NEW d \in DBSet(Key, AnyValue), NEW k \in Key
    PROVE  OnlyAt(d, Erase(d, k), k) /\ Erase(d, k).vv[k] = NonexistentVV
BY EraseHere DEF OnlyAt

\* The current request and its answer.
LEMMA EffectOfCurrent ==
    ASSUME NEW c \in Client, NEW s \in ClientSet, NEW d \in DBSet(Key, AnyValue),
           VersionsBelow(d), ClientOK(c, s, d), RowOK(s, d), s.pc # "idle",
           NEW m, m = CurrentRequest(s), NEW e, e = Process(d, m).db,
           NEW a, a = Process(d, m).resp
    PROVE  /\ Quiet(d, e) \/ Shows(s, d, m, e)
           /\ s.phase = "write" => Sets(s, d, e) /\ a.errc = "ok"
           /\ s.phase = "clear" => /\ Row(e, s.gid)[s.n] = EmptyValue
                                   /\ a.errc \in {"ok", "not_found"}
                                   /\ a.errc = "not_found" => e = d
           /\ s.phase = "unlock" /\ HoldsLock(s, d) => a.errc = "ok"
<1> DEFINE g == s.gid
<1>1. /\ g \in Group /\ LockKey(g) \in Key /\ s.value \in AnyValue /\ s.phase \in Phase
      /\ InLoop(s) /\ EmptyValue \in AnyValue /\ d.next \in Nat
  BY ClientFields, DBFields DEF ClientOK, AnyValue
<1>2. CASE s.phase = "lock"
  <2>1. /\ m.op = "cas" /\ m.key = LockKey(g) /\ m.expected = EmptyValue
        /\ m.value = s.value
    BY <1>1, <1>2, RequestType
  <2>2. e = d \/ (e = Store(d, LockKey(g), s.value) /\ d.vv[LockKey(g)].value = EmptyValue)
    BY <2>1 DEF Process, ProcessCas
  <2>3. CASE e = Store(d, LockKey(g), s.value) /\ d.vv[LockKey(g)].value = EmptyValue
    <3>1. /\ OnlyAt(d, e, LockKey(g))
          /\ e.vv[LockKey(g)] = [value |-> s.value, version |-> d.next]
      BY <1>1, <2>3, StoreHere
    <3>2. Takes(s, d, e) /\ \A h \in Group \ {g} : SameView(d, e, h)
      BY <1>1, <1>2, <2>3, <3>1, LockChange DEF Takes
    <3> QED  BY <1>2, <3>2 DEF Shows
  <2> QED  BY <1>2, <2>2, <2>3, SameQuiet
<1>3. CASE s.phase \in {"write", "clear"}
  <2> DEFINE k == ValueKey(g, s.n)
  <2>1. s.n \in Cell
    BY <1>1, <1>3, LockSeqAssumption DEF InLoop, ClientSet, Cell
  <2>2. k \in Key
    BY <1>1, <2>1, KeyFacts
  <2>3. /\ m.version_match = AnyVersion /\ m.key = k
        /\ s.phase = "write" => m.op = "put" /\ m.value = s.value
        /\ s.phase = "clear" => m.op = "remove"
    BY <1>3 DEF CurrentRequest, PutRequest, RemoveRequest
  <2> HIDE DEF k
  <2>4. VersionAdmits(m, d.vv[k])
    BY <2>3 DEF VersionAdmits, AnyVersion
  <2>5. CASE s.phase = "write"
    <3>1. e = Store(d, k, s.value) /\ a.errc = "ok"
      BY <2>3, <2>4, <2>5 DEF Process, ProcessPut, ModOk, Response
    <3>2. /\ OnlyAt(d, e, k)
          /\ e.vv[k].value = s.value
      <4>1. /\ OnlyAt(d, e, k)
            /\ e.vv[k] = [value |-> s.value, version |-> d.next]
        BY <1>1, <2>2, <3>1, StoreHere
      <4> QED  BY <4>1
    <3>3. /\ \A h \in Group \ {g} : SameView(d, e, h)
          /\ e.vv[LockKey(g)] = d.vv[LockKey(g)]
          /\ Row(e, g) = Put(Row(d, g), s.n, s.value)
      <4>1. /\ \A h \in Group \ {g} : SameView(d, e, h)
            /\ e.vv[LockKey(g)] = d.vv[LockKey(g)]
            /\ Row(e, g) = Put(Row(d, g), s.n, e.vv[k].value)
        <5>1. g \in Group /\ OnlyAt(d, e, ValueKey(g, s.n))
          BY <1>1, <3>2 DEF k
        <5> HIDE DEF g
        <5> QED  BY <2>1, <5>1, CellChange DEF k
      <4> QED  BY <3>2, <4>1
    <3>4. Sets(s, d, e)
      BY <2>5, <3>3 DEF Sets
    <3> QED  BY <2>5, <3>1, <3>3, <3>4 DEF Shows
  <2>6. CASE s.phase = "clear"
    <3>1. \/ e = d /\ ~ Exists(d, k) /\ a.errc = "not_found"
          \/ e = Erase(d, k) /\ a.errc = "ok"
      BY <2>3, <2>4, <2>6 DEF Process, ProcessRemove, ModOk, Response
    <3>2. /\ OnlyAt(d, e, k)
          /\ e.vv[k].value = EmptyValue
      <4>1. CASE e = d /\ ~ Exists(d, k)
        BY <2>2, <4>1 DEF VersionsBelow, Exists, NonexistentVersion, OnlyAt
      <4>2. CASE e = Erase(d, k)
        BY <1>1, <2>2, <4>2, EraseOnly DEF NonexistentVV
      <4> QED  BY <3>1, <4>1, <4>2
    <3>3. /\ \A h \in Group \ {g} : SameView(d, e, h)
          /\ e.vv[LockKey(g)] = d.vv[LockKey(g)]
          /\ Row(e, g) = Put(Row(d, g), s.n, EmptyValue)
      <4>1. /\ \A h \in Group \ {g} : SameView(d, e, h)
            /\ e.vv[LockKey(g)] = d.vv[LockKey(g)]
            /\ Row(e, g) = Put(Row(d, g), s.n, e.vv[k].value)
        <5>1. g \in Group /\ OnlyAt(d, e, ValueKey(g, s.n))
          BY <1>1, <3>2 DEF k
        <5> HIDE DEF g
        <5> QED  BY <2>1, <5>1, CellChange DEF k
      <4> QED  BY <3>2, <4>1
    <3>4. Clears(s, d, e)
      BY <2>6, <3>3 DEF Clears
    <3>5. Row(e, g)[s.n] = EmptyValue
      BY <2>1, <3>2 DEF Row, k
    <3> QED  BY <2>6, <3>1, <3>3, <3>4, <3>5 DEF Shows
  <2> QED  BY <1>3, <2>5, <2>6
<1>4. CASE s.phase = "unlock"
  <2>1. m.op = "remove" /\ m.key = LockKey(g) /\ m.version_match = s.lock_version
    BY <1>1, <1>4, RequestType
  <2>2. 0 < s.lock_version /\ s.lock_version \in Nat
    BY <1>4, ClientFields DEF ClientOK
  <2>3. \/ e = d /\ (~ Exists(d, LockKey(g)) \/ ~ VersionAdmits(m, d.vv[LockKey(g)]))
        \/ e = Erase(d, LockKey(g)) /\ VersionAdmits(m, d.vv[LockKey(g)]) /\ a.errc = "ok"
    BY <2>1 DEF Process, ProcessRemove, ModOk, Response
  <2>4. CASE e = Erase(d, LockKey(g)) /\ VersionAdmits(m, d.vv[LockKey(g)])
             /\ a.errc = "ok"
    <3>1. d.vv[LockKey(g)].version = s.lock_version
      BY <2>1, <2>2, <2>4 DEF VersionAdmits
    <3>2. HoldsLock(s, d)
      BY <1>4, <3>1 DEF ClientOK
    <3>3. /\ OnlyAt(d, e, LockKey(g))
          /\ e.vv[LockKey(g)] = NonexistentVV
      BY <1>1, <2>4, EraseOnly
    <3>4. Frees(s, d, e) /\ \A h \in Group \ {g} : SameView(d, e, h)
      BY <1>1, <1>4, <3>2, <3>3, LockChange DEF Frees
    <3> QED  BY <1>4, <2>4, <3>4 DEF Shows
  <2>5. CASE e = d /\ (~ Exists(d, LockKey(g)) \/ ~ VersionAdmits(m, d.vv[LockKey(g)]))
    <3>1. ~ HoldsLock(s, d)
      BY <2>1, <2>2, <2>5 DEF HoldsLock, Exists, NonexistentVersion, VersionAdmits
    <3> QED  BY <1>4, <2>5, <3>1, SameQuiet
  <2> QED  BY <2>3, <2>4, <2>5
<1> QED  BY <1>1, <1>2, <1>3, <1>4 DEF Phase

\* A copy of an earlier request does not show.
LEMMA EffectOfPast ==
    ASSUME NEW c \in Client, NEW s \in ClientSet, NEW d \in DBSet(Key, AnyValue),
           VersionsBelow(d), ClientOK(c, s, d), RowOK(s, d),
           NEW m \in RequestSet(Key, AnyValue), RequestOK(s, d, m), Past(s, d, m),
           NEW e, e = Process(d, m).db
    PROVE  Quiet(d, e)
<1>1. s.gid \in Group /\ EmptyValue \in AnyValue /\ m.value \in AnyValue
  BY ClientFields, RequestFields DEF AnyValue
<1>2. CASE s.phase = "lock" /\ m.op = "remove" /\ m.key[2] = LockIndex
  <2>1. d.vv[m.key].version # m.version_match /\ 0 < m.version_match
    BY <1>2 DEF RequestOK, UnlockOK
  <2>2. ~ VersionAdmits(m, d.vv[m.key])
    BY <2>1, RequestFields DEF VersionAdmits
  <2>3. e = d
    BY <1>2, <2>2 DEF Process, ProcessRemove
  <2> QED  BY <2>3, SameQuiet
<1>3. CASE s.phase = "write" /\ m.op = "cas" /\ m.key = LockKey(s.gid)
  <2>1. HoldsLock(s, d) /\ (s.pc # "idle" => OwnedBy(s.value, c)) /\ s.pc # "idle"
    BY <1>3 DEF ClientOK
  <2>2. d.vv[m.key].value = s.value
    BY <1>3, <2>1 DEF HoldsLock
  <2>3. d.vv[m.key].value # EmptyValue
    BY <2>1, <2>2, LockSeqAssumption DEF OwnedBy, Value
  <2>4. m.expected = EmptyValue
    BY <1>3 DEF RequestOK
  <2>5. e = d
    BY <1>3, <2>3, <2>4 DEF Process, ProcessCas
  <2> QED  BY <2>5, SameQuiet
<1>4. CASE s.phase # "lock" /\ HoldsLock(s, d) /\ Repeats(s, m)
  <2>1. PICK i \in Cell :
          /\ s.phase \in {"write", "clear"} => i < s.n
          /\ m.key = ValueKey(s.gid, i)
          /\ \/ m.op = "put" /\ i < s.nvalues /\ m.value = s.value
             \/ m.op = "remove" /\ s.nvalues <= i
    BY <1>4 DEF Repeats
  <2>2. m.key \in Key
    BY RequestFields
  <2>3. Row(d, s.gid)[i] = IF i < s.nvalues THEN s.value ELSE EmptyValue
    <3>1. s.n \in Nat /\ MaxLen \in Nat
      BY LockSeqAssumption DEF ClientSet
    <3>2. CASE s.phase \in {"write", "clear"}
      <4>1. WrittenTo(Row(d, s.gid), s, s.n) /\ i \in 0 .. s.n - 1
        BY <2>1, <3>1, <3>2 DEF RowOK, Cell
      <4> QED  BY <4>1 DEF WrittenTo
    <3>3. CASE s.phase = "unlock"
      <4>1. WrittenTo(Row(d, s.gid), s, MaxLen)
        BY <1>4, <3>3 DEF RowOK
      <4> QED  BY <2>1, <4>1 DEF WrittenTo, Cell
    <3> QED  BY <1>4, <3>2, <3>3, ClientFields DEF Phase
  <2>4. CASE m.op = "put" /\ i < s.nvalues /\ m.value = s.value
    <3>1. e = d \/ e = Store(d, m.key, m.value)
      BY <2>4 DEF Process, ProcessPut
    <3>2. CASE e = Store(d, m.key, m.value)
      <4>1. /\ OnlyAt(d, e, m.key)
            /\ e.vv[m.key] = [value |-> m.value, version |-> d.next]
        BY <1>1, <2>2, <3>2, StoreHere
      <4>2. e.vv[m.key].value = Row(d, s.gid)[i]
        BY <2>3, <2>4, <4>1
      <4> QED  BY <1>1, <2>1, <4>1, <4>2, CellRepeated DEF Quiet
    <3> QED  BY <3>1, <3>2, SameQuiet
  <2>5. CASE m.op = "remove" /\ s.nvalues <= i
    <3>1. e = d \/ e = Erase(d, m.key)
      BY <2>5 DEF Process, ProcessRemove
    <3>2. CASE e = Erase(d, m.key)
      <4>1. /\ OnlyAt(d, e, m.key)
            /\ e.vv[m.key] = NonexistentVV
        BY <2>2, <3>2, EraseOnly
      <4>2. s.nvalues \in Int
        BY DEF ClientSet
      <4>3. e.vv[m.key].value = Row(d, s.gid)[i]
        BY <2>3, <2>5, <4>1, <4>2 DEF NonexistentVV, Cell
      <4> QED  BY <1>1, <2>1, <4>1, <4>3, CellRepeated DEF Quiet
    <3> QED  BY <3>1, <3>2, SameQuiet
  <2> QED  BY <2>1, <2>4, <2>5
<1> QED  BY <1>2, <1>3, <1>4 DEF Past

\* Whatever reaches the primary is the current request of its client, or
\* does not show.
LEMMA Effect ==
    ASSUME NEW c \in Client, NEW s \in ClientSet, NEW d \in DBSet(Key, AnyValue),
           VersionsBelow(d), ClientOK(c, s, d), RowOK(s, d),
           NEW m \in RequestSet(Key, AnyValue), RequestOK(s, d, m), QueuedOK(s, d, m),
           NEW e, e = Process(d, m).db
    PROVE  Quiet(d, e) \/ Shows(s, d, m, e)
<1>1. s.serial \in Nat /\ m.serial \in Nat /\ m.serial <= s.serial
  BY ClientFields, RequestFields DEF RequestOK
<1>2. CASE s.pc # "idle" /\ m.serial = s.serial
  <2>1. m = CurrentRequest(s)
    BY <1>2 DEF QueuedOK
  <2> QED  BY <1>2, <2>1, EffectOfCurrent
<1>3. CASE s.pc = "idle" \/ m.serial < s.serial
  <2>1. Past(s, d, m)
    BY <1>3 DEF QueuedOK
  <2> QED  BY <2>1, EffectOfPast
<1> QED  BY <1>1, <1>2, <1>3

-----------------------------------------------------------------------------
(* The other clients do not notice.                                        *)

\* What is known of a client and its messages in d is known in e.
Keeps(s, d, e) ==
    /\ RowOK(s, d) => RowOK(s, e)
    /\ \A m : QueuedOK(s, d, m) => QueuedOK(s, e, m)
    /\ \A q : FirstTry(s, d, q) => FirstTry(s, e, q)
    /\ \A q, m : ReplyOK(s, d, q, m) => ReplyOK(s, e, q, m)

\* A client sees its group only.
LEMMA SameViewKeeps ==
    ASSUME NEW s \in ClientSet, NEW d, NEW e, SameView(d, e, s.gid)
    PROVE  Keeps(s, d, e)
<1>1. /\ e.vv[LockKey(s.gid)] = d.vv[LockKey(s.gid)] /\ Row(e, s.gid) = Row(d, s.gid)
      /\ HoldsLock(s, d) <=> HoldsLock(s, e)
  BY DEF SameView, HoldsLock
<1>2. RowOK(s, d) => RowOK(s, e)
  BY <1>1 DEF RowOK
<1>3. \A m : QueuedOK(s, d, m) => QueuedOK(s, e, m)
  BY <1>1 DEF QueuedOK, Past
<1>4. Fresh(s, d) => Fresh(s, e)
  BY <1>1 DEF Fresh
<1>5. \A q : FirstTry(s, d, q) => FirstTry(s, e, q)
  BY <1>4 DEF FirstTry
<1>6. \A m : Answers(s, d, m) => Answers(s, e, m)
  BY <1>1 DEF Answers
<1>7. \A q, m : ReplyOK(s, d, q, m) => ReplyOK(s, e, q, m)
  BY <1>6 DEF ReplyOK
<1> QED  BY <1>2, <1>3, <1>5, <1>7 DEF Keeps

\* A client that does not have the lock of its group expects nothing of the
\* group's values.
LEMMA OutsiderKeeps ==
    ASSUME NEW c \in Client, NEW s \in ClientSet, NEW d, NEW e, ClientOK(c, s, d),
           s.pc # "idle" => /\ d.vv[LockKey(s.gid)].value # s.value
                            /\ e.vv[LockKey(s.gid)].value # s.value
    PROVE  Keeps(s, d, e)
<1>1. s.phase # "lock" => ~ HoldsLock(s, d) /\ ~ HoldsLock(s, e)
  BY DEF HoldsLock, ClientOK
<1>2. s.phase \in {"lock", "unlock"}
  BY <1>1, ClientFields DEF Phase, ClientOK
<1>3. RowOK(s, d) => RowOK(s, e)
  BY <1>1, <1>2 DEF RowOK
<1>4. \A m : QueuedOK(s, d, m) => QueuedOK(s, e, m)
  BY <1>1 DEF QueuedOK, Past
<1>5. Fresh(s, d) => Fresh(s, e)
  BY <1>1, <1>2 DEF Fresh
<1>6. \A q : FirstTry(s, d, q) => FirstTry(s, e, q)
  BY <1>5 DEF FirstTry
<1>7. \A m : Answers(s, d, m) => Answers(s, e, m)
  BY <1>2 DEF Answers
<1>8. \A q, m : ReplyOK(s, d, q, m) => ReplyOK(s, e, q, m)
  BY <1>7 DEF ReplyOK
<1> QED  BY <1>3, <1>4, <1>6, <1>8 DEF Keeps

\* A client that is not idle does not have the empty value.
LEMMA ValueFacts ==
    ASSUME NEW c \in Client, NEW s \in ClientSet, NEW d, ClientOK(c, s, d),
           s.pc # "idle"
    PROVE  OwnedBy(s.value, c) /\ s.value \in Value /\ s.value # EmptyValue
BY LockSeqAssumption DEF ClientOK, OwnedBy, Value

\* When a request of c shows, c or nobody has the lock of its group before
\* and after.
LEMMA OthersKeep ==
    ASSUME NEW c \in Client, NEW x \in Client \ {c},
           NEW s \in ClientSet, NEW t \in ClientSet, NEW d \in DBSet(Key, AnyValue),
           ClientOK(c, s, d), ClientOK(x, t, d), NEW m, NEW e, Shows(s, d, m, e)
    PROVE  Keeps(t, d, e)
<1>1. CASE t.gid # s.gid
  BY <1>1, SameViewKeeps, ClientFields DEF Shows
<1>2. CASE t.gid = s.gid
  <2> DEFINE k == LockKey(s.gid)
  <2> SUFFICES ASSUME t.pc # "idle"
               PROVE  d.vv[k].value # t.value /\ e.vv[k].value # t.value
    BY <1>2, OutsiderKeeps
  <2>1. /\ OwnedBy(s.value, c) /\ OwnedBy(t.value, x)
        /\ t.value # EmptyValue /\ s.value # EmptyValue
    BY ValueFacts DEF Shows
  <2>2. s.value # t.value
    BY <2>1 DEF OwnedBy
  <2> HIDE DEF k
  <2>3. CASE Takes(s, d, e)
    <3>1. d.vv[k].value = EmptyValue /\ e.vv[k] = [value |-> s.value, version |-> d.next]
      BY <2>3 DEF Takes, k
    <3> QED  BY <2>1, <2>2, <3>1
  <2>4. CASE Frees(s, d, e)
    <3>1. /\ d.vv[k] = [value |-> s.value, version |-> s.lock_version]
          /\ e.vv[k] = NonexistentVV
      BY <2>4 DEF Frees, HoldsLock, k
    <3> QED  BY <2>1, <2>2, <3>1 DEF NonexistentVV
  <2>5. CASE Sets(s, d, e) \/ Clears(s, d, e)
    <3>1. e.vv[k] = d.vv[k] /\ d.vv[k] = [value |-> s.value, version |-> s.lock_version]
      BY <2>5 DEF Sets, Clears, ClientOK, HoldsLock, k
    <3> QED  BY <2>1, <2>2, <3>1
  <2> QED  BY <2>3, <2>4, <2>5 DEF Shows
<1> QED  BY <1>1, <1>2

-----------------------------------------------------------------------------
(* The client whose request is executed.                                   *)

\* What is behind the head of a queue in order.
LEMMA TailOrder ==
    ASSUME NEW S, NEW q \in Seq(S), q # << >>, InOrder(q)
    PROVE  /\ InOrder(Tail(q))
           /\ \A x \in Elems(Tail(q)) : Head(q).serial <= x.serial
           /\ \A n : Once(q, n) => Once(Tail(q), n)
           /\ \A n : Once(q, n) /\ Head(q).serial = n
                     => \A x \in Elems(Tail(q)) : x.serial # n
<1>1. Len(q) \in Nat /\ Len(q) > 0 /\ DOMAIN q = 1 .. Len(q)
  BY EmptySeq, LenProperties
<1>2. Head(q) = q[1] /\ 1 \in DOMAIN q
  BY <1>1, HeadTailProperties
<1>3. /\ DOMAIN Tail(q) = 1 .. Len(q) - 1
      /\ \A i \in DOMAIN Tail(q) : Tail(q)[i] = q[i + 1] /\ i + 1 \in DOMAIN q
  <2>1. /\ Tail(q) \in Seq(S) /\ Len(Tail(q)) = Len(q) - 1
        /\ \A i \in 1 .. Len(Tail(q)) : Tail(q)[i] = q[i + 1]
    BY HeadTailProperties
  <2>2. DOMAIN Tail(q) = 1 .. Len(q) - 1
    BY <2>1, LenProperties
  <2> QED  BY <1>1, <2>1, <2>2
<1>4. InOrder(Tail(q))
  <2> SUFFICES ASSUME NEW i \in DOMAIN Tail(q), NEW j \in DOMAIN Tail(q), i < j
               PROVE  Tail(q)[i].serial <= Tail(q)[j].serial
    BY DEF InOrder
  <2>1. i + 1 < j + 1
    BY <1>1, <1>3
  <2> QED  BY <1>3, <2>1 DEF InOrder
<1>5. ASSUME NEW i \in DOMAIN Tail(q)
      PROVE  q[1].serial <= Tail(q)[i].serial
  <2>1. 1 < i + 1
    BY <1>1, <1>3
  <2> QED  BY <1>2, <1>3, <2>1 DEF InOrder
<1>6. ASSUME NEW n, Once(q, n)
      PROVE  Once(Tail(q), n)
  <2> SUFFICES ASSUME NEW i \in DOMAIN Tail(q), NEW j \in DOMAIN Tail(q),
                      Tail(q)[i].serial = n, Tail(q)[j].serial = n
               PROVE  i = j
    BY DEF Once
  <2>1. i + 1 = j + 1
    BY <1>3, <1>6 DEF Once
  <2> QED  BY <1>1, <1>3, <2>1
<1>7. ASSUME NEW n, Once(q, n), q[1].serial = n, NEW i \in DOMAIN Tail(q)
      PROVE  Tail(q)[i].serial # n
  <2>1. i + 1 # 1
    BY <1>1, <1>3
  <2> QED  BY <1>2, <1>3, <1>7, <2>1 DEF Once
<1> QED  BY <1>2, <1>4, <1>5, <1>6, <1>7 DEF Elems

\* A queue in order stays so when the newest request joins it.
LEMMA AppendOrder ==
    ASSUME NEW S, NEW q \in Seq(S), NEW m \in S, InOrder(q),
           \A x \in Elems(q) : x.serial <= m.serial, m.serial \in Nat
    PROVE  /\ InOrder(Append(q, m))
           /\ (\A x \in Elems(q) : x.serial # m.serial) => Once(Append(q, m), m.serial)
<1>1. /\ Len(q) \in Nat /\ DOMAIN q = 1 .. Len(q)
      /\ Append(q, m) \in Seq(S) /\ DOMAIN Append(q, m) = 1 .. Len(q) + 1
      /\ Append(q, m)[Len(q) + 1] = m
      /\ \A i \in 1 .. Len(q) : Append(q, m)[i] = q[i]
  BY AppendProperties, LenProperties
<1>2. \A i \in 1 .. Len(q) : q[i] \in Elems(q)
  BY <1>1 DEF Elems
<1> DEFINE p == Append(q, m)
<1> HIDE DEF p
<1>3. /\ DOMAIN p = 1 .. Len(q) + 1 /\ p[Len(q) + 1] = m
      /\ \A i \in 1 .. Len(q) : p[i] = q[i]
  BY <1>1 DEF p
<1>4. InOrder(p)
  <2> SUFFICES ASSUME NEW i \in DOMAIN p, NEW j \in DOMAIN p, i < j
               PROVE  p[i].serial <= p[j].serial
    BY DEF InOrder
  <2>1. i \in 1 .. Len(q)
    BY <1>1, <1>3
  <2>2. CASE j = Len(q) + 1
    BY <1>2, <1>3, <2>1, <2>2
  <2>3. CASE j \in 1 .. Len(q)
    BY <1>1, <1>3, <2>1, <2>3 DEF InOrder
  <2> QED  BY <1>1, <1>3, <2>2, <2>3
<1>5. ASSUME \A x \in Elems(q) : x.serial # m.serial
      PROVE  Once(p, m.serial)
  <2>1. ASSUME NEW i \in DOMAIN p, p[i].serial = m.serial
        PROVE  i = Len(q) + 1
    BY <1>1, <1>2, <1>3, <1>5, <2>1
  <2> QED  BY <2>1 DEF Once
<1> QED  BY <1>4, <1>5 DEF p

\* The cell a client is busy with.
LEMMA BusyCell ==
    ASSUME NEW s \in ClientSet, InLoop(s), s.phase \in {"write", "clear"}
    PROVE  s.n \in Cell /\ s.n \in Nat /\ s.nvalues \in 1 .. MaxLen
BY LockSeqAssumption DEF InLoop, ClientSet, Cell

\* Doing the current cell leaves the cells before and the run behind it.
LEMMA PutKeepsRow ==
    ASSUME NEW r, NEW s \in ClientSet, NEW n \in Cell, NEW v, NEW w,
           r \in [Cell -> AnyValue], WrittenTo(r, s, n),
           GL!RunFrom(r, n) \/ (r[n] = v /\ GL!RunFrom(r, n + 1)),
           w = Put(r, n, v)
    PROVE  /\ WrittenTo(w, s, n) /\ w[n] = v
           /\ GL!RunFrom(w, n + 1)
<1> USE LockSeqAssumption DEF Cell
<1>1. w[n] = v /\ \A i \in Cell : i # n => w[i] = r[i]
  BY DEF Put
<1>2. WrittenTo(w, s, n)
  BY <1>1 DEF WrittenTo
<1>3. GL!RunFrom(r, n + 1)
  BY RunStep
<1>4. n + 1 \in 0 .. MaxLen /\ \A i \in n + 1 .. MaxLen - 1 : w[i] = r[i]
  BY <1>1
<1>5. GL!RunFrom(w, n + 1)
  BY <1>3, <1>4, RunLocal
<1> QED  BY <1>1, <1>2, <1>5

\* The row of the client whose request shows.
LEMMA OwnRow ==
    ASSUME NEW c \in Client, NEW s \in ClientSet, NEW d \in DBSet(Key, AnyValue),
           ClientOK(c, s, d), RowOK(s, d), NEW m, NEW e, Shows(s, d, m, e),
           d.vv[LockKey(s.gid)].value = EmptyValue => GL!RunFrom(Row(d, s.gid), 0)
    PROVE  RowOK(s, e)
<1>1. s.pc = "failed" => s.phase = "lock"
  BY DEF RowOK
<1>2. CASE Takes(s, d, e)
  BY <1>2 DEF Takes, RowOK
<1>3. CASE Frees(s, d, e)
  <2>1. e.vv[LockKey(s.gid)].version = 0 /\ 0 < s.lock_version /\ s.lock_version \in Nat
    BY <1>3, ClientFields DEF Frees, NonexistentVV, NonexistentVersion, ClientOK
  <2>2. ~ HoldsLock(s, e)
    BY <2>1 DEF HoldsLock
  <2> QED  BY <1>1, <1>3, <2>2 DEF Frees, RowOK
<1>4. CASE Sets(s, d, e)
  <2> DEFINE r == Row(d, s.gid)
             w == Row(e, s.gid)
  <2>1. s.phase = "write" /\ w = Put(r, s.n, s.value) /\ InLoop(s)
    BY <1>4 DEF Sets, ClientOK
  <2>2. s.n \in Cell /\ r \in [Cell -> AnyValue]
    BY <2>1, BusyCell, RowType, ClientFields
  <2>3. WrittenTo(r, s, s.n)
        /\ (GL!RunFrom(r, s.n) \/ (r[s.n] = s.value /\ GL!RunFrom(r, s.n + 1)))
    BY <2>1 DEF RowOK
  <2> HIDE DEF r, w
  <2>4. WrittenTo(w, s, s.n) /\ w[s.n] = s.value /\ GL!RunFrom(w, s.n + 1)
    BY <2>1, <2>2, <2>3, PutKeepsRow
  <2> QED  BY <1>1, <2>1, <2>4 DEF RowOK, w
<1>5. CASE Clears(s, d, e)
  <2> DEFINE r == Row(d, s.gid)
             w == Row(e, s.gid)
  <2>1. s.phase = "clear" /\ w = Put(r, s.n, EmptyValue) /\ InLoop(s)
    BY <1>5 DEF Clears, ClientOK
  <2>2. s.n \in Cell /\ r \in [Cell -> AnyValue]
    BY <2>1, BusyCell, RowType, ClientFields
  <2>3. WrittenTo(r, s, s.n) /\ s.nvalues <= s.n
        /\ (GL!RunFrom(r, s.n) \/ (r[s.n] = EmptyValue /\ GL!RunFrom(r, s.n + 1)))
    BY <2>1 DEF RowOK
  <2> HIDE DEF r, w
  <2>4. WrittenTo(w, s, s.n) /\ w[s.n] = EmptyValue /\ GL!RunFrom(w, s.n + 1)
    BY <2>1, <2>2, <2>3, PutKeepsRow
  <2> QED  BY <1>1, <2>1, <2>3, <2>4 DEF RowOK, w
<1> QED  BY <1>2, <1>3, <1>4, <1>5 DEF Shows

\* The requests behind the one that shows.
LEMMA OwnQueued ==
    ASSUME NEW c \in Client, NEW s \in ClientSet, NEW d \in DBSet(Key, AnyValue),
           ClientOK(c, s, d), NEW m, NEW e, Shows(s, d, m, e),
           NEW x \in RequestSet(Key, AnyValue), QueuedOK(s, d, x), m.serial <= x.serial
    PROVE  QueuedOK(s, e, x)
<1>1. m.serial = s.serial /\ s.pc # "idle" /\ s.serial \in Nat /\ x.serial \in Nat
  BY RequestType, ClientFields, RequestFields DEF Shows, ClientOK
<1>2. ~ (x.serial < s.serial)
  BY <1>1
<1> QED  BY <1>1, <1>2 DEF QueuedOK

\* Behind the request that shows there is no other first try.
LEMMA OwnFirst ==
    ASSUME NEW c \in Client, NEW s \in ClientSet, NEW d \in DBSet(Key, AnyValue),
           ClientOK(c, s, d), NEW q \in Seq(RequestSet(Key, AnyValue)), q # << >>,
           InOrder(q), FirstTry(s, d, q), NEW e, Shows(s, d, Head(q), e)
    PROVE  FirstTry(s, e, Tail(q))
<1> SUFFICES ASSUME Active(s), s.tries = 0
             PROVE  /\ s.pc # "send"
                    /\ Once(Tail(q), s.serial)
                    /\ \A x \in Elems(Tail(q)) : x.serial # s.serial
  BY DEF FirstTry
<1>1. Head(q).serial = s.serial
  BY RequestType DEF Shows, ClientOK
<1>2. Head(q) \in Elems(q)
  BY TailElems
<1>3. s.pc # "send" /\ Once(q, s.serial)
  BY <1>1, <1>2 DEF FirstTry
<1> QED  BY <1>1, <1>3, TailOrder

\* An earlier answer stays true.
LEMMA OwnReply ==
    ASSUME NEW c \in Client, NEW s \in ClientSet, NEW d \in DBSet(Key, AnyValue),
           ClientOK(c, s, d), NEW m, NEW e, Shows(s, d, m, e),
           NEW x, Answers(s, d, x)
    PROVE  Answers(s, e, x)
<1> DEFINE r == Row(d, s.gid)
           w == Row(e, s.gid)
<1>1. r \in [Cell -> AnyValue]
  BY RowType, ClientFields
<1>2. CASE s.phase = "write"
  <2>1. w = Put(r, s.n, s.value) /\ s.n \in Cell
    BY <1>2, BusyCell DEF Shows, Takes, Frees, Sets, Clears, ClientOK
  <2> HIDE DEF r, w
  <2>2. w[s.n] = s.value
    BY <1>1, <2>1 DEF Put
  <2> QED  BY <1>2, <2>2 DEF Answers, w
<1>3. CASE s.phase = "clear"
  <2>1. w = Put(r, s.n, EmptyValue) /\ s.n \in Cell
    BY <1>3, BusyCell DEF Shows, Takes, Frees, Sets, Clears, ClientOK
  <2>2. r[s.n] = EmptyValue
    BY <1>3 DEF Answers
  <2> HIDE DEF r, w
  <2>3. w = r
    BY <1>1, <2>1, <2>2 DEF Put
  <2> QED  BY <1>3, <2>3 DEF Answers, r, w
<1>4. CASE s.phase \in {"lock", "unlock"}
  BY <1>4 DEF Answers
<1> QED  BY <1>2, <1>3, <1>4, ClientFields DEF Phase

\* A new answer is true.
LEMMA OwnAnswer ==
    ASSUME NEW c \in Client, NEW s \in ClientSet, NEW d \in DBSet(Key, AnyValue),
           VersionsBelow(d), ClientOK(c, s, d), RowOK(s, d), Active(s),
           NEW q \in Seq(RequestSet(Key, AnyValue)), FirstTry(s, d, q),
           NEW m \in Elems(q), m = CurrentRequest(s),
           NEW e, e = Process(d, m).db, NEW a, a = Process(d, m).resp
    PROVE  Answers(s, e, a)
<1>1. s.pc # "idle" /\ m.serial = s.serial
  BY RequestType DEF Active, ClientOK
<1>2. /\ s.phase = "write" => Sets(s, d, e) /\ a.errc = "ok"
      /\ s.phase = "clear" => /\ Row(e, s.gid)[s.n] = EmptyValue
                              /\ a.errc \in {"ok", "not_found"}
                              /\ a.errc = "not_found" => e = d
      /\ s.phase = "unlock" /\ HoldsLock(s, d) => a.errc = "ok"
  BY <1>1, EffectOfCurrent
<1>3. s.tries = 0 => Fresh(s, d)
  BY <1>1 DEF FirstTry
<1>4. s.tries \in Nat
  BY DEF ClientSet
<1>5. CASE s.phase = "write"
  <2>1. s.n \in Cell /\ Row(d, s.gid) \in [Cell -> AnyValue]
    BY <1>5, BusyCell, RowType, ClientFields DEF ClientOK
  <2>2. Row(e, s.gid)[s.n] = s.value
    BY <1>2, <1>5, <2>1 DEF Sets, Put
  <2> QED  BY <1>2, <1>5, <2>2 DEF Answers
<1>6. CASE s.phase = "clear"
  BY <1>2, <1>3, <1>6 DEF Answers, Fresh
<1>7. CASE s.phase = "unlock"
  BY <1>2, <1>3, <1>4, <1>7 DEF Answers, Fresh
<1>8. CASE s.phase = "lock"
  BY <1>8 DEF Answers
<1> QED  BY <1>5, <1>6, <1>7, <1>8, ClientFields DEF Phase

-----------------------------------------------------------------------------
(* The invariant.                                                          *)

\* A client, its requests on their way to the primary, and its port.
ConversationOK(s, d, q, b) ==
    /\ RowOK(s, d)
    /\ InOrder(q)
    /\ \A m \in Elems(q) : QueuedOK(s, d, m)
    /\ FirstTry(s, d, q)
    /\ \A m \in Elems(b) : ReplyOK(s, d, q, m)

\* A group that is not locked is one run; a lock has its owner.
GroupOK(g) ==
    IF LockValue(g) = EmptyValue THEN GL!RunFrom(Row(db, g), 0)
    ELSE \E c \in Client : Owns(cl[c], g, db)

RInv ==
    /\ \A c \in Client : ConversationOK(cl[c], db, Queue(c), inbox[c])
    /\ \A g \in Group : GroupOK(g)

\* At the start there is no message, no value and no lock.
LEMMA InitRInv == Init => RInv
<1> SUFFICES ASSUME Init PROVE RInv
  OBVIOUS
<1>1. ASSUME NEW c \in Client
      PROVE  ConversationOK(cl[c], db, Queue(c), inbox[c])
  <2>1. PICK hint \in [Client -> Replica] : cl = [x \in Client |-> Idle(0, hint[x])]
    BY DEF Init
  <2>2. cl[c].pc = "idle" /\ cl[c].phase = "lock"
    BY <2>1, IdleType
  <2>3. Queue(c) = << >> /\ inbox[c] = << >>
    BY LockSeqAssumption DEF Init, Queue
  <2>4. RowOK(cl[c], db) /\ FirstTry(cl[c], db, Queue(c))
    BY <2>2 DEF RowOK, FirstTry, Active
  <2> QED  BY <2>3, <2>4 DEF ConversationOK, InOrder, Elems
<1>2. ASSUME NEW g \in Group
      PROVE  GroupOK(g)
  <2>1. \A k \in Key : db.vv[k].value = EmptyValue
    BY DEF Init, EmptyDB, NonexistentVV
  <2>2. LockValue(g) = EmptyValue /\ \A i \in Cell : Row(db, g)[i] = EmptyValue
    BY <2>1, KeyFacts DEF LockValue, Row
  <2>3. GL!Filled(Row(db, g), 0, MaxLen, EmptyValue)
    BY <2>2 DEF GL!Filled, Cell
  <2>4. 0 \in 0 .. MaxLen
    BY LockSeqAssumption
  <2> QED  BY <2>2, <2>3, <2>4 DEF GroupOK, GL!RunFrom
<1> QED  BY <1>1, <1>2 DEF RInv

-----------------------------------------------------------------------------
(* Execution.                                                              *)

\* A response is of its request's type and serial.
LEMMA ResponseEchoes ==
    ASSUME NEW d, NEW m, m.op \in {"cas", "put", "remove"}
    PROVE  Process(d, m).resp.op = m.op /\ Process(d, m).resp.serial = m.serial
<1>1. \A errc, v, p, n : Response(m, errc, v, p, n).op = m.op
                          /\ Response(m, errc, v, p, n).serial = m.serial
  BY DEF Response
<1>2. CASE m.op = "put"
  BY <1>1, <1>2 DEF Process, ProcessPut, ModNoMatch, ModOk
<1>3. CASE m.op = "cas"
  BY <1>1, <1>3 DEF Process, ProcessCas, ModNoMatch, ModOk
<1>4. CASE m.op = "remove"
  BY <1>1, <1>4 DEF Process, ProcessRemove, ModNoMatch, ModOk
<1> QED  BY <1>2, <1>3, <1>4

\* Taking the head off a queue loses nothing of these two.
LEMMA TailKeeps ==
    ASSUME NEW s, NEW d, NEW q \in Seq(RequestSet(Key, AnyValue)), q # << >>, InOrder(q)
    PROVE  /\ FirstTry(s, d, q) => FirstTry(s, d, Tail(q))
           /\ \A m : ReplyOK(s, d, q, m) => ReplyOK(s, d, Tail(q), m)
<1>1. \A x \in Elems(Tail(q)) : x \in Elems(q)
  BY TailElems
<1>2. Once(q, s.serial) => Once(Tail(q), s.serial)
  BY TailOrder
<1> QED  BY <1>1, <1>2 DEF FirstTry, ReplyOK

\* The client whose request is executed.
LEMMA ExecuteOwn ==
    ASSUME NEW c \in Client, NEW s \in ClientSet, NEW d \in DBSet(Key, AnyValue),
           VersionsBelow(d), ClientOK(c, s, d),
           NEW q \in Seq(RequestSet(Key, AnyValue)), q # << >>,
           \A x \in Elems(q) : RequestOK(s, d, x),
           NEW b, ConversationOK(s, d, q, b),
           d.vv[LockKey(s.gid)].value = EmptyValue => GL!RunFrom(Row(d, s.gid), 0),
           NEW e, e = Process(d, Head(q)).db, NEW a, a = Process(d, Head(q)).resp
    PROVE  ConversationOK(s, e, Tail(q), b) /\ ReplyOK(s, e, Tail(q), a)
<1> DEFINE m == Head(q)
           p == Tail(q)
<1>1. m \in RequestSet(Key, AnyValue) /\ m \in Elems(q) /\ p \in Seq(RequestSet(Key, AnyValue))
      /\ \A x \in Elems(p) : x \in Elems(q) /\ x \in RequestSet(Key, AnyValue)
  <2>1. m \in RequestSet(Key, AnyValue) /\ m \in Elems(q)
        /\ p \in Seq(RequestSet(Key, AnyValue)) /\ \A x \in Elems(p) : x \in Elems(q)
    BY TailElems
  <2> HIDE DEF p
  <2>2. \A x \in Elems(p) : x \in RequestSet(Key, AnyValue)
    BY <2>1, ElemsType
  <2> QED  BY <2>1, <2>2
<1>2. /\ RowOK(s, d) /\ InOrder(q) /\ FirstTry(s, d, q)
      /\ \A x \in Elems(q) : QueuedOK(s, d, x)
      /\ \A x \in Elems(b) : ReplyOK(s, d, q, x)
  BY DEF ConversationOK
<1>3. InOrder(p) /\ \A x \in Elems(p) : m.serial <= x.serial
  BY <1>2, TailOrder
<1>4. RequestOK(s, d, m) /\ QueuedOK(s, d, m)
  BY <1>1, <1>2
<1>5. Quiet(d, e) \/ Shows(s, d, m, e)
  BY <1>1, <1>2, <1>4, Effect
<1> HIDE DEF m, p
<1>6. Quiet(d, e) => Keeps(s, d, e)
  BY SameViewKeeps, ClientFields DEF Quiet
<1>7. RowOK(s, e)
  BY <1>2, <1>5, <1>6, OwnRow DEF Keeps
<1>8. ASSUME NEW x \in Elems(p)
      PROVE  QueuedOK(s, e, x)
  BY <1>1, <1>2, <1>3, <1>5, <1>6, OwnQueued DEF Keeps
<1>9. FirstTry(s, e, p)
  <2>1. CASE Quiet(d, e)
    BY <1>2, <1>6, <2>1, TailKeeps DEF Keeps, p
  <2>2. CASE Shows(s, d, m, e)
    BY <1>2, <2>2, OwnFirst DEF m, p
  <2> QED  BY <1>5, <2>1, <2>2
<1>10. ASSUME NEW x \in Elems(b)
       PROVE  ReplyOK(s, e, p, x)
  <2>1. ReplyOK(s, d, p, x)
    BY <1>2, TailKeeps DEF p
  <2>2. CASE Quiet(d, e)
    BY <1>6, <2>1, <2>2 DEF Keeps
  <2>3. CASE Shows(s, d, m, e)
    BY <2>1, <2>3, OwnReply DEF ReplyOK
  <2> QED  BY <1>5, <2>2, <2>3
<1>11. ReplyOK(s, e, p, a)
  <2>1. a.serial = m.serial
    BY <1>4, ResponseEchoes DEF RequestOK, m
  <2>2. ASSUME Active(s), a.serial = s.serial
        PROVE  Answers(s, e, a)
    <3>1. m = CurrentRequest(s)
      BY <1>4, <2>1, <2>2 DEF QueuedOK, Active
    <3> QED  BY <1>1, <1>2, <2>2, <3>1, OwnAnswer DEF m
  <2> QED  BY <1>3, <2>1, <2>2 DEF ReplyOK
<1> QED  BY <1>3, <1>7, <1>8, <1>9, <1>10, <1>11 DEF ConversationOK, p

\* Any other client.
LEMMA ExecuteOther ==
    ASSUME NEW t, NEW d, NEW e, NEW q, NEW b, Keeps(t, d, e), ConversationOK(t, d, q, b)
    PROVE  ConversationOK(t, e, q, b)
BY DEF Keeps, ConversationOK

\* A group keeps its owner, gets one, or is left as one run.
LEMMA ExecuteGroup ==
    ASSUME NEW c \in Client, NEW s \in ClientSet, NEW d \in DBSet(Key, AnyValue),
           ClientOK(c, s, d), RowOK(s, d), NEW m, NEW e, Shows(s, d, m, e)
    PROVE  IF e.vv[LockKey(s.gid)].value = EmptyValue
           THEN GL!RunFrom(Row(e, s.gid), 0)
           ELSE Owns(s, s.gid, e)
<1>1. s.pc # "idle" /\ s.value \in Value /\ s.value # EmptyValue
  BY ValueFacts DEF Shows
<1>2. CASE Takes(s, d, e)
  BY <1>1, <1>2 DEF Takes, Owns
<1>3. CASE Frees(s, d, e)
  <2>1. WrittenTo(Row(d, s.gid), s, MaxLen)
    BY <1>3 DEF Frees, RowOK
  <2>2. GL!RunFrom(Row(e, s.gid), 0)
    BY <1>1, <1>3, <2>1, RunWhenWritten DEF Frees
  <2>3. e.vv[LockKey(s.gid)].value = EmptyValue
    BY <1>3 DEF Frees, NonexistentVV
  <2> QED  BY <2>2, <2>3
<1>4. CASE Sets(s, d, e) \/ Clears(s, d, e)
  BY <1>1, <1>4 DEF Sets, Clears, ClientOK, HoldsLock, Owns
<1> QED  BY <1>2, <1>3, <1>4 DEF Shows

\* Executing a request keeps the invariant.
LEMMA ExecuteRInv ==
    ASSUME IInv, RInv, NEW c \in Client, Execute(c)
    PROVE  RInv'
<1> DEFINE s == cl[c]
           q == Queue(c)
           m == Head(q)
           e == Process(db, m).db
           a == Process(db, m).resp
<1>1. q # << >> /\ Reply(c, a) /\ cl' = cl /\ db' = e
      /\ requests' = [requests EXCEPT ![c][Leader] = Tail(q)]
  BY DEF Execute, Queue
<1>2. Leader \in Replica
  BY LockSeqAssumption
<1>3. /\ s \in ClientSet /\ db \in DBSet(Key, AnyValue) /\ VersionsBelow(db)
      /\ ClientOK(c, s, db) /\ q \in Seq(RequestSet(Key, AnyValue))
      /\ \A x \in Elems(q) : RequestOK(s, db, x)
  BY <1>2, OneClient DEF Queue
<1>4. ConversationOK(s, db, q, inbox[c]) /\ s.gid \in Group
  BY <1>3, ClientFields DEF RInv
<1>5. m \in RequestSet(Key, AnyValue) /\ m \in Elems(q) /\ Tail(q) \in Seq(RequestSet(Key, AnyValue))
  BY <1>1, <1>3, TailElems
<1>6. db.vv[LockKey(s.gid)].value = EmptyValue => GL!RunFrom(Row(db, s.gid), 0)
  BY <1>4 DEF RInv, GroupOK, LockValue
<1>7. ConversationOK(s, e, Tail(q), inbox[c]) /\ ReplyOK(s, e, Tail(q), a)
  BY <1>1, <1>3, <1>4, <1>6, ExecuteOwn
<1>8. RequestOK(s, db, m) /\ QueuedOK(s, db, m) /\ RowOK(s, db)
  BY <1>3, <1>4, <1>5 DEF ConversationOK
<1>9. Quiet(db, e) \/ Shows(s, db, m, e)
  BY <1>3, <1>5, <1>8, Effect
<1>10. a \in Message
  <2>1. EmptyValue \in AnyValue
    BY DEF AnyValue
  <2> QED  BY <1>3, <1>5, <2>1, ProcessType DEF Message
<1> HIDE DEF m, e, a
<1>11. /\ \A x \in Client : \A n \in Elems(inbox'[x]) :
             n \in Elems(inbox[x]) \/ (x = c /\ n = a)
       /\ Queue(c)' = Tail(q)
       /\ \A x \in Client \ {c} : Queue(x)' = Queue(x)
  <2>1. \A x \in Client : \A n \in Elems(inbox'[x]) :
            n \in Elems(inbox[x]) \/ (x = c /\ n = a)
    BY <1>1, <1>2, <1>10, ReplicaQueues DEF Queue
  <2>2. requests \in [Client -> [Replica -> Seq(RequestSet(Key, AnyValue))]]
    BY Types DEF IInv
  <2>3. /\ \A x \in Client \ {c} : requests'[x] = requests[x]
        /\ requests'[c][Leader] = Tail(q)
    <3> DEFINE p == Tail(q)
    <3>1. requests' = [requests EXCEPT ![c][Leader] = p] /\ p \in Seq(RequestSet(Key, AnyValue))
      BY <1>1, <1>5
    <3> HIDE DEF p
    <3>2. /\ \A x \in Client \ {c} : requests'[x] = requests[x]
          /\ requests'[c][Leader] = p
      BY <1>2, <2>2, <3>1, OneQueue
    <3> QED  BY <3>2 DEF p
  <2> QED  BY <2>1, <2>3 DEF Queue
<1>12. ASSUME NEW x \in Client
       PROVE  ConversationOK(cl'[x], db', Queue(x)', inbox'[x])
  <2>1. CASE x = c
    BY <1>1, <1>7, <1>11, <2>1 DEF ConversationOK
  <2>2. CASE x # c
    <3>1. cl[x] \in ClientSet /\ ClientOK(x, cl[x], db) /\ cl[x].gid \in Group
      BY OneClient, ClientFields
    <3>2. Keeps(cl[x], db, e)
      <4>1. CASE Quiet(db, e)
        BY <3>1, <4>1, SameViewKeeps DEF Quiet
      <4>2. CASE Shows(s, db, m, e)
        BY <1>3, <2>2, <3>1, <4>2, OthersKeep
      <4> QED  BY <1>9, <4>1, <4>2
    <3>3. ConversationOK(cl[x], e, Queue(x), inbox[x])
      BY <3>2, ExecuteOther DEF RInv
    <3> QED  BY <1>1, <1>11, <2>2, <3>3 DEF ConversationOK
  <2> QED  BY <2>1, <2>2
<1>13. ASSUME NEW g \in Group
       PROVE  GroupOK(g)'
  <2>1. CASE SameView(db, e, g)
    BY <1>1, <2>1 DEF RInv, GroupOK, SameView, LockValue, Owns
  <2>2. CASE Shows(s, db, m, e) /\ g = s.gid
    <3>1. IF e.vv[LockKey(s.gid)].value = EmptyValue
          THEN GL!RunFrom(Row(e, s.gid), 0)
          ELSE Owns(s, s.gid, e)
      BY <1>3, <1>8, <2>2, ExecuteGroup
    <3> QED  BY <1>1, <2>2, <3>1 DEF GroupOK, LockValue
  <2> QED  BY <1>9, <2>1, <2>2 DEF Quiet, Shows
<1> QED  BY <1>12, <1>13 DEF RInv

\* A redirection is no answer, and another replica's queue is not the
\* primary's.
LEMMA RedirectRInv ==
    ASSUME IInv, RInv, NEW c \in Client, NEW r \in Replica, Redirect(c, r)
    PROVE  RInv'
<1> DEFINE n == Head(requests[c][r])
           a == Redirection(n, Leader)
           p == Tail(requests[c][r])
<1>1. /\ requests[c][r] # << >> /\ Reply(c, a) /\ cl' = cl /\ db' = db /\ r # Leader
      /\ p = Tail(requests[c][r]) /\ requests' = [requests EXCEPT ![c][r] = p]
  BY DEF Redirect
<1>2. n \in RequestSet(Key, AnyValue) /\ p \in Seq(RequestSet(Key, AnyValue))
  BY <1>1, OneClient, TailElems
<1> HIDE DEF n, p
<1>3. a \in Message /\ a.op = "redirect"
  BY <1>2, RequestFields, LockSeqAssumption DEF Redirection, Message, RedirectionSet
<1> HIDE DEF a
<1>4. \A x \in Client : \A m \in Elems(inbox'[x]) :
          m \in Elems(inbox[x]) \/ (x = c /\ m = a)
  BY <1>1, <1>3, ReplicaQueues
<1>5. \A x \in Client : Queue(x)' = Queue(x)
  <2>1. requests \in [Client -> [Replica -> Seq(RequestSet(Key, AnyValue))]]
    BY Types DEF IInv
  <2>2. /\ \A x \in Client \ {c} : requests'[x] = requests[x]
        /\ requests'[c][Leader] = requests[c][Leader]
    BY <1>1, <1>2, <2>1, OneQueue, LockSeqAssumption
  <2> QED  BY <2>2 DEF Queue
<1>6. \A x \in Client : ConversationOK(cl'[x], db', Queue(x)', inbox'[x])
  BY <1>1, <1>3, <1>4, <1>5 DEF RInv, ConversationOK, ReplyOK
<1>7. \A g \in Group : GroupOK(g)'
  BY <1>1 DEF RInv, GroupOK, LockValue
<1> QED  BY <1>6, <1>7 DEF RInv

-----------------------------------------------------------------------------
(* Client steps.                                                           *)

\* One client moves and may take or send messages; the database stays.
LEMMA ClientMoveR ==
    ASSUME IInv, RInv, NEW c \in Client, NEW t, Become(c, t), db' = db,
           \A x \in Client \ {c} : Queue(x)' = Queue(x) /\ inbox'[x] = inbox[x],
           ConversationOK(t, db, Queue(c)', inbox'[c]),
           \A g \in Group : LockValue(g) # EmptyValue /\ Owns(cl[c], g, db) => Owns(t, g, db)
    PROVE  RInv'
<1>1. cl'[c] = t /\ \A x \in Client \ {c} : cl'[x] = cl[x]
  BY Types DEF IInv, Become
<1>2. ASSUME NEW x \in Client
      PROVE  ConversationOK(cl'[x], db', Queue(x)', inbox'[x])
  <2>1. CASE x = c
    BY <1>1, <2>1
  <2>2. CASE x # c
    BY <1>1, <2>2 DEF RInv
  <2> QED  BY <2>1, <2>2
<1>3. ASSUME NEW g \in Group
      PROVE  GroupOK(g)'
  <2>1. CASE LockValue(g) = EmptyValue
    BY <2>1 DEF RInv, GroupOK, LockValue
  <2>2. CASE LockValue(g) # EmptyValue
    <3>1. PICK x \in Client : Owns(cl[x], g, db)
      BY <2>2 DEF RInv, GroupOK
    <3>2. Owns(cl'[x], g, db)
      BY <1>1, <2>2, <3>1
    <3> QED  BY <2>2, <3>2 DEF GroupOK, LockValue
  <2> QED  BY <2>1, <2>2
<1> QED  BY <1>2, <1>3 DEF RInv

\* One client moves and takes at most one message from its port.
LEMMA ClientTakesR ==
    ASSUME IInv, RInv, NEW c \in Client, NEW t, Become(c, t), UNCHANGED <<requests, db>>,
           \/ inbox' = inbox
           \/ inbox[c] # << >> /\ inbox' = [inbox EXCEPT ![c] = Tail(@)],
           ConversationOK(t, db, Queue(c), inbox[c]),
           \A g \in Group : LockValue(g) # EmptyValue /\ Owns(cl[c], g, db) => Owns(t, g, db)
    PROVE  RInv'
<1>1. inbox \in [Client -> Seq(Message)]
  BY Types DEF IInv
<1>2. \A x \in Client : Queue(x)' = Queue(x)
  BY DEF Queue
<1>3. \A x \in Client \ {c} : inbox'[x] = inbox[x]
  BY <1>1
<1>4. \A m \in Elems(inbox'[c]) : m \in Elems(inbox[c])
  <2>1. CASE inbox' = inbox
    BY <2>1
  <2>2. CASE inbox[c] # << >> /\ inbox'[c] = Tail(inbox[c])
    BY <1>1, <2>2, TailElems
  <2> QED  BY <1>1, <2>1, <2>2
<1>5. ConversationOK(t, db, Queue(c)', inbox'[c])
  BY <1>2, <1>4 DEF ConversationOK
<1> QED  BY <1>2, <1>3, <1>5, ClientMoveR

\* A client that tries again, or gives up a lock, keeps what is known of it.
LEMMA AgainKeeps ==
    ASSUME NEW s \in ClientSet, NEW t \in ClientSet, SameRequest(s, t), Active(s),
           t.pc \in {"send", "wait", "failed"}, t.pc = "failed" => s.phase = "lock",
           Active(t) => t.tries > 0,
           NEW d, NEW q, NEW b, ConversationOK(s, d, q, b)
    PROVE  /\ ConversationOK(t, d, q, b)
           /\ \A g : Owns(s, g, d) => Owns(t, g, d)
<1>1. CurrentRequest(t) = CurrentRequest(s) /\ s.pc # "idle" /\ t.pc # "idle"
  BY SameCurrentRequest DEF Active
<1>2. /\ t.phase = s.phase /\ t.gid = s.gid /\ t.value = s.value
      /\ t.nvalues = s.nvalues /\ t.n = s.n /\ t.lock_version = s.lock_version
      /\ t.serial = s.serial
  BY DEF SameRequest
<1>3. RowOK(t, d)
  BY <1>1, <1>2 DEF ConversationOK, RowOK, WrittenTo, HoldsLock
<1>4. \A m : Past(s, d, m) => Past(t, d, m)
  BY <1>2 DEF Past, Repeats, HoldsLock
<1>5. \A m \in Elems(q) : QueuedOK(t, d, m)
  BY <1>1, <1>2, <1>4 DEF ConversationOK, QueuedOK
<1>6. t.tries \in Nat /\ s.tries \in Nat
  BY DEF ClientSet
<1>7. FirstTry(t, d, q)
  BY <1>6 DEF FirstTry
<1>8. ASSUME NEW m, ReplyOK(s, d, q, m)
      PROVE  ReplyOK(t, d, q, m)
  <2>1. Active(t) /\ Answers(s, d, m) => Answers(t, d, m)
    BY <1>2, <1>6 DEF Answers
  <2> QED  BY <1>2, <1>8, <2>1 DEF ReplyOK
<1>9. \A g : Owns(s, g, d) => Owns(t, g, d)
  BY <1>1, <1>2 DEF Owns
<1> QED  BY <1>3, <1>5, <1>7, <1>8, <1>9 DEF ConversationOK

\* Trying again counts.
LEMMA RetriesCount ==
    ASSUME NEW s \in ClientSet, NEW hint, NEW t \in Retries(s, hint)
    PROVE  t.tries = s.tries + 1 /\ s.tries + 1 > 0
<1>1. PICK r : t = [s EXCEPT !.pc = "send", !.tries = @ + 1, !.leader = r]
  BY DEF Retries
<1>2. t.tries = s.tries + 1
  BY <1>1 DEF ClientSet
<1> QED  BY <1>2 DEF ClientSet

\* A time-out.
LEMMA TimeoutRInv ==
    ASSUME IInv, RInv, NEW c \in Client, Timeout(c)
    PROVE  RInv'
<1>1. PICK t \in Retries(cl[c], cl[c].leader) : Become(c, t)
  BY DEF Timeout
<1>2. cl[c] \in ClientSet /\ cl[c].leader \in Replica /\ Active(cl[c])
  BY OneClient DEF Timeout, ClientSet, Active
<1>3. t \in ClientSet /\ SameRequest(cl[c], t) /\ t.pc = "send" /\ t.tries > 0
  BY <1>2, RetriesType, RetriesCount
<1>4. UNCHANGED <<requests, db>> /\ inbox' = inbox
  BY DEF Timeout
<1>5. ConversationOK(cl[c], db, Queue(c), inbox[c])
  BY DEF RInv
<1>6. /\ ConversationOK(t, db, Queue(c), inbox[c])
      /\ \A g : Owns(cl[c], g, db) => Owns(t, g, db)
  BY <1>2, <1>3, <1>5, AgainKeeps
<1> QED  BY <1>1, <1>4, <1>6, ClientTakesR

\* A redirection.
LEMMA RedirectedRInv ==
    ASSUME IInv, RInv, NEW c \in Client, Redirected(c)
    PROVE  RInv'
<1> DEFINE m == Head(inbox[c])
           hint == IF m.op = "redirect" THEN m.redirection ELSE cl[c].leader
<1>1. PICK t \in Retries(cl[c], hint) : Become(c, t)
  BY DEF Redirected
<1>2. Current(c) /\ inbox[c] # << >>
  BY DEF Redirected, Current, Receiving
<1>3. cl[c] \in ClientSet /\ cl[c].leader \in Replica /\ Active(cl[c])
  BY <1>2, OneClient, HeadOK DEF ClientSet
<1>4. hint \in Replica
  BY <1>2, <1>3, HeadOK
<1> HIDE DEF hint
<1>5. t \in ClientSet /\ SameRequest(cl[c], t) /\ t.pc = "send" /\ t.tries > 0
  BY <1>1, <1>3, <1>4, RetriesType, RetriesCount
<1>6. UNCHANGED <<requests, db>> /\ inbox' = [inbox EXCEPT ![c] = Tail(@)]
  BY DEF Redirected
<1>7. ConversationOK(cl[c], db, Queue(c), inbox[c])
  BY DEF RInv
<1>8. /\ ConversationOK(t, db, Queue(c), inbox[c])
      /\ \A g : Owns(cl[c], g, db) => Owns(t, g, db)
  BY <1>3, <1>5, <1>7, AgainKeeps
<1> QED  BY <1>1, <1>2, <1>6, <1>8, ClientTakesR

\* A stale answer.
LEMMA DropStaleRInv ==
    ASSUME IInv, RInv, NEW c \in Client, DropStale(c)
    PROVE  RInv'
<1>1. Become(c, cl[c])
  BY Types DEF IInv, DropStale, Become
<1>2. ConversationOK(cl[c], db, Queue(c), inbox[c])
  BY DEF RInv
<1> QED  BY <1>1, <1>2, ClientTakesR DEF DropStale, Receiving

\* What is sent joins the queue as its newest request.
LEMMA SendRInv ==
    ASSUME IInv, RInv, NEW c \in Client, Send(c)
    PROVE  RInv'
<1> DEFINE s == cl[c]
           t == [s EXCEPT !.pc = "wait"]
           q == Queue(c)
           m == CurrentRequest(s)
<1>1. /\ s \in ClientSet /\ s.pc = "send" /\ ClientOK(c, s, db) /\ s.leader \in Replica
      /\ q \in Seq(RequestSet(Key, AnyValue)) /\ \A x \in Elems(q) : RequestOK(s, db, x)
      /\ inbox[c] \in Seq(Message) /\ \A x \in Elems(inbox[c]) : AnswerOK(s, db, x)
  BY OneClient, LockSeqAssumption DEF Send, ClientSet, Queue
<1>2. t \in ClientSet /\ SameRequest(s, t) /\ t.pc = "wait" /\ t.tries = s.tries
  BY <1>1 DEF ClientSet, SameRequest
<1>3. Become(c, t) /\ db' = db /\ inbox' = inbox
  BY DEF Send
<1>4. /\ m \in RequestSet(Key, AnyValue) /\ m.serial = s.serial /\ m.serial \in Nat
  BY <1>1, RequestType, ClientFields DEF ClientOK
<1>5. /\ \A x \in Client \ {c} : Queue(x)' = Queue(x)
      /\ Queue(c)' = q \/ Queue(c)' = Append(q, m)
  <2>1. \/ requests' = requests
        \/ requests' = [requests EXCEPT ![c][s.leader] = Append(requests[c][s.leader], m)]
    BY DEF Send
  <2>2. CASE requests' = requests
    BY <2>2 DEF Queue
  <2>3. CASE requests' = [requests EXCEPT ![c][s.leader] = Append(requests[c][s.leader], m)]
    <3> DEFINE p == Append(requests[c][s.leader], m)
    <3>1. requests \in [Client -> [Replica -> Seq(RequestSet(Key, AnyValue))]]
      BY Types DEF IInv
    <3>2. requests' = [requests EXCEPT ![c][s.leader] = p] /\ p \in Seq(RequestSet(Key, AnyValue))
      BY <1>1, <1>4, <2>3, <3>1, AppendElems
    <3> HIDE DEF p
    <3>3. /\ \A x \in Client \ {c} : requests'[x] = requests[x]
          /\ \A y \in Replica : requests'[c][y] = IF y = s.leader THEN p ELSE requests[c][y]
      BY <1>1, <3>1, <3>2, OneQueue
    <3>4. requests'[c][Leader] = IF Leader = s.leader THEN p ELSE requests[c][Leader]
      BY <3>3, LockSeqAssumption
    <3> QED  BY <3>3, <3>4 DEF Queue, p
  <2> QED  BY <2>1, <2>2, <2>3
<1>6. /\ RowOK(s, db) /\ InOrder(q) /\ FirstTry(s, db, q)
      /\ \A x \in Elems(q) : QueuedOK(s, db, x)
      /\ \A x \in Elems(inbox[c]) : ReplyOK(s, db, q, x)
  BY DEF RInv, ConversationOK
<1>7. CurrentRequest(t) = m /\ Active(s) /\ Active(t)
  BY <1>1, <1>2, SameCurrentRequest DEF Active
<1> HIDE DEF s, t, m, q
<1>8. /\ t.phase = s.phase /\ t.gid = s.gid /\ t.value = s.value
      /\ t.nvalues = s.nvalues /\ t.n = s.n /\ t.lock_version = s.lock_version
      /\ t.serial = s.serial
  BY <1>2 DEF SameRequest
<1>9. RowOK(t, db)
  BY <1>1, <1>2, <1>6, <1>8 DEF RowOK, WrittenTo, HoldsLock
<1>10. ASSUME NEW x, QueuedOK(s, db, x)
       PROVE  QueuedOK(t, db, x)
  <2>1. Past(s, db, x) => Past(t, db, x)
    BY <1>8 DEF Past, Repeats, HoldsLock
  <2> QED  BY <1>1, <1>2, <1>7, <1>8, <1>10, <2>1 DEF QueuedOK, m
<1>11. Fresh(s, db) => Fresh(t, db)
  BY <1>8 DEF Fresh, HoldsLock
<1>12. \A x : Answers(s, db, x) => Answers(t, db, x)
  BY <1>2, <1>8 DEF Answers
<1>13. CASE Queue(c)' = q
  <2>1. FirstTry(t, db, q)
    BY <1>1, <1>2, <1>6, <1>7, <1>8, <1>11 DEF FirstTry
  <2>2. \A x \in Elems(inbox[c]) : ReplyOK(t, db, q, x)
    BY <1>6, <1>7, <1>8, <1>12 DEF ReplyOK
  <2>3. ConversationOK(t, db, Queue(c)', inbox'[c])
    BY <1>3, <1>6, <1>9, <1>10, <1>13, <2>1, <2>2 DEF ConversationOK
  <2> QED  BY <1>1, <1>2, <1>3, <1>5, <1>7, <1>8, <2>3, ClientMoveR DEF Owns, s
<1>14. CASE Queue(c)' = Append(q, m)
  <2> DEFINE p == Append(q, m)
  <2>1. \A x \in Elems(p) : x \in Elems(q) \/ x = m
    BY <1>1, <1>4, AppendElems
  <2>2. \A x \in Elems(q) : x.serial <= m.serial
    BY <1>1, <1>4 DEF RequestOK
  <2>3. InOrder(p) /\ ((\A x \in Elems(q) : x.serial # m.serial) => Once(p, m.serial))
    BY <1>1, <1>4, <1>6, <2>2, AppendOrder
  <2> HIDE DEF p
  <2>4. QueuedOK(t, db, m)
    BY <1>2, <1>4, <1>7, <1>8 DEF QueuedOK
  <2>5. FirstTry(t, db, p)
    <3> SUFFICES ASSUME t.tries = 0 PROVE Once(p, t.serial) /\ Fresh(t, db)
      BY <1>2 DEF FirstTry
    <3>1. (\A x \in Elems(q) : x.serial # s.serial) /\ Fresh(s, db)
      BY <1>1, <1>2, <1>6, <1>7 DEF FirstTry
    <3> QED  BY <1>4, <1>8, <1>11, <2>3, <3>1
  <2>6. ASSUME NEW x \in Elems(inbox[c])
        PROVE  ReplyOK(t, db, p, x)
    <3>1. x.serial <= m.serial
      BY <1>1, <1>4 DEF AnswerOK
    <3> QED  BY <1>6, <1>7, <1>8, <1>12, <2>1, <3>1 DEF ReplyOK
  <2>7. ConversationOK(t, db, Queue(c)', inbox'[c])
    BY <1>3, <1>6, <1>9, <1>10, <1>14, <2>1, <2>3, <2>4, <2>5, <2>6 DEF ConversationOK, p
  <2> QED  BY <1>1, <1>2, <1>3, <1>5, <1>7, <1>8, <2>7, ClientMoveR DEF Owns, s
<1> QED  BY <1>5, <1>13, <1>14

\* For a new request every message is of the past.
LEMMA NewRequest ==
    ASSUME NEW s \in ClientSet, NEW t \in ClientSet, NEW d,
           t.serial = s.serial + 1, t.pc = "send",
           NEW q \in Seq(RequestSet(Key, AnyValue)), \A x \in Elems(q) : RequestOK(s, d, x),
           NEW b \in Seq(Message), \A x \in Elems(b) : AnswerOK(s, d, x),
           ConversationOK(s, d, q, b),
           RowOK(t, d), Fresh(t, d), \A x \in Elems(q) : Past(t, d, x)
    PROVE  ConversationOK(t, d, q, b)
<1>1. s.serial \in Nat
  BY ClientFields
<1>2. \A x \in Elems(q) : x.serial < t.serial /\ x.serial # t.serial
  <2> SUFFICES ASSUME NEW x \in Elems(q) PROVE x.serial < t.serial /\ x.serial # t.serial
    OBVIOUS
  <2>1. x.serial \in Nat /\ x.serial <= s.serial
    BY ElemsType, RequestFields DEF RequestOK
  <2> QED  BY <1>1, <2>1
<1>3. \A x \in Elems(b) : x.serial # t.serial
  <2> SUFFICES ASSUME NEW x \in Elems(b) PROVE x.serial # t.serial
    OBVIOUS
  <2>1. x \in Message
    BY ElemsType
  <2>2. x.serial \in Nat /\ x.serial <= s.serial
    BY <2>1 DEF Message, ResponseSet, RedirectionSet, AnswerOK
  <2> QED  BY <1>1, <2>2
<1>4. \A x \in Elems(q) : QueuedOK(t, d, x)
  BY <1>2 DEF QueuedOK
<1>5. Once(q, t.serial)
  BY <1>2 DEF Once, Elems
<1>6. FirstTry(t, d, q)
  BY <1>2, <1>5 DEF FirstTry
<1>7. \A x \in Elems(b) : ReplyOK(t, d, q, x)
  BY <1>3 DEF ConversationOK, ReplyOK
<1> QED  BY <1>4, <1>6, <1>7 DEF ConversationOK

\* A new round.  The lock of its group does not hold its value: its owner
\* would be this client, which is between rounds.
LEMMA StartRoundRInv ==
    ASSUME IInv, RInv, NEW c \in Client, StartRound(c)
    PROVE  RInv'
<1> USE LockSeqAssumption
<1>1. PICK g \in Group, x \in Nonce, len \in 1 .. MaxLen :
          Become(c, Begin([cl[c] EXCEPT !.gid = g, !.value = <<c, x>>,
                                        !.nvalues = len], "lock"))
  BY DEF StartRound
<1>2. /\ cl[c] \in ClientSet /\ cl[c].pc = "idle" /\ ClientOK(c, cl[c], db)
      /\ Queue(c) \in Seq(RequestSet(Key, AnyValue)) /\ inbox[c] \in Seq(Message)
      /\ \A m \in Elems(Queue(c)) : RequestOK(cl[c], db, m)
      /\ \A m \in Elems(inbox[c]) : AnswerOK(cl[c], db, m)
  BY OneClient DEF StartRound, Queue
<1> DEFINE a == [cl[c] EXCEPT !.gid = g]
           b == [a EXCEPT !.value = <<c, x>>]
           s == [b EXCEPT !.nvalues = len]
           t == Begin(s, "lock")
<1>3. a \in ClientSet /\ a.serial = cl[c].serial
  BY <1>2 DEF ClientSet
<1>4. t = Begin([cl[c] EXCEPT !.gid = g, !.value = <<c, x>>, !.nvalues = len], "lock")
  OBVIOUS
<1> HIDE DEF a
<1>5. b \in ClientSet /\ b.serial = cl[c].serial /\ b.value = <<c, x>>
  BY <1>3 DEF ClientSet, AnyValue, Value
<1> HIDE DEF b
<1>6. s \in ClientSet /\ s.serial = cl[c].serial /\ s.value = <<c, x>>
  BY <1>5 DEF ClientSet
<1> HIDE DEF s
<1>7. /\ t \in ClientSet /\ t.serial = cl[c].serial + 1 /\ t.value = <<c, x>>
      /\ t.pc = "send" /\ t.phase = "lock" /\ t.gid \in Group
  <2>1. "lock" \in Phase
    BY DEF Phase
  <2>2. /\ t \in ClientSet /\ t.serial = cl[c].serial + 1 /\ t.value = <<c, x>>
        /\ t.pc = "send" /\ t.phase = "lock"
    BY <1>6, <2>1, BeginType
  <2> QED  BY <2>2, ClientFields
<1> HIDE DEF t
<1>8. ConversationOK(cl[c], db, Queue(c), inbox[c])
  BY DEF RInv
<1>9. RowOK(t, db)
  <2> SUFFICES ASSUME db.vv[LockKey(t.gid)].value = t.value PROVE FALSE
    BY <1>7 DEF RowOK
  <2>1. LockValue(t.gid) # EmptyValue
    BY <1>7 DEF LockValue, Value
  <2>2. PICK y \in Client : Owns(cl[y], t.gid, db)
    BY <1>7, <2>1 DEF RInv, GroupOK
  <2>3. cl[y].pc # "idle" /\ cl[y].value = t.value
    BY <2>2 DEF Owns
  <2>4. OwnedBy(t.value, y)
    BY <2>3, OneClient, ValueFacts
  <2>5. y = c
    BY <1>7, <2>4 DEF OwnedBy
  <2> QED  BY <1>2, <2>3, <2>5
<1>10. Fresh(t, db)
  BY <1>7 DEF Fresh
<1>11. cl[c].phase = "lock"
  BY <1>2 DEF ClientOK
<1>12. \A m \in Elems(Queue(c)) : Past(t, db, m)
  BY <1>2, <1>7, <1>8, <1>11 DEF ConversationOK, QueuedOK, Past
<1>13. ConversationOK(t, db, Queue(c), inbox[c])
  BY <1>2, <1>7, <1>8, <1>9, <1>10, <1>12, NewRequest
<1>14. \A h : ~ Owns(cl[c], h, db)
  BY <1>2 DEF Owns
<1> QED  BY <1>1, <1>4, <1>13, <1>14, ClientTakesR DEF StartRound

\* When the current request is answered, the queue holds nothing but copies
\* of it.
LEMMA QueueIsCurrent ==
    ASSUME NEW s \in ClientSet, NEW d, Active(s),
           NEW q \in Seq(RequestSet(Key, AnyValue)), \A x \in Elems(q) : RequestOK(s, d, x),
           NEW m, m.serial = s.serial, m.op # "redirect", ReplyOK(s, d, q, m),
           NEW b, ConversationOK(s, d, q, b)
    PROVE  Answers(s, d, m) /\ \A x \in Elems(q) : x = CurrentRequest(s)
<1>1. Answers(s, d, m) /\ s.pc # "idle"
  BY DEF ReplyOK, Active
<1>2. ASSUME NEW x \in Elems(q)
      PROVE  x = CurrentRequest(s)
  <2>1. x.serial \in Nat /\ s.serial \in Nat
    BY ElemsType, RequestFields, ClientFields
  <2>2. x.serial = s.serial
    BY <2>1 DEF ReplyOK, RequestOK
  <2> QED  BY <1>1, <2>2 DEF ConversationOK, QueuedOK
<1> QED  BY <1>1, <1>2

\* An answer to the lock request, beyond AfterLockType.
LEMMA AfterLockMore ==
    ASSUME NEW c \in Client, NEW s \in ClientSet, s.phase = "lock",
           NEW m \in ResponseSet(AnyValue), NEW t, t = AfterLock(c, s, m)
    PROVE  /\ Granted(s, m) => t.n = 0 /\ t.serial = s.serial + 1
           /\ ~ Granted(s, m) => t.pc = "failed" \/ t.tries > 0
<1>1. CASE Granted(s, m)
  <2> DEFINE a == [s EXCEPT !.lock_version = m.version]
             b == [a EXCEPT !.n = 0]
  <2>1. a \in ClientSet /\ a.serial = s.serial
    BY DEF ResponseSet, ClientSet
  <2>2. t = Begin(b, "write")
    BY <1>1 DEF AfterLock
  <2> HIDE DEF a
  <2>3. b \in ClientSet /\ b.n = 0 /\ b.serial = s.serial /\ "write" \in Phase
    BY <2>1, LockSeqAssumption DEF ClientSet, Phase
  <2> HIDE DEF b
  <2> QED  BY <1>1, <2>2, <2>3, BeginType
<1>2. CASE ~ Granted(s, m)
  <2>1. t = [s EXCEPT !.pc = "send", !.tries = @ + 1] \/ t = Throw(s)
    BY <1>2 DEF AfterLock
  <2>2. CASE t = [s EXCEPT !.pc = "send", !.tries = @ + 1]
    <3>1. t.tries = s.tries + 1
      BY <2>2 DEF ClientSet
    <3> QED  BY <1>2, <3>1 DEF ClientSet
  <2> QED  BY <1>2, <2>1, <2>2, ThrowType
<1> QED  BY <1>1, <1>2

\* A client that meets its own lock waits for it.
LEMMA AfterLockWaits ==
    ASSUME NEW c \in Client, NEW s \in ClientSet, NEW m,
           NEW t, t = AfterLock(c, s, m), t.pc = "failed", s.phase = "lock",
           m \in ResponseSet(AnyValue)
    PROVE  ~ Granted(s, m) /\ ~ (m.errc = "no_match" /\ OwnedBy(m.actual, c))
<1>1. CASE ~ Granted(s, m) /\ m.errc = "no_match" /\ OwnedBy(m.actual, c)
  <2>1. t = [s EXCEPT !.pc = "send", !.tries = @ + 1]
    BY <1>1 DEF AfterLock
  <2> QED  BY <2>1 DEF ClientSet
<1>2. CASE Granted(s, m)
  <2>1. t.serial = s.serial + 1
    BY <1>2, AfterLockMore
  <2> QED  BY <2>1, AfterLockType, ClientFields DEF SameRequest
<1> QED  BY <1>1, <1>2

\* A granted lock begins a round of writes on the row as it was left.
LEMMA LockAnsweredRInv ==
    ASSUME IInv, RInv, NEW c \in Client, LockAnswered(c)
    PROVE  RInv'
<1> DEFINE m == Head(inbox[c])
           s == cl[c]
           q == Queue(c)
           t == AfterLock(c, s, m)
<1>1. Answered(c, "lock", t)
  BY DEF LockAnswered
<1>2. /\ inbox[c] # << >> /\ s.phase = "lock"
      /\ s \in ClientSet /\ Active(s)
      /\ m \in ResponseSet(AnyValue) /\ m.op # "redirect" /\ m.serial = s.serial
      /\ AnswerOK(s, db, m)
      /\ Become(c, t) /\ UNCHANGED <<requests, db>>
      /\ inbox' = [inbox EXCEPT ![c] = Tail(@)]
  BY <1>1, AnsweredFacts
<1>3. /\ q \in Seq(RequestSet(Key, AnyValue)) /\ \A x \in Elems(q) : RequestOK(s, db, x)
      /\ inbox[c] \in Seq(Message) /\ \A x \in Elems(inbox[c]) : AnswerOK(s, db, x)
      /\ ClientOK(c, s, db)
  BY OneClient, LockSeqAssumption DEF Queue
<1>4. ConversationOK(s, db, q, inbox[c])
  BY DEF RInv
<1>5. m \in Elems(inbox[c])
  BY <1>2, <1>3, TailElems
<1>6. \A x \in Elems(q) : x = CurrentRequest(s)
  <2>1. ReplyOK(s, db, q, m)
    BY <1>4, <1>5 DEF ConversationOK
  <2> QED  BY <1>2, <1>3, <1>4, <2>1, QueueIsCurrent
<1>7. /\ t \in ClientSet
      /\ \/ /\ Granted(s, m)
            /\ t.pc = "send" /\ t.phase = "write"
            /\ t.serial = s.serial + 1 /\ t.gid = s.gid /\ t.value = s.value
            /\ t.lock_version = m.version
         \/ SameRequest(s, t) /\ t.pc \in {"send", "failed"}
      /\ Granted(s, m) => t.n = 0 /\ t.serial = s.serial + 1
      /\ ~ Granted(s, m) => t.pc = "failed" \/ t.tries > 0
  BY <1>2, AfterLockType, AfterLockMore
<1> HIDE DEF t, m, s, q
<1>8. s.serial \in Nat /\ s.gid \in Group
  BY <1>2, ClientFields
<1>9. CASE ~ Granted(s, m)
  <2>1. SameRequest(s, t) /\ t.pc \in {"send", "failed"} /\ (Active(t) => t.tries > 0)
    BY <1>7, <1>9 DEF Active
  <2>2. /\ ConversationOK(t, db, q, inbox[c])
        /\ \A g : Owns(s, g, db) => Owns(t, g, db)
    BY <1>2, <1>4, <1>7, <2>1, AgainKeeps
  <2> QED  BY <1>2, <2>2, ClientTakesR DEF q, s
<1>10. CASE Granted(s, m)
  <2>1. db.vv[LockKey(s.gid)] = [value |-> s.value, version |-> m.version]
    BY <1>2, <1>10 DEF AnswerOK, Granted
  <2>2. /\ t.pc = "send" /\ t.phase = "write" /\ t.serial = s.serial + 1
        /\ t.gid = s.gid /\ t.value = s.value /\ t.lock_version = m.version /\ t.n = 0
    BY <1>7, <1>8, <1>10 DEF SameRequest
  <2>3. GL!RunFrom(Row(db, s.gid), 0)
    BY <1>2, <1>4, <2>1 DEF ConversationOK, RowOK, Active
  <2>4. RowOK(t, db)
    BY <2>2, <2>3 DEF RowOK, WrittenTo
  <2>5. Fresh(t, db)
    BY <2>2 DEF Fresh
  <2>6. CurrentRequest(s).op = "cas" /\ CurrentRequest(s).key = LockKey(s.gid)
    BY <1>2, <1>3, RequestType DEF ClientOK
  <2>7. \A x \in Elems(q) : Past(t, db, x)
    BY <1>6, <2>2, <2>6 DEF Past
  <2>8. ConversationOK(t, db, q, inbox[c])
    BY <1>2, <1>3, <1>4, <1>7, <2>2, <2>4, <2>5, <2>7, NewRequest
  <2>9. \A g \in Group : Owns(s, g, db) => Owns(t, g, db)
    BY <2>1, <2>2 DEF Owns
  <2> QED  BY <1>2, <2>8, <2>9, ClientTakesR DEF q, s
<1> QED  BY <1>9, <1>10

\* The next iteration, beyond AdvanceType.
LEMMA AdvanceMore ==
    ASSUME NEW s \in ClientSet, s.phase \in {"write", "clear"}, InLoop(s),
           NEW t, t = Advance(s)
    PROVE  /\ t.n = s.n + 1 /\ t.nvalues = s.nvalues
           /\ t.phase = "write" => t.n < t.nvalues
           /\ t.phase = "clear" => t.nvalues <= t.n
           /\ t.phase = "unlock" => t.nvalues <= t.n /\ t.n = MaxLen
<1> DEFINE u == [s EXCEPT !.n = @ + 1]
<1>1. s.n \in Cell /\ s.nvalues \in 1 .. MaxLen
  BY BusyCell
<1>2. u \in ClientSet /\ u.n = s.n + 1 /\ u.nvalues = s.nvalues
  BY <1>1, LockSeqAssumption DEF ClientSet, Cell
<1>3. t = Begin(u, PhaseAt(u))
  BY DEF Advance
<1> HIDE DEF u
<1>4. /\ PhaseAt(u) \in Phase
      /\ PhaseAt(u) = "write" => u.n < u.nvalues
      /\ PhaseAt(u) = "clear" => ~ (u.n < u.nvalues)
      /\ PhaseAt(u) = "unlock" => ~ (u.n < u.nvalues) /\ ~ (u.n < MaxLen)
  BY DEF PhaseAt, Phase
<1>5. t.n = u.n /\ t.nvalues = u.nvalues /\ t.phase = PhaseAt(u)
  BY <1>2, <1>3, <1>4, BeginType
<1> QED  BY <1>1, <1>2, <1>4, <1>5, LockSeqAssumption DEF Cell

\* A client that has done its cell goes on to the next, or to the unlock.
LEMMA AdvanceRow ==
    ASSUME NEW c \in Client, NEW s \in ClientSet, s.phase \in {"write", "clear"}, NEW d,
           ClientOK(c, s, d), RowOK(s, d),
           Row(d, s.gid)[s.n] = IF s.phase = "write" THEN s.value ELSE EmptyValue,
           NEW t, t = Advance(s)
    PROVE  RowOK(t, d) /\ Fresh(t, d) /\ Past(t, d, CurrentRequest(s))
<1> DEFINE r == Row(d, s.gid)
<1>1. InLoop(s) /\ HoldsLock(s, d)
  BY DEF ClientOK
<1>2. /\ s.n \in Cell /\ s.n \in Nat /\ s.nvalues \in 1 .. MaxLen
      /\ s.phase = "write" => s.n < s.nvalues
      /\ s.phase = "clear" => s.nvalues <= s.n
  BY <1>1, BusyCell DEF InLoop, RowOK
<1>3. /\ t.pc = "send" /\ t.gid = s.gid /\ t.value = s.value
      /\ t.lock_version = s.lock_version /\ t.n = s.n + 1 /\ t.nvalues = s.nvalues
      /\ t.phase \in {"write", "clear", "unlock"}
      /\ t.phase = "clear" => t.nvalues <= t.n
      /\ t.phase = "unlock" => t.n = MaxLen
  BY <1>1, AdvanceType, AdvanceMore
<1> DEFINE k == CurrentRequest(s)
<1>4. /\ k.key = ValueKey(s.gid, s.n)
      /\ s.phase = "write" => k.op = "put" /\ k.value = s.value
      /\ s.phase = "clear" => k.op = "remove"
  BY DEF CurrentRequest, PutRequest, RemoveRequest
<1>5. WrittenTo(r, s, s.n) /\ (GL!RunFrom(r, s.n) \/ GL!RunFrom(r, s.n + 1))
  BY DEF RowOK
<1>6. r[s.n] = IF s.n < s.nvalues THEN s.value ELSE EmptyValue
  BY <1>2
<1> HIDE DEF r, k
<1>7. WrittenTo(r, t, t.n)
  BY <1>2, <1>3, <1>5, <1>6 DEF WrittenTo
<1>8. GL!RunFrom(r, t.n)
  BY <1>2, <1>3, <1>5, RunStep
<1>9. HoldsLock(t, d)
  BY <1>1, <1>3 DEF HoldsLock
<1>10. RowOK(t, d)
  BY <1>3, <1>7, <1>8 DEF RowOK, r
<1>11. Fresh(t, d)
  BY <1>3, <1>8, <1>9 DEF Fresh, r
<1>12. Repeats(t, k)
  <2>1. s.n < t.n
    BY <1>2, <1>3
  <2> QED  BY <1>2, <1>3, <1>4, <2>1 DEF Repeats
<1>13. Past(t, d, k)
  BY <1>3, <1>9, <1>12 DEF Past
<1> QED  BY <1>10, <1>11, <1>13 DEF k

\* A client that finds nothing on its first try has passed the old run.
LEMMA ClearEndsRow ==
    ASSUME NEW c \in Client, NEW s \in ClientSet, s.phase = "clear", NEW d,
           ClientOK(c, s, d), RowOK(s, d),
           Row(d, s.gid)[s.n] = EmptyValue, GL!RunFrom(Row(d, s.gid), s.n),
           NEW t, t = Begin(s, "unlock")
    PROVE  RowOK(t, d) /\ Fresh(t, d) /\ Past(t, d, CurrentRequest(s))
<1> DEFINE r == Row(d, s.gid)
           k == CurrentRequest(s)
<1>1. InLoop(s) /\ HoldsLock(s, d)
  BY DEF ClientOK
<1>2. s.n \in Cell /\ s.n \in Nat /\ s.nvalues \in 1 .. MaxLen /\ s.nvalues <= s.n
      /\ WrittenTo(r, s, s.n)
  BY <1>1, BusyCell DEF RowOK
<1>3. /\ t.pc = "send" /\ t.phase = "unlock" /\ t.gid = s.gid /\ t.value = s.value
      /\ t.nvalues = s.nvalues /\ t.lock_version = s.lock_version
  <2>1. "unlock" \in Phase
    BY DEF Phase
  <2> QED  BY <2>1, BeginType
<1>4. k.key = ValueKey(s.gid, s.n) /\ k.op = "remove"
  BY DEF CurrentRequest, RemoveRequest
<1>5. \A i \in s.n .. MaxLen - 1 : r[i] = EmptyValue
  BY <1>2, RunOfNothing
<1> HIDE DEF r, k
<1>6. WrittenTo(r, t, MaxLen)
  BY <1>2, <1>3, <1>5, LockSeqAssumption DEF WrittenTo
<1>7. HoldsLock(t, d)
  BY <1>1, <1>3 DEF HoldsLock
<1>8. RowOK(t, d)
  BY <1>3, <1>6 DEF RowOK, r
<1>9. Fresh(t, d)
  BY <1>3, <1>7 DEF Fresh
<1>10. Past(t, d, k)
  BY <1>2, <1>3, <1>4, <1>7 DEF Past, Repeats
<1> QED  BY <1>8, <1>9, <1>10 DEF k

\* Answers to writes and clears are never refusals.
LEMMA ValueAnsweredRInv ==
    ASSUME IInv, RInv, NEW c \in Client, WriteAnswered(c) \/ ClearAnswered(c)
    PROVE  RInv'
<1> DEFINE m == Head(inbox[c])
           s == cl[c]
           q == Queue(c)
<1>0. PICK phase \in {"write", "clear"} : \E t :
          /\ Answered(c, phase, t)
          /\ phase = "write" => t = AfterWrite(s, m)
          /\ phase = "clear" => t = AfterClear(s, m)
  <2>1. CASE WriteAnswered(c)
    <3>1. Answered(c, "write", AfterWrite(s, m)) /\ "write" # "clear"
      BY <2>1 DEF WriteAnswered
    <3> HIDE DEF s, m
    <3> QED  BY <3>1
  <2>2. CASE ClearAnswered(c)
    <3>1. Answered(c, "clear", AfterClear(s, m)) /\ "write" # "clear"
      BY <2>2 DEF ClearAnswered
    <3> HIDE DEF s, m
    <3> QED  BY <3>1
  <2> QED  BY <2>1, <2>2
<1>1. PICK t :
          /\ Answered(c, phase, t)
          /\ phase = "write" => t = AfterWrite(s, m)
          /\ phase = "clear" => t = AfterClear(s, m)
  BY <1>0
<1>2. /\ inbox[c] # << >> /\ s.phase = phase
      /\ s \in ClientSet /\ Active(s)
      /\ m \in ResponseSet(AnyValue) /\ m.op # "redirect" /\ m.serial = s.serial
      /\ Become(c, t) /\ UNCHANGED <<requests, db>>
      /\ inbox' = [inbox EXCEPT ![c] = Tail(@)]
  BY <1>1, AnsweredFacts
<1>3. /\ q \in Seq(RequestSet(Key, AnyValue)) /\ \A x \in Elems(q) : RequestOK(s, db, x)
      /\ inbox[c] \in Seq(Message) /\ \A x \in Elems(inbox[c]) : AnswerOK(s, db, x)
      /\ ClientOK(c, s, db)
  BY OneClient, LockSeqAssumption DEF Queue
<1>4. ConversationOK(s, db, q, inbox[c]) /\ RowOK(s, db)
  BY DEF RInv, ConversationOK
<1>5. m \in Elems(inbox[c])
  BY <1>2, <1>3, TailElems
<1>6. Answers(s, db, m) /\ \A x \in Elems(q) : x = CurrentRequest(s)
  <2>1. ReplyOK(s, db, q, m)
    BY <1>4, <1>5 DEF ConversationOK
  <2> QED  BY <1>2, <1>3, <1>4, <2>1, QueueIsCurrent
<1>7. s.tries \in Nat /\ InLoop(s)
  BY <1>2, <1>3 DEF ClientSet, ClientOK
<1>8. \/ /\ t = Advance(s)
         /\ Row(db, s.gid)[s.n] = IF s.phase = "write" THEN s.value ELSE EmptyValue
      \/ /\ t = Begin(s, "unlock") /\ phase = "clear"
         /\ Row(db, s.gid)[s.n] = EmptyValue /\ GL!RunFrom(Row(db, s.gid), s.n)
  <2>1. CASE phase = "write"
    <3>1. m.errc = "ok" /\ Row(db, s.gid)[s.n] = s.value
      BY <1>2, <1>6, <2>1 DEF Answers
    <3> QED  BY <1>1, <1>2, <2>1, <3>1 DEF AfterWrite
  <2>2. CASE phase = "clear"
    <3>1. /\ m.errc \in {"ok", "not_found"} /\ Row(db, s.gid)[s.n] = EmptyValue
          /\ m.errc = "not_found" /\ s.tries = 0 => GL!RunFrom(Row(db, s.gid), s.n)
      BY <1>2, <1>6, <2>2 DEF Answers
    <3>2. \/ t = Advance(s)
          \/ t = Begin(s, "unlock") /\ m.errc = "not_found" /\ s.tries = 0
      <4>1. t = AfterClear(s, m)
        BY <1>1, <2>2
      <4>2. CASE m.errc = "ok"
        BY <4>1, <4>2 DEF AfterClear
      <4>3. CASE m.errc = "not_found" /\ s.tries = 0
        BY <4>1, <4>3 DEF AfterClear
      <4>4. CASE m.errc = "not_found" /\ s.tries > 0
        BY <4>1, <4>4 DEF AfterClear
      <4> QED  BY <1>7, <3>1, <4>2, <4>3, <4>4
    <3> QED  BY <1>2, <2>2, <3>1, <3>2
  <2> QED  BY <2>1, <2>2
<1> HIDE DEF m, s, q
<1>9. /\ t \in ClientSet /\ t.pc = "send" /\ t.serial = s.serial + 1
      /\ t.gid = s.gid /\ t.value = s.value /\ t.lock_version = s.lock_version
  <2>1. "unlock" \in Phase /\ s.phase \in {"write", "clear"}
    BY <1>2 DEF Phase
  <2> QED  BY <1>2, <1>7, <1>8, <2>1, AdvanceType, BeginType
<1>10. RowOK(t, db) /\ Fresh(t, db) /\ Past(t, db, CurrentRequest(s))
  BY <1>2, <1>3, <1>4, <1>8, AdvanceRow, ClearEndsRow
<1>11. ConversationOK(t, db, q, inbox[c])
  BY <1>2, <1>3, <1>4, <1>6, <1>9, <1>10, NewRequest
<1>12. \A g \in Group : Owns(s, g, db) => Owns(t, g, db)
  BY <1>2, <1>9 DEF Owns
<1> QED  BY <1>2, <1>11, <1>12, ClientTakesR DEF q, s

\* The answer to an unlock ends the round.
LEMMA UnlockAnsweredRInv ==
    ASSUME IInv, RInv, NEW c \in Client, UnlockAnswered(c)
    PROVE  RInv'
<1> DEFINE m == Head(inbox[c])
           s == cl[c]
           q == Queue(c)
           t == AfterUnlock(s, m)
<1>1. Answered(c, "unlock", t)
  BY DEF UnlockAnswered
<1>2. /\ inbox[c] # << >> /\ s.phase = "unlock"
      /\ s \in ClientSet /\ Active(s)
      /\ m \in ResponseSet(AnyValue) /\ m.op # "redirect" /\ m.serial = s.serial
      /\ AnswerOK(s, db, m)
      /\ Become(c, t) /\ UNCHANGED <<requests, db>>
      /\ inbox' = [inbox EXCEPT ![c] = Tail(@)]
  BY <1>1, AnsweredFacts
<1>3. /\ q \in Seq(RequestSet(Key, AnyValue)) /\ \A x \in Elems(q) : RequestOK(s, db, x)
      /\ inbox[c] \in Seq(Message) /\ ClientOK(c, s, db)
  BY OneClient, LockSeqAssumption DEF Queue
<1>4. ConversationOK(s, db, q, inbox[c])
  BY DEF RInv
<1>5. m \in Elems(inbox[c])
  BY <1>2, <1>3, TailElems
<1>6. Answers(s, db, m) /\ \A x \in Elems(q) : x = CurrentRequest(s)
  <2>1. ReplyOK(s, db, q, m)
    BY <1>4, <1>5 DEF ConversationOK
  <2> QED  BY <1>2, <1>3, <1>4, <2>1, QueueIsCurrent
<1>7. s.tries \in Nat /\ s.serial \in Nat /\ s.gid \in Group /\ LockKey(s.gid)[2] = LockIndex
      /\ s.leader \in Replica
  BY <1>2, ClientFields DEF ClientSet
<1>8. t = Idle(s.serial, s.leader)
  <2>1. m.errc = "ok" \/ s.tries > 0
    BY <1>2, <1>6 DEF Answers
  <2> QED  BY <1>7, <2>1 DEF AfterUnlock
<1> HIDE DEF m, s, q, t
<1>9. t.pc = "idle" /\ t.phase = "lock" /\ t.serial = s.serial
  BY <1>8 DEF Idle
<1>10. \A x \in Elems(q) : x.op = "remove" /\ x.key[2] = LockIndex
  BY <1>2, <1>3, <1>6, <1>7, RequestType DEF ClientOK
<1>11. RowOK(t, db) /\ FirstTry(t, db, q)
  BY <1>9 DEF RowOK, FirstTry, Active
<1>12. \A x \in Elems(q) : QueuedOK(t, db, x)
  BY <1>9, <1>10 DEF QueuedOK, Past
<1>13. \A x \in Elems(inbox[c]) : ReplyOK(t, db, q, x)
  BY <1>4, <1>9 DEF ConversationOK, ReplyOK, Active
<1>14. ConversationOK(t, db, q, inbox[c])
  BY <1>4, <1>11, <1>12, <1>13 DEF ConversationOK
<1>15. \A g \in Group : ~ Owns(s, g, db)
  BY <1>2 DEF AnswerOK, Owns
<1> QED  BY <1>2, <1>14, <1>15, ClientTakesR DEF q, s

-----------------------------------------------------------------------------
(* The theorems.                                                           *)

\* Every step of clients and replicas keeps the invariant.
LEMMA NextRInv == IInv /\ RInv /\ [Next]_vars => RInv'
<1> SUFFICES ASSUME IInv, RInv, [Next]_vars PROVE RInv'
  OBVIOUS
<1>1. ASSUME NEW c \in Client, ClientStep(c) PROVE RInv'
  BY <1>1, StartRoundRInv, SendRInv, TimeoutRInv, DropStaleRInv, RedirectedRInv,
     LockAnsweredRInv, ValueAnsweredRInv, UnlockAnsweredRInv DEF ClientStep
<1>2. ASSUME NEW c \in Client, ReplicaStep(c) PROVE RInv'
  BY <1>2, ExecuteRInv, RedirectRInv DEF ReplicaStep
<1>3. CASE UNCHANGED vars
  <2>1. RInv <=> RInv'
    BY <1>3 DEF vars, RInv, GroupOK, LockValue, Queue
  <2> QED  BY <2>1
<1> QED  BY <1>1, <1>2, <1>3 DEF Next, Stopped

\* What the clients believe about the rows is true in every reachable
\* state.
THEOREM RInvHolds == Spec => []RInv
BY IInvHolds, InitRInv, NextRInv, PTL DEF Spec

\* No lock leaks: a lock key in the database belongs to the round its owner
\* is in (lockseq_model.cc:55-95 against 165-195), or to a client that has
\* thrown.  A late copy of a compare-and-swap never takes a lock for a round
\* that is over.
THEOREM LocksHaveOwners == Spec => []LockHasOwner
<1>1. ASSUME IInv, RInv PROVE LockHasOwner
  <2> SUFFICES ASSUME NEW g \in Group, LockValue(g) # EmptyValue
               PROVE  \E c \in Client :
                          /\ OwnedBy(LockValue(g), c)
                          /\ cl[c].gid = g /\ cl[c].value = LockValue(g)
                          /\ cl[c].pc # "idle"
    BY DEF LockHasOwner
  <2>1. PICK c \in Client : Owns(cl[c], g, db)
    BY <1>1 DEF RInv, GroupOK
  <2>2. cl[c].pc # "idle" => OwnedBy(cl[c].value, c)
    BY <1>1 DEF IInv, ClientOK
  <2> QED  BY <2>1, <2>2 DEF Owns, LockValue
<1> QED  BY <1>1, IInvHolds, RInvHolds, PTL

\* What a client believes about the values it has written and cleared is
\* true, through every retry, and when its unlock is executed its values
\* are the whole row (lockseq_model.cc:97-163).
THEOREM RowAtUnlock == Spec => []SequenceAtUnlock
<1>1. ASSUME IInv, RInv PROVE SequenceAtUnlock
  <2> SUFFICES ASSUME NEW c \in Client
               PROVE  LET s == cl[c] IN
                      /\ s.phase \in {"write", "clear"} =>
                            \A i \in 0 .. s.n - 1 : ValueAt(s.gid, i) =
                                IF i < s.nvalues THEN s.value ELSE EmptyValue
                      /\ s.phase = "unlock" /\ HoldsLock(s, db)
                         => \A i \in 0 .. MaxLen - 1 : ValueAt(s.gid, i) =
                                IF i < s.nvalues THEN s.value ELSE EmptyValue
    BY DEF SequenceAtUnlock, HoldsLock
  <2> DEFINE s == cl[c]
             r == Row(db, s.gid)
  <2>1. RowOK(s, db)
    BY <1>1 DEF RInv, ConversationOK
  <2>2. \A i \in 0 .. MaxLen - 1 : r[i] = ValueAt(s.gid, i)
    BY DEF Row, Cell, ValueAt
  <2>3. s.n \in 0 .. MaxLen /\ MaxLen \in Nat
    BY <1>1, OneClient, ClientFields, LockSeqAssumption DEF ClientSet
  <2>4. s.phase \in {"write", "clear"} => WrittenTo(r, s, s.n)
    BY <2>1 DEF RowOK
  <2>5. s.phase = "unlock" /\ HoldsLock(s, db) => WrittenTo(r, s, MaxLen)
    BY <2>1 DEF RowOK
  <2> HIDE DEF s, r
  <2>6. s.phase \in {"write", "clear"} =>
            \A i \in 0 .. s.n - 1 : ValueAt(s.gid, i) =
                IF i < s.nvalues THEN s.value ELSE EmptyValue
    BY <2>2, <2>3, <2>4 DEF WrittenTo
  <2>7. s.phase = "unlock" /\ HoldsLock(s, db) =>
            \A i \in 0 .. MaxLen - 1 : ValueAt(s.gid, i) =
                IF i < s.nvalues THEN s.value ELSE EmptyValue
    BY <2>2, <2>5 DEF WrittenTo
  <2> QED  BY <2>6, <2>7 DEF s
<1> QED  BY <1>1, IInvHolds, RInvHolds, PTL

-----------------------------------------------------------------------------
(* LockSeq implements GroupLocks.                                          *)

\* The abstract lock and row of a group.
LEMMA GroupOf ==
    ASSUME NEW g \in Group
    PROVE  lockOf[g] = db.vv[LockKey(g)].value /\ rowOf[g] = Row(db, g)
BY DEF lockOf, rowOf, LockValue, ValueAt, Row, Cell

\* At the start every group is empty.
LEMMA InitImplements == Init => GL!Init
<1> SUFFICES ASSUME Init PROVE GL!Init
  OBVIOUS
<1>1. \A k \in Key : db.vv[k].value = EmptyValue
  BY DEF Init, EmptyDB, NonexistentVV
<1>2. lockOf = [g \in Group |-> EmptyValue]
  BY <1>1, KeyFacts DEF lockOf, LockValue
<1>3. rowOf = [g \in Group |-> [i \in GL!Index |-> EmptyValue]]
  <2>1. \A g \in Group, i \in 0 .. MaxLen - 1 : ValueAt(g, i) = EmptyValue
    BY <1>1, KeyFacts DEF ValueAt, Cell
  <2> QED  BY <2>1 DEF rowOf, GL!Index
<1> QED  BY <1>2, <1>3 DEF GL!Init

\* A change that shows nowhere is a stutter.
LEMMA QuietStutters ==
    ASSUME Quiet(db, db')
    PROVE  UNCHANGED GL!vars
<1>1. \A g \in Group : LockValue(g)' = LockValue(g)
  BY DEF Quiet, SameView, LockValue
<1>2. \A g \in Group, i \in 0 .. MaxLen - 1 : ValueAt(g, i)' = ValueAt(g, i)
  <2> SUFFICES ASSUME NEW g \in Group, NEW i \in Cell
               PROVE  ValueAt(g, i)' = ValueAt(g, i)
    BY DEF Cell
  <2>1. Row(db', g)[i] = Row(db, g)[i]
    BY DEF Quiet, SameView
  <2> QED  BY <2>1 DEF Row, ValueAt
<1>3. lockOf' = lockOf
  BY <1>1 DEF lockOf
<1>4. rowOf' = rowOf
  BY <1>2 DEF rowOf
<1> QED  BY <1>3, <1>4 DEF GL!vars

\* A change that shows in one group changes one lock and one row.
LEMMA OneGroupMoves ==
    ASSUME NEW g \in Group, \A h \in Group \ {g} : SameView(db, db', h)
    PROVE  /\ lockOf' = [lockOf EXCEPT ![g] = db'.vv[LockKey(g)].value]
           /\ rowOf' = [rowOf EXCEPT ![g] = Row(db', g)]
<1>1. \A h \in Group : lockOf'[h] = db'.vv[LockKey(h)].value
  BY DEF lockOf, LockValue
<1>2. \A h \in Group : rowOf'[h] = Row(db', h)
  BY DEF rowOf, ValueAt, Row, Cell
<1>3. \A h \in Group \ {g} : lockOf'[h] = lockOf[h] /\ rowOf'[h] = rowOf[h]
  BY <1>1, <1>2, GroupOf DEF SameView
<1>4. lockOf' = [lockOf EXCEPT ![g] = db'.vv[LockKey(g)].value]
  BY <1>1, <1>3 DEF lockOf
<1>5. rowOf' = [rowOf EXCEPT ![g] = Row(db', g)]
  BY <1>2, <1>3 DEF rowOf
<1> QED  BY <1>4, <1>5

\* A request that shows is a step of GroupLocks, or removes a value that was
\* gone already.
LEMMA ShowsImplements ==
    ASSUME NEW c \in Client, NEW s \in ClientSet, db \in DBSet(Key, AnyValue),
           ClientOK(c, s, db), RowOK(s, db), NEW m, Shows(s, db, m, db')
    PROVE  [GL!Next]_(GL!vars)
<1> DEFINE g == s.gid
           r == Row(db, s.gid)
<1>1. g \in Group
  BY ClientFields
<1>2. s.value \in Value /\ s.value # EmptyValue
  BY ValueFacts DEF Shows
<1>3. /\ lockOf[g] = db.vv[LockKey(g)].value /\ rowOf[g] = r
      /\ lockOf' = [lockOf EXCEPT ![g] = db'.vv[LockKey(g)].value]
      /\ rowOf' = [rowOf EXCEPT ![g] = Row(db', g)]
  <2>1. \A h \in Group \ {g} : SameView(db, db', h)
    BY DEF Shows
  <2> HIDE DEF g
  <2> QED  BY <1>1, <2>1, GroupOf, OneGroupMoves DEF g
<1>4. r \in [Cell -> AnyValue]
  BY <1>1, RowType
<1>5. lockOf \in [Group -> AnyValue] /\ rowOf \in [Group -> [Cell -> AnyValue]]
  <2>1. \A h \in Group : LockValue(h) \in AnyValue
    BY KeyFacts, DBFields DEF LockValue
  <2>2. \A h \in Group, i \in Cell : ValueAt(h, i) \in AnyValue
    BY KeyFacts, DBFields DEF ValueAt
  <2> QED  BY <2>1, <2>2 DEF lockOf, rowOf, Cell
<1>6. CASE Takes(s, db, db')
  <2>1. /\ lockOf[g] = EmptyValue
        /\ lockOf' = [lockOf EXCEPT ![g] = s.value]
        /\ rowOf' = [rowOf EXCEPT ![g] = r]
    BY <1>3, <1>6 DEF Takes
  <2>2. rowOf' = rowOf
    BY <1>3, <1>5, <2>1
  <2>3. GL!Acquire(g)
    BY <1>2, <2>1, <2>2 DEF GL!Acquire
  <2> QED  BY <1>1, <2>3 DEF GL!Next
<1>7. ASSUME HoldsLock(s, db)
      PROVE  lockOf[g] = s.value
  BY <1>3, <1>7 DEF HoldsLock
<1>8. CASE Frees(s, db, db')
  <2>1. /\ lockOf' = [lockOf EXCEPT ![g] = EmptyValue]
        /\ rowOf' = [rowOf EXCEPT ![g] = r]
    BY <1>3, <1>8 DEF Frees, NonexistentVV
  <2>2. rowOf' = rowOf
    BY <1>3, <1>5, <2>1
  <2>3. HoldsLock(s, db) /\ WrittenTo(r, s, MaxLen)
    BY <1>8 DEF Frees, RowOK
  <2>4. /\ s.nvalues \in 1 .. MaxLen
        /\ GL!Filled(r, 0, s.nvalues, s.value)
        /\ GL!Filled(r, s.nvalues, MaxLen, EmptyValue)
    <3> HIDE DEF r
    <3> QED  BY <1>2, <2>3, RunWhenWritten
  <2>5. GL!Release(g)
    <3> HIDE DEF r
    <3>1. lockOf[g] = s.value
      BY <1>7, <2>3
    <3> QED  BY <1>2, <1>3, <2>1, <2>2, <2>4, <3>1 DEF GL!Release
  <2> QED  BY <1>1, <2>5 DEF GL!Next
<1>9. ASSUME s.phase \in {"write", "clear"}
      PROVE  /\ s.n \in GL!Index /\ s.n \in Nat /\ s.nvalues \in 1 .. MaxLen
             /\ lockOf[g] = s.value /\ WrittenTo(r, s, s.n)
  <2>1. s.n \in Cell /\ s.n \in Nat /\ s.nvalues \in 1 .. MaxLen
    BY <1>9, BusyCell DEF ClientOK
  <2>2. HoldsLock(s, db) /\ WrittenTo(r, s, s.n)
    BY <1>9 DEF ClientOK, RowOK
  <2> QED  BY <1>7, <2>1, <2>2 DEF Cell, GL!Index
<1>10. ASSUME NEW v, Row(db', g) = Put(r, s.n, v),
              db'.vv[LockKey(g)] = db.vv[LockKey(g)]
       PROVE  /\ rowOf' = [rowOf EXCEPT ![g][s.n] = v]
              /\ lockOf' = lockOf
  <2> HIDE DEF g, r
  <2>1. rowOf' = [rowOf EXCEPT ![g][s.n] = v]
    BY <1>1, <1>3, <1>5, <1>10 DEF Put
  <2>2. lockOf' = lockOf
    BY <1>1, <1>3, <1>5, <1>10
  <2> QED  BY <2>1, <2>2
<1>11. CASE Sets(s, db, db')
  <2>1. s.phase = "write" /\ s.n < s.nvalues
    BY <1>11 DEF Sets, ClientOK, InLoop
  <2>2. rowOf' = [rowOf EXCEPT ![g][s.n] = s.value] /\ lockOf' = lockOf
    BY <1>10, <1>11 DEF Sets
  <2> HIDE DEF g, r
  <2>3. GL!Filled(r, 0, s.n, s.value)
    BY <1>9, <2>1 DEF WrittenTo, GL!Filled
  <2>4. GL!Write(g, s.n)
    BY <1>2, <1>3, <1>9, <2>1, <2>2, <2>3 DEF GL!Write
  <2> QED  BY <1>1, <1>9, <2>1, <2>4 DEF GL!Next
<1>12. CASE Clears(s, db, db')
  <2>1. s.phase = "clear"
    BY <1>12 DEF Clears
  <2>2. rowOf' = [rowOf EXCEPT ![g][s.n] = EmptyValue] /\ lockOf' = lockOf
    BY <1>10, <1>12 DEF Clears
  <2>3. s.nvalues <= s.n /\ (GL!RunFrom(r, s.n) \/ r[s.n] = EmptyValue)
    BY <2>1 DEF RowOK
  <2> HIDE DEF g, r
  <2>4. CASE GL!RunFrom(r, s.n)
    <3>1. GL!Filled(r, 0, s.nvalues, s.value) /\ GL!Filled(r, s.nvalues, s.n, EmptyValue)
      BY <1>9, <2>1, <2>3 DEF WrittenTo, GL!Filled
    <3>2. s.nvalues \in 1 .. s.n
      BY <1>9, <2>1, <2>3
    <3>3. GL!Clear(g, s.n)
      BY <1>2, <1>3, <1>9, <2>1, <2>2, <2>4, <3>1, <3>2 DEF GL!Clear
    <3> QED  BY <1>1, <1>9, <2>1, <3>3 DEF GL!Next
  <2>5. CASE r[s.n] = EmptyValue
    <3>1. s.n \in Cell
      BY <1>9, <2>1 DEF GL!Index, Cell
    <3>2. Put(r, s.n, EmptyValue) = r
      BY <1>4, <2>5, <3>1 DEF Put
    <3>3. Row(db', g) = r
      BY <1>12, <3>2 DEF Clears, g, r
    <3>4. rowOf' = rowOf
      BY <1>1, <1>3, <1>5, <3>3
    <3> QED  BY <2>2, <3>4 DEF GL!vars
  <2> QED  BY <2>3, <2>4, <2>5
<1> QED  BY <1>6, <1>8, <1>11, <1>12 DEF Shows

\* Only the primary changes the database.
LEMMA StepImplements == IInv /\ RInv /\ [Next]_vars => [GL!Next]_(GL!vars)
<1> SUFFICES ASSUME IInv, RInv, [Next]_vars PROVE [GL!Next]_(GL!vars)
  OBVIOUS
<1>1. CASE db' = db
  BY <1>1, SameQuiet, QuietStutters
<1>2. CASE \E c \in Client : Execute(c)
  <2>1. PICK c \in Client : Execute(c)
    BY <1>2
  <2> DEFINE s == cl[c]
             m == Head(Queue(c))
  <2>2. Queue(c) # << >> /\ db' = Process(db, m).db
    BY <2>1 DEF Execute, Queue
  <2>3. /\ s \in ClientSet /\ db \in DBSet(Key, AnyValue) /\ VersionsBelow(db)
        /\ ClientOK(c, s, db) /\ Queue(c) \in Seq(RequestSet(Key, AnyValue))
        /\ \A x \in Elems(Queue(c)) : RequestOK(s, db, x)
    BY OneClient, LockSeqAssumption DEF Queue
  <2>4. m \in RequestSet(Key, AnyValue) /\ m \in Elems(Queue(c))
    BY <2>2, <2>3, TailElems
  <2>5. RowOK(s, db) /\ QueuedOK(s, db, m) /\ RequestOK(s, db, m)
    BY <2>3, <2>4 DEF RInv, ConversationOK
  <2> HIDE DEF s, m
  <2>6. Quiet(db, db') \/ Shows(s, db, m, db')
    BY <2>2, <2>3, <2>4, <2>5, Effect
  <2> QED  BY <2>3, <2>5, <2>6, QuietStutters, ShowsImplements
<1> QED
  BY <1>1, <1>2 DEF Next, vars, Stopped, ClientStep, ReplicaStep, StartRound, Send,
     Timeout, DropStale, Redirected, LockAnswered, WriteAnswered, ClearAnswered,
     UnlockAnswered, Answered, Redirect

\* The database, read group by group, moves only as GroupLocks allows: a
\* lock is taken when it is free, its holder writes from the front and
\* removes what is left of an older run, and lets go when the row is its
\* run alone (lockseq_model.cc:43-199 against pancydb.cc:5-138).
THEOREM LockSeqImplementsGroupLocks == Spec => ImplementsGroupLocks
BY IInvHolds, RInvHolds, InitImplements, StepImplements, PTL
   DEF Spec, ImplementsGroupLocks, GL!Spec

GLP == INSTANCE GroupLocksProofs WITH
           lock <- lockOf, row <- rowOf, d <- Contents,
           NoValue <- EmptyValue, LockLike <- Value, Other <- {}, MaxKeys <- 0

LEMMA GLPAssumptions == GLP!GroupLocksAssumption /\ GLP!ValueAssumption
<1>1. AnyValue = Value \union {EmptyValue}
  BY DEF AnyValue
<1> QED
  BY <1>1, LockSeqAssumption, CheckedAssumption
     DEF GLP!GroupLocksAssumption, GLP!ValueAssumption, GLP!IsFiniteSet, IsFiniteSet

\* GLP and GL are the same specification.
LEMMA SameGroupLocks ==
    /\ GL!Init => GLP!Init
    /\ [GL!Next]_(GL!vars) => [GLP!Next]_(GLP!vars)
    /\ GLP!WellFormed => GL!WellFormed
<1>1. GL!Init => GLP!Init
  BY DEF GL!Init, GLP!Init, GL!Index, GLP!Index
<1>2. [GL!Next]_(GL!vars) => [GLP!Next]_(GLP!vars)
  BY DEF GL!Next, GLP!Next, GL!vars, GLP!vars, GL!Index, GLP!Index,
     GL!Acquire, GLP!Acquire, GL!Release, GLP!Release, GL!Write, GLP!Write,
     GL!Clear, GLP!Clear, GL!RunFrom, GLP!RunFrom, GL!Filled, GLP!Filled
<1>3. GLP!WellFormed => GL!WellFormed
  BY DEF GL!WellFormed, GLP!WellFormed, GL!GroupWellFormed, GLP!GroupWellFormed,
     GL!RunFrom, GLP!RunFrom, GL!Filled, GLP!Filled
<1> QED  BY <1>1, <1>2, <1>3

\* Every database the primary ever has is one that lockseq_model::check
\* accepts (the grammar of lockseq_model.cc:226-242): the steps of GroupLocks
\* keep it, and the database moves by no others.
THEOREM DatabaseAlwaysWellFormed == Spec => []DatabaseWellFormed
<1>1. Init => GLP!IInv
  BY InitImplements, SameGroupLocks, GLPAssumptions, GLP!InitIInv
<1>2. IInv /\ RInv /\ [Next]_vars /\ GLP!IInv => GLP!IInv'
  BY StepImplements, SameGroupLocks, GLPAssumptions, GLP!NextIInv
<1>3. GLP!IInv => DatabaseWellFormed
  BY SameGroupLocks DEF GLP!IInv, DatabaseWellFormed
<1> QED  BY <1>1, <1>2, <1>3, IInvHolds, RInvHolds, PTL DEF Spec

-----------------------------------------------------------------------------
(* What the messages carry.                                                *)

\* A key that is there has a value.
Written(d) == \A k \in Key : Exists(d, k) => d.vv[k].value # EmptyValue

\* A request that stores a value has one; a compare-and-swap expects a free
\* lock, at any version.
HasValue(m) ==
    /\ m.op \in {"cas", "put"} => m.value # EmptyValue
    /\ m.op = "cas" => m.expected = EmptyValue /\ m.version_match = AnyVersion

\* A compare-and-swap is granted, or refused with the value it met.
SwapAnswer(m) ==
    m.op = "cas" => /\ m.errc \in {"ok", "no_match"}
                    /\ m.errc = "no_match" => m.actual \in Value

CInv ==
    /\ Written(db)
    /\ \A c \in Client, r \in Replica : \A m \in Elems(requests[c][r]) : HasValue(m)

LEMMA InitCInv == Init => CInv
<1> SUFFICES ASSUME Init PROVE CInv
  OBVIOUS
<1>1. \A c \in Client, r \in Replica : Elems(requests[c][r]) = {}
  BY DEF Init, Elems
<1>2. Written(db)
  BY DEF Init, Written, Exists, EmptyDB, NonexistentVV
<1> QED  BY <1>1, <1>2 DEF CInv

\* No request but a get leaves a key without a value behind.
LEMMA ProcessKeepsWritten ==
    ASSUME NEW d \in DBSet(Key, AnyValue), NEW m \in RequestSet(Key, AnyValue),
           m.op \in {"cas", "put", "remove"}, HasValue(m), Written(d)
    PROVE  Written(Process(d, m).db)
<1>1. m.key \in Key /\ m.value \in AnyValue /\ EmptyValue \in AnyValue
  BY RequestFields DEF AnyValue
<1>2. CASE Process(d, m).db = d
  BY <1>2
<1>3. CASE m.op \in {"cas", "put"} /\ Process(d, m).db = Store(d, m.key, m.value)
  <2>1. \A k \in Key : Store(d, m.key, m.value).vv[k] =
            IF k = m.key THEN [value |-> m.value, version |-> d.next] ELSE d.vv[k]
    BY <1>1, StoreType
  <2> QED  BY <1>3, <2>1 DEF Written, Exists, HasValue
<1>4. CASE Process(d, m).db = Erase(d, m.key)
  <2>1. \A k \in Key : Erase(d, m.key).vv[k] = IF k = m.key THEN NonexistentVV ELSE d.vv[k]
    BY <1>1, EraseHere
  <2> QED  BY <1>4, <2>1 DEF Written, Exists, NonexistentVV
<1> QED
  BY <1>2, <1>3, <1>4 DEF Process, ProcessCas, ProcessPut, ProcessRemove

\* A client in a round has a value, and stores no other.
LEMMA CurrentHasValue ==
    ASSUME NEW c \in Client, NEW s \in ClientSet, s.pc = "send", ClientOK(c, s, db)
    PROVE  HasValue(CurrentRequest(s))
<1>1. s.phase \in {"lock", "write", "clear", "unlock"} /\ s.value # EmptyValue
  BY LockSeqAssumption DEF ClientOK, OwnedBy, Value, ClientSet, Phase
<1> QED
  BY <1>1 DEF CurrentRequest, HasValue, CasRequest, PutRequest, RemoveRequest

LEMMA SendCInv ==
    ASSUME IInv, CInv, NEW c \in Client, Send(c)
    PROVE  CInv'
<1> DEFINE s == cl[c]
           q == requests[c][s.leader]
           n == CurrentRequest(s)
           p == Append(q, n)
<1>1. /\ s \in ClientSet /\ s.pc = "send" /\ ClientOK(c, s, db) /\ s.leader \in Replica
      /\ q \in Seq(RequestSet(Key, AnyValue)) /\ db \in DBSet(Key, AnyValue)
  BY OneClient DEF Send, ClientSet
<1>2. n \in RequestSet(Key, AnyValue) /\ HasValue(n)
  BY <1>1, RequestType, CurrentHasValue DEF ClientOK
<1>3. db' = db /\ (requests' = requests \/ requests' = [requests EXCEPT ![c][s.leader] = p])
  BY DEF Send
<1>4. requests \in [Client -> [Replica -> Seq(RequestSet(Key, AnyValue))]]
  BY Types DEF IInv
<1> HIDE DEF n, s
<1>5. p \in Seq(RequestSet(Key, AnyValue)) /\ \A m \in Elems(p) : m \in Elems(q) \/ m = n
  BY <1>1, <1>2, AppendElems
<1>6. CASE requests' = requests
  BY <1>3, <1>6 DEF CInv
<1>7. CASE requests' = [requests EXCEPT ![c][s.leader] = p]
  <2> HIDE DEF p
  <2>1. /\ \A x \in Client \ {c} : requests'[x] = requests[x]
        /\ \A r \in Replica : requests'[c][r] = IF r = s.leader THEN p ELSE requests[c][r]
    BY <1>1, <1>4, <1>5, <1>7, OneQueue
  <2>2. ASSUME NEW x \in Client, NEW r \in Replica, NEW m \in Elems(requests'[x][r])
        PROVE  HasValue(m)
    <3>1. CASE requests'[x][r] = requests[x][r]
      BY <2>2, <3>1 DEF CInv
    <3>2. CASE requests'[x][r] = p
      BY <1>1, <1>2, <1>5, <2>2, <3>2 DEF CInv
    <3> QED  BY <2>1, <3>1, <3>2
  <2> QED  BY <1>3, <2>2 DEF CInv
<1> QED  BY <1>3, <1>6, <1>7

\* A replica's step leaves the rest of the queues, and Execute the database
\* that Process makes.
LEMMA TakenCInv ==
    ASSUME IInv, CInv, NEW c \in Client, NEW r \in Replica, requests[c][r] # << >>,
           NEW q, q = Tail(requests[c][r]), requests' = [requests EXCEPT ![c][r] = q],
           Written(db')
    PROVE  CInv'
<1>1. requests \in [Client -> [Replica -> Seq(RequestSet(Key, AnyValue))]]
  BY Types DEF IInv
<1>2. q \in Seq(RequestSet(Key, AnyValue)) /\ \A m \in Elems(q) : m \in Elems(requests[c][r])
  BY <1>1, TailElems
<1>3. /\ \A x \in Client \ {c} : requests'[x] = requests[x]
      /\ \A y \in Replica : requests'[c][y] = IF y = r THEN q ELSE requests[c][y]
  BY <1>1, <1>2, OneQueue
<1>4. ASSUME NEW x \in Client, NEW y \in Replica, NEW m \in Elems(requests'[x][y])
      PROVE  HasValue(m)
  <2>1. m \in Elems(requests[x][y])
    BY <1>2, <1>3, <1>4
  <2> QED  BY <2>1 DEF CInv
<1> QED  BY <1>4 DEF CInv

LEMMA ExecuteCInv ==
    ASSUME IInv, CInv, NEW c \in Client, Execute(c)
    PROVE  CInv'
<1> DEFINE m == Head(Queue(c))
           q == Tail(Queue(c))
<1>1. Queue(c) # << >> /\ db' = Process(db, m).db
      /\ requests' = [requests EXCEPT ![c][Leader] = q]
  BY DEF Execute, Queue
<1>2. /\ db \in DBSet(Key, AnyValue) /\ Queue(c) \in Seq(RequestSet(Key, AnyValue))
      /\ \A x \in Elems(Queue(c)) : RequestOK(cl[c], db, x)
  BY OneClient, LockSeqAssumption DEF Queue
<1>3. m \in RequestSet(Key, AnyValue) /\ m \in Elems(Queue(c))
  BY <1>1, <1>2, TailElems
<1>4. m.op \in {"cas", "put", "remove"} /\ HasValue(m) /\ Written(db)
  BY <1>2, <1>3, LockSeqAssumption DEF CInv, Queue, RequestOK
<1> HIDE DEF m
<1>5. Written(db')
  BY <1>1, <1>2, <1>3, <1>4, ProcessKeepsWritten
<1>6. requests[c][Leader] # << >> /\ q = Tail(requests[c][Leader]) /\ Leader \in Replica
  BY <1>1, LockSeqAssumption DEF Queue
<1> HIDE DEF q
<1> QED  BY <1>1, <1>5, <1>6, TakenCInv

LEMMA NextCInv == IInv /\ CInv /\ [Next]_vars => CInv'
<1> SUFFICES ASSUME IInv, CInv, [Next]_vars PROVE CInv'
  OBVIOUS
<1>1. CASE UNCHANGED <<requests, db>>
  BY <1>1 DEF CInv
<1>2. CASE \E c \in Client : Send(c)
  BY <1>2, SendCInv
<1>3. CASE \E c \in Client : Execute(c)
  BY <1>3, ExecuteCInv
<1>4. CASE \E c \in Client, r \in Replica : Redirect(c, r)
  <2>1. PICK c \in Client, r \in Replica : Redirect(c, r)
    BY <1>4
  <2>2. /\ requests[c][r] # << >> /\ db' = db
        /\ requests' = [requests EXCEPT ![c][r] = Tail(@)]
    BY <2>1 DEF Redirect
  <2> DEFINE q == Tail(requests[c][r])
  <2>3. requests' = [requests EXCEPT ![c][r] = q] /\ Written(db')
    BY <2>2 DEF CInv
  <2>4. q = Tail(requests[c][r])
    OBVIOUS
  <2> HIDE DEF q
  <2> QED  BY <2>2, <2>3, <2>4, TakenCInv
<1> QED
  BY <1>1, <1>2, <1>3, <1>4
     DEF Next, vars, Stopped, ClientStep, ReplicaStep, StartRound, Timeout, DropStale,
         Redirected, LockAnswered, WriteAnswered, ClearAnswered, UnlockAnswered, Answered

-----------------------------------------------------------------------------
(* What throws a client out.                                               *)

SInv == \A c \in Client : \A m \in Elems(inbox[c]) : SwapAnswer(m)

LEMMA InitSInv == Init => SInv
BY DEF Init, SInv, Elems

\* The primary answers a swap with the value that is in the way.
LEMMA ProcessAnswersSwap ==
    ASSUME NEW d \in DBSet(Key, AnyValue), NEW m \in RequestSet(Key, AnyValue),
           m.op \in {"cas", "put", "remove"}, HasValue(m)
    PROVE  SwapAnswer(Process(d, m).resp)
<1> DEFINE old == d.vv[m.key]
           r == Process(d, m).resp
<1>1. old.value \in AnyValue
  BY RequestFields, DBFields
<1>2. r.op = m.op
  BY ResponseEchoes
<1>3. CASE m.op = "cas"
  <2>1. Process(d, m) = ProcessCas(d, m)
    BY <1>3 DEF Process
  <2>2. m.expected = EmptyValue /\ VersionAdmits(m, old)
    BY <1>3 DEF HasValue, VersionAdmits, AnyVersion
  <2>3. CASE old.value = EmptyValue
    <3>1. r = ModOk(m, old.version, d.next)
      BY <2>1, <2>2, <2>3 DEF ProcessCas
    <3> QED  BY <3>1 DEF ModOk, Response, SwapAnswer
  <2>4. CASE old.value # EmptyValue
    <3>1. r = ModNoMatch(m, old) /\ old.value \in Value
      BY <1>1, <2>1, <2>2, <2>4 DEF ProcessCas, AnyValue
    <3> QED  BY <3>1 DEF ModNoMatch, Response, SwapAnswer
  <2> QED  BY <2>3, <2>4
<1> QED  BY <1>2, <1>3 DEF SwapAnswer

\* What a step puts into an inbox is an answer to a swap like any other.
LEMMA NextSInv == IInv /\ CInv /\ SInv /\ [Next]_vars => SInv'
<1> SUFFICES ASSUME IInv, CInv, SInv, [Next]_vars PROVE SInv'
  OBVIOUS
<1>1. CASE UNCHANGED inbox
  BY <1>1 DEF SInv
<1>2. ASSUME NEW c \in Client, inbox[c] # << >>, inbox' = [inbox EXCEPT ![c] = Tail(@)]
      PROVE  SInv'
  <2>1. inbox \in [Client -> Seq(Message)]
    BY Types DEF IInv
  <2>2. \A m \in Elems(Tail(inbox[c])) : m \in Elems(inbox[c])
    BY <1>2, <2>1, TailElems
  <2>3. \A x \in Client : inbox'[x] = IF x = c THEN Tail(inbox[c]) ELSE inbox[x]
    BY <1>2, <2>1
  <2> QED  BY <2>2, <2>3 DEF SInv
<1>3. ASSUME NEW c \in Client, NEW r \in Replica, requests[c][r] # << >>,
             requests' = [requests EXCEPT ![c][r] = Tail(@)],
             NEW a \in Message, Reply(c, a), SwapAnswer(a)
      PROVE  SInv'
  <2> DEFINE q == Tail(requests[c][r])
  <2>1. q = Tail(requests[c][r]) /\ requests' = [requests EXCEPT ![c][r] = q]
    BY <1>3
  <2> HIDE DEF q
  <2>2. \A x \in Client : \A m \in Elems(inbox'[x]) : m \in Elems(inbox[x]) \/ m = a
    BY <1>3, <2>1, ReplicaQueues
  <2> QED  BY <1>3, <2>2 DEF SInv
<1>4. ASSUME NEW c \in Client, Execute(c) PROVE SInv'
  <2> DEFINE m == Head(requests[c][Leader])
             a == Process(db, m).resp
  <2>1. /\ requests[c][Leader] # << >> /\ Leader \in Replica /\ Reply(c, a)
        /\ requests' = [requests EXCEPT ![c][Leader] = Tail(@)]
    BY <1>4, LockSeqAssumption DEF Execute
  <2>2. db \in DBSet(Key, AnyValue) /\ m \in RequestSet(Key, AnyValue)
        /\ m \in Elems(requests[c][Leader])
    BY <2>1, OneClient, TailElems
  <2>3. HasValue(m) /\ m.op \in {"cas", "put", "remove"}
    BY <2>1, <2>2, OneClient DEF CInv, RequestOK
  <2>4. EmptyValue \in AnyValue
    BY DEF AnyValue
  <2> HIDE DEF m
  <2>5. SwapAnswer(a) /\ a \in ResponseSet(AnyValue)
    BY <2>2, <2>3, <2>4, ProcessAnswersSwap, ProcessType
  <2> HIDE DEF a
  <2> QED  BY <1>3, <2>1, <2>5 DEF Message
<1>5. ASSUME NEW c \in Client, NEW r \in Replica, Redirect(c, r) PROVE SInv'
  <2> DEFINE n == Head(requests[c][r])
             a == Redirection(n, Leader)
  <2>1. /\ requests[c][r] # << >> /\ Reply(c, a)
        /\ requests' = [requests EXCEPT ![c][r] = Tail(@)]
    BY <1>5 DEF Redirect
  <2>2. n \in RequestSet(Key, AnyValue)
    BY <2>1, OneClient, TailElems
  <2> HIDE DEF n
  <2>3. a \in Message /\ SwapAnswer(a)
    BY <2>2, RequestFields, LockSeqAssumption
       DEF Redirection, Message, RedirectionSet, SwapAnswer
  <2> HIDE DEF a
  <2> QED  BY <1>3, <2>1, <2>3
<1> QED
  BY <1>1, <1>2, <1>4, <1>5
     DEF Next, vars, Stopped, ClientStep, ReplicaStep, StartRound, Send, Timeout,
         DropStale, Redirected, Current, Receiving,
         LockAnswered, WriteAnswered, ClearAnswered, UnlockAnswered, Answered

\* The step that throws a client out is an answer.
LEMMA ThrowIsAnswer ==
    ASSUME IInv, [Next]_vars, NEW c \in Client, cl[c].pc # "failed", cl'[c].pc = "failed"
    PROVE  \E phase \in Phase : \E t :
               /\ Answered(c, phase, t) /\ t = cl'[c] /\ t.phase = cl[c].phase
               /\ phase = "lock" => t = AfterLock(c, cl[c], Head(inbox[c]))
<1>1. cl \in [Client -> ClientSet] /\ cl[c] \in ClientSet
  BY Types DEF IInv
<1>2. PICK x \in Client : ClientStep(x)
  BY <1>1 DEF Next, vars, Stopped, ReplicaStep, Execute, Redirect
<1>3. ASSUME NEW t, Become(x, t)
      PROVE  x = c /\ t = cl'[c] /\ t.pc = "failed"
  BY <1>1, <1>3 DEF Become
<1>4. CASE StartRound(x)
  <2>1. PICK g \in Group, y \in Nonce, len \in 1 .. MaxLen :
            Become(x, Begin([cl[x] EXCEPT !.gid = g, !.value = <<x, y>>,
                                          !.nvalues = len], "lock"))
    BY <1>4 DEF StartRound
  <2> DEFINE a == [cl[x] EXCEPT !.gid = g]
             b == [a EXCEPT !.value = <<x, y>>]
             s == [b EXCEPT !.nvalues = len]
  <2>2. a \in ClientSet
    BY <1>1 DEF ClientSet
  <2>3. s = [cl[x] EXCEPT !.gid = g, !.value = <<x, y>>, !.nvalues = len]
    OBVIOUS
  <2> HIDE DEF a
  <2>4. b \in ClientSet
    BY <2>2 DEF ClientSet, AnyValue, Value
  <2> HIDE DEF b
  <2>5. s \in ClientSet /\ "lock" \in Phase
    BY <2>4 DEF ClientSet, Phase
  <2>6. Become(x, Begin(s, "lock"))
    BY <2>1, <2>3
  <2> HIDE DEF s
  <2>7. Begin(s, "lock").pc = "send"
    BY <2>5, BeginType
  <2> QED  BY <1>3, <2>6, <2>7
<1>5. CASE Send(x)
  <2> DEFINE t == [cl[x] EXCEPT !.pc = "wait"]
  <2>1. Become(x, t) /\ t.pc = "wait"
    BY <1>1, <1>5 DEF Send, ClientSet
  <2> HIDE DEF t
  <2> QED  BY <1>3, <2>1
<1>6. CASE DropStale(x)
  BY <1>6 DEF DropStale
<1>7. ASSUME NEW hint \in Replica, NEW t \in Retries(cl[x], hint), Become(x, t)
      PROVE  FALSE
  BY <1>1, <1>3, <1>7, RetriesType
<1>8. CASE Timeout(x)
  <2>1. cl[x].leader \in Replica
    BY <1>1 DEF ClientSet
  <2> QED  BY <1>7, <1>8, <2>1 DEF Timeout
<1>9. CASE Redirected(x)
  <2> DEFINE m == Head(inbox[x])
             hint == IF m.op = "redirect" THEN m.redirection ELSE cl[x].leader
  <2>1. /\ Current(x) /\ inbox[x] # << >> /\ cl[x].leader \in Replica
        /\ \E s \in Retries(cl[x], hint) : Become(x, s)
    BY <1>1, <1>9 DEF Redirected, Current, Receiving, ClientSet
  <2>2. hint \in Replica
    BY <2>1, HeadOK
  <2> HIDE DEF hint
  <2> QED  BY <1>7, <2>1, <2>2
<1>10. CASE LockAnswered(x)
  <2>1. PICK t : t = AfterLock(x, cl[x], Head(inbox[x])) /\ Answered(x, "lock", t)
    BY <1>10 DEF LockAnswered
  <2>2. /\ Become(x, t) /\ cl[x].phase = "lock" /\ cl[x] \in ClientSet
        /\ Head(inbox[x]) \in ResponseSet(AnyValue)
    BY <2>1, AnsweredFacts
  <2>3. x = c /\ t = cl'[c] /\ t.pc = "failed"
    BY <1>3, <2>2
  <2>4. t.phase = cl[x].phase /\ "lock" \in Phase
    BY <2>1, <2>2, <2>3, AfterLockType DEF SameRequest, Phase
  <2> QED  BY <2>1, <2>3, <2>4
<1>11. CASE WriteAnswered(x) \/ ClearAnswered(x)
  <2>1. PICK phase \in {"write", "clear"} : \E t :
            /\ t \in {AfterWrite(cl[x], Head(inbox[x])), AfterClear(cl[x], Head(inbox[x]))}
            /\ Answered(x, phase, t)
    BY <1>11 DEF WriteAnswered, ClearAnswered
  <2>2. PICK t :
            /\ t \in {AfterWrite(cl[x], Head(inbox[x])), AfterClear(cl[x], Head(inbox[x]))}
            /\ Answered(x, phase, t)
    BY <2>1
  <2>3. Become(x, t) /\ cl[x].phase = phase /\ cl[x] \in ClientSet /\ InLoop(cl[x])
    BY <2>2, AnsweredFacts DEF ClientOK
  <2>4. x = c /\ t = cl'[c] /\ t.pc = "failed"
    BY <1>3, <2>3
  <2>5. t.phase = cl[x].phase /\ phase \in Phase /\ phase # "lock"
    BY <2>2, <2>3, <2>4, AfterValueType DEF SameRequest, Phase
  <2> QED  BY <2>2, <2>4, <2>5
<1>12. CASE UnlockAnswered(x)
  <2>1. PICK t : t = AfterUnlock(cl[x], Head(inbox[x])) /\ Answered(x, "unlock", t)
    BY <1>12 DEF UnlockAnswered
  <2>2. Become(x, t) /\ cl[x].phase = "unlock" /\ cl[x] \in ClientSet
    BY <2>1, AnsweredFacts
  <2>3. x = c /\ t = cl'[c] /\ t.pc = "failed"
    BY <1>3, <2>2
  <2>4. t = Throw(cl[x])
    BY <2>1, <2>2, <2>3, AfterUnlockType DEF Idle
  <2>5. t.phase = cl[x].phase /\ "unlock" \in Phase /\ "unlock" # "lock"
    BY <2>2, <2>4, ThrowType DEF SameRequest, Phase
  <2> QED  BY <2>1, <2>3, <2>5
<1> QED
  BY <1>2, <1>4, <1>5, <1>6, <1>8, <1>9, <1>10, <1>11, <1>12 DEF ClientStep

\* A client is thrown out by the lock of another client, met by its
\* compare-and-swap (lockseq_model.cc:89), and by nothing else: the other
\* throw of the lock phase (80) and those past it (117, 147, 187) are never
\* reached.  Loss, duplicates and late answers do not confuse the protocol.
THEOREM ThrowsAreContention == Spec => ThrowsOnlyOnContention
<1>1. ASSUME IInv, CInv, SInv, RInv', [Next]_vars, NEW c \in Client,
             cl[c].pc # "failed", cl'[c].pc = "failed", NEW m, m = Head(inbox[c])
      PROVE  /\ cl[c].phase = "lock"
             /\ m.op = "cas" /\ m.errc = "no_match"
             /\ \E other \in Client \ {c} : OwnedBy(m.actual, other)
  <2>1. PICK phase \in Phase : \E t :
            /\ Answered(c, phase, t) /\ t = cl'[c] /\ t.phase = cl[c].phase
            /\ phase = "lock" => t = AfterLock(c, cl[c], m)
    BY <1>1, ThrowIsAnswer
  <2>2. PICK t :
            /\ Answered(c, phase, t) /\ t = cl'[c] /\ t.phase = cl[c].phase
            /\ phase = "lock" => t = AfterLock(c, cl[c], m)
    BY <2>1
  <2>3. /\ cl[c].phase = phase /\ cl[c] \in ClientSet /\ ClientOK(c, cl[c], db)
        /\ inbox[c] # << >> /\ m \in ResponseSet(AnyValue)
    BY <1>1, <2>2, AnsweredFacts
  <2>4. cl'[c].phase = "lock"
    BY <1>1 DEF RInv, ConversationOK, RowOK
  <2>5. cl[c].phase = "lock" /\ t = AfterLock(c, cl[c], m) /\ t.pc = "failed"
    BY <1>1, <2>2, <2>3, <2>4
  <2>6. m.op = "cas"
    BY <1>1, <2>2, <2>3, <2>5, RequestType DEF Answered, ClientOK
  <2>7. SwapAnswer(m)
    BY <1>1, <2>3, OneClient, TailElems DEF SInv
  <2>8. ~ Granted(cl[c], m) /\ ~ (m.errc = "no_match" /\ OwnedBy(m.actual, c))
    BY <2>3, <2>5, AfterLockWaits
  <2>9. m.errc = "no_match" /\ m.actual \in Value /\ ~ OwnedBy(m.actual, c)
    BY <2>6, <2>7, <2>8 DEF SwapAnswer, Granted
  <2> QED  BY <2>5, <2>6, <2>9 DEF OwnedBy, Value
<1>2. IInv /\ CInv /\ SInv /\ RInv' /\ [Next]_vars =>
          [\A c \in Client : cl[c].pc # "failed" /\ cl'[c].pc = "failed" =>
              LET m == Head(inbox[c]) IN
              /\ cl[c].phase = "lock"
              /\ m.op = "cas" /\ m.errc = "no_match"
              /\ \E other \in Client \ {c} : OwnedBy(m.actual, other)]_vars
  BY <1>1
<1> QED
  BY <1>2, IInvHolds, RInvHolds, InitCInv, NextCInv, InitSInv, NextSInv, PTL
     DEF Spec, ThrowsOnlyOnContention

-----------------------------------------------------------------------------
(* What check finds.                                                       *)

\* What check reads at a key of the protocol.
LEMMA ReadAt ==
    ASSUME IInv, CInv, NEW g \in Group, NEW i \in LockIndex .. MaxLen - 1
    PROVE  /\ Contents[<<g, i>>] = IF db.vv[<<g, i>>].value = EmptyValue THEN NoKey
                                   ELSE db.vv[<<g, i>>].value
           /\ Contents[<<g, i>>] \in Value \union {NoKey}
           /\ NoKey \notin Value \union {EmptyValue}
<1> DEFINE k == <<g, i>>
<1>1. k \in Key /\ k \in Group \X (LC!OtherIndex .. MaxLen - 1)
  BY LockSeqAssumption DEF Key, LockIndex, LC!OtherIndex
<1>2. Contents[k] = IF Exists(db, k) THEN db.vv[k].value ELSE NoKey
  BY <1>1 DEF Contents
<1>3. db \in DBSet(Key, AnyValue) /\ VersionsBelow(db) /\ Written(db)
  BY Types DEF IInv, CInv
<1> HIDE DEF k
<1>4. /\ db.vv[k].value \in AnyValue
      /\ Exists(db, k) <=> db.vv[k].value # EmptyValue
  BY <1>1, <1>3, DBFields DEF VersionsBelow, Written, Exists, NonexistentVersion
<1>5. NoKey \notin AnyValue /\ AnyValue = Value \union {EmptyValue}
  BY CheckedAssumption DEF AnyValue
<1>6. /\ Contents[k] = IF db.vv[k].value = EmptyValue THEN NoKey ELSE db.vv[k].value
      /\ Contents[k] \in Value \union {NoKey}
  BY <1>2, <1>4, <1>5
<1> QED  BY <1>5, <1>6 DEF k

\* check never sees a key of a group that the clients do not write.
LEMMA NoOtherKey ==
    ASSUME NEW g \in Group PROVE Contents[<<g, LC!OtherIndex>>] = NoKey
<1>1. <<g, LC!OtherIndex>> \in Group \X (LC!OtherIndex .. MaxLen - 1)
      /\ <<g, LC!OtherIndex>> \notin Key
  BY LockSeqAssumption DEF Key, LockIndex, LC!OtherIndex
<1> QED  BY <1>1 DEF Contents

LEMMA ContentsType ==
    ASSUME IInv, CInv PROVE Contents \in GLP!Database
<1>1. ASSUME NEW k \in Group \X (LC!OtherIndex .. MaxLen - 1)
      PROVE  Contents[k] \in Value \union {NoKey}
  <2>1. k[1] \in Group /\ k[2] \in LC!OtherIndex .. MaxLen - 1 /\ k = <<k[1], k[2]>>
    OBVIOUS
  <2>2. k[2] = LC!OtherIndex \/ k[2] \in LockIndex .. MaxLen - 1
    BY <2>1 DEF LC!OtherIndex, LockIndex
  <2> QED  BY <2>1, <2>2, ReadAt, NoOtherKey
<1>2. Contents = [k \in Group \X (LC!OtherIndex .. MaxLen - 1) |-> Contents[k]]
  BY DEF Contents
<1> QED
  BY <1>1, <1>2 DEF GLP!Database, GLP!Key, GLP!Contents, GLP!Content,
                    GLP!OtherIndex, LC!OtherIndex

\* Cells of one content.
LEMMA FilledCells ==
    ASSUME IInv, CInv, NEW g \in Group, NEW from \in 0 .. MaxLen, NEW to \in 0 .. MaxLen,
           NEW v, GL!Filled(rowOf[g], from, to, v)
    PROVE  /\ v = EmptyValue => GLP!Missing(g, from, to)
           /\ v \in Value => GLP!Cells(g, from, to) \subseteq {v} /\ GLP!Run(g, from, to)
<1>1. ASSUME NEW i \in from .. to - 1
      PROVE  /\ v = EmptyValue => Contents[<<g, i>>] = NoKey
             /\ v \in Value => Contents[<<g, i>>] = v /\ NoKey # v
  <2>1. i \in 0 .. MaxLen - 1 /\ i \in LockIndex .. MaxLen - 1
    BY LockSeqAssumption DEF LockIndex
  <2>2. rowOf[g][i] = db.vv[<<g, i>>].value /\ rowOf[g][i] = v
    BY <2>1 DEF rowOf, ValueAt, ValueKey, GL!Filled
  <2> QED  BY <2>1, <2>2, ReadAt, LockSeqAssumption
<1> QED  BY <1>1 DEF GLP!Missing, GLP!Cells, GLP!Run

\* A run of the row is a run that check sees.
LEMMA RunSeen ==
    ASSUME IInv, CInv, NEW g \in Group, NEW n \in 0 .. MaxLen, GL!RunFrom(rowOf[g], n)
    PROVE  GLP!RunThenMissing(g, n)
<1>1. PICK e \in n .. MaxLen :
          /\ GL!Filled(rowOf[g], e, MaxLen, EmptyValue)
          /\ e = n \/ \E v \in Value : GL!Filled(rowOf[g], n, e, v)
  BY DEF GL!RunFrom
<1>2. e \in 0 .. MaxLen /\ MaxLen \in 0 .. MaxLen
  BY LockSeqAssumption
<1>3. GLP!Missing(g, e, MaxLen)
  BY <1>1, <1>2, FilledCells
<1>4. GLP!Run(g, n, e)
  <2>1. CASE e = n
    <3>1. n .. e - 1 = {}
      BY <2>1
    <3> QED  BY <3>1 DEF GLP!Run, GLP!Cells
  <2>2. CASE e # n
    BY <1>1, <1>2, <2>2, FilledCells
  <2> QED  BY <2>1, <2>2
<1> QED  BY <1>3, <1>4 DEF GLP!RunThenMissing

\* A database of the grammar of GroupLocks is one of the grammar of check's
\* comment.
LEMMA WellFormedIsLegal ==
    ASSUME IInv, CInv, DatabaseWellFormed PROVE GLP!Documented
<1> SUFFICES ASSUME NEW g \in Group PROVE GLP!DocumentedGroup(g)
  BY DEF GLP!Documented
<1> USE LockSeqAssumption
<1>1. Contents[<<g, GLP!OtherIndex>>] = NoKey
  BY NoOtherKey DEF GLP!OtherIndex, LC!OtherIndex
<1>2. EmptyValue \notin GLP!Cells(g, 0, MaxLen)
  <2>1. ASSUME NEW i \in 0 .. MaxLen - 1 PROVE Contents[<<g, i>>] # EmptyValue
    <3>1. i \in LockIndex .. MaxLen - 1
      BY DEF LockIndex
    <3> QED  BY <3>1, ReadAt
  <2> QED  BY <2>1 DEF GLP!Cells
<1>3. LockIndex \in LockIndex .. MaxLen - 1 /\ 0 \in 0 .. MaxLen
  BY DEF LockIndex
<1>4. lockOf[g] = db.vv[<<g, LockIndex>>].value
  BY DEF lockOf, LockValue, LockKey
<1>5. /\ lockOf[g] = EmptyValue => Contents[<<g, GLP!LockIndex>>] = NoKey
      /\ lockOf[g] # EmptyValue => /\ Contents[<<g, GLP!LockIndex>>] = lockOf[g]
                                   /\ lockOf[g] \in Value
  <2>1. GLP!LockIndex = LockIndex
    BY DEF GLP!LockIndex, LockIndex
  <2>2. /\ Contents[<<g, LockIndex>>] = IF lockOf[g] = EmptyValue THEN NoKey ELSE lockOf[g]
        /\ Contents[<<g, LockIndex>>] \in Value \union {NoKey}
        /\ NoKey \notin Value \union {EmptyValue}
    BY <1>3, <1>4, ReadAt
  <2>3. lockOf[g] \in AnyValue
    BY <1>3, <1>4, Types, DBFields DEF IInv, Key
  <2> QED  BY <2>1, <2>2, <2>3 DEF AnyValue
<1>6. GL!GroupWellFormed(g)
  BY DEF DatabaseWellFormed, GL!WellFormed
<1>7. CASE lockOf[g] = EmptyValue
  <2>1. GLP!RunThenMissing(g, 0)
    BY <1>3, <1>6, <1>7, RunSeen DEF GL!GroupWellFormed
  <2>2. GLP!UnlockedGroup(g, {NoKey})
    BY <1>5, <1>7, <2>1 DEF GLP!UnlockedGroup
  <2> QED  BY <1>1, <1>2, <2>2 DEF GLP!DocumentedGroup, GLP!LegalGroup
<1>8. CASE lockOf[g] # EmptyValue
  <2>1. PICK k \in 0 .. MaxLen : \E m \in k .. MaxLen :
            /\ GL!Filled(rowOf[g], 0, k, lockOf[g])
            /\ GL!Filled(rowOf[g], k, m, EmptyValue)
            /\ GL!RunFrom(rowOf[g], m)
    BY <1>6, <1>8 DEF GL!GroupWellFormed
  <2>2. PICK m \in k .. MaxLen :
            /\ GL!Filled(rowOf[g], 0, k, lockOf[g])
            /\ GL!Filled(rowOf[g], k, m, EmptyValue)
            /\ GL!RunFrom(rowOf[g], m)
    BY <2>1
  <2>3. m \in 0 .. MaxLen
    OBVIOUS
  <2>4. /\ GLP!Cells(g, 0, k) \subseteq {lockOf[g]}
        /\ GLP!Missing(g, k, m)
        /\ GLP!RunThenMissing(g, m)
    BY <1>3, <1>5, <1>8, <2>2, <2>3, FilledCells, RunSeen
  <2>5. GLP!LockedGroup(g, Value)
    BY <1>5, <1>8, <2>4 DEF GLP!LockedGroup
  <2> QED  BY <1>1, <1>2, <2>5 DEF GLP!DocumentedGroup, GLP!LegalGroup
<1> QED  BY <1>7, <1>8

\* GLP and LC are the same check.
LEMMA SameCheck == GLP!Accepts(Contents, GLP!Groups, MaxLen) => CheckAccepts
BY Zenon DEF CheckAccepts, GLP!Groups,
       GLP!SetToSeq, SetToSeq, GLP!IsInjective, IsInjective,
       GLP!Cardinality, Cardinality, GLP!IsFiniteSet, IsFiniteSet,
       GLP!Accepts, LC!Accepts, GLP!CheckGroups, LC!CheckGroups,
       GLP!CheckGroup, LC!CheckGroup, GLP!CheckKey, LC!CheckKey,
       GLP!CheckLock, LC!CheckLock, GLP!CheckCell, LC!CheckCell,
       GLP!CheckIndex, LC!CheckIndex, GLP!CheckValue, LC!CheckValue,
       GLP!Bad, LC!Bad, GLP!NextGroup, LC!NextGroup,
       GLP!OtherIndex, LC!OtherIndex, GLP!LockIndex, LC!LockIndex

\* Whenever the test stops, in whatever round its clients are and whatever
\* is still on its way, check accepts the primary's database: it is of the
\* grammar of GroupLocks, that is the grammar of check's comment, which check
\* never blames (pt-paxos.cc:219-231 with lockseq_model.cc:225-328).
THEOREM NeverBlamed == Spec => []CheckAccepts
<1>1. IInv /\ CInv /\ DatabaseWellFormed => CheckAccepts
  <2> SUFFICES ASSUME IInv, CInv, DatabaseWellFormed PROVE CheckAccepts
    OBVIOUS
  <2>1. GLP!CheckIsLooseGrammar
    BY GLPAssumptions, ContentsType, GLP!CheckDecides
  <2> QED  BY <2>1, WellFormedIsLegal, SameCheck DEF GLP!CheckIsLooseGrammar
<1> QED
  BY <1>1, IInvHolds, DatabaseAlwaysWellFormed, InitCInv, NextCInv, PTL DEF Spec

=============================================================================
