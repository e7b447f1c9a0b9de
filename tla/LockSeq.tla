------------------------------ MODULE LockSeq -------------------------------
(***************************************************************************)
(* The lockseq clients (lockseq_model.cc) against the replicas of          *)
(* pt-paxos.cc over the simulated network (client_model.hh, netsim.hh).    *)
(*                                                                         *)
(* Each client runs rounds: lock a group with a compare-and-swap, write a  *)
(* run of value keys, remove what an earlier, longer run left behind, and  *)
(* unlock by removing the lock key at the version it was taken at.  Every  *)
(* request carries a serial; it is sent again, under the same serial,      *)
(* after a timeout or a redirection, so requests are duplicated, and late  *)
(* answers arrive when the client is past them.                            *)
(*                                                                         *)
(* The service is the one the repository has: a single primary that never  *)
(* changes, and replicas that redirect to it.  Only the primary's database *)
(* is ever modified.                                                       *)
(*                                                                         *)
(* A client's channel to a replica delivers in order: link delays are one  *)
(* constant and a sender waits after each send.  Requests of different     *)
(* clients may reach a replica in any order, so they queue per client.     *)
(* Responses leave replicas in the order in which they are sent and take   *)
(* the same time to arrive: a reply is put straight into the client's      *)
(* response port.  A lost message is one that is never sent.               *)
(***************************************************************************)
EXTENDS PancyOps

CONSTANTS
    Client, Group, Replica,
    Leader,         \* initial_leader, every replica's leader_index_ for ever
    Nonce,          \* the random suffixes of lock values
    MaxLen,         \* max_sequence_length_
    Lossy,          \* may a channel drop a message?
    MaxSerial,      \* bound: no round starts at this serial or later
    MaxTries        \* bound: time-outs of one request

LockIndex == -1

Value == Client \X Nonce
AnyValue == Value \union {EmptyValue}

ASSUME LockSeqAssumption ==
    /\ Group # {}
    /\ Leader \in Replica
    /\ MaxLen \in Nat \ {0}
    /\ Lossy \in BOOLEAN
    /\ MaxSerial \in Nat
    /\ MaxTries \in Nat
    /\ EmptyValue \notin Value

VARIABLES
    cl,         \* cl[c]: the client coroutine: its program counter and locals
    requests,   \* requests[c][r]: requests on their way from c to replica r
    inbox,      \* inbox[c]: c's response port
    db          \* the primary's database

vars == <<cl, requests, inbox, db>>

-----------------------------------------------------------------------------
(* Keys.  In key order a group's lock comes before its values.             *)

Key == Group \X (LockIndex .. MaxLen - 1)
LockKey(g) == <<g, LockIndex>>
ValueKey(g, i) == <<g, i>>

\* `starts_with(client_key_prefix)'
OwnedBy(value, c) == value \in {c} \X Nonce

-----------------------------------------------------------------------------
(* Client states.                                                          *)

\* Between rounds only the serial and the leader hint are alive.
Idle(serial, leader) ==
    [pc |-> "idle", phase |-> "lock", gid |-> CHOOSE g \in Group : TRUE,
     value |-> EmptyValue, nvalues |-> 1, n |-> 0, lock_version |-> 0,
     serial |-> serial, tries |-> 0, leader |-> leader]

\* A new request: `serial += serial_step()', then the retry loop from zero.
Begin(s, phase) ==
    [s EXCEPT !.pc = "send", !.phase = phase, !.serial = @ + 1, !.tries = 0]

\* A clear loop that runs one index too far.
PhaseAtLate(s) ==
    IF s.n < s.nvalues THEN "write" ELSE IF s.n <= MaxLen THEN "clear" ELSE "unlock"

\* No clear phase at all.
PhaseAtNoClear(s) == IF s.n < s.nvalues THEN "write" ELSE "unlock"

\* Where the loops over `n' lead once n requests are answered.
PhaseAt(s) ==
    IF s.n < s.nvalues THEN "write" ELSE IF s.n < MaxLen THEN "clear" ELSE "unlock"

\* An unlock that does not name the version of the lock it took.
RequestUnversioned(s) ==
    CASE s.phase = "lock"   -> CasRequest(s.serial, LockKey(s.gid), EmptyValue,
                                          s.value, AnyVersion)
      [] s.phase = "write"  -> PutRequest(s.serial, ValueKey(s.gid, s.n), s.value,
                                          AnyVersion)
      [] s.phase = "clear"  -> RemoveRequest(s.serial, ValueKey(s.gid, s.n), AnyVersion)
      [] s.phase = "unlock" -> RemoveRequest(s.serial, LockKey(s.gid), AnyVersion)

\* The request the retry loop of a phase sends.
CurrentRequest(s) ==
    CASE s.phase = "lock"   -> CasRequest(s.serial, LockKey(s.gid), EmptyValue,
                                          s.value, AnyVersion)
      [] s.phase = "write"  -> PutRequest(s.serial, ValueKey(s.gid, s.n), s.value,
                                          AnyVersion)
      [] s.phase = "clear"  -> RemoveRequest(s.serial, ValueKey(s.gid, s.n), AnyVersion)
      [] s.phase = "unlock" -> RemoveRequest(s.serial, LockKey(s.gid), s.lock_version)

\* The ways round the retry loop once no usable answer came: every third
\* try moves to a random replica, whatever hint a redirection just gave.
Retries(s, hint) ==
    {[s EXCEPT !.pc = "send", !.tries = @ + 1, !.leader = r] :
        r \in IF s.tries % 3 = 2 THEN Replica ELSE {hint}}

-----------------------------------------------------------------------------
Init ==
    /\ \E hint \in [Client -> Replica] : cl = [c \in Client |-> Idle(0, hint[c])]
    /\ requests = [c \in Client |-> [r \in Replica |-> << >>]]
    /\ inbox = [c \in Client |-> << >>]
    /\ db = EmptyDB(Key)

\* Channels lose a message when it is sent.
Loss == IF Lossy THEN BOOLEAN ELSE {FALSE}

Become(c, s) == cl' = [cl EXCEPT ![c] = s]

-----------------------------------------------------------------------------
(* Client steps.                                                           *)

\* Wake from the pause between rounds and choose what to do.
StartRound(c) ==
    /\ cl[c].pc = "idle"
    /\ cl[c].serial < MaxSerial
    /\ \E g \in Group, x \in Nonce, len \in 1 .. MaxLen :
          Become(c, Begin([cl[c] EXCEPT !.gid = g, !.value = <<c, x>>,
                                        !.nvalues = len], "lock"))
    /\ UNCHANGED <<requests, inbox, db>>

Send(c) ==
    /\ cl[c].pc = "send"
    /\ Become(c, [cl[c] EXCEPT !.pc = "wait"])
    /\ \E lost \in Loss :
          requests' = IF lost THEN requests
                      ELSE [requests EXCEPT ![c][cl[c].leader] =
                                Append(@, CurrentRequest(cl[c]))]
    /\ UNCHANGED <<inbox, db>>

\* The timer of `attempt' fires first; the receive is cancelled.
Timeout(c) ==
    /\ cl[c].pc = "wait"
    /\ cl[c].tries < MaxTries
    /\ \E s \in Retries(cl[c], cl[c].leader) : Become(c, s)
    /\ UNCHANGED <<requests, inbox, db>>

Receiving(c) == cl[c].pc = "wait" /\ inbox[c] # << >>

\* A client that takes any message for the answer to its request.
CurrentAny(c) == Receiving(c)

\* A client that takes answers only to its first try.
CurrentFirstTry(c) ==
    Receiving(c) /\ Head(inbox[c]).serial = cl[c].serial /\ cl[c].tries = 0

\* The message at the head of the port answers the current request.
Current(c) == Receiving(c) /\ Head(inbox[c]).serial = cl[c].serial

\* An answer to an earlier request: drop it and keep waiting.
DropStale(c) ==
    /\ Receiving(c)
    /\ ~ Current(c)
    /\ inbox' = [inbox EXCEPT ![c] = Tail(@)]
    /\ UNCHANGED <<cl, requests, db>>

\* A redirection, or a response of another type than the request's, which
\* counts as no answer but leaves the hint alone.
Redirected(c) ==
    /\ Current(c)
    /\ LET m == Head(inbox[c])
           hint == IF m.op = "redirect" THEN m.redirection ELSE cl[c].leader
       IN  /\ m.op # CurrentRequest(cl[c]).op
           /\ \E s \in Retries(cl[c], hint) : Become(c, s)
    /\ inbox' = [inbox EXCEPT ![c] = Tail(@)]
    /\ UNCHANGED <<requests, db>>

\* An exception leaves the coroutine, and with it the client, for good.
Throw(s) == [s EXCEPT !.pc = "failed"]

\* A client that takes any refusal for its own earlier success.
GrantedAny(s, m) == m.errc \in {"ok", "no_match"}

\* The lock is ours when the swap succeeded, or when it fails on our own
\* value and this is not the first try.
Granted(s, m) ==
    \/ m.errc = "ok"
    \/ m.errc = "no_match" /\ m.actual = s.value /\ s.tries > 0

\* The version is adopted from a successful swap only.
AfterLockForgetVersion(c, s, m) ==
    CASE Granted(s, m) ->
            Begin([s EXCEPT !.lock_version = IF m.errc = "ok" THEN m.version ELSE @,
                            !.n = 0], "write")
      [] ~ Granted(s, m) /\ m.errc = "no_match" /\ OwnedBy(m.actual, c) ->
            [s EXCEPT !.pc = "send", !.tries = @ + 1]
      [] OTHER -> Throw(s)

AfterLock(c, s, m) ==
    CASE Granted(s, m) ->
            Begin([s EXCEPT !.lock_version = m.version, !.n = 0], "write")
      [] ~ Granted(s, m) /\ m.errc = "no_match" /\ OwnedBy(m.actual, c) ->
            [s EXCEPT !.pc = "send", !.tries = @ + 1]
      [] OTHER -> Throw(s)

Advance(s) ==
    LET t == [s EXCEPT !.n = @ + 1] IN Begin(t, PhaseAt(t))

AfterWrite(s, m) == IF m.errc = "ok" THEN Advance(s) ELSE Throw(s)

\* A clear loop that takes every not_found for the end of the old values.
AfterClearHasty(s, m) ==
    CASE m.errc = "ok" -> Advance(s)
      [] m.errc = "not_found" -> Begin(s, "unlock")
      [] OTHER -> Throw(s)

\* A clear loop that insists on finding something once it has retried.
AfterClearStrict(s, m) ==
    CASE m.errc = "ok" -> Advance(s)
      [] m.errc = "not_found" /\ s.tries = 0 -> Begin(s, "unlock")
      [] OTHER -> Throw(s)

\* Nothing there on the first try: the old values end here.  Nothing there
\* on a later try: an earlier try may have removed it, go on.
AfterClear(s, m) ==
    CASE m.errc = "ok" -> Advance(s)
      [] m.errc = "not_found" /\ s.tries = 0 -> Begin(s, "unlock")
      [] m.errc = "not_found" /\ s.tries > 0 -> Advance(s)
      [] OTHER -> Throw(s)

\* An unlock that insists on success.
AfterUnlockStrict(s, m) ==
    IF m.errc # "ok" THEN Throw(s) ELSE Idle(s.serial, s.leader)

\* Any response but a refusal on the first try ends the round.
AfterUnlock(s, m) ==
    IF m.errc # "ok" /\ s.tries = 0 THEN Throw(s) ELSE Idle(s.serial, s.leader)

\* c gets the answer to the request of this phase and becomes `next'.
Answered(c, phase, next) ==
    /\ Current(c)
    /\ cl[c].phase = phase
    /\ Head(inbox[c]).op = CurrentRequest(cl[c]).op
    /\ Become(c, next)
    /\ inbox' = [inbox EXCEPT ![c] = Tail(@)]
    /\ UNCHANGED <<requests, db>>

LockAnswered(c) == Answered(c, "lock", AfterLock(c, cl[c], Head(inbox[c])))
WriteAnswered(c) == Answered(c, "write", AfterWrite(cl[c], Head(inbox[c])))
ClearAnswered(c) == Answered(c, "clear", AfterClear(cl[c], Head(inbox[c])))
UnlockAnswered(c) == Answered(c, "unlock", AfterUnlock(cl[c], Head(inbox[c])))

-----------------------------------------------------------------------------
(* Replica steps: pt_paxos_replica::run takes the next request of a client *)
(* and replies, over a channel that may lose the reply.                    *)

Reply(c, m) ==
    \E lost \in Loss :
        inbox' = IF lost THEN inbox ELSE [inbox EXCEPT ![c] = Append(@, m)]

Redirect(c, r) ==
    /\ r # Leader
    /\ requests[c][r] # << >>
    /\ Reply(c, Redirection(Head(requests[c][r]), Leader))
    /\ requests' = [requests EXCEPT ![c][r] = Tail(@)]
    /\ UNCHANGED <<cl, db>>

Execute(c) ==
    /\ requests[c][Leader] # << >>
    /\ LET p == Process(db, Head(requests[c][Leader])) IN
          /\ db' = p.db
          /\ Reply(c, p.resp)
    /\ requests' = [requests EXCEPT ![c][Leader] = Tail(@)]
    /\ UNCHANGED cl

-----------------------------------------------------------------------------
ClientStep(c) ==
    \/ StartRound(c) \/ Send(c) \/ Timeout(c)
    \/ DropStale(c) \/ Redirected(c)
    \/ LockAnswered(c) \/ WriteAnswered(c) \/ ClearAnswered(c) \/ UnlockAnswered(c)

ReplicaStep(c) == Execute(c) \/ \E r \in Replica : Redirect(c, r)

\* No message is on its way and every client has thrown, has no round left
\* under MaxSerial, or has no time-out left under MaxTries.
Stopped ==
    /\ \A c \in Client :
          /\ \A r \in Replica : requests[c][r] = << >>
          /\ \/ cl[c].pc = "failed"
             \/ cl[c].pc = "idle" /\ cl[c].serial >= MaxSerial
             \/ cl[c].pc = "wait" /\ cl[c].tries >= MaxTries /\ inbox[c] = << >>
    /\ UNCHANGED vars

Next ==
    \/ \E c \in Client : ClientStep(c) \/ ReplicaStep(c)
    \/ Stopped

Spec == Init /\ [][Next]_vars

\* Coroutines that can run do run, and messages arrive.  A time-out is
\* never owed: it is the one step the code may not take.
Fairness ==
    \A c \in Client :
        /\ WF_vars(Send(c))
        /\ WF_vars(DropStale(c) \/ Redirected(c) \/ LockAnswered(c)
                   \/ WriteAnswered(c) \/ ClearAnswered(c) \/ UnlockAnswered(c))
        /\ WF_vars(Execute(c))
        /\ \A r \in Replica : WF_vars(Redirect(c, r))

FairSpec == Spec /\ Fairness

-----------------------------------------------------------------------------
(* Types.                                                                  *)

Phase == {"lock", "write", "clear", "unlock"}

TypeOK ==
    /\ cl \in [Client ->
          [pc : {"idle", "send", "wait", "failed"}, phase : Phase, gid : Group,
           value : AnyValue, nvalues : 1 .. MaxLen, n : 0 .. MaxLen,
           lock_version : Nat, serial : Nat, tries : Nat, leader : Replica]]
    /\ requests \in [Client -> [Replica -> Seq(RequestSet(Key, AnyValue))]]
    /\ inbox \in [Client -> Seq(ResponseSet(AnyValue) \union
                                RedirectionSet(Replica))]
    /\ db \in DBSet(Key, AnyValue)

-----------------------------------------------------------------------------
(* Safety.                                                                 *)

LockValue(g) == db.vv[LockKey(g)].value
ValueAt(g, i) == db.vv[ValueKey(g, i)].value

\* c is past the lock phase and has not yet asked for the unlock.
InCriticalSection(c) == cl[c].phase \in {"write", "clear"}

\* Two clients never write or clear the same group.
MutualExclusion ==
    \A c, d \in Client :
        InCriticalSection(c) /\ InCriticalSection(d) /\ c # d
            => cl[c].gid # cl[d].gid

\* A client that believes it holds a lock does hold it, at the version it
\* believes: neither a late duplicate nor another client has taken the lock
\* key away or replaced it since.
HolderHasLock ==
    \A c \in Client : InCriticalSection(c) =>
        db.vv[LockKey(cl[c].gid)] =
            [value |-> cl[c].value, version |-> cl[c].lock_version]

\* No lock leaks: a lock key in the database belongs to the round its owner
\* is in, or was taken for a client that has thrown.
LockHasOwner ==
    \A g \in Group : LockValue(g) # EmptyValue =>
        \E c \in Client :
            /\ OwnedBy(LockValue(g), c)
            /\ cl[c].gid = g /\ cl[c].value = LockValue(g)
            /\ cl[c].pc # "idle"

\* The client's beliefs about the values follow the database through every
\* retry: in the clear phase the run it wrote is there and the keys it
\* passed are gone, and when it asks for the unlock, nothing else is left.
SequenceAtUnlock ==
    \A c \in Client :
        LET s == cl[c] IN
        /\ s.phase \in {"write", "clear"} =>
              \A i \in 0 .. s.n - 1 :
                  ValueAt(s.gid, i) = IF i < s.nvalues THEN s.value ELSE EmptyValue
        /\ /\ s.phase = "unlock"
           /\ db.vv[LockKey(s.gid)] = [value |-> s.value, version |-> s.lock_version]
           => \A i \in 0 .. MaxLen - 1 :
                  ValueAt(s.gid, i) = IF i < s.nvalues THEN s.value ELSE EmptyValue

\* A client throws only when its compare-and-swap meets the lock of another
\* client (lockseq_model.cc:89): losses, duplicates and late answers never
\* bring it to the other throw of the lock phase (80) or to one of those past
\* it (117, 147, 187).
ThrowsOnlyOnContention ==
    [][\A c \in Client : cl[c].pc # "failed" /\ cl'[c].pc = "failed" =>
          LET m == Head(inbox[c]) IN
          /\ cl[c].phase = "lock"
          /\ m.op = "cas" /\ m.errc = "no_match"
          /\ \E other \in Client \ {c} : OwnedBy(m.actual, other)]_vars

-----------------------------------------------------------------------------
(* Liveness, on channels that lose nothing.                                *)

\* Every attempt at a lock ends: the client holds the lock or has thrown.
LockResolves ==
    \A c \in Client :
        cl[c].phase = "lock" /\ cl[c].pc \in {"send", "wait"}
            ~> InCriticalSection(c) \/ cl[c].pc = "failed"

\* A client that has a lock finishes its round.
RoundCompletes ==
    \A c \in Client : InCriticalSection(c) ~> cl[c].pc = "idle"

-----------------------------------------------------------------------------
(* What the comments of lockseq_model.cc say.                              *)

\* "must not be waiting for ourselves" (line 87): a refused compare-and-swap
\* makes a client give up only if the lock it met is its own; a lock of
\* another client is waited for.
WaitsForOthers ==
    [][\A c \in Client :
          /\ cl[c].phase = "lock" /\ cl[c].pc = "wait" /\ cl'[c].pc = "failed"
          /\ Head(inbox[c]).errc = "no_match"
          => OwnedBy(Head(inbox[c]).actual, c)]_vars

\* "ok: Successfully unlocked", "no_match: A previous attempt successfully
\* unlocked, but the reply was lost" (lines 182-184): the answers that end
\* an unlock are these two.
UnlockAnswers ==
    [][\A c \in Client :
          cl[c].phase = "unlock" /\ cl[c].pc = "wait" /\ cl'[c].pc = "idle"
          => Head(inbox[c]).errc \in {"ok", "no_match"}]_vars

=============================================================================
