# Verification of the Pancy key-value service

`src/pset4` holds a coroutine program: a versioned key-value store (*Pancy*), clients that
exercise it over a simulated network with a lock protocol (*lockseq*), a checker that decides
whether a final database could have come from that protocol, the replicated service under test
(`pt-paxos.cc`, at this commit a single primary), and, beside it, a small BitTorrent tracker.
These modules model the store, the protocol, the replicas, the checker, the network and the
tracker, check them with TLC on small instances and prove what can be proved of them for every
size.

## 1. Inventory

| component | code | state | operations | model |
|---|---|---|---|---|
| pancydb | `pancydb.hh`, `pancydb.cc` | `next_version_`, `db_`, `recent_removes_` | `process` of get, put, cas, remove; direct `put`, `remove`; `diff`, `find_recent_remove` | `PancyOps`, `PancyDB`, `PancyDiff` |
| Pancy messages | `pancy_msgs.hh` | none | request and response types, error codes, versions, serials | records of `PancyOps` |
| lockseq client | `lockseq_model.cc` | one coroutine per client: phase, serial, group, value, length, index, lock version, tries; its leader hint | lock, write, clear, unlock, each a retry loop | `LockSeq` |
| check | `lockseq_model.cc:208-328` | scan state | one pass over the keys in order | `LockCheck` |
| client_model | `client_model.hh`, `.cc` | a channel per client and replica, a response port per client | `set_nclients`; `send_request`, `receive_response` | `NetSetup`; inside `LockSeq` |
| service and driver | `pt-paxos.cc` | a database and a leader index per replica | `run`: redirect, or process and reply; `try_one_seed`, its set-up and its check | inside `LockSeq`; `NetSetup`, `LockSeqChecked` |
| netsim | `netsim.hh` | queues, one-shot events, delays; ports, channel pairs, default loss | `send`, `deliver`, `receive_from`; `port`, `find_channel`, `receive_with_channel` | `Netsim` (implements `Link`); `NetRegistry`, `NetSetup` |
| tracker state | `tracker/state.cc`, `types.hh` | torrents and their peers | `apply_announce` | `Tracker` |
| tracker front end | `tracker/http.cc`, `messages.cc`, `tracker.cc` | one coroutine per connection | request parsing, responses, `process_request` | `AnnounceParse`, `Tracker` |
| random_source, utils, bittorrent.hh | | none | | not modelled: choices are nondeterminism, the rest is parsing |
| cotamer, bencode | empty submodules | | | external; assumed as `src/` uses them |

How they interact. A client coroutine sends a request on its own channel to the replica it
believes to be the leader, and waits on its response port until an answer with the request's
serial arrives or a timer fires (`cot::attempt`). A replica takes requests from its port one at
a time; unless it is the leader it answers with a redirection, otherwise it runs the request
on its database and sends the result on the reply channel of that client. A channel may drop
a message when it is sent. After 100 s the driver stops everything and runs `check` on the
leader's database.

What is hard about it:

* **Retries.** A time-out does not say whether the request was executed. It is sent again, with
  the same serial, so it may execute twice, and the answer to the first copy may arrive while
  the client waits for the second, or later.
* **Ambiguous answers.** `no_match` on one's own value, `not_found` from a repeated removal and
  any refusal of a repeated unlock have to be told from real failures, by `tries` alone.
* **Unversioned writes.** Puts and clears name no version. That a late copy of one does not
  damage the next holder's row rests on the order of the channel alone, while a late unlock is
  stopped by its version.
* **Hints.** A redirection counts as a try; on every third try the hint is overwritten at once.
* **Versions.** Versions must never be reused, across keys and across removals, or an unlock by
  version could remove somebody else's lock.
* **Wake-ups.** Between the event that wakes a receiver and its look at the queue a millisecond
  passes and other receivers run; events are one-shot, all receivers of a port share one, and a
  time-out may cancel a receive at each of its suspension points.
* **Bare pointers.** Ports and channels are found by name and kept as pointers that nobody tests
  for null; a channel's loss is the default at the moment it is made.
* **Histories compared.** `diff` sees two databases and a bounded log of removals, and has to tell
  a database that lags from one that has diverged.

What makes each component correct: for pancydb, fresh and unique versions, a removal log that
is a history, conditional requests that take effect once; for lockseq, mutual exclusion, a
holder that really holds its lock, no leaked lock, rows without leftovers, and loops that end;
for check, acceptance of the grammar its comment states and
of as little else as can be; for netsim, that a port is a
first-in-first-out queue per sender which loses nothing after the send and keeps no receiver
waiting; for the tracker, that it knows of a peer what the peer last said; for the whole, that
every database the primary ever has is one that check accepts. The hazards behind these are listed
with their lines in `PROJECT.json`.

## 2. Modules

```
PancyOps ─┬ PancyDB ── MCPancyDB
   │      └ PancyDiff ╌╌╌╌╯ INSTANCE
   └────── LockSeq ── LockSeqImplements ── LockSeqChecked ── MCLockSeq
                           ┆ INSTANCE          ┆ INSTANCE
                       GroupLocks          LockCheck
                           └────── MCLockCheck ──┘

Netsim        NetRegistry ── NetSetup         AnnounceParse ── Tracker ── MCTracker
   ┆ INSTANCE
  Link
```

Proofs are in modules of their own, beside what they are about:

```
PancyOpsProofs ─┬ PancyDBProofs (of MCPancyDB) ╌╌╌ PancyDiffProofs, by INSTANCE
                ├ PancyDiffProofs
                └ LockSeqProofs (of LockSeqChecked)
                         ┆ INSTANCE
                  GroupLocksProofs (of MCLockCheck)

NetsimProofs       NetSetupProofs       TrackerProofs (of MCTracker)
```

(Solid lines: EXTENDS.) `Netsim` and `NetSetup` need nothing for TLC but the values in their
configurations and are checked as they are. Three MC modules join two questions in one state
space, as a union: an initial state, or a first step, decides which of the two a behaviour is about.

**PancyOps**: pure operators. A database is a record of `next` (`next_version_`), `vv` (`db_` as
a total function: absent keys map to `NonexistentVV`, as `find_vvptr` answers) and `removes`
(`recent_removes_`, newest first). `Store` is `emplace_vvptr` or the assignments to an existing
entry; `Erase` is `do_remove`, log, version and trimming included; `ProcessGet`, `ProcessPut`,
`ProcessCas`, `ProcessRemove` and `Process` are the `process` overloads and `process_req`. Keys
and values are opaque except for the empty string, which `cas` compares with the value of an
absent key.

**PancyDB**: one database under any sequence of API calls: one action per call, with the last
request and response kept in `last` so that properties can speak of them. `Put` and `Cas` cover
every version match that differs in effect (any, absent, a version handed out, one not yet).

**PancyDiff**: two databases, `this` and `other`, that are modified in any way or made equal by a
copy (`Snapshot`); a copy that only `this` has left behind is the follower that `diff` is meant for
(`behind`). `Diff`, `DiffNewer`, `DiffersAt`, `Mismatch` and `FindRecentRemove` are the code of
`diff`, whose walk over two sorted maps becomes the set of keys at which it would stop; the code
returns the smallest of them. Two properties of it are weaker than its comment suggests: for two
databases of the same `next_version_` the argument order decides whose log is trusted, so with a
skew the two orders may answer differently (without one they may not, `ZeroSkewIsEquality`), and
a divergence inside the window may go unreported, which is what the window is for.
**MCPancyDB** either drives one database or two that are compared, with one version and one log
entry fewer for the two; the half that does not move keeps its initial value.

**LockSeq**: the core. `cl[c]` is the state of a client coroutine: `pc` is where it is suspended
(`idle`: between rounds; `send`: about to send; `wait`: in `attempt`; `failed`: left by a throw),
`phase` which of the four loops it is in, the rest its locals. Client actions are the steps from
one suspension point to the next:

| action | code |
|---|---|
| `StartRound` | the delay and the choices at the top of the loop |
| `Send` | `send_request`; the channel may drop the message |
| `Timeout` | the timer of `attempt` fires first |
| `DropStale` | `receive_response` drops an answer with another serial |
| `Redirected` | a redirection, or a response of another type: no answer, next try |
| `LockAnswered` | the branches of phase 1, three ways to go on and two throws |
| `WriteAnswered`, `ClearAnswered`, `UnlockAnswered` | phases 2, 3, 4 |
| `Redirect`, `Execute` | `pt_paxos_replica::run` of a follower, of the leader |

Serials are counted per client (a serial carries the client's identity in its low bits, so two
clients never share one). Message order is what `netsim` gives: all link delays are one
constant and a sender waits 1 ms after each send, so a client's messages to one replica arrive in order (`requests[c][r]` is a
queue), messages of different clients race (one queue per client), and replies of all replicas
take the same time, so a reply goes straight to the end of `inbox[c]`. A time-out may come at any
moment, also when the answer is already there.

**GroupLocks**: the abstract specification: locks and rows, no messages, clients or versions.
**LockSeqImplements** reads a row of it off the primary's database and states that `LockSeq`
implements it. **LockCheck** is `check` as two loops, written as recursive functions: `CheckGroups`
over the groups in key order and in it `CheckGroup` over the keys of one; **LockSeqChecked** applies it to the primary's database in every state of `LockSeq`. **MCLockCheck** compares it with the
grammar, stated without a scan, on the databases of an honest service (`Honest`: every state of
`GroupLocks`) and of a faulty one (`Faulty`: every database of a few keys). `Documented` is the grammar
of the comment. `Tolerated` is what the code makes of it: an empty lock is no lock
(`lockseq_model.cc:282-284`), and any text of four or more characters that starts with a `c`
(285-286, the constant `LockLike`) is a client's, which the clients' values (`Value`) are only some of.

**Netsim**: one port with its channels, its queue and the coroutines inside `receive_from`, with the
delays on a discrete clock in milliseconds.

| action | code |
|---|---|
| `Send`, `Deliver` | `channel::send`; the end of `send_after` and `deliver` |
| `Call` | `receive_from` up to its first suspension |
| `Wake`, `Delayed` | resumed by `receivable_`; after `receive_delay_`, back to the test of the loop |
| `Take` | resumed from `cot::resolve`: take the message, or go round again |
| `Cancel` | the timer of `attempt` destroys the call, wherever it is suspended |
| `Tick` | the clock, which moves only when nothing is due |

`Tick`, `Cancel` and `Quiet` stand for the runtime, which is not in the repository: a triggered event
resumes all its waiters, and what is due in one millisecond runs in any order.
**Link** is what a port promises and `LockSeq` takes for granted: what a sender has sent and not lost
is received in the order of sending, and lost at the send or never. `waiting[s]` is the set of
the numbers of such messages, of which the least is received. `Netsim` implements it
(`ImplementsLink`): of a sender there waits what has arrived from it and what is flying.

**NetRegistry**: who can find whom: ports, response ports, the pairs of channels of a server port
and the default loss, with operators for each function and a `Next` that calls them in any order
and sends messages over what they return; `TryEmplace` is `std::map::try_emplace`, which keeps an old
entry. **NetSetup** uses the same operators in the order of `try_one_seed`, one lookup or creation a
step (`step` says which loop, `i` and the length of the vector under construction how far it has come),
with the one-way network between the replicas beside it, and then lets clients and replicas talk. Its action `AnyUse` is a network whose user keeps
no order at all.

**AnnounceParse**: `parse_announce_request` as a loop over the parameters, a recursive function, `parse_ipv4` and
`format_ipv4`. A parameter's text is what it means: a number, an event, an identifier of the right
length, or `Junk`. **Tracker**: `torrents` and the coroutine of each connection, suspended in
`receive` or in `send`; between the two it runs without a break, so an announce is one step.
`last` remembers the last accepted announce of each peer. `InOrder` is the order in which a loop
over a map meets its keys. `ProcessMessage` is the entry point of
`tracker/messages.cc`, which nothing calls yet; its response goes nowhere. **MCTracker** runs the
tracker, or gives the parser one query or one address.

## 3. Runs

| run | bounds | what it shows |
|---|---|---|
| `PancyDB` | 2 keys, 1 value and the empty one, versions to 7, a log of 2; compared: versions to 6, a log of 1, every skew | versions unique and fresh, log a history, retries refused, answers name the current version; `diff`: no false alarm for a lagging copy, nothing missed that lies before the window, exactness without skew |
| `LockSeqLoss` | 2 clients, 1 group, row of 3, messages lost, a second try of each request | mutual exclusion, lock held, row clean at unlock, refinement of `GroupLocks` |
| `LockSeqHints` | 2 clients, 2 replicas, row of 2, messages lost | the one throw that is ever taken is on another client's lock met by the client's own swap, whatever the hints; no lock outlives the round it was taken for |
| `LockSeqRounds` | 2 clients, row of 2, two rounds, no loss | late copies of a round never break `check` in the next |
| `LockSeqLive` | 2 clients, of which one times out, 2 replicas, row of 2, no loss, fairness | an attempt at a lock ends; a holder leaves the write, clear and unlock loops |
| `LockCheck` | 2 groups, 2 clients' values and a third that looks like one, row of 4; a faulty service keeps up to 4 keys | the abstract protocol stays within the grammar; `check` accepts all of its comment's grammar, and beyond it only other locks (`CheckIsLooseGrammar`) |
| `Netsim` | the delays of the code (5, 1, 1 ms), 2 senders of 2 messages, 2 receivers, loss, fairness | a queue per sender, no lost wake-up, arrival in order of sending, a look at the queue within 1 ms, a call of `receive_from` returns while messages come |
| `NetSetup` | 0 to 3 replicas, 0 to 2 clients, 2 loss rates, 1 message per port; any use: 2 addresses | no null pointer, index r leads to replica r, loss as configured on every channel; every request finds its reply channel, replies come home, channels never change |
| `Tracker` | 2 connections, 2 torrents, 3 peer ids, 6 queries; the parser: every query of up to 3 of 17 parameters, every address of up to 5 parts | a peer is known as it last announced itself, refused requests change nothing, answers are the right peers; last good value counts, one bad value refuses, addresses read and shown are the same |
| `WaitsForOthers`, `UnlockAnswers`, `GetMissing` | smallest that show it | comments that the code contradicts, see 6 |

Why the bounds are enough. Two clients meet in a group in every way the protocol distinguishes:
a third one only repeats what the second does, because every test in the protocol is "mine" or
"not mine". A row of 3 has a first, a middle and a last cell, so that an old run can be longer,
shorter or as long as the new one. `MaxTries` is the number of *time-outs* of a request; a
redirection adds a try without a bound of its own, and `tries = 0` against `tries > 0` is all the
code tells apart, besides every third try. `MaxSerial` bounds where a round may *begin*; rounds
that began are always finished. `MaxRecentRemoves` is 0 in the `LockSeq` runs: nothing there
reads the log. `Client` is symmetric where no liveness is checked.

The clear phase needs a row of 2: of a row of 1 the holder has written all. Liveness with such a row, two
clients and two replicas is out of TLC's reach if both clients may time out (some 2 million states, each a
node of the temporal check), so in `LockSeqLive` only one may (`Slow`). It repeats requests in each of the
four loops, to the follower and to the primary, and gets the late answers; the other client, whose rounds are
checked as well, contends for the lock with it and meets its late copies.

One group is enough for `LockSeq` in TLC: with one round per client two groups never meet in a
database, which is keyed by group; what is proved holds for any set of groups. A log of 1 in the
comparison is the smallest that can evict, and with 6 versions a key can be written,
removed, written again and removed again while the other key pushes its removal out of the log.
In `Netsim` the delays are the real ones, since orders depend on them: both messages of each sender
are in the air at once, and a second receiver is enough to steal a message from one that
was woken for it. The tracker's numbers have small ranges, an octet has the values 0 and 1, and the
queries are one for each way through the parser and the state; the parser alone is checked
on all short queries, where a value may precede, follow or correct another of its name.

Deadlock is checked wherever the system has no natural end; `LockSeq` has a disjunct `Stopped`
that names the only states in which nothing may be left to do. In `PancyDB` and `GetMissing` the
bound on versions ends every behaviour, so their configurations say `CHECK_DEADLOCK FALSE`. In
`NetSetup` the action `Silent` names the two ways a test may stand still: it has thrown, or it has no
clients.

Fairness. Weak fairness of `Send`, of the receiving actions together, of `Execute` and of
`Redirect`: a suspended coroutine whose event has fired is resumed by the driver loop, and a
message that was not lost arrives after a constant delay. `Timeout` is not fair: a timer of
about 3 s races an answer that takes about 14 ms, so the code owes an answer, not a time-out.
`StartRound` is not fair either; nothing depends on it. (`FairSpec` of `LockSeq`, and `SlowSpec` of the run, which
bounds whose timers fire.) Liveness is stated for lossless channels:
with loss and no bound on it a request may be lost for ever. In `Netsim` the timers fire and
resumed coroutines run (weak fairness of `Deliver` and of each receiver's `Step`), and time goes on
(strong fairness of `Tick`: only calls and cancellations without end within one millisecond could
stop the clock, and the timers of `attempt` are seconds long). Nobody is obliged to send, to call or to
cancel, and `Take` may always lose to another receiver, which `ReceiverServed` allows for.

## 4. Proofs

TLAPS proves, for all values of the constants under the assumptions in the modules:

* `PancyOpsProofs`: `Trim`, `Store`, `Erase` and `Process` stay within the types and change a
  database only by `Store` or `Erase` (`ProcessCases`).
* `PancyDBProofs`: `TypeCorrect`, `VersionsAreUnique`, `LogIsSound`, `VersionsAreFresh`. The
  inductive invariant `IInv` joins the types, "an absent key has the one absent entry",
  `VersionsUnique` and `LogSound`: uniqueness after a `Store` needs that all versions are below
  `next`, and the order of the log needs that the removed entry was itself older than `next`.
  `AnswersAreCurrent` and `RetriesAreRejected` need in addition that the last response describes the
  entry of its key as the call left it.
* `PancyDiffProofs`, for every sequence of modifications and copies: `LaggardsAreNotReported`
  (`NoFalseAlarm`), `NoSkewComparesContents`, `ReportsAreDifferences`, `OldDivergenceIsReported`. The
  first two rest on `DInv`. Of each database it says that a live entry carries the last change of its
  key, that the log is newest first and each removal in it undid an earlier modification, and
  (`GoneOK`) that a key that is gone has its last removal in the log unless the log is full of later
  ones. Of a pair in which one lags (`EarlierState`) it says that what `this` has not changed since has
  the entry of `other`, and that a removal logged since, of something older, remembers what `other` still
  has. A copy of a key that differs then lies in the window, or its removal is in the log, or the log
  has overflowed, and in each of the three cases `diff` is silent. The two theorems assume
  `MaxRecentRemoves > 0`: with a log of no entries `pancydb.cc:113` would read `back()` of an empty
  deque (the code's constant is 100). `PancyDBProofs` carries all four over to `MCPancyDB`, whose
  comparison has one version and one log entry fewer (`Compared...`, under `SmallerBounds`).
* `GroupLocksProofs`: `AlwaysWellFormed`: every row the abstract protocol reaches is within the
  grammar. The invariant is its own strengthening; the work is in `WriteShape`, which says how
  the borders between the holder's values, the gap and the old run move.
  `CheckDecidesLooseGrammar` (`CheckIsLooseGrammar`): whatever database an honest or a faulty service has,
  `check` accepts it if it is of the grammar of its comment, and exactly if it is of that grammar up to its
  locks (`Tolerated`), for any row length and any finite number of groups, whatever passes for a lock. `Seen` says what the scan knows after the cells below `m`: they are
  legal so far, with the state to show for it, and one clause for each of the three lock states
  (`SeenUnlocked`, `SeenHolder`, `SeenRest`). `SeenCell` is its step, `FaultIsIllegal` the reverse: where the
  scan stops no continuation is legal, and the hard part of that is that the borders of *any* parse
  of the row must be those that the scan has found. `AfterGroups` carries it from group to
  group. The loops are recursive functions, which exist (`LoopExists`) and are followed by `CountingUp`,
  an induction over a set that rests on `WFMin`, since no induction theorem with an operator
  parameter can be used.
* `LockSeqProofs`, of the locks: `TypeCorrect`, `LocksAreHeld` (`HolderHasLock`) and `MutuallyExclusive`
  (`MutualExclusion`), with and without loss. None of the three is inductive. An index `n` stays
  within the row only because the write phase means `n < nvalues` and the clear phase
  `n < MaxLen` (`InLoop`). Mutual exclusion follows from `HolderHasLock`, since two holders of one
  lock key would have to own one value; and a holder keeps its lock only because of what is said
  of every message in flight:
  - `RequestOK`: a request of its client's serial is the client's current request, no put is about
    a lock key, every swap expects the empty string, and a removal of a lock names a version that
    is spent (`< next`); if the lock still has that version, the removal is the unlock its client
    is busy with.
  - `AnswerOK`: an answer of the current serial is still right: after a granting answer the lock
    is there at the version in the answer, after any answer to an unlock the version is gone.
  - `ClientOK`: a client owns its value, its lock version is spent, and if the lock has the version
    that a client unlocks then it has that client's value.

  `OwnedLockStays` (a lock survives every request except its owner's own unlock) and
  `SpentVersion` (a version that is spent never comes back) carry these through `Execute`. The
  invariant says nothing of the order of messages: exclusion needs no first-in-first-out
  channels.
* `LockSeqProofs`, of the rows: `LocksHaveOwners`, `RowAtUnlock` (`SequenceAtUnlock`), `ThrowsAreContention`
  (`ThrowsOnlyOnContention`), `LockSeqImplementsGroupLocks` and, with `AlwaysWellFormed`,
  `DatabaseAlwaysWellFormed`: whatever the primary's database is at the end, each group is within the
  grammar. These do need the order of the channels, and the invariant `RInv`, which is put on top of
  `IInv`, says what it buys: the serials in a client's queue do not decrease (`InOrder`); a request older
  than the current one has nothing left to change, because the row already shows it
  (`QueuedOK`); a request that was sent once is at most once in the queue (`FirstTry`); the answer to a
  request has no older request behind it (`ReplyOK`); and a lock is always some client's (`GroupOK`).
  Every step then maps to a step of `GroupLocks` or to none: `Execute` of a swap, a put, a clear or an
  unlock that takes effect to the action of that name, everything else to a stutter.
  That only contention throws a client out needs
  one thing more (`SInv`): a refused swap names the value that was in its way, and what is in a lock's way is
  some client's. A client that finds its own value there goes on, so whatever else it finds is another's; and
  none of the other throws is reached, since past the lock an answer to a first try is `ok`, or `not_found` to
  a removal of what is not there.
  `NeverBlamed` (`CheckAccepts`) puts everything together: the database is within the grammar of
  `GroupLocks`, hence within that of check's comment (`WellFormedIsLegal`), all of which `check` accepts
  (`CheckDecides`); its locks are clients' values, so this is shown for a `check` that lets nothing else pass for
  one. `CInv` adds what check's treatment of empty values needs: a key that exists has a value, because every
  put and swap on its way stores one.
* `NetsimProofs`: `TypeCorrect`, `NobodySleeps` (`NoLostWakeup`), `QueuedByAge` (`ArrivalOrder`),
  `ReceiversArePrompt` (`Prompt`), `NetsimImplementsLink`, for all delays with `SendDelay > 0`. The
  order of a queue rests on the clock: of two messages of one sender on their way the older is
  nearer to its delivery (`FlyingOK`), and a message is put behind those that are as old as the link is
  long, or older (`QueueOK`, `ArrivedOK`). Promptness rests on `ReceiverOK`: a receiver that was
  woken, or that waits for its delay, has seen no message older than that.
* `NetSetupProofs`: of the class, in any use, `ReplyChannelAlwaysFound`, `RepliesAlwaysComeHome`,
  `ReplyChannelsAreStable`, from the shape of a channel pair (`NetOK`: the pair kept under a client's
  address at a server's port leads from that client's response port and back to it) and of what came
  through one (`QueuesOK`); of the driver, `EveryoneIsWired` (`WiredByIndex`) and `LossIsAsConfigured`, from an
  invariant of how far it has come (`SetupOK`: which ports exist, which vectors are complete, that
  the default loss is set before the first channel is made).
* `TrackerProofs`, of the parser: `ReadsWhatCounts` (`ReadsLastGoodValue`) and `AddressesComeBack`
  (`AddressRoundTrip`). The loop is followed in closed form: `After(p, n)` is what the first `n` parameters
  say, and one more parameter changes it exactly as a round of the loop does (`ParseParamStep`). Of the
  tracker: `TypeCorrect`, `KnowsWhatWasSaid` (`RegisteredAsAnnounced`), `NothingForgotten`
  (`TorrentsKeptForEver`), `ListsTheFirst` (`AnswerIsPrefix`) and `OnlyAcceptedChanges`: a change is an accepted
  announce, touches the announcing peer's own record alone and is answered with others' records as they are. `AcceptedSays` joins the two halves: the request of a query that is
  accepted has in each field what the query gives for it, of the field's type. So the peer that
  `apply_announce` files is the one announced (`RegisteredStep`) and every other peer is as it was
  (`Applied`). The invariant `Inv` adds that every connection has an address, which becomes the peer's if the
  query gives none. For the list of peers, `Listed` is the closed form of the loop; that the loop meets every
  peer (`InOrderIs`) is a counting argument, since the ranks are an injection of a finite set into as many
  numbers (`EveryRank`).

Assumed are only the named ASSUMEs of the modules: ranges of the constants, that `EmptyValue`
is not a client's value, that the leader is a replica and that there is a group; for `check` that the
groups are finitely many, that what clients write passes for a lock and the empty string does not, and that a
missing key is told from any content; in `NetSetup` that the
driver's addresses are addresses; in the tracker that zero is an identifier and in the range of each number
(it is what `bt_tracker_announce_request{}` holds), that the default for `numwant` is an integer, that `Junk` is no number, that a connection's
address is an address, a query a sequence, and that the peer ids are finitely many and ordered as integers
are.

So every safety property of the runs is proved, the invariants and the steps. Only model-checked is liveness
(`LockResolves`, `RoundCompletes`, `ReceiverServed`), which is out of reach of the prover, since it needs
ENABLED; and, of the runs that expect a violation, that the code does contradict its comments.

## 5. Not modelled

All components with behaviour of their own are modelled, and their safety is proved. The hazards without a
property are the ones `PROJECT.json` gives a note for.

Left out for good: printing and formatting, argument parsing, URL and bencode syntax, random
distributions (every choice is nondeterministic), the statistics counters, the tracker's client
coroutine (it connects and sleeps), the messages on the inter-replica network (it is set up, see
`NetSetup`, and never used: there is no consensus code at this commit).

## 6. Findings

* `lockseq_model.cc:88`: a client that meets the lock of *another* client throws `no_match`
  and is gone; the comment and the code after it mean the opposite test (`WaitsForOthers`).
  As a consequence clients drop out one by one, which is why `LockResolves` has "or has thrown" and `LockHasOwner`
  admits a lock taken for a client that is gone.
* `lockseq_model.cc:182`: a repeated unlock is usually answered `not_found`, which the comment does
  not list; the code accepts it (`UnlockAnswers`).
* `pancydb.cc:9`: the `not_found` branch of `get` cannot be reached (`GetMissing`).

One more difference is no finding of a run of its own, but what `CheckIsLooseGrammar` states: `check` takes any
value of four or more characters that starts with a `c` for a lock (`lockseq_model.cc:285-286`), and passes
over an empty one (282-284), where its comment has only `c{N} {HEXDIGITS}` (236-237). A service that damages a
lock's value may go unnoticed; a correct one is never blamed for it, since the clients' values are of that form.
